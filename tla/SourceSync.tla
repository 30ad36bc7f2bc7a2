---------------------------- MODULE SourceSync ----------------------------
(***************************************************************************)
(* Synchronisation of one connected source (Confluence, Bitrix24, ...):    *)
(* the connector row and its credentials, the grants by which employees    *)
(* connect their own accounts, the connector_sync_jobs queue, the          *)
(* SyncWorker, and ConnectorSyncService, which walks the source's listing, *)
(* stores what is new, and removes what the source no longer lists.        *)
(*                                                                         *)
(* In the mode "organization" one listing, read with the connector's own   *)
(* credentials, covers the source; in "per_user" every active grant is     *)
(* walked in turn, and what it lists is also what its owner may see.       *)
(*                                                                         *)
(* One action is one database transaction, or one request to the source.   *)
(* Between two of them the source changes, administrators and employees    *)
(* edit, the worker dies.  Texts are version numbers.                      *)
(***************************************************************************)
EXTENDS Integers

CONSTANTS
    Docs,         \* documents of the source, by external_id
    Users,        \* employees who may connect their accounts
    Org,          \* the one lister of the mode "organization"
    NoOne,        \* the lister when no listing is open
    NoDoc,        \* the document when none is being fetched
    MaxAttempts,  \* SYNC_MAX_ATTEMPTS
    MaxChanges,   \* bound: changes in the source
    MaxEvents     \* bound: acts of people and deaths of the worker

ASSUME NamesAssumption ==
    Org \notin Users /\ NoOne \notin Users \cup {Org} /\ NoDoc \notin Docs
ASSUME BoundsAssumption ==
    MaxAttempts \in Nat \ {0} /\ MaxChanges \in Nat /\ MaxEvents \in Nat

VARIABLES
    mode,       \* connectors.mode
    listing,    \* source: the documents each lister is shown
    version,    \* source: the version of each document
    connector,  \* connectors.status
    cred,       \* connectors.credentials: 0 none, n the n-th set
    patch,      \* the status a PATCH is about to write
    grant,      \* connector_user_grants.status
    content,    \* materials.content: the version it holds, 0 no material
    named,      \* materials.external_version
    access,     \* material_access: who sees each document
    job,        \* the connector's active job
    attempts,   \* its attempts
    step,       \* where the worker is
    runCred,    \* the connector's credentials the run has read
    todo,       \* listers still to walk
    lister,     \* whose listing is open
    owed,       \* what it cannot leave out: in the listing ever since
    yielded,    \* what it has yielded
    walked,     \* ... and the run has recorded for this lister
    seen,       \* _Run.seen: what the run has stored or met
    complete,   \* _Run.complete
    fetching,   \* the document whose content is being downloaded
    told,       \* the version the listing gave for it
    outcome,    \* SyncOutcome, for the worker to settle
    steady,     \* history: documents unchanged in the source in this run
    walkers,    \* history: listers of this run, but for refused and disconnected ones
    failed,     \* documents the run could not store (stats.failed)
    renewed,    \* grants whose token is not the one the run has read
    late,       \* history: disconnected while a run had their token
    changes,    \* history: changes in the source so far
    events      \* history: acts of people and deaths of the worker so far

sourceVars == <<listing, version, changes>>
configVars == <<mode, connector, cred, patch, grant, late, events>>
materialVars == <<content, named, access>>
jobVars == <<job, attempts>>
walkVars == <<lister, owed, yielded, walked>>
fetchVars == <<fetching, told>>
runVars == <<runCred, todo, seen, complete, outcome, walkers, failed>>
vars == <<sourceVars, configVars, materialVars, jobVars, step, walkVars, fetchVars,
          runVars, steady, renewed>>

Listers == Users \cup {Org}
Versions == 0..(MaxChanges + 1)
Creds == 0..MaxEvents
Outcomes == {"none", "succeeded", "partial", "retryable", "failed"}
Steps == {"idle", "claimed", "next", "walking", "fetching", "stopped", "ended"}

TypeOK ==
    /\ mode \in {"organization", "per_user"}
    /\ listing \in [Listers -> SUBSET Docs]
    /\ version \in [Docs -> Versions]
    /\ connector \in {"active", "paused", "error", "deleted"}
    /\ patch \in {"none", "active", "paused"}
    /\ cred \in Creds /\ runCred \in Creds
    /\ grant \in [Users -> {"none", "active", "expired"}]
    /\ content \in [Docs -> Versions] /\ named \in [Docs -> Versions]
    /\ access \in [Docs -> SUBSET Users]
    /\ job \in {"none", "queued", "delayed", "running"}
    /\ attempts \in 0..(MaxAttempts + MaxEvents)
    /\ step \in Steps
    /\ todo \subseteq Listers /\ walkers \subseteq Listers
    /\ lister \in Listers \cup {NoOne}
    /\ owed \subseteq Docs /\ yielded \subseteq Docs /\ walked \subseteq Docs
    /\ seen \subseteq Docs /\ steady \subseteq Docs /\ failed \subseteq Docs
    /\ complete \in BOOLEAN
    /\ fetching \in Docs \cup {NoDoc} /\ told \in Versions
    /\ outcome \in Outcomes
    /\ renewed \subseteq Users /\ late \subseteq Users
    /\ changes \in 0..MaxChanges /\ events \in 0..MaxEvents

Stored(d) == content[d] > 0
Running == step # "idle"
ActiveGrants == {u \in Users : grant[u] = "active"}
HeldByRun == todo \cup {lister}

\* Whose listings make the source up.
Current == IF mode = "organization" THEN {Org} ELSE Users

\* A run is over: its variables are gone.
Forget ==
    /\ runCred' = 0 /\ todo' = {} /\ lister' = NoOne
    /\ owed' = {} /\ yielded' = {} /\ walked' = {}
    /\ seen' = {} /\ complete' = TRUE
    /\ fetching' = NoDoc /\ told' = 0
    /\ steady' = {} /\ walkers' = {} /\ failed' = {} /\ renewed' = {}

\* A connector whose employees have connected their accounts.
Init ==
    /\ mode \in {"organization", "per_user"}
    /\ listing = [l \in Listers |-> IF l \in Current THEN Docs ELSE {}]
    /\ version = [d \in Docs |-> 1]
    /\ connector = "active" /\ patch = "none"
    /\ cred = 0
    /\ grant = [u \in Users |-> IF mode = "per_user" THEN "active" ELSE "none"]
    /\ content = [d \in Docs |-> 0]
    /\ named = [d \in Docs |-> 0]
    /\ access = [d \in Docs |-> {}]
    /\ job = "none" /\ attempts = 0
    /\ step = "idle"
    /\ runCred = 0 /\ todo = {} /\ lister = NoOne
    /\ owed = {} /\ yielded = {} /\ walked = {}
    /\ seen = {} /\ complete = TRUE
    /\ fetching = NoDoc /\ told = 0
    /\ outcome = "none" /\ steady = {} /\ walkers = {}
    /\ failed = {} /\ renewed = {}
    /\ late = {}
    /\ changes = 0 /\ events = 0

----------------------------------------------------------------------------
(* The source: documents appear, change, and disappear at any time.        *)

Revise(d) ==
    /\ changes < MaxChanges
    /\ changes' = changes + 1
    /\ version' = [version EXCEPT ![d] = @ + 1]
    /\ steady' = steady \ {d}
    /\ UNCHANGED <<listing, configVars, materialVars, jobVars, step, walkVars,
                   fetchVars, runVars, renewed>>

\* A document is shown to a lister, or no longer.
Relist(d, l) ==
    /\ changes < MaxChanges
    /\ changes' = changes + 1
    /\ l \in Current
    /\ listing' = [listing EXCEPT ![l] = IF d \in @ THEN @ \ {d} ELSE @ \cup {d}]
    /\ owed' = IF l = lister THEN owed \ {d} ELSE owed
    /\ steady' = steady \ {d}
    /\ UNCHANGED <<version, configVars, materialVars, jobVars, step, lister,
                   yielded, walked, fetchVars, runVars, renewed>>

----------------------------------------------------------------------------
(* Administrators and employees: ConnectorService and the scheduler.       *)

Edit == connector # "deleted" /\ events < MaxEvents /\ events' = events + 1

\* INSERT ... ON CONFLICT DO NOTHING: at most one active job of a connector.
Enqueue ==
    /\ job' = IF job = "none" THEN "queued" ELSE job
    /\ UNCHANGED attempts

\* set_credentials: new credentials lift the error and queue a run.  A run
\* that has read the old ones goes on with them, and a PATCH that has read
\* the old status goes on with that.
SetCredentials ==
    /\ Edit
    /\ cred' = events + 1
    /\ connector' = IF connector = "error" THEN "active" ELSE connector
    /\ Enqueue
    /\ UNCHANGED <<sourceVars, mode, patch, grant, late, materialVars, step,
                   walkVars, fetchVars, runVars, steady, renewed>>

\* PATCH of the status: read without a lock ...
ReadStatus(new) ==
    /\ Edit
    /\ patch = "none"
    /\ connector \notin {new, "error"}
    /\ patch' = new
    /\ UNCHANGED <<sourceVars, mode, connector, cred, grant, late,
                   materialVars, jobVars, step, walkVars, fetchVars, runVars, steady,
                   renewed>>

\* ... and written whatever it is by then.
WriteStatus ==
    /\ patch # "none"
    /\ patch' = "none"
    /\ connector' = IF connector = "deleted" THEN connector ELSE patch
    /\ UNCHANGED <<sourceVars, mode, cred, grant, late, events, materialVars,
                   jobVars, step, walkVars, fetchVars, runVars, steady, renewed>>

\* "Synchronise now", or the interval is over (list_due passes over a
\* connector whose credentials were never set).
RequestSync ==
    /\ connector = "active"
    /\ job = "none"
    /\ Enqueue
    /\ UNCHANGED <<sourceVars, configVars, materialVars, step, walkVars, fetchVars,
                   runVars, steady, renewed>>

\* set_my_credentials, oauth_callback: a grant, or a new token for it.
Connect(u) ==
    /\ Edit
    /\ mode = "per_user"
    /\ grant' = [grant EXCEPT ![u] = "active"]
    /\ late' = IF Running THEN late ELSE late \ {u}
    /\ renewed' = IF u \in HeldByRun THEN renewed \cup {u} ELSE renewed
    /\ IF connector = "active" THEN Enqueue ELSE UNCHANGED jobVars
    /\ UNCHANGED <<sourceVars, mode, connector, cred, patch,
                   materialVars, step, walkVars, fetchVars, runVars, steady>>

\* check: the API has exchanged the token of a grant the run holds.
RenewToken(u) ==
    /\ Edit
    /\ grant[u] # "none"
    /\ u \in HeldByRun \ renewed
    /\ renewed' = renewed \cup {u}
    /\ UNCHANGED <<sourceVars, mode, connector, cred, patch, grant, late,
                   materialVars, jobVars, step, walkVars, fetchVars, runVars, steady>>

\* Mutant of Disconnect: the rights are left to the next walk.
DisconnectGrantOnly(u) ==
    /\ Edit
    /\ grant[u] # "none"
    /\ grant' = [grant EXCEPT ![u] = "none"]
    /\ late' = IF u \in HeldByRun THEN late \cup {u} ELSE late
    /\ walkers' = walkers \ {u}
    /\ UNCHANGED <<sourceVars, mode, connector, cred, patch, materialVars,
                   jobVars, step, walkVars, fetchVars, runCred, todo, seen, complete, outcome, failed, steady, renewed>>

\* revoke_my_credentials: the grant, and every right derived from it.
Disconnect(u) ==
    /\ Edit
    /\ grant[u] # "none"
    /\ grant' = [grant EXCEPT ![u] = "none"]
    /\ access' = [d \in Docs |-> access[d] \ {u}]
    /\ late' = IF u \in HeldByRun THEN late \cup {u} ELSE late
    /\ walkers' = walkers \ {u}
    /\ UNCHANGED <<sourceVars, mode, connector, cred, patch, content,
                   named, jobVars, step, walkVars, fetchVars, runCred, todo, seen, complete, outcome, failed, steady, renewed>>

\* Documents, grants and jobs go with the connector (ON DELETE CASCADE).
Delete ==
    /\ Edit
    /\ connector' = "deleted"
    /\ grant' = [u \in Users |-> "none"]
    /\ content' = [d \in Docs |-> 0]
    /\ named' = [d \in Docs |-> 0]
    /\ access' = [d \in Docs |-> {}]
    /\ job' = "none" /\ attempts' = 0
    /\ UNCHANGED <<sourceVars, mode, cred, patch, late, step, walkVars,
                   fetchVars, runVars, steady, renewed>>

----------------------------------------------------------------------------
(* The worker: the queue.                                                  *)

Others == <<sourceVars, mode, patch, events>>

\* run_after has come.
BackoffEnds ==
    /\ job = "delayed"
    /\ job' = "queued"
    /\ UNCHANGED <<Others, connector, cred, grant, late, materialVars,
                   attempts, step, walkVars, fetchVars, runVars, steady, renewed>>

\* A queued job, or a running one whose worker died (locked_at is older than
\* SYNC_STALE_AFTER, which no run reaches: max_run_minutes is at most 180).
Claim ==
    /\ ~Running
    /\ job \in {"queued", "running"}
    /\ job' = "running"
    /\ attempts' = attempts + 1
    /\ step' = "claimed"
    /\ UNCHANGED <<Others, connector, cred, grant, late, materialVars,
                   walkVars, fetchVars, runVars, steady, renewed>>

Crash ==
    /\ Running
    /\ events < MaxEvents
    /\ events' = events + 1
    /\ step' = "idle"
    /\ outcome' = "none"
    /\ Forget
    /\ UNCHANGED <<sourceVars, mode, connector, cred, patch, grant, late,
                   materialVars, jobVars>>

\* _settle: done, another attempt, or failed.  Nothing is left to settle
\* once the connector was deleted.
Settle ==
    /\ step = "ended" \/ (Running /\ connector = "deleted")
    /\ IF job = "running" /\ outcome = "retryable" /\ attempts < MaxAttempts
       THEN job' = "delayed" /\ UNCHANGED attempts
       ELSE job' = "none" /\ attempts' = 0
    /\ step' = "idle"
    /\ outcome' = "none"
    /\ Forget
    /\ UNCHANGED <<sourceVars, configVars, materialVars>>

----------------------------------------------------------------------------
(* The run: ConnectorSyncService.                                          *)

Idle == <<sourceVars, mode, patch, events, jobVars>>

Close ==
    /\ lister' = NoOne
    /\ owed' = {} /\ yielded' = {} /\ walked' = {}
    /\ fetching' = NoDoc /\ told' = 0

\* A paused or stopped connector: the run returns None.
Skip ==
    /\ step = "claimed"
    /\ connector \in {"paused", "error"}
    /\ step' = "ended"
    /\ UNCHANGED <<Idle, connector, cred, grant, late, materialVars,
                   walkVars, fetchVars, runVars, steady, renewed>>

\* The run reads the connector, its credentials and the active grants.
BeginRun ==
    /\ step = "claimed"
    /\ connector = "active"
    /\ mode = "organization" => cred # 0
    /\ step' = "next"
    /\ runCred' = cred
    /\ todo' = IF mode = "organization" THEN {Org} ELSE ActiveGrants
    /\ walkers' = todo'
    /\ steady' = Docs
    /\ late' = {u \in late : grant[u] = "none"}
    /\ UNCHANGED <<Idle, connector, cred, grant, materialVars, walkVars,
                   fetchVars, seen, complete, outcome, failed, renewed>>

\* _stop_connector: whatever the connector's status and credentials are now.
Stop ==
    /\ connector' = "error"
    /\ outcome' = "failed"
    /\ UNCHANGED <<Idle, cred, grant, late, materialVars>>

\* credentials_missing.
StopWithoutCredentials ==
    /\ step = "claimed"
    /\ connector = "active"
    /\ mode = "organization" /\ cred = 0
    /\ step' = "ended"
    /\ Stop
    /\ Forget

\* The adapter is built, check() passed, the listing begins.
OpenListing(l) ==
    /\ step = "next"
    /\ complete
    /\ l \in todo
    /\ todo' = todo \ {l}
    /\ lister' = l
    /\ owed' = listing[l]
    /\ step' = "walking"
    /\ UNCHANGED <<Idle, connector, cred, grant, late, materialVars,
                   yielded, walked, fetchVars, runCred, seen, complete, outcome, walkers,
                   failed, steady, renewed>>

\* The listing yields a document.
Yields(d) ==
    /\ step = "walking"
    /\ d \in listing[lister] \ yielded
    /\ yielded' = yielded \cup {d}

\* The document is stored in the version the listing names.
UpToDate(d) == Stored(d) /\ named[d] = version[d]

\* _apply_access in the mode per_user; in the mode organization the list
\* comes with the document and replaces the old one.
ApplyAccess(d) ==
    access' = IF lister \in Users THEN [access EXCEPT ![d] = @ \cup {lister}] ELSE access

Recorded(d) ==
    /\ seen' = seen \cup {d}
    /\ walked' = walked \cup {d}
    /\ ApplyAccess(d)

\* Met in another listing of this run, or stored before in this version.
Meet(d) ==
    /\ Yields(d)
    /\ d \in seen \/ UpToDate(d)
    /\ Recorded(d)
    /\ UNCHANGED <<Idle, connector, cred, grant, late, content, named,
                   step, lister, owed, fetchVars, runCred, todo, complete,
                   outcome, walkers, failed, steady, renewed>>

BeginFetch(d) ==
    /\ Yields(d)
    /\ d \notin seen
    /\ ~UpToDate(d)
    /\ fetching' = d /\ told' = version[d]
    /\ step' = "fetching"
    /\ UNCHANGED <<Idle, connector, cred, grant, late, materialVars,
                   lister, owed, walked, runVars, steady, renewed>>

\* Mutant of StoreDocument: the version is asked for again afterwards.
StoreNewerVersion ==
    /\ step = "fetching"
    /\ fetching \in listing[lister]
    /\ content' = [content EXCEPT ![fetching] = told]
    /\ named' = [named EXCEPT ![fetching] = version[fetching]]
    /\ Recorded(fetching)
    /\ fetching' = NoDoc /\ told' = 0
    /\ step' = "walking"
    /\ UNCHANGED <<Idle, connector, cred, grant, late, lister,
                   owed, yielded, runCred, todo, complete, outcome, walkers, failed,
                   steady, renewed>>

\* store_document: the text is as new as the download, its version the one
\* the listing named before.
StoreDocument ==
    /\ step = "fetching"
    /\ fetching \in listing[lister]
    /\ content' = [content EXCEPT ![fetching] = version[fetching]]
    /\ named' = [named EXCEPT ![fetching] = told]
    /\ Recorded(fetching)
    /\ fetching' = NoDoc /\ told' = 0
    /\ step' = "walking"
    /\ UNCHANGED <<Idle, connector, cred, grant, late, lister,
                   owed, yielded, runCred, todo, complete, outcome, walkers, failed,
                   steady, renewed>>

\* The download or the extraction of one document fails: the run goes on.
DocumentFails ==
    /\ step = "fetching"
    /\ failed' = failed \cup {fetching}
    /\ fetching' = NoDoc /\ told' = 0
    /\ step' = "walking"
    /\ UNCHANGED <<Idle, connector, cred, grant, late, materialVars,
                   walkVars, runCred, todo, seen, complete, outcome, walkers, steady,
                   renewed>>

\* Tokens renewed on the way are saved over whatever is there now.
PersistRefresh ==
    \/ UNCHANGED cred
    \/ lister = Org /\ cred' = runCred

\* Mutant of OutOfTime: the listing is left, and taken for the whole.
OutOfTimeUnmarked ==
    /\ step = "walking"
    /\ listing[lister] \ yielded # {}
    /\ todo' = {}
    /\ PersistRefresh
    /\ Close
    /\ step' = "next"
    /\ UNCHANGED <<Idle, connector, grant, late, materialVars,
                   runCred, seen, complete, outcome, walkers, failed, steady, renewed>>

\* The budget of documents or the deadline is met at the next document; the
\* tokens are saved all the same.
OutOfTime ==
    /\ step = "walking"
    /\ listing[lister] \ yielded # {}
    /\ complete' = FALSE
    /\ todo' = {}
    /\ PersistRefresh
    /\ Close
    /\ step' = "next"
    /\ UNCHANGED <<Idle, connector, grant, late, materialVars,
                   runCred, seen, outcome, walkers, failed, steady, renewed>>

\* Mutant of EndListing: the rights are only ever added.
EndListingKeepsAccess ==
    /\ step = "walking"
    /\ owed \subseteq yielded
    /\ PersistRefresh
    /\ Close
    /\ step' = "next"
    /\ UNCHANGED <<Idle, connector, grant, late, materialVars, runCred, todo,
                   seen, complete, outcome, walkers, failed, steady, renewed>>

\* The listing is over: revoke_access_except takes from its owner what it
\* did not name.
EndListing ==
    /\ step = "walking"
    /\ owed \subseteq yielded
    /\ access' = [d \in Docs |-> IF d \in walked THEN access[d] ELSE access[d] \ {lister}]
    /\ PersistRefresh
    /\ Close
    /\ step' = "next"
    /\ UNCHANGED <<Idle, connector, grant, late, content, named, runCred, todo,
                   seen, complete, outcome, walkers, failed, steady, renewed>>

\* The source refused the connector's credentials or settings; the tokens
\* are saved afterwards (finally), when _stop_connector has committed.
Refuse ==
    /\ step \in {"walking", "fetching"}
    /\ step' = "stopped"
    /\ Stop
    /\ UNCHANGED <<walkVars, fetchVars, runCred, todo, seen, complete, walkers, failed,
                   steady, renewed>>

SaveTokensOfStopped ==
    /\ step = "stopped"
    /\ PersistRefresh
    /\ Forget
    /\ step' = "ended"
    /\ UNCHANGED <<Idle, connector, grant, late, materialVars, outcome>>

\* The source refused an employee's token: the grant waits for a new one.
\* A grant deleted in the meantime is another row now.
ExpireGrant ==
    /\ step \in {"walking", "fetching"}
    /\ lister \in Users
    /\ grant' = IF lister \in late THEN grant ELSE [grant EXCEPT ![lister] = "expired"]
    /\ walkers' = walkers \ {lister}
    /\ Close
    /\ step' = "next"
    /\ UNCHANGED <<Idle, connector, cred, late, materialVars, runVars,
                   steady, renewed>>

\* invalid_grant, but the API has renewed the token meanwhile: next time.
RenewedElsewhere ==
    /\ step \in {"walking", "fetching"}
    /\ lister \in renewed \ late
    /\ walkers' = walkers \ {lister}
    /\ Close
    /\ step' = "next"
    /\ UNCHANGED <<Idle, connector, cred, grant, late, materialVars,
                   runCred, todo,
                   seen, complete, outcome, failed, steady, renewed>>

\* The source does not answer; a timeout is worth another attempt.
SourceFails ==
    /\ step \in {"walking", "fetching"}
    /\ outcome' \in {"retryable", "failed"}
    /\ PersistRefresh
    /\ Forget
    /\ step' = "ended"
    /\ UNCHANGED <<Idle, connector, grant, late, materialVars>>

\* delete_by_connector_except, after a complete walk only.
EndRun ==
    /\ step = "next"
    /\ todo = {}
    /\ LET gone == IF complete THEN Docs \ seen ELSE {}
       IN  /\ content' = [d \in Docs |-> IF d \in gone THEN 0 ELSE content[d]]
           /\ named' = [d \in Docs |-> IF d \in gone THEN 0 ELSE named[d]]
           /\ access' = [d \in Docs |-> IF d \in gone THEN {} ELSE access[d]]
    /\ outcome' = IF complete /\ failed = {} THEN "succeeded" ELSE "partial"
    /\ Forget
    /\ step' = "ended"
    /\ UNCHANGED <<Idle, connector, cred, grant, late>>

----------------------------------------------------------------------------
Source == \E d \in Docs : Revise(d) \/ \E l \in Listers : Relist(d, l)

People ==
    \/ SetCredentials \/ WriteStatus \/ RequestSync \/ Delete
    \/ \E new \in {"active", "paused"} : ReadStatus(new)
    \/ \E u \in Users : Connect(u) \/ RenewToken(u) \/ Disconnect(u)

\* A run whose connector is deleted can write nothing any more.
Run ==
    /\ connector # "deleted"
    /\ \/ Skip \/ BeginRun \/ StopWithoutCredentials
       \/ \E l \in Listers : OpenListing(l)
       \/ \E d \in Docs : Meet(d) \/ BeginFetch(d)
       \/ StoreDocument \/ DocumentFails \/ OutOfTime \/ EndListing
       \/ Refuse \/ SaveTokensOfStopped \/ ExpireGrant \/ RenewedElsewhere
       \/ SourceFails \/ EndRun

Next == Source \/ People \/ BackoffEnds \/ Claim \/ Crash \/ Settle \/ Run

Spec == Init /\ [][Next]_vars

----------------------------------------------------------------------------
(* Properties.                                                             *)

\* A document is never kept in an old text because its version says it is
\* new: a source edited between the listing and the download is caught by
\* the next walk (store_document records the version of the listing).
VersionTellsText ==
    \A d \in Docs : Stored(d) /\ named[d] = version[d] => content[d] = version[d]

\* ... and every row is what its type says.
MaterialsSound == TypeOK /\ VersionTellsText

Succeeds == step = "next" /\ step' = "ended" /\ outcome' = "succeeded"

\* What a run that ends SUCCEEDED has made of every document the source did
\* not touch meanwhile: it is stored, in its current text, if one of the
\* listings it walked has it, and only if somebody's listing has
\* it; every walked employee sees it exactly if his own listing shows it,
\* unless he disconnected during the run.
MirrorsSource ==
    [][Succeeds =>
          \A d \in steady :
             /\ (\E l \in walkers : d \in listing[l]) => Stored(d)'
             /\ Stored(d)' => content'[d] = version[d] /\ \E l \in Current : d \in listing[l]
             /\ \A u \in (walkers \cap Users) \ late : u \in access'[d] <=> d \in listing[u]
      ]_vars

\* A stored document disappears only with its connector, or when it could
\* not be stored in this very run, or when at some moment of the run no
\* listing it walked had it: an interrupted walk removes nothing
\* (docs/DECISIONS.md: only a complete listing is a proof of absence).
RemovedIfAbsent ==
    [][\A d \in Docs :
          Stored(d) /\ ~Stored(d)' =>
             \/ connector' = "deleted"
             \/ d \in failed
             \/ d \notin steady
             \/ \A l \in walkers : d \notin listing[l]
      ]_vars

\* Who disconnected his account sees no document by it, unless a run held
\* his token at that moment and wrote his rights again.
NoGrantNoAccess ==
    \A u \in Users : grant[u] = "none" /\ u \notin late => \A d \in Docs : u \notin access[d]

=============================================================================
