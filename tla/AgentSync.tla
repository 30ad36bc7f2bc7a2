----------------------------- MODULE AgentSync -----------------------------
(***************************************************************************)
(* Synchronisation of network folders: the agent on the customer's side    *)
(* (Syncer, KrontoClient) walks the files and sends them, the API's        *)
(* AgentIngestService stores them and, when the agent reports a complete   *)
(* walk, removes what the walk did not touch.                              *)
(*                                                                         *)
(* The agent asks for the known versions, starts a run, and for each file  *)
(* either confirms a known version (POST /access, in batches) or uploads   *)
(* the file (PUT /documents).  An upload is a handler that checks the run, *)
(* extracts the text for as long as that takes, and commits what follows   *)
(* from the row it had loaded at the beginning; the agent may time out and *)
(* send it again, or die, while the handler goes on.  The request that     *)
(* finishes a run looks at the run in one step and removes in another; the *)
(* other requests are short and one step each.                             *)
(*                                                                         *)
(* Versions and texts are numbers, 0 for none: a new version may have a    *)
(* new text, or one the file had before.  started_at and synced_at are     *)
(* compared with each other only, so the time is the number of runs        *)
(* started so far.                                                         *)
(***************************************************************************)
EXTENDS Integers

CONSTANTS
    Docs,       \* files, by external_id
    Handlers,   \* PUT /documents requests the server is working on; a bound
    NoDoc,      \* the file when none is being uploaded
    NoHandler,  \* the request of an agent that waits for none
    MaxRuns,    \* bound: runs started
    MaxChanges  \* bound: changes of the files

ASSUME NamesAssumption == NoDoc \notin Docs /\ NoHandler \notin Handlers
ASSUME BoundsAssumption == MaxRuns \in Nat \ {0} /\ MaxChanges \in Nat

VARIABLES
    file,       \* the version of each file
    text,       \* ... and its text
    content,    \* materials.content (and source_sha256); 0 no material
    named,      \* materials.external_version
    synced,     \* materials.synced_at
    run,        \* connector_sync_runs.status of each run
    step,       \* where the agent is in Syncer.run
    mine,       \* its run
    state,      \* the versions kronto knew before the run started
    visited,    \* files the walk has yielded
    owed,       \* files it must still yield: there since it began
    pending,    \* known versions to confirm
    unknown,    \* ... of documents that kronto no longer has
    upload,     \* the file being uploaded
    stat,       \* ... its version in the listing
    read,       \* ... and the text that was read
    awaits,     \* the request the agent waits for
    whole,      \* no resource or folder has failed so far
    finish,     \* POST /runs/{id}/finish on its way, for each run
    checked,    \* runs whose finish request has found them open
    doc,        \* of each handler: the file,
    of,         \* ... the time it takes for now,
    was,        \* ... the stored version it has found, 0 none,
    found,      \* ... and the text stored with it, 0 once that row is removed,
    gave,       \* ... the version and
    has,        \* ... the text it was sent
    steady,     \* history, for each run: files unchanged since it started
    skipped,    \* history: ... files the agent or the server passed over in it
    overtaken,  \* history: ... files a request of an earlier run wrote in it
    outdated,   \* history: ... or wrote after the agent had asked for its version
    mixed,      \* history: a version written beside a text that another request
                \* has stored after this one had loaded the row
    changes     \* history: changes of the files so far

fileVars == <<file, text, changes>>
materialVars == <<content, named, synced>>
walkVars == <<mine, state, visited, owed, pending, unknown, whole>>
uploadVars == <<upload, stat, read, awaits>>
finishVars == <<finish, checked>>
handlerVars == <<doc, of, was, found, gave, has>>
historyVars == <<steady, skipped, overtaken, outdated, mixed>>
vars == <<fileVars, materialVars, run, step, walkVars, uploadVars, finishVars, handlerVars,
          historyVars>>

Runs == 1..MaxRuns
Versions == 0..(MaxChanges + 1)
None == [d \in Docs |-> 0]

TypeOK ==
    /\ file \in [Docs -> Versions] /\ text \in [Docs -> Versions] /\ changes \in 0..MaxChanges
    /\ content \in [Docs -> Versions] /\ named \in [Docs -> Versions]
    /\ synced \in [Docs -> 0..MaxRuns]
    /\ run \in [Runs -> {"unused", "running", "failed", "finished"}]
    /\ step \in {"idle", "asked", "walking", "uploading", "finishing"}
    /\ mine \in 0..MaxRuns
    /\ state \in [Docs -> Versions]
    /\ visited \subseteq Docs /\ owed \subseteq Docs /\ pending \subseteq Docs
    /\ unknown \subseteq Docs
    /\ upload \in Docs \cup {NoDoc} /\ stat \in Versions /\ read \in Versions
    /\ awaits \in Handlers \cup {NoHandler}
    /\ whole \in BOOLEAN
    /\ finish \in [Runs -> {"none", "complete", "incomplete"}] /\ checked \subseteq Runs
    /\ doc \in [Handlers -> Docs \cup {NoDoc}]
    /\ of \in [Handlers -> 0..MaxRuns]
    /\ was \in [Handlers -> Versions] /\ found \in [Handlers -> Versions]
    /\ gave \in [Handlers -> Versions] /\ has \in [Handlers -> Versions]
    /\ steady \in [Runs -> SUBSET Docs] /\ skipped \in [Runs -> SUBSET Docs]
    /\ overtaken \in [Runs -> SUBSET Docs] /\ outdated \in [Runs -> SUBSET Docs]
    /\ mixed \subseteq Docs

Stored(d) == content[d] > 0
Busy(h) == doc[h] # NoDoc
Now == IF run[1] = "unused" THEN 0
       ELSE CHOOSE r \in Runs : run[r] # "unused" /\ \A q \in Runs : q > r => run[q] = "unused"

\* Some files, and what runs before have left of them.
Init ==
    /\ file \in [Docs -> {0, 1}] /\ text = file /\ changes = 0
    /\ named \in [Docs -> {0, 1}] /\ content = named /\ synced = None
    /\ run = [r \in Runs |-> "unused"]
    /\ step = "idle" /\ mine = 0 /\ state = None
    /\ visited = {} /\ owed = {} /\ pending = {} /\ unknown = {} /\ whole = TRUE
    /\ upload = NoDoc /\ stat = 0 /\ read = 0 /\ awaits = NoHandler
    /\ finish = [r \in Runs |-> "none"] /\ checked = {}
    /\ doc = [h \in Handlers |-> NoDoc]
    /\ of = [h \in Handlers |-> 0] /\ was = [h \in Handlers |-> 0]
    /\ found = [h \in Handlers |-> 0]
    /\ gave = [h \in Handlers |-> 0] /\ has = [h \in Handlers |-> 0]
    /\ steady = [r \in Runs |-> {}] /\ skipped = steady
    /\ overtaken = steady /\ outdated = steady
    /\ mixed = {}

----------------------------------------------------------------------------
(* The files.                                                              *)

\* A file is deleted or written: with a new text, or with one it had before
\* (it is touched, or an older copy is restored).
Change(d) ==
    /\ changes < MaxChanges
    /\ changes' = changes + 1
    /\ \/ file[d] # 0 /\ file' = [file EXCEPT ![d] = 0] /\ text' = [text EXCEPT ![d] = 0]
       \/ /\ file' = [file EXCEPT ![d] = changes + 2]
          /\ \E t \in 1..(changes + 2) : text' = [text EXCEPT ![d] = t]
    /\ owed' = owed \ {d}
    /\ steady' = [r \in Runs |-> steady[r] \ {d}]
    /\ UNCHANGED <<materialVars, run, step, mine, state, visited, pending, unknown, whole,
                   uploadVars, finishVars, handlerVars, skipped, overtaken, outdated, mixed>>

----------------------------------------------------------------------------
(* The agent and the server's short requests.                              *)

Forget ==
    /\ mine' = 0 /\ state' = None
    /\ visited' = {} /\ owed' = {} /\ pending' = {} /\ unknown' = {} /\ whole' = TRUE
    /\ upload' = NoDoc /\ stat' = 0 /\ read' = 0 /\ awaits' = NoHandler

\* GET /state.
Ask ==
    /\ step = "idle"
    /\ Now < MaxRuns
    /\ step' = "asked"
    /\ state' = named
    /\ UNCHANGED <<fileVars, materialVars, run, mine, visited, owed, pending, unknown,
                   whole, uploadVars, finishVars, handlerVars, historyVars>>

\* POST /runs: the open run has failed, a new one begins.
StartRun ==
    /\ step = "asked"
    /\ Now < MaxRuns
    /\ run' = [r \in Runs |-> IF r = Now + 1 THEN "running"
                              ELSE IF run[r] = "running" THEN "failed" ELSE run[r]]
    /\ mine' = Now + 1
    /\ owed' = {d \in Docs : file[d] > 0}
    /\ step' = "walking"
    /\ steady' = [steady EXCEPT ![mine'] = Docs]
    /\ outdated' = [outdated EXCEPT ![mine'] =
           {d \in Docs : Stored(d) /\ named[d] # state[d] /\ state[d] = file[d]}]
    /\ UNCHANGED <<skipped, overtaken, mixed>>
    /\ UNCHANGED <<fileVars, materialVars, state, visited, pending, unknown, whole,
                   uploadVars, finishVars, handlerVars>>

Visit(d) ==
    /\ step = "walking"
    /\ d \notin visited
    /\ file[d] > 0
    /\ visited' = visited \cup {d}

\* A version that kronto has.
Confirm(d) ==
    /\ Visit(d)
    /\ state[d] = file[d]
    /\ pending' = pending \cup {d}
    /\ UNCHANGED <<fileVars, materialVars, run, step, mine, state, owed, unknown, whole,
                   uploadVars, finishVars, handlerVars, historyVars>>

BeginUpload(d, v) ==
    /\ upload' = d /\ stat' = v
    /\ step' = "uploading"
    /\ UNCHANGED <<fileVars, materialVars, run, mine, state, owed, pending, whole, read,
                   awaits, finishVars, handlerVars, historyVars>>

\* A version that it has not.
Upload(d) == Visit(d) /\ state[d] # file[d] /\ BeginUpload(d, file[d]) /\ UNCHANGED unknown

\* A version that it had when it was asked, and has no longer.
UploadUnknown(d) ==
    /\ step = "walking"
    /\ d \in unknown
    /\ unknown' = unknown \ {d}
    /\ BeginUpload(d, state[d])
    /\ UNCHANGED visited

\* Too large, or its rights cannot be read; so are the files of a folder
\* that denies access, which leaves the walk whole.
PassOver(d) ==
    /\ Visit(d)
    /\ skipped' = [skipped EXCEPT ![mine] = @ \cup {d}]
    /\ UNCHANGED <<fileVars, materialVars, run, step, mine, state, owed, pending, unknown,
                   whole, uploadVars, finishVars, handlerVars, steady, overtaken, outdated,
                   mixed>>

\* Nobody kronto knows may read it: its rights are taken away if it is
\* known, its text is not sent.
NoReaders(d) ==
    /\ Visit(d)
    /\ skipped' = [skipped EXCEPT ![mine] = @ \cup {d}]
    /\ pending' = IF state[d] > 0 THEN pending \cup {d} ELSE pending
    /\ UNCHANGED <<fileVars, materialVars, run, step, mine, state, owed, unknown, whole,
                   uploadVars, finishVars, handlerVars, steady, overtaken, outdated,
                   mixed>>

\* A resource or a folder cannot be listed: its files are not met.
FolderFails ==
    /\ step = "walking"
    /\ whole' = FALSE
    /\ owed' = owed \cap visited
    /\ UNCHANGED <<fileVars, materialVars, run, step, mine, state, visited, pending,
                   unknown, uploadVars, finishVars, handlerVars, historyVars>>

\* Mutant of Flush: only the rights are written.
FlushRightsOnly ==
    /\ step = "walking"
    /\ pending # {}
    /\ run[mine] = "running"
    /\ unknown' = unknown \cup {d \in pending \ skipped[mine] : ~Stored(d)}
    /\ pending' = {}
    /\ UNCHANGED <<fileVars, materialVars, run, step, mine, state, visited, owed,
                   whole, uploadVars, finishVars, handlerVars, historyVars>>

\* POST /access.
Flush ==
    /\ step = "walking"
    /\ pending # {}
    /\ run[mine] = "running"
    /\ synced' = [d \in Docs |-> IF d \in pending /\ Stored(d) THEN Now ELSE synced[d]]
    /\ unknown' = unknown \cup {d \in pending \ skipped[mine] : ~Stored(d)}
    /\ pending' = {}
    /\ UNCHANGED <<fileVars, content, named, run, step, mine, state, visited, owed, whole,
                   uploadVars, finishVars, handlerVars, steady, skipped, overtaken, outdated,
                   mixed>>

----------------------------------------------------------------------------
(* One upload.                                                             *)

ReadFile ==
    /\ step = "uploading"
    /\ read = 0
    /\ file[upload] > 0
    /\ read' = text[upload]
    /\ UNCHANGED <<fileVars, materialVars, run, step, walkVars, upload, stat, awaits,
                   finishVars, handlerVars, historyVars>>

EndUpload ==
    /\ step' = "walking"
    /\ upload' = NoDoc /\ stat' = 0 /\ read' = 0 /\ awaits' = NoHandler

\* Access denied or grown too large: passed over; any other error: the
\* walk is not whole.
ReadFails ==
    /\ step = "uploading"
    /\ read = 0
    /\ EndUpload
    /\ \/ skipped' = [skipped EXCEPT ![mine] = @ \cup {upload}] /\ UNCHANGED whole
       \/ whole' = FALSE /\ UNCHANGED skipped
    /\ UNCHANGED <<fileVars, materialVars, run, mine, state, visited, owed, pending,
                   unknown, finishVars, handlerVars, steady, overtaken, outdated,
                   mixed>>

\* Mutant of Send: the version is asked for again on sending.
SendFreshVersion(h) ==
    /\ step = "uploading"
    /\ read > 0
    /\ awaits = NoHandler
    /\ ~Busy(h)
    /\ run[mine] = "running"
    /\ awaits' = h
    /\ doc' = [doc EXCEPT ![h] = upload]
    /\ of' = [of EXCEPT ![h] = Now]
    /\ was' = [was EXCEPT ![h] = named[upload]]
    /\ found' = [found EXCEPT ![h] = content[upload]]
    /\ gave' = [gave EXCEPT ![h] = file[upload]]
    /\ has' = [has EXCEPT ![h] = read]
    /\ UNCHANGED <<fileVars, materialVars, run, step, walkVars, upload, stat, read,
                   finishVars, historyVars>>

\* PUT /documents, first or again: the handler finds the run open, and the
\* document as it is.
Send(h) ==
    /\ step = "uploading"
    /\ read > 0
    /\ awaits = NoHandler
    /\ ~Busy(h)
    /\ run[mine] = "running"
    /\ awaits' = h
    /\ doc' = [doc EXCEPT ![h] = upload]
    /\ of' = [of EXCEPT ![h] = Now]
    /\ was' = [was EXCEPT ![h] = named[upload]]
    /\ found' = [found EXCEPT ![h] = content[upload]]
    /\ gave' = [gave EXCEPT ![h] = stat]
    /\ has' = [has EXCEPT ![h] = read]
    /\ UNCHANGED <<fileVars, materialVars, run, step, walkVars, upload, stat, read,
                   finishVars, historyVars>>

\* No answer in time: the agent sends it again, the handler goes on.
Timeout ==
    /\ awaits # NoHandler
    /\ awaits' = NoHandler
    /\ UNCHANGED <<fileVars, materialVars, run, step, walkVars, upload, stat, read,
                   finishVars, handlerVars, historyVars>>

Release(h) ==
    /\ doc' = [doc EXCEPT ![h] = NoDoc]
    /\ of' = [of EXCEPT ![h] = 0] /\ was' = [was EXCEPT ![h] = 0]
    /\ found' = [found EXCEPT ![h] = 0]
    /\ gave' = [gave EXCEPT ![h] = 0] /\ has' = [has EXCEPT ![h] = 0]

\* The agent goes on if it still waits for this answer.
Answer(h) ==
    IF awaits = h THEN EndUpload ELSE UNCHANGED <<step, uploadVars>>

\* The row it has found is still there, or there is still none.
RowIsThere(h) == IF was[h] = 0 THEN ~Stored(doc[h]) ELSE found[h] # 0

\* store_document decides by the row as it was loaded: the version it has
\* already, the same text under another version, or a new text.
Store(h) ==
    LET d == doc[h] IN
    IF was[h] = gave[h] THEN UNCHANGED <<content, named, mixed>>
    ELSE /\ named' = [named EXCEPT ![d] = gave[h]]
         /\ IF found[h] = has[h]
            THEN /\ UNCHANGED content
                 /\ mixed' = IF content[d] = has[h] THEN mixed \ {d} ELSE mixed \cup {d}
            ELSE /\ content' = [content EXCEPT ![d] = has[h]]
                 /\ mixed' = mixed \ {d}

\* put_document commits: the run is not looked at again.
Commit(h) ==
    /\ Busy(h)
    /\ RowIsThere(h)
    /\ synced' = [synced EXCEPT ![doc[h]] = of[h]]
    /\ Store(h)
    /\ overtaken' = [r \in Runs |-> IF of[h] < r /\ r <= Now THEN overtaken[r] \cup {doc[h]}
                                    ELSE overtaken[r]]
    /\ Answer(h)
    /\ Release(h)
    /\ UNCHANGED <<fileVars, run, walkVars, finishVars, steady, skipped, outdated>>

\* Another handler has created the document, or a finish removed it: the
\* statement fails, the answer is 500, and the agent sends the file again.
Conflict(h) ==
    /\ Busy(h)
    /\ ~RowIsThere(h)
    /\ awaits' = IF awaits = h THEN NoHandler ELSE awaits
    /\ Release(h)
    /\ UNCHANGED <<fileVars, materialVars, run, step, walkVars, upload, stat, read,
                   finishVars, historyVars>>

\* The text cannot be extracted: 413 or 415, which the agent counts.
Reject(h) ==
    /\ Busy(h)
    /\ skipped' = IF awaits = h THEN [skipped EXCEPT ![mine] = @ \cup {doc[h]}] ELSE skipped
    /\ Answer(h)
    /\ Release(h)
    /\ UNCHANGED <<fileVars, materialVars, run, walkVars, finishVars, steady, overtaken, outdated,
                   mixed>>

----------------------------------------------------------------------------
(* The end of a run.                                                       *)

\* The agent reports its walk.
EndWalk ==
    /\ step = "walking"
    /\ pending = {} /\ unknown = {}
    /\ owed \subseteq visited
    /\ finish' = [finish EXCEPT ![mine] = IF whole THEN "complete" ELSE "incomplete"]
    /\ UNCHANGED checked
    /\ step' = "finishing"
    /\ UNCHANGED <<fileVars, materialVars, run, walkVars, uploadVars, handlerVars,
                   historyVars>>

\* kronto does not answer, or its run is closed: _finish_quietly.
GiveUp ==
    /\ step \in {"walking", "uploading"}
    /\ finish' = [finish EXCEPT ![mine] = "incomplete"]
    /\ UNCHANGED checked
    /\ Forget
    /\ step' = "idle"
    /\ UNCHANGED <<fileVars, materialVars, run, handlerVars, historyVars>>

\* The agent's process dies or is stopped; its requests go on.
Die ==
    /\ step # "idle"
    /\ Forget
    /\ step' = "idle"
    /\ UNCHANGED <<fileVars, materialVars, run, finishVars, handlerVars, historyVars>>

Finished(r) ==
    IF mine = r /\ step = "finishing" THEN Forget /\ step' = "idle"
    ELSE UNCHANGED <<step, walkVars, uploadVars>>

\* The handler of the request finds the run open: a SELECT, no lock.
BeginFinish(r) ==
    /\ finish[r] # "none"
    /\ run[r] = "running"
    /\ checked' = checked \cup {r}
    /\ UNCHANGED <<fileVars, materialVars, run, step, walkVars, uploadVars, finish, handlerVars,
                   historyVars>>

\* The rows are deleted; a handler that has loaded one will not find it.
Remove(gone) ==
    /\ content' = [d \in Docs |-> IF d \in gone THEN 0 ELSE content[d]]
    /\ named' = [d \in Docs |-> IF d \in gone THEN 0 ELSE named[d]]
    /\ synced' = [d \in Docs |-> IF d \in gone THEN 0 ELSE synced[d]]
    /\ found' = [h \in Handlers |-> IF doc[h] \in gone THEN 0 ELSE found[h]]
    /\ mixed' = mixed \ gone

EndFinish(r) ==
    /\ r \in checked
    /\ run' = [run EXCEPT ![r] = "finished"]
    /\ finish' = [finish EXCEPT ![r] = "none"]
    /\ checked' = checked \ {r}
    /\ Finished(r)
    /\ UNCHANGED <<fileVars, doc, of, was, gave, has, steady, skipped, overtaken, outdated>>

Untouched(r) == {d \in Docs : Stored(d) /\ synced[d] < r}

\* Mutant of Finish: the agent's word is not asked for.
FinishAnyway(r) == EndFinish(r) /\ Remove(Untouched(r))

\* delete_by_connector_synced_before, only for a complete walk, and the
\* commit: the run is not looked at again, a new one may have closed it.
Finish(r) == EndFinish(r) /\ Remove(IF finish[r] = "complete" THEN Untouched(r) ELSE {})

\* The request is lost, or the run is not open any more (409).
FinishFails(r) ==
    /\ finish[r] # "none"
    /\ finish' = [finish EXCEPT ![r] = "none"]
    /\ checked' = checked \ {r}
    /\ Finished(r)
    /\ UNCHANGED <<fileVars, materialVars, run, handlerVars, historyVars>>

----------------------------------------------------------------------------
Walk ==
    \/ Ask \/ StartRun \/ FolderFails \/ Flush \/ ReadFile \/ ReadFails \/ Timeout
    \/ EndWalk \/ GiveUp \/ Die
    \/ \E d \in Docs : Confirm(d) \/ Upload(d) \/ UploadUnknown(d)
                      \/ PassOver(d) \/ NoReaders(d)
    \/ \E h \in Handlers : Send(h)

Server ==
    \/ \E h \in Handlers : Commit(h) \/ Conflict(h) \/ Reject(h)
    \/ \E r \in Runs : BeginFinish(r) \/ Finish(r) \/ FinishFails(r)

Next == Walk \/ Server \/ \E d \in Docs : Change(d)

Spec == Init /\ [][Next]_vars

----------------------------------------------------------------------------
(* Properties.                                                             *)

\* A document is not kept in an old text under the version of a new one,
\* whatever is written between the listing, the reading and the commit:
\* otherwise no later run would send the file again.  One exception is in
\* the code: a request that found the text it was sent writes the version
\* only, also when another request has stored another text meanwhile.
VersionTellsText ==
    \A d \in Docs \ mixed : Stored(d) /\ named[d] = file[d] => content[d] = text[d]

\* ... and every row is what its type says.
MaterialsSound == TypeOK /\ VersionTellsText

\* The step in which the finish of a run commits.
Finishes(r) == r \in checked /\ checked' = checked \ {r} /\ run'[r] = "finished"

\* Files that the walk of the run or of one after it does not answer for: the
\* agent or the server has passed them over, a request of an earlier run has
\* overtaken the walk (it commits its own, older time), or such a request took
\* the version back between GET /state and POST /runs, and the agent confirms
\* what kronto has no longer.
Spoilt(r) == {d \in Docs : \E q \in r..MaxRuns :
                              d \in skipped[q] \cup overtaken[q] \cup outdated[q]}

\* A run finished as complete leaves every file that nobody touched since it
\* began in its current text, also when a new run has begun, or has finished
\* before it; except files that are spoilt or mixed.
MirrorsFiles ==
    [][\A r \in Runs :
          Finishes(r) /\ finish[r] = "complete" =>
             \A d \in steady[r] \ (Spoilt(r) \cup mixed) : content'[d] = text[d]
      ]_vars

\* Nothing is removed because a folder could not be read or the agent gave
\* up, nor because the run was closed by a new one while it finished: only a
\* file that is deleted, was changed or passed over since the run began, or
\* overtaken by a request of an earlier run.
RemovedIfAbsent ==
    [][\A d \in Docs :
          Stored(d) /\ ~Stored(d)' =>
             \E r \in Runs :
                /\ Finishes(r) /\ finish[r] = "complete"
                /\ file[d] = 0 \/ d \notin steady[r] \/ d \in skipped[r] \cup overtaken[r]
      ]_vars

\* The finish of a run removes only what its walk has not touched
\* (docs/SMB-AGENT.md, 3.5): when the agent reports a whole walk, every file
\* it has met and not passed over was confirmed or stored.
TouchedStays ==
    [][\A r \in Runs :
          Finishes(r) /\ r = mine /\ step = "finishing" =>
             \A d \in visited \ skipped[r] : Stored(d) => Stored(d)'
      ]_vars
=============================================================================
