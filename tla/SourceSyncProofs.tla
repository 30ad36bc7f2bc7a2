-------------------------- MODULE SourceSyncProofs --------------------------
(***************************************************************************)
(* What SourceSync guarantees for any number of documents, employees,      *)
(* attempts, changes in the source and acts of people.                     *)
(*                                                                         *)
(* The invariant says of every listing the run walks that a document it    *)
(* has and has kept is met already, or owed by the walk that goes on (Met, *)
(* Open); of what is met, that it is stored and listed (Kept); of an       *)
(* employee whose walk is over, that he sees what his listing shows        *)
(* (Rights).  The end of a complete run finds no walk going on.  Rights    *)
(* are written for an account only whose token the run holds (Held).       *)
(***************************************************************************)
EXTENDS SourceSync, TLAPS

USE DEF sourceVars, configVars, materialVars, jobVars, walkVars, fetchVars, runVars, Idle, Others

\* The worker's place tells what it holds.
Place ==
    /\ step \in {"idle", "claimed", "ended"} =>
          todo = {} /\ seen = {} /\ walkers = {} /\ failed = {} /\ complete
    /\ step \in {"walking", "fetching", "stopped"} => lister \in Current \ todo
    /\ step \notin {"walking", "fetching", "stopped"} =>
          lister = NoOne /\ owed = {} /\ yielded = {} /\ walked = {}
    /\ step = "fetching" => fetching \in yielded
    /\ step \notin {"fetching", "stopped"} => fetching = NoDoc /\ told = 0
    /\ todo \subseteq Current /\ walkers \subseteq Current
    /\ walked \subseteq seen

\* Attempts beyond SYNC_MAX_ATTEMPTS are those of a worker that died.
Tries ==
    /\ job = "none" => attempts = 0
    /\ job \in {"queued", "delayed"} => attempts < MaxAttempts
    /\ job = "running" /\ Running => attempts <= MaxAttempts + events
    /\ job = "running" /\ ~Running => attempts < MaxAttempts + events

\* Versions grow, and a document is named after one it had.
Named ==
    /\ \A d \in Docs : 0 < version[d] /\ version[d] <= changes + 1 /\ named[d] <= version[d]
    /\ fetching # NoDoc => told <= version[fetching]
    /\ VersionTellsText

\* Whose token the run holds has connected his account, or is known to have left.
Held ==
    connector # "deleted" =>
       \A u \in HeldByRun \cap Users : grant[u] # "none" \/ u \in late

\* The open listing owes what it has shown ever since, and what it has
\* yielded is recorded, on its way, or failed.
Open ==
    /\ step \in {"walking", "fetching", "stopped"} =>
          \A d \in steady : d \in listing[lister] => d \in owed
    /\ \A d \in (yielded \cap steady) \ failed : d \in walked \/ d = fetching

\* What a walked listing has is met, or its walk goes on.
Met ==
    complete =>
       \A d \in steady \ failed : \A l \in walkers :
          d \in listing[l] => \/ d \in seen
                              \/ l \in todo
                              \/ l = lister /\ (d \in owed \ yielded \/ d = fetching)

\* What is met and untouched is stored in its current text, and listed.
Kept ==
    connector # "deleted" =>
       \A d \in seen \cap steady :
          content[d] = version[d] /\ \E l \in Current : d \in listing[l]

\* The rights of a walked employee are his listing's: as far as it is open, and wholly
\* when it is over.
Rights ==
    connector # "deleted" =>
       /\ lister \in walkers \cap Users =>
             \A d \in walked \cap steady : lister \in access[d] /\ d \in listing[lister]
       /\ complete =>
             \A u \in walkers \cap Users : u \in todo \/ u = lister
                \/ \A d \in steady \ failed : u \in access[d] <=> d \in listing[u]

SyncInv == TypeOK /\ Place /\ Tries /\ Named /\ Held /\ NoGrantNoAccess /\ Open /\ Met /\ Kept /\ Rights

\* Every step keeps the types: attempts are bounded by Tries, versions by the changes.
LEMMA TypeNext ==
    ASSUME TypeOK, Place, Tries, Named, [Next]_vars
    PROVE  TypeOK'
<1> USE NamesAssumption, BoundsAssumption
<1> USE DEF TypeOK, Listers, Versions, Creds, Outcomes, Steps, Running
<1>1. ASSUME NEW d \in Docs, Revise(d) PROVE TypeOK'
  BY <1>1 DEF Revise, Place, Tries, Named, ActiveGrants
<1>2. ASSUME NEW d \in Docs, NEW l \in Listers, Relist(d, l)
      PROVE  TypeOK'
  BY <1>2 DEF Relist, Place, Tries, Named, ActiveGrants
<1>3. ASSUME SetCredentials PROVE TypeOK'
  BY <1>3 DEF SetCredentials, Edit, Enqueue, Place, Tries, Named, ActiveGrants
<1>4. ASSUME WriteStatus PROVE TypeOK'
  BY <1>4 DEF WriteStatus, Place, Tries, Named, ActiveGrants
<1>5. ASSUME RequestSync PROVE TypeOK'
  BY <1>5 DEF RequestSync, Enqueue, Place, Tries, Named, ActiveGrants
<1>6. ASSUME Delete PROVE TypeOK'
  BY <1>6 DEF Delete, Edit, Place, Tries, Named, ActiveGrants
<1>7. ASSUME NEW new \in {"active", "paused"}, ReadStatus(new)
      PROVE  TypeOK'
  BY <1>7 DEF ReadStatus, Edit, Place, Tries, Named, ActiveGrants
<1>8. ASSUME NEW u \in Users, Connect(u) PROVE TypeOK'
  BY <1>8 DEF Connect, Edit, Enqueue, Place, Tries, Named, ActiveGrants
<1>9. ASSUME NEW u \in Users, RenewToken(u) PROVE TypeOK'
  BY <1>9 DEF RenewToken, Edit, Place, Tries, Named, ActiveGrants
<1>10. ASSUME NEW u \in Users, Disconnect(u) PROVE TypeOK'
  BY <1>10 DEF Disconnect, Edit, Place, Tries, Named, ActiveGrants
<1>11. ASSUME BackoffEnds PROVE TypeOK'
  BY <1>11 DEF BackoffEnds, Place, Tries, Named, ActiveGrants
<1>12. ASSUME Claim PROVE TypeOK'
  BY <1>12 DEF Claim, Place, Tries, Named, ActiveGrants
<1>13. ASSUME Crash PROVE TypeOK'
  BY <1>13 DEF Crash, Forget, Place, Tries, Named, ActiveGrants
<1>14. ASSUME Settle PROVE TypeOK'
  BY <1>14 DEF Settle, Forget, Place, Tries, Named, ActiveGrants
<1>15. ASSUME connector # "deleted", Skip PROVE TypeOK'
  BY <1>15 DEF Skip, Place, Tries, Named, ActiveGrants
<1>16. ASSUME connector # "deleted", BeginRun PROVE TypeOK'
  BY <1>16 DEF BeginRun, Place, Tries, Named, ActiveGrants
<1>17. ASSUME connector # "deleted", StopWithoutCredentials PROVE TypeOK'
  BY <1>17 DEF StopWithoutCredentials, Stop, Forget, Place, Tries, Named, ActiveGrants
<1>18. ASSUME connector # "deleted", NEW l \in Listers, OpenListing(l)
      PROVE  TypeOK'
  BY <1>18 DEF OpenListing, Place, Tries, Named, ActiveGrants
<1>19. ASSUME connector # "deleted", NEW d \in Docs, Meet(d)
      PROVE  TypeOK'
  BY <1>19 DEF Meet, Recorded, ApplyAccess, Yields, Place, Tries, Named, ActiveGrants
<1>20. ASSUME connector # "deleted", NEW d \in Docs, BeginFetch(d)
      PROVE  TypeOK'
  BY <1>20 DEF BeginFetch, Yields, Place, Tries, Named, ActiveGrants
<1>21. ASSUME connector # "deleted", StoreDocument PROVE TypeOK'
  BY <1>21 DEF StoreDocument, Recorded, ApplyAccess, Place, Tries, Named, ActiveGrants
<1>22. ASSUME connector # "deleted", DocumentFails PROVE TypeOK'
  BY <1>22 DEF DocumentFails, Place, Tries, Named, ActiveGrants
<1>23. ASSUME connector # "deleted", OutOfTime PROVE TypeOK'
  BY <1>23 DEF OutOfTime, PersistRefresh, Close, Place, Tries, Named, ActiveGrants
<1>24. ASSUME connector # "deleted", EndListing PROVE TypeOK'
  BY <1>24 DEF EndListing, Close, PersistRefresh, Place, Tries, Named, ActiveGrants
<1>25. ASSUME connector # "deleted", Refuse PROVE TypeOK'
  BY <1>25 DEF Refuse, Stop, Place, Tries, Named, ActiveGrants
<1>26. ASSUME connector # "deleted", SaveTokensOfStopped PROVE TypeOK'
  BY <1>26 DEF SaveTokensOfStopped, PersistRefresh, Forget, Place, Tries, Named, ActiveGrants
<1>27. ASSUME connector # "deleted", ExpireGrant PROVE TypeOK'
  BY <1>27 DEF ExpireGrant, Close, Place, Tries, Named, ActiveGrants
<1>28. ASSUME connector # "deleted", RenewedElsewhere PROVE TypeOK'
  BY <1>28 DEF RenewedElsewhere, Close, Place, Tries, Named, ActiveGrants
<1>29. ASSUME connector # "deleted", SourceFails PROVE TypeOK'
  BY <1>29 DEF SourceFails, PersistRefresh, Forget, Place, Tries, Named, ActiveGrants
<1>30. ASSUME connector # "deleted", EndRun PROVE TypeOK'
  BY <1>30 DEF EndRun, Forget, Place, Tries, Named, ActiveGrants
<1>31. ASSUME UNCHANGED vars PROVE TypeOK'
  BY <1>31 DEF vars, Place, Tries, Named, ActiveGrants
<1> QED
  BY <1>1, <1>2, <1>3, <1>4, <1>5, <1>6, <1>7, <1>8, <1>9, <1>10, <1>11, <1>12,
     <1>13, <1>14, <1>15, <1>16, <1>17, <1>18, <1>19, <1>20, <1>21, <1>22,
     <1>23, <1>24, <1>25, <1>26, <1>27, <1>28, <1>29, <1>30, <1>31
  DEF Next, Source, People, Run

\* ... what the worker holds where it is,
LEMMA PlaceNext ==
    ASSUME TypeOK, Place, [Next]_vars
    PROVE  Place'
<1> USE NamesAssumption, BoundsAssumption
<1> USE DEF Place, Current
<1>1. ASSUME NEW d \in Docs, Revise(d) PROVE Place'
  BY <1>1 DEF Revise, TypeOK, Steps, Listers, ActiveGrants, Running
<1>2. ASSUME NEW d \in Docs, NEW l \in Listers, Relist(d, l)
      PROVE  Place'
  BY <1>2 DEF Relist, TypeOK, Steps, Listers, ActiveGrants, Running
<1>3. ASSUME SetCredentials PROVE Place'
  BY <1>3 DEF SetCredentials, Edit, Enqueue, TypeOK, Steps, Listers, ActiveGrants, Running
<1>4. ASSUME WriteStatus PROVE Place'
  BY <1>4 DEF WriteStatus, TypeOK, Steps, Listers, ActiveGrants, Running
<1>5. ASSUME RequestSync PROVE Place'
  BY <1>5 DEF RequestSync, Enqueue, TypeOK, Steps, Listers, ActiveGrants, Running
<1>6. ASSUME Delete PROVE Place'
  BY <1>6 DEF Delete, Edit, TypeOK, Steps, Listers, ActiveGrants, Running
<1>7. ASSUME NEW new \in {"active", "paused"}, ReadStatus(new)
      PROVE  Place'
  BY <1>7 DEF ReadStatus, Edit, TypeOK, Steps, Listers, ActiveGrants, Running
<1>8. ASSUME NEW u \in Users, Connect(u) PROVE Place'
  BY <1>8 DEF Connect, Edit, Enqueue, TypeOK, Steps, Listers, ActiveGrants, Running
<1>9. ASSUME NEW u \in Users, RenewToken(u) PROVE Place'
  BY <1>9 DEF RenewToken, Edit, TypeOK, Steps, Listers, ActiveGrants, Running
<1>10. ASSUME NEW u \in Users, Disconnect(u) PROVE Place'
  BY <1>10 DEF Disconnect, Edit, TypeOK, Steps, Listers, ActiveGrants, Running
<1>11. ASSUME BackoffEnds PROVE Place'
  BY <1>11 DEF BackoffEnds, TypeOK, Steps, Listers, ActiveGrants, Running
<1>12. ASSUME Claim PROVE Place'
  BY <1>12 DEF Claim, TypeOK, Steps, Listers, ActiveGrants, Running
<1>13. ASSUME Crash PROVE Place'
  BY <1>13 DEF Crash, Forget, TypeOK, Steps, Listers, ActiveGrants, Running
<1>14. ASSUME Settle PROVE Place'
  BY <1>14 DEF Settle, Forget, TypeOK, Steps, Listers, ActiveGrants, Running
<1>15. ASSUME connector # "deleted", Skip PROVE Place'
  BY <1>15 DEF Skip, TypeOK, Steps, Listers, ActiveGrants, Running
<1>16. ASSUME connector # "deleted", BeginRun PROVE Place'
  BY <1>16 DEF BeginRun, TypeOK, Steps, Listers, ActiveGrants, Running
<1>17. ASSUME connector # "deleted", StopWithoutCredentials PROVE Place'
  BY <1>17 DEF StopWithoutCredentials, Stop, Forget, TypeOK, Steps, Listers, ActiveGrants, Running
<1>18. ASSUME connector # "deleted", NEW l \in Listers, OpenListing(l)
      PROVE  Place'
  BY <1>18 DEF OpenListing, TypeOK, Steps, Listers, ActiveGrants, Running
<1>19. ASSUME connector # "deleted", NEW d \in Docs, Meet(d)
      PROVE  Place'
  BY <1>19 DEF Meet, Recorded, ApplyAccess, Yields, TypeOK, Steps, Listers, ActiveGrants, Running
<1>20. ASSUME connector # "deleted", NEW d \in Docs, BeginFetch(d)
      PROVE  Place'
  BY <1>20 DEF BeginFetch, Yields, TypeOK, Steps, Listers, ActiveGrants, Running
<1>21. ASSUME connector # "deleted", StoreDocument PROVE Place'
  BY <1>21 DEF StoreDocument, Recorded, ApplyAccess, TypeOK, Steps, Listers, ActiveGrants, Running
<1>22. ASSUME connector # "deleted", DocumentFails PROVE Place'
  BY <1>22 DEF DocumentFails, TypeOK, Steps, Listers, ActiveGrants, Running
<1>23. ASSUME connector # "deleted", OutOfTime PROVE Place'
  BY <1>23 DEF OutOfTime, PersistRefresh, Close, TypeOK, Steps, Listers, ActiveGrants, Running
<1>24. ASSUME connector # "deleted", EndListing PROVE Place'
  BY <1>24 DEF EndListing, Close, PersistRefresh, TypeOK, Steps, Listers, ActiveGrants, Running
<1>25. ASSUME connector # "deleted", Refuse PROVE Place'
  BY <1>25 DEF Refuse, Stop, TypeOK, Steps, Listers, ActiveGrants, Running
<1>26. ASSUME connector # "deleted", SaveTokensOfStopped PROVE Place'
  BY <1>26 DEF SaveTokensOfStopped, PersistRefresh, Forget, TypeOK, Steps, Listers, ActiveGrants, Running
<1>27. ASSUME connector # "deleted", ExpireGrant PROVE Place'
  BY <1>27 DEF ExpireGrant, Close, TypeOK, Steps, Listers, ActiveGrants, Running
<1>28. ASSUME connector # "deleted", RenewedElsewhere PROVE Place'
  BY <1>28 DEF RenewedElsewhere, Close, TypeOK, Steps, Listers, ActiveGrants, Running
<1>29. ASSUME connector # "deleted", SourceFails PROVE Place'
  BY <1>29 DEF SourceFails, PersistRefresh, Forget, TypeOK, Steps, Listers, ActiveGrants, Running
<1>30. ASSUME connector # "deleted", EndRun PROVE Place'
  BY <1>30 DEF EndRun, Forget, TypeOK, Steps, Listers, ActiveGrants, Running
<1>31. ASSUME UNCHANGED vars PROVE Place'
  BY <1>31 DEF vars, TypeOK, Steps, Listers, ActiveGrants, Running
<1> QED
  BY <1>1, <1>2, <1>3, <1>4, <1>5, <1>6, <1>7, <1>8, <1>9, <1>10, <1>11, <1>12,
     <1>13, <1>14, <1>15, <1>16, <1>17, <1>18, <1>19, <1>20, <1>21, <1>22,
     <1>23, <1>24, <1>25, <1>26, <1>27, <1>28, <1>29, <1>30, <1>31
  DEF Next, Source, People, Run

\* ... the bound of a job's attempts,
LEMMA TriesNext ==
    ASSUME TypeOK, TypeOK', Tries, [Next]_vars
    PROVE  Tries'
<1> USE NamesAssumption, BoundsAssumption
<1> USE DEF Tries, Running, TypeOK
<1>1. ASSUME NEW d \in Docs, Revise(d) PROVE Tries'
  BY <1>1 DEF Revise
<1>2. ASSUME NEW d \in Docs, NEW l \in Listers, Relist(d, l)
      PROVE  Tries'
  BY <1>2 DEF Relist
<1>3. ASSUME SetCredentials PROVE Tries'
  BY <1>3 DEF SetCredentials, Edit, Enqueue
<1>4. ASSUME WriteStatus PROVE Tries'
  BY <1>4 DEF WriteStatus
<1>5. ASSUME RequestSync PROVE Tries'
  BY <1>5 DEF RequestSync, Enqueue
<1>6. ASSUME Delete PROVE Tries'
  BY <1>6 DEF Delete, Edit
<1>7. ASSUME NEW new \in {"active", "paused"}, ReadStatus(new)
      PROVE  Tries'
  BY <1>7 DEF ReadStatus, Edit
<1>8. ASSUME NEW u \in Users, Connect(u) PROVE Tries'
  BY <1>8 DEF Connect, Edit, Enqueue
<1>9. ASSUME NEW u \in Users, RenewToken(u) PROVE Tries'
  BY <1>9 DEF RenewToken, Edit
<1>10. ASSUME NEW u \in Users, Disconnect(u) PROVE Tries'
  BY <1>10 DEF Disconnect, Edit
<1>11. ASSUME BackoffEnds PROVE Tries'
  BY <1>11 DEF BackoffEnds
<1>12. ASSUME Claim PROVE Tries'
  BY <1>12 DEF Claim
<1>13. ASSUME Crash PROVE Tries'
  BY <1>13 DEF Crash, Forget
<1>14. ASSUME Settle PROVE Tries'
  BY <1>14 DEF Settle, Forget
<1>15. ASSUME connector # "deleted", Skip PROVE Tries'
  BY <1>15 DEF Skip
<1>16. ASSUME connector # "deleted", BeginRun PROVE Tries'
  BY <1>16 DEF BeginRun
<1>17. ASSUME connector # "deleted", StopWithoutCredentials PROVE Tries'
  BY <1>17 DEF StopWithoutCredentials, Stop, Forget
<1>18. ASSUME connector # "deleted", NEW l \in Listers, OpenListing(l)
      PROVE  Tries'
  BY <1>18 DEF OpenListing
<1>19. ASSUME connector # "deleted", NEW d \in Docs, Meet(d)
      PROVE  Tries'
  BY <1>19 DEF Meet, Recorded, ApplyAccess, Yields
<1>20. ASSUME connector # "deleted", NEW d \in Docs, BeginFetch(d)
      PROVE  Tries'
  BY <1>20 DEF BeginFetch, Yields
<1>21. ASSUME connector # "deleted", StoreDocument PROVE Tries'
  BY <1>21 DEF StoreDocument, Recorded, ApplyAccess
<1>22. ASSUME connector # "deleted", DocumentFails PROVE Tries'
  BY <1>22 DEF DocumentFails
<1>23. ASSUME connector # "deleted", OutOfTime PROVE Tries'
  BY <1>23 DEF OutOfTime, PersistRefresh, Close
<1>24. ASSUME connector # "deleted", EndListing PROVE Tries'
  BY <1>24 DEF EndListing, Close, PersistRefresh
<1>25. ASSUME connector # "deleted", Refuse PROVE Tries'
  BY <1>25 DEF Refuse, Stop
<1>26. ASSUME connector # "deleted", SaveTokensOfStopped PROVE Tries'
  BY <1>26 DEF SaveTokensOfStopped, PersistRefresh, Forget
<1>27. ASSUME connector # "deleted", ExpireGrant PROVE Tries'
  BY <1>27 DEF ExpireGrant, Close
<1>28. ASSUME connector # "deleted", RenewedElsewhere PROVE Tries'
  BY <1>28 DEF RenewedElsewhere, Close
<1>29. ASSUME connector # "deleted", SourceFails PROVE Tries'
  BY <1>29 DEF SourceFails, PersistRefresh, Forget
<1>30. ASSUME connector # "deleted", EndRun PROVE Tries'
  BY <1>30 DEF EndRun, Forget
<1>31. ASSUME UNCHANGED vars PROVE Tries'
  BY <1>31 DEF vars
<1> QED
  BY <1>1, <1>2, <1>3, <1>4, <1>5, <1>6, <1>7, <1>8, <1>9, <1>10, <1>11, <1>12,
     <1>13, <1>14, <1>15, <1>16, <1>17, <1>18, <1>19, <1>20, <1>21, <1>22,
     <1>23, <1>24, <1>25, <1>26, <1>27, <1>28, <1>29, <1>30, <1>31
  DEF Next, Source, People, Run

\* ... names that are not newer than texts,
LEMMA NamedNext ==
    ASSUME TypeOK, TypeOK', Place, Named, [Next]_vars
    PROVE  Named'
<1> USE NamesAssumption, BoundsAssumption
<1> USE DEF Named, VersionTellsText, TypeOK, Versions, Stored
<1>1. ASSUME NEW d \in Docs, Revise(d) PROVE Named'
  BY <1>1 DEF Revise, UpToDate, Place
<1>2. ASSUME NEW d \in Docs, NEW l \in Listers, Relist(d, l)
      PROVE  Named'
  BY <1>2 DEF Relist, UpToDate, Place
<1>3. ASSUME SetCredentials PROVE Named'
  BY <1>3 DEF SetCredentials, Edit, Enqueue, UpToDate, Place
<1>4. ASSUME WriteStatus PROVE Named'
  BY <1>4 DEF WriteStatus, UpToDate, Place
<1>5. ASSUME RequestSync PROVE Named'
  BY <1>5 DEF RequestSync, Enqueue, UpToDate, Place
<1>6. ASSUME Delete PROVE Named'
  BY <1>6 DEF Delete, Edit, UpToDate, Place
<1>7. ASSUME NEW new \in {"active", "paused"}, ReadStatus(new)
      PROVE  Named'
  BY <1>7 DEF ReadStatus, Edit, UpToDate, Place
<1>8. ASSUME NEW u \in Users, Connect(u) PROVE Named'
  BY <1>8 DEF Connect, Edit, Enqueue, UpToDate, Place
<1>9. ASSUME NEW u \in Users, RenewToken(u) PROVE Named'
  BY <1>9 DEF RenewToken, Edit, UpToDate, Place
<1>10. ASSUME NEW u \in Users, Disconnect(u) PROVE Named'
  BY <1>10 DEF Disconnect, Edit, UpToDate, Place
<1>11. ASSUME BackoffEnds PROVE Named'
  BY <1>11 DEF BackoffEnds, UpToDate, Place
<1>12. ASSUME Claim PROVE Named'
  BY <1>12 DEF Claim, UpToDate, Place
<1>13. ASSUME Crash PROVE Named'
  BY <1>13 DEF Crash, Forget, UpToDate, Place
<1>14. ASSUME Settle PROVE Named'
  BY <1>14 DEF Settle, Forget, UpToDate, Place
<1>15. ASSUME connector # "deleted", Skip PROVE Named'
  BY <1>15 DEF Skip, UpToDate, Place
<1>16. ASSUME connector # "deleted", BeginRun PROVE Named'
  BY <1>16 DEF BeginRun, UpToDate, Place
<1>17. ASSUME connector # "deleted", StopWithoutCredentials PROVE Named'
  BY <1>17 DEF StopWithoutCredentials, Stop, Forget, UpToDate, Place
<1>18. ASSUME connector # "deleted", NEW l \in Listers, OpenListing(l)
      PROVE  Named'
  BY <1>18 DEF OpenListing, UpToDate, Place
<1>19. ASSUME connector # "deleted", NEW d \in Docs, Meet(d)
      PROVE  Named'
  BY <1>19 DEF Meet, Recorded, ApplyAccess, Yields, UpToDate, Place
<1>20. ASSUME connector # "deleted", NEW d \in Docs, BeginFetch(d)
      PROVE  Named'
  BY <1>20 DEF BeginFetch, Yields, UpToDate, Place
<1>21. ASSUME connector # "deleted", StoreDocument PROVE Named'
  BY <1>21 DEF StoreDocument, Recorded, ApplyAccess, UpToDate, Place
<1>22. ASSUME connector # "deleted", DocumentFails PROVE Named'
  BY <1>22 DEF DocumentFails, UpToDate, Place
<1>23. ASSUME connector # "deleted", OutOfTime PROVE Named'
  BY <1>23 DEF OutOfTime, PersistRefresh, Close, UpToDate, Place
<1>24. ASSUME connector # "deleted", EndListing PROVE Named'
  BY <1>24 DEF EndListing, Close, PersistRefresh, UpToDate, Place
<1>25. ASSUME connector # "deleted", Refuse PROVE Named'
  BY <1>25 DEF Refuse, Stop, UpToDate, Place
<1>26. ASSUME connector # "deleted", SaveTokensOfStopped PROVE Named'
  BY <1>26 DEF SaveTokensOfStopped, PersistRefresh, Forget, UpToDate, Place
<1>27. ASSUME connector # "deleted", ExpireGrant PROVE Named'
  BY <1>27 DEF ExpireGrant, Close, UpToDate, Place
<1>28. ASSUME connector # "deleted", RenewedElsewhere PROVE Named'
  BY <1>28 DEF RenewedElsewhere, Close, UpToDate, Place
<1>29. ASSUME connector # "deleted", SourceFails PROVE Named'
  BY <1>29 DEF SourceFails, PersistRefresh, Forget, UpToDate, Place
<1>30. ASSUME connector # "deleted", EndRun PROVE Named'
  BY <1>30 DEF EndRun, Forget, UpToDate, Place
<1>31. ASSUME UNCHANGED vars PROVE Named'
  BY <1>31 DEF vars, UpToDate, Place
<1> QED
  BY <1>1, <1>2, <1>3, <1>4, <1>5, <1>6, <1>7, <1>8, <1>9, <1>10, <1>11, <1>12,
     <1>13, <1>14, <1>15, <1>16, <1>17, <1>18, <1>19, <1>20, <1>21, <1>22,
     <1>23, <1>24, <1>25, <1>26, <1>27, <1>28, <1>29, <1>30, <1>31
  DEF Next, Source, People, Run

\* ... the account behind every token the run holds,
LEMMA HeldNext ==
    ASSUME TypeOK, Place, Held, [Next]_vars
    PROVE  Held'
<1> USE NamesAssumption, BoundsAssumption
<1> USE DEF Held, HeldByRun, TypeOK
<1>1. ASSUME NEW d \in Docs, Revise(d) PROVE Held'
  BY <1>1 DEF Revise, Place, ActiveGrants, Running
<1>2. ASSUME NEW d \in Docs, NEW l \in Listers, Relist(d, l)
      PROVE  Held'
  BY <1>2 DEF Relist, Place, ActiveGrants, Running
<1>3. ASSUME SetCredentials PROVE Held'
  BY <1>3 DEF SetCredentials, Edit, Enqueue, Place, ActiveGrants, Running
<1>4. ASSUME WriteStatus PROVE Held'
  BY <1>4 DEF WriteStatus, Place, ActiveGrants, Running
<1>5. ASSUME RequestSync PROVE Held'
  BY <1>5 DEF RequestSync, Enqueue, Place, ActiveGrants, Running
<1>6. ASSUME Delete PROVE Held'
  BY <1>6 DEF Delete, Edit, Place, ActiveGrants, Running
<1>7. ASSUME NEW new \in {"active", "paused"}, ReadStatus(new)
      PROVE  Held'
  BY <1>7 DEF ReadStatus, Edit, Place, ActiveGrants, Running
<1>8. ASSUME NEW u \in Users, Connect(u) PROVE Held'
  BY <1>8 DEF Connect, Edit, Enqueue, Place, ActiveGrants, Running
<1>9. ASSUME NEW u \in Users, RenewToken(u) PROVE Held'
  BY <1>9 DEF RenewToken, Edit, Place, ActiveGrants, Running
<1>10. ASSUME NEW u \in Users, Disconnect(u) PROVE Held'
  BY <1>10 DEF Disconnect, Edit, Place, ActiveGrants, Running
<1>11. ASSUME BackoffEnds PROVE Held'
  BY <1>11 DEF BackoffEnds, Place, ActiveGrants, Running
<1>12. ASSUME Claim PROVE Held'
  BY <1>12 DEF Claim, Place, ActiveGrants, Running
<1>13. ASSUME Crash PROVE Held'
  BY <1>13 DEF Crash, Forget, Place, ActiveGrants, Running
<1>14. ASSUME Settle PROVE Held'
  BY <1>14 DEF Settle, Forget, Place, ActiveGrants, Running
<1>15. ASSUME connector # "deleted", Skip PROVE Held'
  BY <1>15 DEF Skip, Place, ActiveGrants, Running
<1>16. ASSUME connector # "deleted", BeginRun PROVE Held'
  BY <1>16 DEF BeginRun, Place, ActiveGrants, Running
<1>17. ASSUME connector # "deleted", StopWithoutCredentials PROVE Held'
  BY <1>17 DEF StopWithoutCredentials, Stop, Forget, Place, ActiveGrants, Running
<1>18. ASSUME connector # "deleted", NEW l \in Listers, OpenListing(l)
      PROVE  Held'
  BY <1>18 DEF OpenListing, Place, ActiveGrants, Running
<1>19. ASSUME connector # "deleted", NEW d \in Docs, Meet(d)
      PROVE  Held'
  BY <1>19 DEF Meet, Recorded, ApplyAccess, Yields, Place, ActiveGrants, Running
<1>20. ASSUME connector # "deleted", NEW d \in Docs, BeginFetch(d)
      PROVE  Held'
  BY <1>20 DEF BeginFetch, Yields, Place, ActiveGrants, Running
<1>21. ASSUME connector # "deleted", StoreDocument PROVE Held'
  BY <1>21 DEF StoreDocument, Recorded, ApplyAccess, Place, ActiveGrants, Running
<1>22. ASSUME connector # "deleted", DocumentFails PROVE Held'
  BY <1>22 DEF DocumentFails, Place, ActiveGrants, Running
<1>23. ASSUME connector # "deleted", OutOfTime PROVE Held'
  BY <1>23 DEF OutOfTime, PersistRefresh, Close, Place, ActiveGrants, Running
<1>24. ASSUME connector # "deleted", EndListing PROVE Held'
  BY <1>24 DEF EndListing, Close, PersistRefresh, Place, ActiveGrants, Running
<1>25. ASSUME connector # "deleted", Refuse PROVE Held'
  BY <1>25 DEF Refuse, Stop, Place, ActiveGrants, Running
<1>26. ASSUME connector # "deleted", SaveTokensOfStopped PROVE Held'
  BY <1>26 DEF SaveTokensOfStopped, PersistRefresh, Forget, Place, ActiveGrants, Running
<1>27. ASSUME connector # "deleted", ExpireGrant PROVE Held'
  BY <1>27 DEF ExpireGrant, Close, Place, ActiveGrants, Running
<1>28. ASSUME connector # "deleted", RenewedElsewhere PROVE Held'
  BY <1>28 DEF RenewedElsewhere, Close, Place, ActiveGrants, Running
<1>29. ASSUME connector # "deleted", SourceFails PROVE Held'
  BY <1>29 DEF SourceFails, PersistRefresh, Forget, Place, ActiveGrants, Running
<1>30. ASSUME connector # "deleted", EndRun PROVE Held'
  BY <1>30 DEF EndRun, Forget, Place, ActiveGrants, Running
<1>31. ASSUME UNCHANGED vars PROVE Held'
  BY <1>31 DEF vars, Place, ActiveGrants, Running
<1> QED
  BY <1>1, <1>2, <1>3, <1>4, <1>5, <1>6, <1>7, <1>8, <1>9, <1>10, <1>11, <1>12,
     <1>13, <1>14, <1>15, <1>16, <1>17, <1>18, <1>19, <1>20, <1>21, <1>22,
     <1>23, <1>24, <1>25, <1>26, <1>27, <1>28, <1>29, <1>30, <1>31
  DEF Next, Source, People, Run

\* ... and so no rights of those who have left,
LEMMA NoGrantNext ==
    ASSUME TypeOK, Place, Held, NoGrantNoAccess, [Next]_vars
    PROVE  NoGrantNoAccess'
<1> USE NamesAssumption, BoundsAssumption
<1> USE DEF NoGrantNoAccess, TypeOK
<1>1. ASSUME NEW d \in Docs, Revise(d) PROVE NoGrantNoAccess'
  BY <1>1 DEF Revise, Held, HeldByRun, Place, Running
<1>2. ASSUME NEW d \in Docs, NEW l \in Listers, Relist(d, l)
      PROVE  NoGrantNoAccess'
  BY <1>2 DEF Relist, Held, HeldByRun, Place, Running
<1>3. ASSUME SetCredentials PROVE NoGrantNoAccess'
  BY <1>3 DEF SetCredentials, Edit, Enqueue, Held, HeldByRun, Place, Running
<1>4. ASSUME WriteStatus PROVE NoGrantNoAccess'
  BY <1>4 DEF WriteStatus, Held, HeldByRun, Place, Running
<1>5. ASSUME RequestSync PROVE NoGrantNoAccess'
  BY <1>5 DEF RequestSync, Enqueue, Held, HeldByRun, Place, Running
<1>6. ASSUME Delete PROVE NoGrantNoAccess'
  BY <1>6 DEF Delete, Edit, Held, HeldByRun, Place, Running
<1>7. ASSUME NEW new \in {"active", "paused"}, ReadStatus(new)
      PROVE  NoGrantNoAccess'
  BY <1>7 DEF ReadStatus, Edit, Held, HeldByRun, Place, Running
<1>8. ASSUME NEW u \in Users, Connect(u) PROVE NoGrantNoAccess'
  BY <1>8 DEF Connect, Edit, Enqueue, Held, HeldByRun, Place, Running
<1>9. ASSUME NEW u \in Users, RenewToken(u) PROVE NoGrantNoAccess'
  BY <1>9 DEF RenewToken, Edit, Held, HeldByRun, Place, Running
<1>10. ASSUME NEW u \in Users, Disconnect(u) PROVE NoGrantNoAccess'
  BY <1>10 DEF Disconnect, Edit, Held, HeldByRun, Place, Running
<1>11. ASSUME BackoffEnds PROVE NoGrantNoAccess'
  BY <1>11 DEF BackoffEnds, Held, HeldByRun, Place, Running
<1>12. ASSUME Claim PROVE NoGrantNoAccess'
  BY <1>12 DEF Claim, Held, HeldByRun, Place, Running
<1>13. ASSUME Crash PROVE NoGrantNoAccess'
  BY <1>13 DEF Crash, Forget, Held, HeldByRun, Place, Running
<1>14. ASSUME Settle PROVE NoGrantNoAccess'
  BY <1>14 DEF Settle, Forget, Held, HeldByRun, Place, Running
<1>15. ASSUME connector # "deleted", Skip PROVE NoGrantNoAccess'
  BY <1>15 DEF Skip, Held, HeldByRun, Place, Running
<1>16. ASSUME connector # "deleted", BeginRun PROVE NoGrantNoAccess'
  BY <1>16 DEF BeginRun, Held, HeldByRun, Place, Running
<1>17. ASSUME connector # "deleted", StopWithoutCredentials PROVE NoGrantNoAccess'
  BY <1>17 DEF StopWithoutCredentials, Stop, Forget, Held, HeldByRun, Place, Running
<1>18. ASSUME connector # "deleted", NEW l \in Listers, OpenListing(l)
      PROVE  NoGrantNoAccess'
  BY <1>18 DEF OpenListing, Held, HeldByRun, Place, Running
<1>19. ASSUME connector # "deleted", NEW d \in Docs, Meet(d)
      PROVE  NoGrantNoAccess'
  BY <1>19 DEF Meet, Recorded, ApplyAccess, Yields, Held, HeldByRun, Place, Running
<1>20. ASSUME connector # "deleted", NEW d \in Docs, BeginFetch(d)
      PROVE  NoGrantNoAccess'
  BY <1>20 DEF BeginFetch, Yields, Held, HeldByRun, Place, Running
<1>21. ASSUME connector # "deleted", StoreDocument PROVE NoGrantNoAccess'
  BY <1>21 DEF StoreDocument, Recorded, ApplyAccess, Held, HeldByRun, Place, Running
<1>22. ASSUME connector # "deleted", DocumentFails PROVE NoGrantNoAccess'
  BY <1>22 DEF DocumentFails, Held, HeldByRun, Place, Running
<1>23. ASSUME connector # "deleted", OutOfTime PROVE NoGrantNoAccess'
  BY <1>23 DEF OutOfTime, PersistRefresh, Close, Held, HeldByRun, Place, Running
<1>24. ASSUME connector # "deleted", EndListing PROVE NoGrantNoAccess'
  BY <1>24 DEF EndListing, Close, PersistRefresh, Held, HeldByRun, Place, Running
<1>25. ASSUME connector # "deleted", Refuse PROVE NoGrantNoAccess'
  BY <1>25 DEF Refuse, Stop, Held, HeldByRun, Place, Running
<1>26. ASSUME connector # "deleted", SaveTokensOfStopped PROVE NoGrantNoAccess'
  BY <1>26 DEF SaveTokensOfStopped, PersistRefresh, Forget, Held, HeldByRun, Place, Running
<1>27. ASSUME connector # "deleted", ExpireGrant PROVE NoGrantNoAccess'
  BY <1>27 DEF ExpireGrant, Close, Held, HeldByRun, Place, Running
<1>28. ASSUME connector # "deleted", RenewedElsewhere PROVE NoGrantNoAccess'
  BY <1>28 DEF RenewedElsewhere, Close, Held, HeldByRun, Place, Running
<1>29. ASSUME connector # "deleted", SourceFails PROVE NoGrantNoAccess'
  BY <1>29 DEF SourceFails, PersistRefresh, Forget, Held, HeldByRun, Place, Running
<1>30. ASSUME connector # "deleted", EndRun PROVE NoGrantNoAccess'
  BY <1>30 DEF EndRun, Forget, Held, HeldByRun, Place, Running
<1>31. ASSUME UNCHANGED vars PROVE NoGrantNoAccess'
  BY <1>31 DEF vars, Held, HeldByRun, Place, Running
<1> QED
  BY <1>1, <1>2, <1>3, <1>4, <1>5, <1>6, <1>7, <1>8, <1>9, <1>10, <1>11, <1>12,
     <1>13, <1>14, <1>15, <1>16, <1>17, <1>18, <1>19, <1>20, <1>21, <1>22,
     <1>23, <1>24, <1>25, <1>26, <1>27, <1>28, <1>29, <1>30, <1>31
  DEF Next, Source, People, Run

\* ... what an open listing still owes,
LEMMA OpenNext ==
    ASSUME TypeOK, Place, Open, [Next]_vars
    PROVE  Open'
<1> USE NamesAssumption, BoundsAssumption
<1> USE DEF Open, TypeOK
<1>1. ASSUME NEW d \in Docs, Revise(d) PROVE Open'
  BY <1>1 DEF Revise, Place
<1>2. ASSUME NEW d \in Docs, NEW l \in Listers, Relist(d, l)
      PROVE  Open'
  BY <1>2 DEF Relist, Place
<1>3. ASSUME SetCredentials PROVE Open'
  BY <1>3 DEF SetCredentials, Edit, Enqueue, Place
<1>4. ASSUME WriteStatus PROVE Open'
  BY <1>4 DEF WriteStatus, Place
<1>5. ASSUME RequestSync PROVE Open'
  BY <1>5 DEF RequestSync, Enqueue, Place
<1>6. ASSUME Delete PROVE Open'
  BY <1>6 DEF Delete, Edit, Place
<1>7. ASSUME NEW new \in {"active", "paused"}, ReadStatus(new)
      PROVE  Open'
  BY <1>7 DEF ReadStatus, Edit, Place
<1>8. ASSUME NEW u \in Users, Connect(u) PROVE Open'
  BY <1>8 DEF Connect, Edit, Enqueue, Place
<1>9. ASSUME NEW u \in Users, RenewToken(u) PROVE Open'
  BY <1>9 DEF RenewToken, Edit, Place
<1>10. ASSUME NEW u \in Users, Disconnect(u) PROVE Open'
  BY <1>10 DEF Disconnect, Edit, Place
<1>11. ASSUME BackoffEnds PROVE Open'
  BY <1>11 DEF BackoffEnds, Place
<1>12. ASSUME Claim PROVE Open'
  BY <1>12 DEF Claim, Place
<1>13. ASSUME Crash PROVE Open'
  BY <1>13 DEF Crash, Forget, Place
<1>14. ASSUME Settle PROVE Open'
  BY <1>14 DEF Settle, Forget, Place
<1>15. ASSUME connector # "deleted", Skip PROVE Open'
  BY <1>15 DEF Skip, Place
<1>16. ASSUME connector # "deleted", BeginRun PROVE Open'
  BY <1>16 DEF BeginRun, Place
<1>17. ASSUME connector # "deleted", StopWithoutCredentials PROVE Open'
  BY <1>17 DEF StopWithoutCredentials, Stop, Forget, Place
<1>18. ASSUME connector # "deleted", NEW l \in Listers, OpenListing(l)
      PROVE  Open'
  BY <1>18 DEF OpenListing, Place
<1>19. ASSUME connector # "deleted", NEW d \in Docs, Meet(d)
      PROVE  Open'
  BY <1>19 DEF Meet, Recorded, ApplyAccess, Yields, Place
<1>20. ASSUME connector # "deleted", NEW d \in Docs, BeginFetch(d)
      PROVE  Open'
  BY <1>20 DEF BeginFetch, Yields, Place
<1>21. ASSUME connector # "deleted", StoreDocument PROVE Open'
  BY <1>21 DEF StoreDocument, Recorded, ApplyAccess, Place
<1>22. ASSUME connector # "deleted", DocumentFails PROVE Open'
  BY <1>22 DEF DocumentFails, Place
<1>23. ASSUME connector # "deleted", OutOfTime PROVE Open'
  BY <1>23 DEF OutOfTime, PersistRefresh, Close, Place
<1>24. ASSUME connector # "deleted", EndListing PROVE Open'
  BY <1>24 DEF EndListing, Close, PersistRefresh, Place
<1>25. ASSUME connector # "deleted", Refuse PROVE Open'
  BY <1>25 DEF Refuse, Stop, Place
<1>26. ASSUME connector # "deleted", SaveTokensOfStopped PROVE Open'
  BY <1>26 DEF SaveTokensOfStopped, PersistRefresh, Forget, Place
<1>27. ASSUME connector # "deleted", ExpireGrant PROVE Open'
  BY <1>27 DEF ExpireGrant, Close, Place
<1>28. ASSUME connector # "deleted", RenewedElsewhere PROVE Open'
  BY <1>28 DEF RenewedElsewhere, Close, Place
<1>29. ASSUME connector # "deleted", SourceFails PROVE Open'
  BY <1>29 DEF SourceFails, PersistRefresh, Forget, Place
<1>30. ASSUME connector # "deleted", EndRun PROVE Open'
  BY <1>30 DEF EndRun, Forget, Place
<1>31. ASSUME UNCHANGED vars PROVE Open'
  BY <1>31 DEF vars, Place
<1> QED
  BY <1>1, <1>2, <1>3, <1>4, <1>5, <1>6, <1>7, <1>8, <1>9, <1>10, <1>11, <1>12,
     <1>13, <1>14, <1>15, <1>16, <1>17, <1>18, <1>19, <1>20, <1>21, <1>22,
     <1>23, <1>24, <1>25, <1>26, <1>27, <1>28, <1>29, <1>30, <1>31
  DEF Next, Source, People, Run

\* ... that nothing a walked listing has is missed,
LEMMA MetNext ==
    ASSUME TypeOK, Place, Open, Met, [Next]_vars
    PROVE  Met'
<1> USE NamesAssumption, BoundsAssumption
<1> USE DEF Met, TypeOK
<1>1. ASSUME NEW d \in Docs, Revise(d) PROVE Met'
  BY <1>1 DEF Revise, Place, Open
<1>2. ASSUME NEW d \in Docs, NEW l \in Listers, Relist(d, l)
      PROVE  Met'
  BY <1>2 DEF Relist, Place, Open
<1>3. ASSUME SetCredentials PROVE Met'
  BY <1>3 DEF SetCredentials, Edit, Enqueue, Place, Open
<1>4. ASSUME WriteStatus PROVE Met'
  BY <1>4 DEF WriteStatus, Place, Open
<1>5. ASSUME RequestSync PROVE Met'
  BY <1>5 DEF RequestSync, Enqueue, Place, Open
<1>6. ASSUME Delete PROVE Met'
  BY <1>6 DEF Delete, Edit, Place, Open
<1>7. ASSUME NEW new \in {"active", "paused"}, ReadStatus(new)
      PROVE  Met'
  BY <1>7 DEF ReadStatus, Edit, Place, Open
<1>8. ASSUME NEW u \in Users, Connect(u) PROVE Met'
  BY <1>8 DEF Connect, Edit, Enqueue, Place, Open
<1>9. ASSUME NEW u \in Users, RenewToken(u) PROVE Met'
  BY <1>9 DEF RenewToken, Edit, Place, Open
<1>10. ASSUME NEW u \in Users, Disconnect(u) PROVE Met'
  BY <1>10 DEF Disconnect, Edit, Place, Open
<1>11. ASSUME BackoffEnds PROVE Met'
  BY <1>11 DEF BackoffEnds, Place, Open
<1>12. ASSUME Claim PROVE Met'
  BY <1>12 DEF Claim, Place, Open
<1>13. ASSUME Crash PROVE Met'
  BY <1>13 DEF Crash, Forget, Place, Open
<1>14. ASSUME Settle PROVE Met'
  BY <1>14 DEF Settle, Forget, Place, Open
<1>15. ASSUME connector # "deleted", Skip PROVE Met'
  BY <1>15 DEF Skip, Place, Open
<1>16. ASSUME connector # "deleted", BeginRun PROVE Met'
  BY <1>16 DEF BeginRun, Place, Open
<1>17. ASSUME connector # "deleted", StopWithoutCredentials PROVE Met'
  BY <1>17 DEF StopWithoutCredentials, Stop, Forget, Place, Open
<1>18. ASSUME connector # "deleted", NEW l \in Listers, OpenListing(l)
      PROVE  Met'
  BY <1>18 DEF OpenListing, Place, Open
<1>19. ASSUME connector # "deleted", NEW d \in Docs, Meet(d)
      PROVE  Met'
  BY <1>19 DEF Meet, Recorded, ApplyAccess, Yields, Place, Open
<1>20. ASSUME connector # "deleted", NEW d \in Docs, BeginFetch(d)
      PROVE  Met'
  BY <1>20 DEF BeginFetch, Yields, Place, Open
<1>21. ASSUME connector # "deleted", StoreDocument PROVE Met'
  BY <1>21 DEF StoreDocument, Recorded, ApplyAccess, Place, Open
<1>22. ASSUME connector # "deleted", DocumentFails PROVE Met'
  BY <1>22 DEF DocumentFails, Place, Open
<1>23. ASSUME connector # "deleted", OutOfTime PROVE Met'
  BY <1>23 DEF OutOfTime, PersistRefresh, Close, Place, Open
<1>24. ASSUME connector # "deleted", EndListing PROVE Met'
  BY <1>24 DEF EndListing, Close, PersistRefresh, Place, Open
<1>25. ASSUME connector # "deleted", Refuse PROVE Met'
  BY <1>25 DEF Refuse, Stop, Place, Open
<1>26. ASSUME connector # "deleted", SaveTokensOfStopped PROVE Met'
  BY <1>26 DEF SaveTokensOfStopped, PersistRefresh, Forget, Place, Open
<1>27. ASSUME connector # "deleted", ExpireGrant PROVE Met'
  BY <1>27 DEF ExpireGrant, Close, Place, Open
<1>28. ASSUME connector # "deleted", RenewedElsewhere PROVE Met'
  BY <1>28 DEF RenewedElsewhere, Close, Place, Open
<1>29. ASSUME connector # "deleted", SourceFails PROVE Met'
  BY <1>29 DEF SourceFails, PersistRefresh, Forget, Place, Open
<1>30. ASSUME connector # "deleted", EndRun PROVE Met'
  BY <1>30 DEF EndRun, Forget, Place, Open
<1>31. ASSUME UNCHANGED vars PROVE Met'
  BY <1>31 DEF vars, Place, Open
<1> QED
  BY <1>1, <1>2, <1>3, <1>4, <1>5, <1>6, <1>7, <1>8, <1>9, <1>10, <1>11, <1>12,
     <1>13, <1>14, <1>15, <1>16, <1>17, <1>18, <1>19, <1>20, <1>21, <1>22,
     <1>23, <1>24, <1>25, <1>26, <1>27, <1>28, <1>29, <1>30, <1>31
  DEF Next, Source, People, Run

\* ... that what is met is stored in its current text,
LEMMA KeptNext ==
    ASSUME TypeOK, Place, Named, Kept, [Next]_vars
    PROVE  Kept'
<1> USE NamesAssumption, BoundsAssumption
<1> USE DEF Kept, TypeOK, Current
<1>1. ASSUME NEW d \in Docs, Revise(d) PROVE Kept'
  BY <1>1 DEF Revise, Place, Named, VersionTellsText, UpToDate, Stored
<1>2. ASSUME NEW d \in Docs, NEW l \in Listers, Relist(d, l)
      PROVE  Kept'
  BY <1>2 DEF Relist, Place, Named, VersionTellsText, UpToDate, Stored
<1>3. ASSUME SetCredentials PROVE Kept'
  BY <1>3 DEF SetCredentials, Edit, Enqueue, Place, Named, VersionTellsText, UpToDate, Stored
<1>4. ASSUME WriteStatus PROVE Kept'
  BY <1>4 DEF WriteStatus, Place, Named, VersionTellsText, UpToDate, Stored
<1>5. ASSUME RequestSync PROVE Kept'
  BY <1>5 DEF RequestSync, Enqueue, Place, Named, VersionTellsText, UpToDate, Stored
<1>6. ASSUME Delete PROVE Kept'
  BY <1>6 DEF Delete, Edit, Place, Named, VersionTellsText, UpToDate, Stored
<1>7. ASSUME NEW new \in {"active", "paused"}, ReadStatus(new)
      PROVE  Kept'
  BY <1>7 DEF ReadStatus, Edit, Place, Named, VersionTellsText, UpToDate, Stored
<1>8. ASSUME NEW u \in Users, Connect(u) PROVE Kept'
  BY <1>8 DEF Connect, Edit, Enqueue, Place, Named, VersionTellsText, UpToDate, Stored
<1>9. ASSUME NEW u \in Users, RenewToken(u) PROVE Kept'
  BY <1>9 DEF RenewToken, Edit, Place, Named, VersionTellsText, UpToDate, Stored
<1>10. ASSUME NEW u \in Users, Disconnect(u) PROVE Kept'
  BY <1>10 DEF Disconnect, Edit, Place, Named, VersionTellsText, UpToDate, Stored
<1>11. ASSUME BackoffEnds PROVE Kept'
  BY <1>11 DEF BackoffEnds, Place, Named, VersionTellsText, UpToDate, Stored
<1>12. ASSUME Claim PROVE Kept'
  BY <1>12 DEF Claim, Place, Named, VersionTellsText, UpToDate, Stored
<1>13. ASSUME Crash PROVE Kept'
  BY <1>13 DEF Crash, Forget, Place, Named, VersionTellsText, UpToDate, Stored
<1>14. ASSUME Settle PROVE Kept'
  BY <1>14 DEF Settle, Forget, Place, Named, VersionTellsText, UpToDate, Stored
<1>15. ASSUME connector # "deleted", Skip PROVE Kept'
  BY <1>15 DEF Skip, Place, Named, VersionTellsText, UpToDate, Stored
<1>16. ASSUME connector # "deleted", BeginRun PROVE Kept'
  BY <1>16 DEF BeginRun, Place, Named, VersionTellsText, UpToDate, Stored
<1>17. ASSUME connector # "deleted", StopWithoutCredentials PROVE Kept'
  BY <1>17 DEF StopWithoutCredentials, Stop, Forget, Place, Named, VersionTellsText, UpToDate, Stored
<1>18. ASSUME connector # "deleted", NEW l \in Listers, OpenListing(l)
      PROVE  Kept'
  BY <1>18 DEF OpenListing, Place, Named, VersionTellsText, UpToDate, Stored
<1>19. ASSUME connector # "deleted", NEW d \in Docs, Meet(d)
      PROVE  Kept'
  BY <1>19 DEF Meet, Recorded, ApplyAccess, Yields, Place, Named, VersionTellsText, UpToDate, Stored
<1>20. ASSUME connector # "deleted", NEW d \in Docs, BeginFetch(d)
      PROVE  Kept'
  BY <1>20 DEF BeginFetch, Yields, Place, Named, VersionTellsText, UpToDate, Stored
<1>21. ASSUME connector # "deleted", StoreDocument PROVE Kept'
  BY <1>21 DEF StoreDocument, Recorded, ApplyAccess, Place, Named, VersionTellsText, UpToDate, Stored
<1>22. ASSUME connector # "deleted", DocumentFails PROVE Kept'
  BY <1>22 DEF DocumentFails, Place, Named, VersionTellsText, UpToDate, Stored
<1>23. ASSUME connector # "deleted", OutOfTime PROVE Kept'
  BY <1>23 DEF OutOfTime, PersistRefresh, Close, Place, Named, VersionTellsText, UpToDate, Stored
<1>24. ASSUME connector # "deleted", EndListing PROVE Kept'
  BY <1>24 DEF EndListing, Close, PersistRefresh, Place, Named, VersionTellsText, UpToDate, Stored
<1>25. ASSUME connector # "deleted", Refuse PROVE Kept'
  BY <1>25 DEF Refuse, Stop, Place, Named, VersionTellsText, UpToDate, Stored
<1>26. ASSUME connector # "deleted", SaveTokensOfStopped PROVE Kept'
  BY <1>26 DEF SaveTokensOfStopped, PersistRefresh, Forget, Place, Named, VersionTellsText, UpToDate, Stored
<1>27. ASSUME connector # "deleted", ExpireGrant PROVE Kept'
  BY <1>27 DEF ExpireGrant, Close, Place, Named, VersionTellsText, UpToDate, Stored
<1>28. ASSUME connector # "deleted", RenewedElsewhere PROVE Kept'
  BY <1>28 DEF RenewedElsewhere, Close, Place, Named, VersionTellsText, UpToDate, Stored
<1>29. ASSUME connector # "deleted", SourceFails PROVE Kept'
  BY <1>29 DEF SourceFails, PersistRefresh, Forget, Place, Named, VersionTellsText, UpToDate, Stored
<1>30. ASSUME connector # "deleted", EndRun PROVE Kept'
  BY <1>30 DEF EndRun, Forget, Place, Named, VersionTellsText, UpToDate, Stored
<1>31. ASSUME UNCHANGED vars PROVE Kept'
  BY <1>31 DEF vars, Place, Named, VersionTellsText, UpToDate, Stored
<1> QED
  BY <1>1, <1>2, <1>3, <1>4, <1>5, <1>6, <1>7, <1>8, <1>9, <1>10, <1>11, <1>12,
     <1>13, <1>14, <1>15, <1>16, <1>17, <1>18, <1>19, <1>20, <1>21, <1>22,
     <1>23, <1>24, <1>25, <1>26, <1>27, <1>28, <1>29, <1>30, <1>31
  DEF Next, Source, People, Run

\* ... and the rights of whom the run has walked.
LEMMA RightsNext ==
    ASSUME TypeOK, Place, Open, Met, Rights, [Next]_vars
    PROVE  Rights'
<1> USE NamesAssumption, BoundsAssumption
<1> USE DEF Rights, TypeOK
<1>1. ASSUME NEW d \in Docs, Revise(d) PROVE Rights'
  BY <1>1 DEF Revise, Place, Open
<1>2. ASSUME NEW d \in Docs, NEW l \in Listers, Relist(d, l)
      PROVE  Rights'
  BY <1>2 DEF Relist, Place, Open
<1>3. ASSUME SetCredentials PROVE Rights'
  BY <1>3 DEF SetCredentials, Edit, Enqueue, Place, Open
<1>4. ASSUME WriteStatus PROVE Rights'
  BY <1>4 DEF WriteStatus, Place, Open
<1>5. ASSUME RequestSync PROVE Rights'
  BY <1>5 DEF RequestSync, Enqueue, Place, Open
<1>6. ASSUME Delete PROVE Rights'
  BY <1>6 DEF Delete, Edit, Place, Open
<1>7. ASSUME NEW new \in {"active", "paused"}, ReadStatus(new)
      PROVE  Rights'
  BY <1>7 DEF ReadStatus, Edit, Place, Open
<1>8. ASSUME NEW u \in Users, Connect(u) PROVE Rights'
  BY <1>8 DEF Connect, Edit, Enqueue, Place, Open
<1>9. ASSUME NEW u \in Users, RenewToken(u) PROVE Rights'
  BY <1>9 DEF RenewToken, Edit, Place, Open
<1>10. ASSUME NEW u \in Users, Disconnect(u) PROVE Rights'
  BY <1>10 DEF Disconnect, Edit, Place, Open
<1>11. ASSUME BackoffEnds PROVE Rights'
  BY <1>11 DEF BackoffEnds, Place, Open
<1>12. ASSUME Claim PROVE Rights'
  BY <1>12 DEF Claim, Place, Open
<1>13. ASSUME Crash PROVE Rights'
  BY <1>13 DEF Crash, Forget, Place, Open
<1>14. ASSUME Settle PROVE Rights'
  BY <1>14 DEF Settle, Forget, Place, Open
<1>15. ASSUME connector # "deleted", Skip PROVE Rights'
  BY <1>15 DEF Skip, Place, Open
<1>16. ASSUME connector # "deleted", BeginRun PROVE Rights'
  BY <1>16 DEF BeginRun, Place, Open
<1>17. ASSUME connector # "deleted", StopWithoutCredentials PROVE Rights'
  BY <1>17 DEF StopWithoutCredentials, Stop, Forget, Place, Open
<1>18. ASSUME connector # "deleted", NEW l \in Listers, OpenListing(l)
      PROVE  Rights'
  BY <1>18 DEF OpenListing, Place, Open
<1>19. ASSUME connector # "deleted", NEW d \in Docs, Meet(d)
      PROVE  Rights'
  BY <1>19 DEF Meet, Recorded, ApplyAccess, Yields, Place, Open
<1>20. ASSUME connector # "deleted", NEW d \in Docs, BeginFetch(d)
      PROVE  Rights'
  BY <1>20 DEF BeginFetch, Yields, Place, Open
<1>21. ASSUME connector # "deleted", StoreDocument PROVE Rights'
  BY <1>21 DEF StoreDocument, Recorded, ApplyAccess, Place, Open
<1>22. ASSUME connector # "deleted", DocumentFails PROVE Rights'
  BY <1>22 DEF DocumentFails, Place, Open
<1>23. ASSUME connector # "deleted", OutOfTime PROVE Rights'
  BY <1>23 DEF OutOfTime, PersistRefresh, Close, Place, Open
<1>24. ASSUME connector # "deleted", EndListing PROVE Rights'
  BY <1>24 DEF EndListing, Close, PersistRefresh, Place, Open
<1>25. ASSUME connector # "deleted", Refuse PROVE Rights'
  BY <1>25 DEF Refuse, Stop, Place, Open
<1>26. ASSUME connector # "deleted", SaveTokensOfStopped PROVE Rights'
  BY <1>26 DEF SaveTokensOfStopped, PersistRefresh, Forget, Place, Open
<1>27. ASSUME connector # "deleted", ExpireGrant PROVE Rights'
  BY <1>27 DEF ExpireGrant, Close, Place, Open
<1>28. ASSUME connector # "deleted", RenewedElsewhere PROVE Rights'
  BY <1>28 DEF RenewedElsewhere, Close, Place, Open
<1>29. ASSUME connector # "deleted", SourceFails PROVE Rights'
  BY <1>29 DEF SourceFails, PersistRefresh, Forget, Place, Open
<1>30. ASSUME connector # "deleted", EndRun PROVE Rights'
  BY <1>30 DEF EndRun, Forget, Place, Open
<1>31. ASSUME UNCHANGED vars PROVE Rights'
  BY <1>31 DEF vars, Place, Open
<1> QED
  BY <1>1, <1>2, <1>3, <1>4, <1>5, <1>6, <1>7, <1>8, <1>9, <1>10, <1>11, <1>12,
     <1>13, <1>14, <1>15, <1>16, <1>17, <1>18, <1>19, <1>20, <1>21, <1>22,
     <1>23, <1>24, <1>25, <1>26, <1>27, <1>28, <1>29, <1>30, <1>31
  DEF Next, Source, People, Run

\* The invariant holds at first,
LEMMA InitHolds ==
    Init => SyncInv
<1> SUFFICES ASSUME Init PROVE SyncInv
  OBVIOUS
<1> USE NamesAssumption, BoundsAssumption DEF Init, Current
<1>1. TypeOK
  BY DEF TypeOK, Listers, Versions, Creds, Outcomes, Steps
<1>2. Place /\ Tries /\ Named
  BY DEF Place, Tries, Named, VersionTellsText, Stored, Running
<1>3. Held /\ NoGrantNoAccess
  BY DEF Held, HeldByRun, NoGrantNoAccess
<1>4. Open /\ Met /\ Kept /\ Rights
  BY DEF Open, Met, Kept, Rights
<1> QED BY <1>1, <1>2, <1>3, <1>4 DEF SyncInv

\* ... is kept by every step,
LEMMA InvNext ==
    SyncInv /\ [Next]_vars => SyncInv'
<1> SUFFICES ASSUME SyncInv, [Next]_vars PROVE SyncInv'
  OBVIOUS
<1> USE DEF SyncInv
<1>1. TypeOK' /\ Place'
  BY TypeNext, PlaceNext
<1>2. Tries' /\ Named'
  BY <1>1, TriesNext, NamedNext
<1>3. Held' /\ NoGrantNoAccess'
  BY HeldNext, NoGrantNext
<1>4. Open' /\ Met' /\ Kept' /\ Rights'
  BY OpenNext, MetNext, KeptNext, RightsNext
<1> QED BY <1>1, <1>2, <1>3, <1>4

\* ... and so holds always.
LEMMA Invariant ==
    Spec => []SyncInv
  BY InitHolds, InvNext, PTL DEF Spec

\* A document is never kept in an old text under a new version, and the job's attempts,
\* with the worker's deaths, stay in their bound.
THEOREM MaterialsSoundAlways ==
    Spec => []MaterialsSound
<1>1. SyncInv => MaterialsSound
  BY DEF SyncInv, Named, MaterialsSound
<1> QED BY <1>1, Invariant, PTL

\* Who has disconnected sees nothing by his former account.
THEOREM NoGrantNoAccessAlways ==
    Spec => []NoGrantNoAccess
<1>1. SyncInv => NoGrantNoAccess
  BY DEF SyncInv
<1> QED BY <1>1, Invariant, PTL

\* Only the end of a run reports success.
LEMMA SuccessIsEndRun ==
    ASSUME SyncInv, [Next]_vars, Succeeds
    PROVE  connector # "deleted" /\ EndRun /\ complete /\ failed = {}
<1>1. ASSUME ~EndRun PROVE FALSE
  BY <1>1 DEF SyncInv, TypeOK, Succeeds, Next, vars, Source, People, Run, Revise, Relist,
     SetCredentials, WriteStatus, RequestSync, Delete, ReadStatus, Connect, RenewToken,
     Disconnect, BackoffEnds, Claim, Crash, Settle, Skip, BeginRun, StopWithoutCredentials,
     OpenListing, Meet, BeginFetch, Yields, StoreDocument, DocumentFails, OutOfTime,
     EndListing, Refuse, SaveTokensOfStopped, ExpireGrant, RenewedElsewhere, SourceFails
<1>2. connector # "deleted"
  BY DEF SyncInv, TypeOK, Succeeds, Next, vars, Source, People, Run, Revise, Relist,
     SetCredentials, WriteStatus, RequestSync, Delete, ReadStatus, Connect, RenewToken,
     Disconnect, BackoffEnds, Claim, Crash, Settle
<1> QED BY <1>1, <1>2 DEF EndRun, Succeeds

\* What such a run leaves of a document the source has not touched.
LEMMA SuccessMirrors ==
    ASSUME SyncInv, [Next]_vars, Succeeds, NEW d \in steady
    PROVE  /\ (\E l \in walkers : d \in listing[l]) => Stored(d)'
           /\ Stored(d)' => content'[d] = version[d] /\ \E l \in Current : d \in listing[l]
           /\ \A u \in (walkers \cap Users) \ late : u \in access'[d] <=> d \in listing[u]
<1>1. connector # "deleted" /\ EndRun /\ complete /\ failed = {}
  BY SuccessIsEndRun
<1>2. d \in Docs /\ lister = NoOne /\ fetching = NoDoc /\ todo = {} /\ 0 < version[d]
  BY <1>1 DEF EndRun, SyncInv, Place, TypeOK, Named
<1>3. \A l \in walkers : d \in listing[l] => d \in seen
  BY <1>1, <1>2, NamesAssumption DEF SyncInv, Met, TypeOK, Listers
<1>4. d \in seen => content[d] = version[d] /\ \E l \in Current : d \in listing[l]
  BY <1>1 DEF SyncInv, Kept
<1>5. \A u \in walkers \cap Users : u \in access[d] <=> d \in listing[u]
  BY <1>1, <1>2, NamesAssumption DEF SyncInv, Rights
<1>6. /\ content'[d] = IF d \in seen THEN content[d] ELSE 0
      /\ access'[d] = IF d \in seen THEN access[d] ELSE {}
  BY <1>1, <1>2 DEF EndRun
<1> QED BY <1>2, <1>3, <1>4, <1>5, <1>6 DEF Stored

\* A run that ends SUCCEEDED leaves the documents of the source and the rights to them as
\* the listings it has walked have them.
THEOREM MirrorsSourceAlways ==
    Spec => MirrorsSource
<1>1. SyncInv /\ [Next]_vars =>
        [Succeeds =>
          \A d \in steady :
             /\ (\E l \in walkers : d \in listing[l]) => Stored(d)'
             /\ Stored(d)' => content'[d] = version[d] /\ \E l \in Current : d \in listing[l]
             /\ \A u \in (walkers \cap Users) \ late : u \in access'[d] <=> d \in listing[u]
        ]_vars
  BY SuccessMirrors
<1> QED BY <1>1, Invariant, PTL DEF Spec, MirrorsSource

\* Only the end of a complete run and the deletion of the connector remove a document.
LEMMA RemovalIsProven ==
    ASSUME SyncInv, [Next]_vars, NEW d \in Docs, Stored(d), ~Stored(d)'
    PROVE  \/ connector' = "deleted"
           \/ d \in failed
           \/ d \notin steady
           \/ \A l \in walkers : d \notin listing[l]
<1>1. ASSUME StoreDocument PROVE FALSE
  BY <1>1 DEF StoreDocument, SyncInv, Named, TypeOK, Stored
<1>2. ASSUME ~EndRun, ~Delete PROVE FALSE
  BY <1>1, <1>2 DEF Stored, Next, vars, Source, People, Run, Revise, Relist,
     SetCredentials, WriteStatus, RequestSync, ReadStatus, Connect, RenewToken,
     Disconnect, BackoffEnds, Claim, Crash, Settle, Skip, BeginRun, StopWithoutCredentials, Stop,
     OpenListing, Meet, BeginFetch, DocumentFails, OutOfTime,
     EndListing, Refuse, SaveTokensOfStopped, ExpireGrant, RenewedElsewhere, SourceFails
<1>3. CASE Delete
  BY <1>3 DEF Delete
<1>4. CASE EndRun
  <2>1. complete /\ d \notin seen /\ lister = NoOne /\ todo = {}
    BY <1>4 DEF EndRun, Stored, SyncInv, Place
  <2>2. \A l \in walkers : l # lister /\ l \notin todo
    BY <2>1, NamesAssumption DEF SyncInv, TypeOK, Listers
  <2> QED BY <2>1, <2>2 DEF SyncInv, Met
<1> QED BY <1>2, <1>3, <1>4

\* An interrupted walk removes nothing: a stored document goes with its connector, or when
\* no listing has proven to have it.
THEOREM RemovedIfAbsentAlways ==
    Spec => RemovedIfAbsent
<1>1. SyncInv /\ [Next]_vars =>
        [\A d \in Docs :
          Stored(d) /\ ~Stored(d)' =>
             \/ connector' = "deleted"
             \/ d \in failed
             \/ d \notin steady
             \/ \A l \in walkers : d \notin listing[l]
        ]_vars
  BY RemovalIsProven
<1> QED BY <1>1, Invariant, PTL DEF Spec, RemovedIfAbsent
=============================================================================
