------------------------------ MODULE Sessions ------------------------------
(***************************************************************************)
(* Sessions of one account: chains of refresh tokens (refresh_tokens rows  *)
(* of one family_id) and the access tokens issued with them (AuthService,  *)
(* MfaService.end_session, the check of an access token in dependencies    *)
(* and the nightly purge of expired rows).                                 *)
(*                                                                         *)
(* A request is a transaction of PostgreSQL under READ COMMITTED, in two   *)
(* steps: the first takes its row locks or its statement snapshot, the     *)
(* second writes and commits.  An UPDATE sees the rows committed before it *)
(* started, waits for those another request has locked, and misses a row   *)
(* that is inserted meanwhile; that is the race the module is about.       *)
(*                                                                         *)
(* The company of a session, the second factor and the audit are left out. *)
(***************************************************************************)
EXTENDS Integers, FiniteSets

CONSTANTS
    Families,     \* logins, by family_id
    Requests,     \* requests the server is working on; a bound
    MaxRows,      \* bound: rows of a family
    Ttl,          \* refresh_token_ttl_days, in ticks
    Life,         \* access_token_ttl_minutes
    Grace,        \* REFRESH_TOKEN_GRACE
    MaxVersion,   \* bound: account versions
    LastTick      \* bound: the time

ASSUME TimesAssumption ==
    Ttl \in Nat \ {0} /\ Grace \in Nat /\ Life \in 1..Ttl
ASSUME BoundsAssumption ==
    MaxRows \in Nat \ {0} /\ MaxVersion \in Nat /\ LastTick \in Nat

VARIABLES
    now,      \* the time
    row,      \* refresh_tokens, by family and place in the chain
    version,  \* accounts.token_version
    started,  \* families that have begun
    req,      \* what each request is doing
    closed    \* history: families a finished request has ended

vars == <<now, row, version, started, req, closed>>

Rows == Families \X (1..MaxRows)

NoRow == [in |-> FALSE, used |-> FALSE, revoked |-> FALSE, born |-> 0, ver |-> 0]

Idle == [does |-> "nothing", at |-> 0, ver |-> 0, seen |-> {}]

\* What a request may do: hold a token to rotate it, open a session with a
\* password it has checked, end all sessions, or end one.
Doing == {"nothing", "rotates", "opens", "ends_all", "ends_one"}

---------------------------------------------------------------------------

FreshRow(v) ==
    [in |-> TRUE, used |-> FALSE, revoked |-> FALSE, born |-> now, ver |-> v]

Expired(t) == row[t].born + Ttl <= now

\* A request that will rotate t holds its row (get_by_hash, FOR UPDATE).
Locked(t) == \E r \in Requests : req[r].does = "rotates" /\ t \in req[r].seen

\* invalidate_sessions writes the account before it revokes the tokens, and
\* open_session writes last_login_at before it inserts its token.
AccountLocked == \E r \in Requests : req[r].does = "ends_all"

OfFamily(f) == {t \in {f} \X (1..MaxRows) : row[t].in}

FamilyRevoked(f) == \E t \in OfFamily(f) : row[t].revoked

\* Mutant of Accepted: the row of the token is asked, not its family.
AcceptedByRow(t, v, born) ==
    /\ now < born + Life
    /\ v = version
    /\ ~row[t].revoked

\* The access token issued with row t passes the check of a request.  It
\* carries the family and the version of the account, not the row.
Accepted(t, v, born) ==
    /\ now < born + Life
    /\ v = version
    /\ ~FamilyRevoked(t[1])

\* n is the place after the newest row of the family.
NextPlace(f, n) ==
    /\ \A s \in OfFamily(f) : s[2] < n
    /\ n = 1 \/ row[<<f, n - 1>>].in

---------------------------------------------------------------------------

Init ==
    /\ now = 0
    /\ row = [t \in Rows |-> NoRow]
    /\ version = 0
    /\ started = {}
    /\ req = [r \in Requests |-> Idle]
    /\ closed = {}

Begin(r, what, v, seen) ==
    /\ req[r] = Idle
    /\ req' = [req EXCEPT ![r] = [does |-> what, at |-> now, ver |-> v, seen |-> seen]]

Done(r) == req' = [req EXCEPT ![r] = Idle]

\* A login has checked the password against the account it has read.
CheckPassword(r) ==
    /\ started # Families
    /\ Begin(r, "opens", version, {})
    /\ UNCHANGED <<now, row, version, started, closed>>

\* open_session: a family of its own, with the version read then.
OpenSession(r, f) ==
    /\ req[r].does = "opens"
    /\ ~AccountLocked
    /\ f \notin started
    /\ row' = [row EXCEPT ![<<f, 1>>] = FreshRow(req[r].ver)]
    /\ started' = started \cup {f}
    /\ Done(r)
    /\ UNCHANGED <<now, version, closed>>

\* Mutant of BeginRotation: the row is read without FOR UPDATE.
BeginRotationUnlocked(r, t) ==
    /\ row[t].in
    /\ ~row[t].used /\ ~row[t].revoked /\ ~Expired(t)
    /\ Begin(r, "rotates", version, {t})
    /\ UNCHANGED <<now, row, version, started, closed>>

\* refresh with a token that is neither used, revoked nor expired: the row is
\* locked and the account read.
BeginRotation(r, t) ==
    /\ row[t].in /\ ~Locked(t)
    /\ ~row[t].used /\ ~row[t].revoked /\ ~Expired(t)
    /\ Begin(r, "rotates", version, {t})
    /\ UNCHANGED <<now, row, version, started, closed>>

\* ... it is marked used and its successor inserted in the same transaction.
Rotate(r) ==
    \E t \in req[r].seen, n \in 1..MaxRows :
        /\ req[r].does = "rotates"
        /\ NextPlace(t[1], n)
        /\ row' = [row EXCEPT ![t].used = TRUE,
                              ![<<t[1], n>>] = FreshRow(req[r].ver)]
        /\ Done(r)
        /\ UNCHANGED <<now, version, started, closed>>

\* refresh with a used or revoked token, logout, end_session and
\* switch_company: the UPDATE of one family starts.  One that finds nothing
\* to revoke changes nothing.
BeginEndOne(r, f) ==
    /\ \E t \in OfFamily(f) : ~row[t].revoked
    /\ Begin(r, "ends_one", version, {t \in OfFamily(f) : ~row[t].revoked})
    /\ UNCHANGED <<now, row, version, started, closed>>

\* logout_everywhere, change_password, reset_password, revert_email_change
\* and the operator's resets: the account's row first, then its tokens.  The
\* request read the account when it began, without a lock: what it adds one to
\* may be an older version.
BeginEndAll(r) ==
    /\ ~AccountLocked
    /\ \E v \in 0..version :
          /\ v < MaxVersion
          /\ Begin(r, "ends_all", v, {t \in Rows : row[t].in /\ ~row[t].revoked})
    /\ UNCHANGED <<now, row, version, started, closed>>

\* The rows the UPDATE saw are revoked once none of them is locked.  Some
\* callers open a new session in the same transaction: opened is its family,
\* or nothing.
Revoke(r, opened) ==
    LET seen == {t \in req[r].seen : row[t].in}
        ver == IF req[r].does = "ends_all" THEN req[r].ver + 1 ELSE req[r].ver
        kept == [t \in Rows |-> IF t \in seen
                                THEN [row[t] EXCEPT !.revoked = TRUE]
                                ELSE row[t]]
    IN  /\ req[r].does \in {"ends_all", "ends_one"}
        /\ \A t \in req[r].seen : ~Locked(t)
        /\ row' = [t \in Rows |-> IF t[1] \in opened /\ t[2] = 1
                                  THEN FreshRow(ver) ELSE kept[t]]
        /\ started' = started \cup opened
        /\ closed' = closed \cup {t[1] : t \in seen}

EndOne(r) ==
    /\ req[r].does = "ends_one"
    /\ \/ Revoke(r, {})
       \/ \E f \in Families \ started : Revoke(r, {f})
    /\ Done(r)
    /\ UNCHANGED <<now, version>>

\* Mutant of EndAll: the version is taken down.
EndAllBackwards(r) ==
    /\ req[r].does = "ends_all"
    /\ \/ Revoke(r, {})
       \/ \E f \in Families \ started : Revoke(r, {f})
    /\ version' = req[r].ver - 1
    /\ Done(r)
    /\ UNCHANGED now

EndAll(r) ==
    /\ req[r].does = "ends_all"
    /\ \/ Revoke(r, {})
       \/ \E f \in Families \ started : Revoke(r, {f})
    /\ version' = req[r].ver + 1
    /\ Done(r)
    /\ UNCHANGED now

\* Mutant of Forgotten: every row whose grace is over is deleted.
ForgottenAll(t) ==
    /\ row[t].in /\ row[t].born + Ttl + Grace < now

\* delete_expired_before: a row whose grace is over is deleted, but for the
\* first row of a family that has a later expiry.
Forgotten(t) ==
    /\ row[t].in /\ row[t].born + Ttl + Grace < now
    /\ \/ \A s \in OfFamily(t[1]) : row[s].born + Ttl + Grace < now
       \/ \E s \in OfFamily(t[1]) : s[2] < t[2]

Purge ==
    /\ \E t \in Rows : Forgotten(t)
    /\ row' = [t \in Rows |-> IF Forgotten(t) THEN NoRow ELSE row[t]]
    /\ UNCHANGED <<now, version, started, req, closed>>

\* A tick is hours long: a request crosses one at most.
Tick ==
    /\ now < LastTick
    /\ \A r \in Requests : req[r] = Idle \/ req[r].at = now
    /\ now' = now + 1
    /\ UNCHANGED <<row, version, started, req, closed>>

Next ==
    \/ \E r \in Requests :
          \/ CheckPassword(r) \/ Rotate(r) \/ BeginEndAll(r)
          \/ EndOne(r) \/ EndAll(r)
          \/ \E f \in Families : OpenSession(r, f) \/ BeginEndOne(r, f)
          \/ \E t \in Rows : BeginRotation(r, t)
    \/ Purge
    \/ Tick

Spec == Init /\ [][Next]_vars

---------------------------------------------------------------------------

\* Each variable stays in its type.
TypeOK ==
    /\ now \in Nat
    /\ row \in [Rows -> [in : BOOLEAN, used : BOOLEAN, revoked : BOOLEAN,
                         born : Nat, ver : Nat]]
    /\ version \in Nat
    /\ started \subseteq Families
    /\ req \in [Requests -> [does : Doing, at : Nat, ver : Nat,
                             seen : SUBSET Rows]]
    /\ closed \subseteq started

\* A session that was ended stays ended: no access token of it is accepted,
\* whatever rotation overtook the UPDATE that ended it and whatever the purge
\* has deleted since (family_revoked, delete_expired_before).
ClosedStaysClosed ==
    \A t \in Rows : row[t].in /\ t[1] \in closed => ~Accepted(t, row[t].ver, row[t].born)

\* A family has one token at most that can still be exchanged: a token is
\* rotated once, however many requests present it (get_by_hash, FOR UPDATE).
OneTokenLives ==
    \A f \in Families : \A s, t \in OfFamily(f) : ~row[s].used /\ ~row[t].used => s = t

\* Where a family is in its life: it has ended once one of its rows is revoked,
\* or all are deleted.
LifeOf(f) ==
    IF f \notin started THEN "new"
    ELSE IF OfFamily(f) = {} \/ FamilyRevoked(f) THEN "ended"
    ELSE "open"

\* The families with an access token that is accepted.
WithAccess ==
    {f \in Families : \E t \in OfFamily(f) : Accepted(t, row[t].ver, row[t].born)}

Promise == INSTANCE SessionLife WITH life <- [f \in Families |-> LifeOf(f)],
                                     access <- WithAccess

\* A session ends once and for all: however requests, rotations and the purge
\* interleave, no family comes back from its end (family_revoked reads one
\* revoked row as the end of the chain).
EndsForGood == Promise!Spec

=============================================================================
