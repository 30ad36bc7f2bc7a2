------------------------------ MODULE Members -------------------------------
(***************************************************************************)
(* The people of one company: invitations, seats, roles (InviteService,    *)
(* UserService, AccountService.leave_company and erase_account,            *)
(* seats.ensure_free_seat, TenantService.set_seats).                       *)
(*                                                                         *)
(* A request reads the row of a person without a lock, decides, and writes *)
(* at its commit only the columns whose value it has changed; another      *)
(* request may commit in between.  What takes a seat locks the company and *)
(* counts the active people first, but compares them with the seats the    *)
(* request has read before (the session keeps the object it has loaded);   *)
(* joining locks the invitation.                                           *)
(*                                                                         *)
(* Left out: the departments, the versions of tokens (see Sessions), the   *)
(* domains of e-mail.  Expiry of an invitation is its revocation: neither  *)
(* has uses left.                                                          *)
(***************************************************************************)
EXTENDS Integers, FiniteSets

CONSTANTS
    People,    \* accounts that may be members
    Founder,   \* the one the company was created for
    Invites,   \* invitations the administrator has given out
    Approval,  \* ... the ones whose guests wait for an approval
    AdminInvites, \* ... the ones that give the role of an administrator
    Requests,  \* requests the server is working on; a bound
    MaxUses,   \* max_uses of an invitation
    MaxSeats   \* bound: seats of the company

ASSUME PeopleAssumption == Founder \in People /\ IsFiniteSet(People)
ASSUME InvitesAssumption == Approval \subseteq Invites /\ AdminInvites \subseteq Invites
ASSUME BoundsAssumption == MaxUses \in Nat \ {0} /\ MaxSeats \in Nat \ {0}

VARIABLES
    member,   \* users: status and role of each person
    seats,    \* tenants.seats
    uses,     \* uses each invitation has left: none once it is revoked
    req,      \* what each request has read and will write
    overlap   \* history: administrators were taken by overlapping requests

vars == <<member, seats, uses, req, overlap>>

Status == {"none", "active", "blocked", "pending", "left"}

Member == [status : Status, admin : BOOLEAN]

Stranger == [status |-> "none", admin |-> FALSE]

Idle == [busy |-> FALSE, who |-> Founder, had |-> 0, cols |-> {}, wants |-> Stranger,
         late |-> FALSE]

---------------------------------------------------------------------------

Active == {p \in People : member[p].status = "active"}

Admins == {p \in Active : member[p].admin}

\* Mutant of FreeSeat: off by one at the limit.
FreeSeatOneMore(r) == Cardinality(Active) <= req[r].had

\* ensure_free_seat.
FreeSeat(r) == Cardinality(Active) < req[r].had

\* An administrator other than p asks.
ByAdmin(p) == Admins \ {p} # {}

\* p is an active administrator in m and would not be one in n.
Loses(m, n) == m.status = "active" /\ m.admin /\ ~(n.status = "active" /\ n.admin)

\* Mutant of AdminStays: only a change of role is taken for a loss.
AdminStaysByRole(p, n) == member[p].admin /\ ~n.admin => Cardinality(Admins) > 1

\* count_active_admins() <= 1 refuses, in update_user, remove, leave_company
\* and erase_account.
AdminStays(p, n) == Loses(member[p], n) => Cardinality(Admins) > 1

---------------------------------------------------------------------------

Init ==
    /\ member = [p \in People |->
                    IF p = Founder THEN [status |-> "active", admin |-> TRUE]
                    ELSE Stranger]
    /\ seats \in 1..MaxSeats
    /\ uses = [i \in Invites |-> MaxUses]
    /\ req = [r \in Requests |-> Idle]
    /\ overlap = FALSE

\* The columns in which m and n differ, and a row with those of m, else of n.
Columns(m, n) == {c \in {"status", "admin"} : m[c] # n[c]}

Pick(cols, m, n) ==
    [status |-> IF "status" \in cols THEN m.status ELSE n.status,
     admin |-> IF "admin" \in cols THEN m.admin ELSE n.admin]

\* The row of p is read; wants is what the handler makes of it.  Only the
\* columns it changes are kept.
Read(r, p, wants) ==
    LET cols == Columns(wants, member[p])
    IN  /\ ~req[r].busy
        /\ cols # {}
        /\ AdminStays(p, wants)
        /\ req' = [req EXCEPT ![r] =
                     [busy |-> TRUE, who |-> p, cols |-> cols,
                      had |-> IF wants.status = "active" /\ "status" \in cols THEN seats ELSE 0,
                      wants |-> Pick(cols, wants, Stranger), late |-> FALSE]]
        /\ UNCHANGED <<member, seats, uses, overlap>>

\* PATCH /users: a role, blocked or not, or both.
UpdateUser(r, p, admin, blocked) ==
    LET m == member[p]
        status == IF blocked /\ m.status = "active" THEN "blocked"
                  ELSE IF ~blocked /\ m.status = "blocked" THEN "active"
                  ELSE m.status
    IN  /\ ByAdmin(p)
        /\ m.status \notin {"none", "left"}
        /\ Read(r, p, [m EXCEPT !.admin = admin, !.status = status])

Approve(r, p) ==
    /\ ByAdmin(p)
    /\ member[p].status = "pending"
    /\ Read(r, p, [member[p] EXCEPT !.status = "active"])

\* reject of someone who waits, remove of anyone.
Remove(r, p) ==
    /\ ByAdmin(p)
    /\ member[p].status \notin {"none", "left"}
    /\ Read(r, p, [member[p] EXCEPT !.status = "left"])

\* leave_company and erase_account: p's own decision.
Leave(r, p) ==
    /\ member[p].status \notin {"none", "left"}
    /\ Read(r, p, [member[p] EXCEPT !.status = "left"])

\* An approval and an unblocking take a seat.
TakesSeat(r) == "status" \in req[r].cols /\ req[r].wants.status = "active"

\* A guest changes no row he has read.
Joins(r) == req[r].busy /\ req[r].cols = {}

\* The columns a request has changed are written over the row as it is now; a
\* seat is counted under the lock of the company in the same transaction.
Write(r) ==
    LET q == req[r]
        now == member[q.who]
        row == Pick(q.cols, q.wants, now)
    IN  /\ q.busy /\ ~Joins(r)
        /\ TakesSeat(r) => FreeSeat(r)
        /\ member' = [member EXCEPT ![q.who] = row]
        /\ overlap' = (overlap \/ (Loses(now, row) /\ q.late))
        /\ req' = [s \in Requests |->
                     IF s = r THEN Idle
                     ELSE IF Loses(now, row) THEN [req[s] EXCEPT !.late = req[s].busy]
                     ELSE req[s]]
        /\ UNCHANGED <<seats, uses>>

\* ensure_free_seat refuses: 409, nothing is written.
NoSeat(r) ==
    /\ req[r].busy /\ (TakesSeat(r) \/ Joins(r)) /\ ~FreeSeat(r)
    /\ req' = [req EXCEPT ![r] = Idle]
    /\ UNCHANGED <<member, seats, uses, overlap>>

\* POST /invites/accept reads the company of the invitation ...
OpenInvite(r, p) ==
    /\ ~req[r].busy
    /\ req' = [req EXCEPT ![r] = [Idle EXCEPT !.busy = TRUE, !.who = p, !.had = seats]]
    /\ UNCHANGED <<member, seats, uses, overlap>>

\* Mutant of Accept: an invitation that is used up lets in.
AcceptUsedUp(r, i) ==
    LET p == req[r].who
    IN  /\ Joins(r)
        /\ member[p].status \in {"none", "left"}
        /\ i \in Approval \/ FreeSeat(r)
        /\ member' = [member EXCEPT ![p] =
                        [status |-> IF i \in Approval THEN "pending" ELSE "active",
                         admin |-> i \in AdminInvites]]
        /\ uses' = [uses EXCEPT ![i] = @ - 1]
        /\ req' = [req EXCEPT ![r] = Idle]
        /\ UNCHANGED <<seats, overlap>>

\* ... and goes on under the lock of the invitation, and of the company when
\* the guest is let in at once.  The role is the invitation's, for who
\* left before too.
Accept(r, i) ==
    LET p == req[r].who
    IN  /\ Joins(r)
        /\ uses[i] > 0
        /\ member[p].status \in {"none", "left"}
        /\ i \in Approval \/ FreeSeat(r)
        /\ member' = [member EXCEPT ![p] =
                        [status |-> IF i \in Approval THEN "pending" ELSE "active",
                         admin |-> i \in AdminInvites]]
        /\ uses' = [uses EXCEPT ![i] = @ - 1]
        /\ req' = [req EXCEPT ![r] = Idle]
        /\ UNCHANGED <<seats, overlap>>

\* The invitation is not active any more, or the person is a member already.
NotAccepted(r) ==
    /\ Joins(r)
    /\ member[req[r].who].status \notin {"none", "left"} \/ \E i \in Invites : uses[i] = 0
    /\ req' = [req EXCEPT ![r] = Idle]
    /\ UNCHANGED <<member, seats, uses, overlap>>

\* revoke by an administrator, or the end of its ttl_days.
Revoke(i) ==
    /\ uses[i] > 0
    /\ uses' = [uses EXCEPT ![i] = 0]
    /\ UNCHANGED <<member, seats, req, overlap>>

\* set_seats, and the seats a subscription ends up with: possibly fewer than
\* people are active.
SetSeats(n) ==
    /\ n # seats
    /\ seats' = n
    /\ UNCHANGED <<member, uses, req, overlap>>

Next ==
    \/ \E r \in Requests, p \in People :
          \/ \E admin, blocked \in BOOLEAN : UpdateUser(r, p, admin, blocked)
          \/ Approve(r, p) \/ Remove(r, p) \/ Leave(r, p)
          \/ OpenInvite(r, p)
    \/ \E r \in Requests : Write(r) \/ NoSeat(r) \/ NotAccepted(r)
    \/ \E r \in Requests, i \in Invites : Accept(r, i)
    \/ \E i \in Invites : Revoke(i)
    \/ \E n \in 1..MaxSeats : SetSeats(n)

Spec == Init /\ [][Next]_vars

---------------------------------------------------------------------------

\* Each variable stays in its type.
TypeOK ==
    /\ member \in [People -> Member]
    /\ seats \in 1..MaxSeats
    /\ uses \in [Invites -> 0..MaxUses]
    /\ req \in [Requests -> [busy : BOOLEAN, who : People, had : 0..MaxSeats,
                             cols : SUBSET {"status", "admin"}, wants : Member,
                             late : BOOLEAN]]
    /\ overlap \in BOOLEAN

\* The active people grow in number only up to the seats, however many
\* invitations, approvals and unblockings compete for the last one
\* (ensure_free_seat locks the company before it counts).  Only a request that
\* has read the seats before they were taken away may exceed them.
SeatsKept ==
    [][Cardinality(Active') > Cardinality(Active) =>
          \E n \in {seats} \cup {req[r].had : r \in Requests} : Cardinality(Active') <= n]_vars

\* The company has an administrator: no order of promotions, blocks, removals
\* and departures takes the last one, unless two requests overlap and each
\* counts the other's administrator (count_active_admins is not locked).
AdminRemains == ~overlap => Admins # {}
=============================================================================
