---------------------------- MODULE MembersProofs ---------------------------
(***************************************************************************)
(* What Members guarantees for any number of people, invitations, requests *)
(* and seats.                                                              *)
(*                                                                         *)
(* That an administrator remains is not inductive: a request decides on a  *)
(* count it took earlier.  What carries the proof is that a request under  *)
(* way, during which nobody has lost the role, still has an administrator  *)
(* besides the person it is about (AnotherAdmin).                          *)
(***************************************************************************)
EXTENDS Members, FiniteSetTheorems, TLAPS

AnotherAdmin ==
    ~overlap => \A r \in Requests :
                    req[r].busy /\ ~req[r].late /\ req[r].cols # {} =>
                        Admins \ {req[r].who} # {}

AdminInv == TypeOK /\ AdminRemains /\ AnotherAdmin

LEMMA AdminsAreActive == Admins \subseteq People /\ Active \subseteq People
  BY DEF Admins, Active

LEMMA MoreThanOne ==
    ASSUME NEW p \in People, Cardinality(Admins) > 1
    PROVE  Admins \ {p} # {}
<1>1. SUFFICES ASSUME Admins \subseteq {p} PROVE FALSE
  OBVIOUS
<1>2. IsFiniteSet({p}) /\ Cardinality({p}) = 1
  BY FS_Singleton
<1>3. Cardinality(Admins) <= 1 /\ IsFiniteSet(Admins)
  BY <1>1, <1>2, FS_Subset
<1>4. Cardinality(Admins) \in Nat
  BY <1>3, FS_CardinalityType
<1> QED BY <1>3, <1>4

LEMMA PickType ==
    ASSUME NEW cols, NEW m \in Member, NEW n \in Member
    PROVE  Pick(cols, m, n) \in Member
  BY DEF Pick, Member

LEMMA ReadType ==
    ASSUME TypeOK, NEW r \in Requests, NEW p \in People, NEW wants \in Member,
           Read(r, p, wants)
    PROVE  TypeOK'
<1>1. Columns(wants, member[p]) \in SUBSET {"status", "admin"}
  BY DEF Columns
<1>2. Stranger \in Member
  BY DEF Stranger, Member, Status
<1>3. Pick(Columns(wants, member[p]), wants, Stranger) \in Member
  BY <1>2, PickType
<1>4. seats \in 0..MaxSeats /\ 0 \in 0..MaxSeats
  BY BoundsAssumption DEF TypeOK
<1> QED BY <1>1, <1>3, <1>4 DEF Read, TypeOK

LEMMA ReadsOf ==
    ASSUME TypeOK, NEW r \in Requests, NEW p \in People,
           \/ \E admin, blocked \in BOOLEAN : UpdateUser(r, p, admin, blocked)
           \/ Approve(r, p) \/ Remove(r, p) \/ Leave(r, p)
    PROVE  \E wants \in Member :
              /\ Read(r, p, wants)
              /\ ByAdmin(p) \/ (wants.status = "left" /\ wants.admin = member[p].admin)
<1>1. member[p] \in Member
  BY DEF TypeOK
<1>2. ASSUME NEW admin \in BOOLEAN, NEW blocked \in BOOLEAN, UpdateUser(r, p, admin, blocked)
      PROVE  \E wants \in Member : Read(r, p, wants) /\ ByAdmin(p)
  <2> DEFINE status == IF blocked /\ member[p].status = "active" THEN "blocked"
                       ELSE IF ~blocked /\ member[p].status = "blocked" THEN "active"
                       ELSE member[p].status
  <2>1. [member[p] EXCEPT !.admin = admin, !.status = status] \in Member
    BY <1>1 DEF Member, Status
  <2> QED BY <1>2, <2>1 DEF UpdateUser
<1>3. CASE Approve(r, p)
  <2>1. [member[p] EXCEPT !.status = "active"] \in Member
    BY <1>1 DEF Member, Status
  <2> QED BY <1>3, <2>1 DEF Approve
<1>4. CASE Remove(r, p) \/ Leave(r, p)
  <2>1. [member[p] EXCEPT !.status = "left"] \in Member
    BY <1>1 DEF Member, Status
  <2>2. [member[p] EXCEPT !.status = "left"].admin = member[p].admin
        /\ [member[p] EXCEPT !.status = "left"].status = "left"
    BY <1>1 DEF Member
  <2> QED BY <1>4, <2>1, <2>2 DEF Remove, Leave
<1> QED BY <1>2, <1>3, <1>4

LEMMA IdleType ==
    Idle \in [busy : BOOLEAN, who : People, had : 0..MaxSeats,
              cols : SUBSET {"status", "admin"}, wants : Member, late : BOOLEAN]
<1>1. 0 \in 0..MaxSeats
  BY BoundsAssumption
<1> QED BY <1>1, PeopleAssumption DEF Idle, Stranger, Member, Status

LEMMA InitAdminInv == Init => AdminInv
<1> SUFFICES ASSUME Init PROVE AdminInv
  OBVIOUS
<1>1. TypeOK
  <2>1. member \in [People -> Member]
    BY DEF Init, Member, Status, Stranger
  <2>2. uses \in [Invites -> 0..MaxUses]
    BY BoundsAssumption DEF Init
  <2>3. req \in [Requests -> [busy : BOOLEAN, who : People, had : 0..MaxSeats,
                              cols : SUBSET {"status", "admin"}, wants : Member,
                              late : BOOLEAN]]
    BY IdleType DEF Init
  <2> QED BY <2>1, <2>2, <2>3 DEF Init, TypeOK
<1>2. Founder \in Admins
  BY PeopleAssumption DEF Init, Admins, Active, Stranger
<1>3. AdminRemains
  BY <1>2 DEF AdminRemains
<1>4. AnotherAdmin
  BY DEF Init, AnotherAdmin, Idle
<1> QED BY <1>1, <1>3, <1>4 DEF AdminInv

\* What a write makes of the person it is about.
LEMMA WriteEffect ==
    ASSUME TypeOK, NEW r \in Requests, Write(r)
    PROVE  LET p == req[r].who
               row == Pick(req[r].cols, req[r].wants, member[p])
           IN  /\ p \in People /\ row \in Member /\ member[p] \in Member
               /\ member'[p] = row
               /\ \A q \in People : q # p => member'[q] = member[q]
<1>1. req[r].who \in People /\ req[r].wants \in Member
  BY DEF TypeOK
<1>2. member[req[r].who] \in Member
  BY <1>1 DEF TypeOK
<1> QED BY <1>1, <1>2, PickType DEF Write, TypeOK

LEMMA NextType == TypeOK /\ [Next]_vars => TypeOK'
<1> SUFFICES ASSUME TypeOK, [Next]_vars PROVE TypeOK'
  OBVIOUS
<1>1. ASSUME NEW r \in Requests, NEW p \in People,
             \/ \E admin, blocked \in BOOLEAN : UpdateUser(r, p, admin, blocked)
             \/ Approve(r, p) \/ Remove(r, p) \/ Leave(r, p)
      PROVE  TypeOK'
  BY <1>1, ReadsOf, ReadType
<1>2. ASSUME NEW r \in Requests, NEW p \in People, OpenInvite(r, p) PROVE TypeOK'
  <2>1. seats \in 0..MaxSeats
    BY BoundsAssumption DEF TypeOK
  <2> QED BY <1>2, <2>1, IdleType DEF OpenInvite, TypeOK
<1>3. ASSUME NEW r \in Requests, Write(r) PROVE TypeOK'
  <2>1. member' \in [People -> Member]
    BY <1>3, WriteEffect DEF Write, TypeOK
  <2>2. req' \in [Requests -> [busy : BOOLEAN, who : People, had : 0..MaxSeats,
                               cols : SUBSET {"status", "admin"}, wants : Member,
                               late : BOOLEAN]]
    BY <1>3, IdleType DEF Write, TypeOK
  <2>3. overlap' \in BOOLEAN
    BY <1>3 DEF Write, TypeOK, Loses
  <2> QED BY <1>3, <2>1, <2>2, <2>3 DEF Write, TypeOK
<1>4. ASSUME NEW r \in Requests, NoSeat(r) \/ NotAccepted(r) PROVE TypeOK'
  BY <1>4, IdleType DEF NoSeat, NotAccepted, TypeOK
<1>5. ASSUME NEW r \in Requests, NEW i \in Invites, Accept(r, i) PROVE TypeOK'
  <2>1. [status |-> IF i \in Approval THEN "pending" ELSE "active",
          admin |-> i \in AdminInvites] \in Member
    BY DEF Member, Status
  <2>2. member' \in [People -> Member]
    BY <1>5, <2>1 DEF Accept, TypeOK
  <2>3. uses' \in [Invites -> 0..MaxUses]
    BY <1>5, BoundsAssumption DEF Accept, TypeOK
  <2> QED BY <1>5, <2>2, <2>3, IdleType DEF Accept, TypeOK
<1>6. ASSUME NEW i \in Invites, Revoke(i) PROVE TypeOK'
  BY <1>6, BoundsAssumption DEF Revoke, TypeOK
<1>7. ASSUME NEW n \in 1..MaxSeats, SetSeats(n) PROVE TypeOK'
  BY <1>7 DEF SetSeats, TypeOK
<1>8. CASE UNCHANGED vars
  BY <1>8 DEF vars, TypeOK
<1> QED BY <1>1, <1>2, <1>3, <1>4, <1>5, <1>6, <1>7, <1>8 DEF Next

\* A step in which nobody stops being an administrator, and every request that
\* begins has one besides its person, keeps the invariant.
LEMMA NobodyLost ==
    ASSUME AdminRemains, AnotherAdmin, overlap' = overlap, Admins \subseteq Admins',
           \A q \in Requests :
              req'[q].busy /\ ~req'[q].late /\ req'[q].cols # {} =>
                 \/ req'[q] = req[q]
                 \/ ~overlap => Admins \ {req'[q].who} # {}
    PROVE  (AdminRemains /\ AnotherAdmin)'
<1>1. AdminRemains'
  BY DEF AdminRemains
<1>2. AnotherAdmin'
  BY DEF AnotherAdmin
<1> QED BY <1>1, <1>2

LEMMA NextAdminInv == AdminInv /\ [Next]_vars => AdminInv'
<1> SUFFICES ASSUME AdminInv, [Next]_vars PROVE (AdminRemains /\ AnotherAdmin)'
  BY NextType DEF AdminInv
<1> USE DEF AdminInv
<1>1. ASSUME NEW r \in Requests, NEW p \in People,
             \/ \E admin, blocked \in BOOLEAN : UpdateUser(r, p, admin, blocked)
             \/ Approve(r, p) \/ Remove(r, p) \/ Leave(r, p)
      PROVE  (AdminRemains /\ AnotherAdmin)'
  <2>1. PICK wants \in Member :
              /\ Read(r, p, wants)
              /\ ByAdmin(p) \/ (wants.status = "left" /\ wants.admin = member[p].admin)
    BY <1>1, ReadsOf
  <2>2. ~overlap => Admins \ {p} # {}
    <3>1. CASE ByAdmin(p)
      BY <3>1 DEF ByAdmin
    <3>2. CASE wants.status = "left" /\ p \in Admins
      <4>1. Loses(member[p], wants)
        BY <3>2 DEF Loses, Admins, Active
      <4>2. Cardinality(Admins) > 1
        BY <2>1, <4>1 DEF Read, AdminStays
      <4> QED BY <4>2, MoreThanOne
    <3>3. CASE p \notin Admins
      BY <3>3 DEF AdminRemains
    <3> QED BY <2>1, <3>1, <3>2, <3>3
  <2>3. /\ overlap' = overlap /\ member' = member
        /\ \A q \in Requests : q # r => req'[q] = req[q]
        /\ req'[r].who = p
    BY <2>1 DEF Read, TypeOK
  <2>4. Admins' = Admins
    BY <2>3 DEF Admins, Active
  <2> QED BY <2>2, <2>3, <2>4, NobodyLost
<1>2. ASSUME NEW r \in Requests, NEW p \in People, OpenInvite(r, p)
      PROVE  (AdminRemains /\ AnotherAdmin)'
  <2>1. /\ overlap' = overlap /\ member' = member
        /\ \A q \in Requests : q # r => req'[q] = req[q]
        /\ req'[r].cols = {}
    BY <1>2 DEF OpenInvite, Idle, TypeOK
  <2>2. Admins' = Admins
    BY <2>1 DEF Admins, Active
  <2> QED BY <2>1, <2>2, NobodyLost
<1>3. ASSUME NEW r \in Requests, NoSeat(r) \/ NotAccepted(r)
      PROVE  (AdminRemains /\ AnotherAdmin)'
  <2>1. /\ overlap' = overlap /\ member' = member
        /\ \A q \in Requests : q # r => req'[q] = req[q]
        /\ ~req'[r].busy
    BY <1>3 DEF NoSeat, NotAccepted, Idle, TypeOK
  <2>2. Admins' = Admins
    BY <2>1 DEF Admins, Active
  <2> QED BY <2>1, <2>2, NobodyLost
<1>4. ASSUME NEW r \in Requests, NEW i \in Invites, Accept(r, i)
      PROVE  (AdminRemains /\ AnotherAdmin)'
  <2>1. /\ overlap' = overlap
        /\ \A q \in Requests : q # r => req'[q] = req[q]
        /\ ~req'[r].busy
    BY <1>4 DEF Accept, Idle, TypeOK
  <2>2. Admins \subseteq Admins'
    <3>1. \A q \in People : q # req[r].who => member'[q] = member[q]
      BY <1>4 DEF Accept, TypeOK
    <3>2. req[r].who \notin Admins
      BY <1>4 DEF Accept, Admins, Active
    <3> QED BY <3>1, <3>2 DEF Admins, Active
  <2> QED BY <2>1, <2>2, NobodyLost
<1>5. ASSUME NEW r \in Requests, Write(r) PROVE (AdminRemains /\ AnotherAdmin)'
  <2> DEFINE p == req[r].who
             row == Pick(req[r].cols, req[r].wants, member[p])
  <2>1. /\ p \in People /\ row \in Member /\ member[p] \in Member
        /\ member'[p] = row
        /\ \A q \in People : q # p => member'[q] = member[q]
    BY <1>5, WriteEffect
  <2>2. /\ overlap' = (overlap \/ (Loses(member[p], row) /\ req[r].late))
        /\ req[r].busy /\ req[r].cols # {}
    BY <1>5 DEF Write, Joins
  <2>3. ~req'[r].busy
    BY <1>5 DEF Write, Idle, TypeOK
  <2>4. CASE Loses(member[p], row)
    <3>1. Admins \ {p} \subseteq Admins'
      BY <2>1 DEF Admins, Active
    <3>2. ~overlap' => Admins \ {p} # {}
      BY <2>2, <2>4 DEF AnotherAdmin
    <3>3. AdminRemains'
      BY <3>1, <3>2 DEF AdminRemains
    <3>4. \A q \in Requests : req'[q].busy => req'[q].late
      <4>1. \A q \in Requests : q # r => req'[q] = [req[q] EXCEPT !.late = req[q].busy]
        BY <1>5, <2>4 DEF Write
      <4>2. \A q \in Requests :
               req[q] \in [busy : BOOLEAN, who : People, had : 0..MaxSeats,
                          cols : SUBSET {"status", "admin"}, wants : Member, late : BOOLEAN]
        BY DEF TypeOK
      <4>3. \A q \in Requests : q # r => req'[q].late = req[q].busy /\ req'[q].busy = req[q].busy
        BY <4>1, <4>2
      <4> QED BY <2>3, <4>3
    <3> QED BY <3>3, <3>4 DEF AnotherAdmin
  <2>5. CASE ~Loses(member[p], row)
    <3>1. Admins \subseteq Admins'
      BY <2>1, <2>5 DEF Admins, Active, Loses
    <3>2. overlap' = overlap
      BY <2>2, <2>5 DEF TypeOK
    <3>3. \A q \in Requests : q # r => req'[q] = req[q]
      BY <1>5, <2>5 DEF Write
    <3> QED BY <2>3, <3>1, <3>2, <3>3, NobodyLost
  <2> QED BY <2>4, <2>5
<1>6. CASE member' = member /\ req' = req /\ overlap' = overlap
  <2>1. Admins' = Admins
    BY <1>6 DEF Admins, Active
  <2> QED BY <1>6, <2>1, NobodyLost
<1> QED BY <1>1, <1>2, <1>3, <1>4, <1>5, <1>6 DEF Next, Revoke, SetSeats, vars

---------------------------------------------------------------------------

\* Members, invitations, seats and requests stay in their types
\* (users, invites, tenants).
THEOREM TypeCorrect == Spec => []TypeOK
<1>1. AdminInv => TypeOK
  BY DEF AdminInv
<1> QED BY InitAdminInv, NextAdminInv, <1>1, PTL DEF Spec

\* A company keeps an administrator, for any number of people and requests,
\* unless two requests overlap that both take one (update_user, remove,
\* leave_company, erase_account).
THEOREM AdministratorRemains == Spec => []AdminRemains
<1>1. AdminInv => AdminRemains
  BY DEF AdminInv
<1> QED BY InitAdminInv, NextAdminInv, <1>1, PTL DEF Spec

LEMMA ActiveGrows ==
    ASSUME NEW p \in People, Active' \subseteq Active \cup {p}
    PROVE  /\ Cardinality(Active') <= Cardinality(Active) + 1
           /\ Cardinality(Active) \in Nat /\ Cardinality(Active') \in Nat
           /\ Active' \subseteq Active => Cardinality(Active') <= Cardinality(Active)
<1>1. IsFiniteSet(Active)
  BY AdminsAreActive, PeopleAssumption, FS_Subset
<1>2. Cardinality(Active) \in Nat
  BY <1>1, FS_CardinalityType
<1>3. /\ IsFiniteSet(Active \cup {p})
      /\ Cardinality(Active \cup {p}) <= Cardinality(Active) + 1
      /\ Cardinality(Active \cup {p}) \in Nat
  <2>1. IsFiniteSet(Active \cup {p})
    BY <1>1, FS_AddElement
  <2>2. Cardinality(Active \cup {p}) =
            IF p \in Active THEN Cardinality(Active) ELSE Cardinality(Active) + 1
    BY <1>1, FS_AddElement
  <2> QED BY <1>2, <2>1, <2>2
<1>4. /\ Cardinality(Active') <= Cardinality(Active \cup {p})
      /\ IsFiniteSet(Active')
  BY <1>3, FS_Subset
<1>5. Cardinality(Active') \in Nat
  BY <1>4, FS_CardinalityType
<1>6. Active' \subseteq Active => Cardinality(Active') <= Cardinality(Active)
  BY <1>1, FS_Subset
<1> QED BY <1>2, <1>3, <1>4, <1>5, <1>6

\* Seats are exceeded by nobody who has read their present number, for any
\* number of people, invitations and requests (ensure_free_seat).
THEOREM SeatsAreKept == Spec => SeatsKept
<1> DEFINE Kept == Cardinality(Active') > Cardinality(Active) =>
                      \E n \in {seats} \cup {req[r].had : r \in Requests} : Cardinality(Active') <= n
<1>1. TypeOK /\ [Next]_vars => Kept
  <2> SUFFICES ASSUME TypeOK, [Next]_vars, Cardinality(Active') > Cardinality(Active)
               PROVE  \E n \in {seats} \cup {req[r].had : r \in Requests} : Cardinality(Active') <= n
    OBVIOUS
  <2>1. ASSUME NEW r \in Requests, Active' \subseteq Active \cup {req[r].who}, FreeSeat(r)
        PROVE  Cardinality(Active') <= req[r].had
    <3>1. req[r].who \in People /\ req[r].had \in Nat
      BY BoundsAssumption DEF TypeOK
    <3> QED BY <2>1, <3>1, ActiveGrows DEF FreeSeat
  <2>2. ASSUME Active' \subseteq Active PROVE FALSE
    <3>1. Cardinality(Active') <= Cardinality(Active)
          /\ Cardinality(Active) \in Nat /\ Cardinality(Active') \in Nat
      BY <2>2, PeopleAssumption, ActiveGrows
    <3> QED BY <3>1
  <2>3. ASSUME NEW r \in Requests, Write(r) PROVE Cardinality(Active') <= req[r].had
    <3> DEFINE p == req[r].who
               row == Pick(req[r].cols, req[r].wants, member[p])
    <3>1. /\ p \in People /\ member'[p] = row
          /\ \A q \in People : q # p => member'[q] = member[q]
      BY <2>3, WriteEffect
    <3>2. Active' \subseteq Active \cup {p}
      BY <3>1 DEF Active
    <3>3. CASE TakesSeat(r)
      BY <2>1, <2>3, <3>2, <3>3 DEF Write
    <3>4. CASE ~TakesSeat(r)
      <4>1. row.status = "active" => member[p].status = "active"
        BY <3>4 DEF TakesSeat, Pick
      <4>2. Active' \subseteq Active
        BY <3>1, <4>1 DEF Active
      <4> QED BY <2>2, <4>2
    <3> QED BY <3>3, <3>4
  <2>4. ASSUME NEW r \in Requests, NEW i \in Invites, Accept(r, i)
        PROVE  Cardinality(Active') <= req[r].had
    <3>1. /\ req[r].who \in People
          /\ \A q \in People : q # req[r].who => member'[q] = member[q]
      BY <2>4 DEF Accept, TypeOK
    <3>2. Active' \subseteq Active \cup {req[r].who}
      BY <3>1 DEF Active
    <3>3. CASE i \in Approval
      <4>1. member'[req[r].who].status = "pending"
        BY <2>4, <3>1, <3>3 DEF Accept, TypeOK
      <4>2. Active' \subseteq Active
        BY <3>1, <4>1 DEF Active
      <4> QED BY <2>2, <4>2
    <3>4. CASE i \notin Approval
      BY <2>1, <2>4, <3>2, <3>4 DEF Accept
    <3> QED BY <3>3, <3>4
  <2>5. CASE member' = member
    BY <2>2, <2>5 DEF Active
  <2>6. ASSUME NEW r \in Requests, NEW p \in People,
               \/ \E admin, blocked \in BOOLEAN : UpdateUser(r, p, admin, blocked)
               \/ Approve(r, p) \/ Remove(r, p) \/ Leave(r, p) \/ OpenInvite(r, p)
        PROVE  member' = member
    BY <2>6 DEF UpdateUser, Approve, Remove, Leave, Read, OpenInvite
  <2>7. \/ \E r \in Requests : Write(r) \/ \E i \in Invites : Accept(r, i)
        \/ member' = member
    BY <2>6 DEF Next, NoSeat, NotAccepted, Revoke, SetSeats, vars
  <2>8. ASSUME NEW r \in Requests, Cardinality(Active') <= req[r].had
        PROVE  \E n \in {seats} \cup {req[q].had : q \in Requests} : Cardinality(Active') <= n
    BY <2>8
  <2> QED BY <2>3, <2>4, <2>5, <2>7, <2>8
<1> QED BY <1>1, TypeCorrect, PTL DEF Spec, SeatsKept
=============================================================================
