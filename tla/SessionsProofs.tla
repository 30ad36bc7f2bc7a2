--------------------------- MODULE SessionsProofs ---------------------------
(***************************************************************************)
(* Proofs about Sessions: types, one living token of a family, an ended    *)
(* family stays ended, and Sessions implements SessionLife.                *)
(*                                                                         *)
(* The argument turns on the first row of a family.  A request that ends   *)
(* the family may miss the row a rotation inserts, but it has seen the     *)
(* first row or found it revoked (EndingSeesFirst); so the first row of an *)
(* ended family is revoked (FirstIsRevoked), and the purge deletes it only *)
(* together with all the others.                                           *)
(***************************************************************************)
EXTENDS Sessions, TLAPS

\* t is the first row of its family.
First(t) == t \in OfFamily(t[1]) /\ \A u \in OfFamily(t[1]) : t[2] <= u[2]

\* Only a family that has begun has rows, or is looked at.
RowsOfStarted ==
    /\ \A t \in Rows : row[t].in => t[1] \in started
    /\ \A r \in Requests : \A t \in req[r].seen : t[1] \in started

\* A family that has rows has a first one.
HasFirst ==
    \A t \in Rows : row[t].in => \E s \in OfFamily(t[1]) : First(s)

\* If a row of a family is revoked, its first row is.
FirstIsRevoked ==
    \A t \in Rows : row[t].in /\ row[t].revoked =>
        \E s \in OfFamily(t[1]) : First(s) /\ row[s].revoked

\* A request that ends a family has its first row before it, or the row is
\* revoked already.
EndingSeesFirst ==
    \A r \in Requests : req[r].does \in {"ends_all", "ends_one"} =>
        \A t \in req[r].seen : OfFamily(t[1]) # {} =>
            \E s \in OfFamily(t[1]) : First(s) /\ (s \in req[r].seen \/ row[s].revoked)

\* A request is not older than a tick.
Recent == \A r \in Requests : req[r].does # "nothing" => now <= req[r].at + 1

\* A rotation holds a row that nobody else rotates and that was not expired
\* when it began.
RotationHolds ==
    /\ \A r \in Requests : req[r].does = "rotates" => \A t \in req[r].seen :
           row[t].in /\ ~row[t].used /\ req[r].at < row[t].born + Ttl
    /\ \A r, q \in Requests :
           req[r].does = "rotates" /\ req[q].does = "rotates" /\ r # q
               => req[r].seen \cap req[q].seen = {}

Over(f) == OfFamily(f) = {} \/ FamilyRevoked(f)

\* The families that were ended are over.
ClosedAreOver == \A f \in closed : Over(f)

IInv ==
    /\ TypeOK /\ RowsOfStarted /\ HasFirst /\ FirstIsRevoked
    /\ EndingSeesFirst /\ Recent /\ RotationHolds /\ OneTokenLives /\ ClosedAreOver

---------------------------------------------------------------------------

LEMMA PlaceOfRow ==
    /\ \A t \in Rows : /\ t[1] \in Families /\ t[2] \in 1..MaxRows
                       /\ t = <<t[1], t[2]>>
    /\ \A f \in Families, n \in 1..MaxRows :
          <<f, n>> \in Rows /\ <<f, n>>[1] = f /\ <<f, n>>[2] = n
  BY DEF Rows

LEMMA Family ==
    /\ \A f \in Families : \A t : t \in OfFamily(f) <=> t \in Rows /\ t[1] = f /\ row[t].in
    /\ \A f \in Families : \A t : t \in OfFamily(f)' <=> t \in Rows /\ t[1] = f /\ row'[t].in
  BY DEF OfFamily, Rows

LEMMA InitIInv == Init => IInv
<1> SUFFICES ASSUME Init PROVE IInv
  OBVIOUS
<1>1. \A t \in Rows : ~row[t].in
  BY DEF Init, NoRow
<1>2. TypeOK
  BY DEF Init, TypeOK, NoRow, Idle, Doing
<1>3. RowsOfStarted /\ HasFirst /\ FirstIsRevoked
  BY <1>1 DEF Init, RowsOfStarted, HasFirst, FirstIsRevoked, Idle
<1>4. EndingSeesFirst /\ Recent /\ RotationHolds /\ ClosedAreOver
  BY DEF Init, EndingSeesFirst, Recent, RotationHolds, ClosedAreOver, Idle
<1>5. OneTokenLives
  BY <1>1, Family DEF OneTokenLives
<1> QED BY <1>2, <1>3, <1>4, <1>5 DEF IInv

LEMMA BeginType ==
    ASSUME TypeOK, NEW r \in Requests, NEW what \in Doing, NEW v \in Nat,
           NEW seen \in SUBSET Rows, Begin(r, what, v, seen)
    PROVE  req' \in [Requests -> [does : Doing, at : Nat, ver : Nat, seen : SUBSET Rows]]
  BY DEF TypeOK, Begin

LEMMA DoneType ==
    ASSUME TypeOK, NEW r \in Requests, Done(r)
    PROVE  req' \in [Requests -> [does : Doing, at : Nat, ver : Nat, seen : SUBSET Rows]]
  BY DEF TypeOK, Done, Idle, Doing

LEMMA FreshType ==
    ASSUME TypeOK, NEW v \in Nat
    PROVE  FreshRow(v) \in [in : BOOLEAN, used : BOOLEAN, revoked : BOOLEAN,
                            born : Nat, ver : Nat]
  BY DEF TypeOK, FreshRow

\* What Revoke leaves: no row comes or goes but the first of a family that it
\* opens, and a revoked row stays revoked.
LEMMA RevokeType ==
    ASSUME TypeOK, NEW r \in Requests, NEW opened \in SUBSET Families,
           Revoke(r, opened)
    PROVE  /\ row' \in [Rows -> [in : BOOLEAN, used : BOOLEAN, revoked : BOOLEAN,
                                 born : Nat, ver : Nat]]
           /\ started' \subseteq Families
           /\ RowsOfStarted => closed' \subseteq started'
<1> DEFINE ver == IF req[r].does = "ends_all" THEN req[r].ver + 1 ELSE req[r].ver
<1>1. ver \in Nat
  BY DEF TypeOK
<1>2. FreshRow(ver) \in [in : BOOLEAN, used : BOOLEAN, revoked : BOOLEAN,
                         born : Nat, ver : Nat]
  BY <1>1, FreshType
<1>3. row' \in [Rows -> [in : BOOLEAN, used : BOOLEAN, revoked : BOOLEAN,
                         born : Nat, ver : Nat]]
  BY <1>2 DEF TypeOK, Revoke
<1>4. started' \subseteq Families
  BY DEF TypeOK, Revoke
<1>5. RowsOfStarted => closed' \subseteq started'
  BY DEF TypeOK, Revoke, RowsOfStarted
<1> QED BY <1>3, <1>4, <1>5

LEMMA NextType == TypeOK /\ RowsOfStarted /\ [Next]_vars => TypeOK'
<1> USE TimesAssumption, BoundsAssumption
<1> SUFFICES ASSUME TypeOK, RowsOfStarted, [Next]_vars PROVE TypeOK'
  OBVIOUS
<1>1. ASSUME NEW r \in Requests, CheckPassword(r) PROVE TypeOK'
  <2>1. req' \in [Requests -> [does : Doing, at : Nat, ver : Nat, seen : SUBSET Rows]]
    BY <1>1, BeginType DEF CheckPassword, Doing, TypeOK
  <2> QED BY <1>1, <2>1 DEF CheckPassword, TypeOK
<1>2. ASSUME NEW r \in Requests, NEW f \in Families, OpenSession(r, f) PROVE TypeOK'
  <2>1. row' \in [Rows -> [in : BOOLEAN, used : BOOLEAN, revoked : BOOLEAN,
                           born : Nat, ver : Nat]]
    BY <1>2, FreshType DEF OpenSession, TypeOK
  <2> QED BY <1>2, <2>1, DoneType DEF OpenSession, TypeOK
<1>3. ASSUME NEW r \in Requests, NEW t \in Rows, BeginRotation(r, t) PROVE TypeOK'
  <2>1. req' \in [Requests -> [does : Doing, at : Nat, ver : Nat, seen : SUBSET Rows]]
    BY <1>3, BeginType DEF BeginRotation, Doing, TypeOK
  <2> QED BY <1>3, <2>1 DEF BeginRotation, TypeOK
<1>4. ASSUME NEW r \in Requests, Rotate(r) PROVE TypeOK'
  <2>1. PICK t \in req[r].seen, n \in 1..MaxRows :
            row' = [row EXCEPT ![t].used = TRUE, ![<<t[1], n>>] = FreshRow(req[r].ver)]
    BY <1>4 DEF Rotate
  <2>2. t \in Rows /\ req[r].ver \in Nat
    BY DEF TypeOK
  <2>3. [row EXCEPT ![t].used = TRUE]
            \in [Rows -> [in : BOOLEAN, used : BOOLEAN, revoked : BOOLEAN,
                         born : Nat, ver : Nat]]
    BY <2>2 DEF TypeOK
  <2>4. row' \in [Rows -> [in : BOOLEAN, used : BOOLEAN, revoked : BOOLEAN,
                           born : Nat, ver : Nat]]
    BY <2>1, <2>2, <2>3, FreshType
  <2> QED BY <1>4, <2>4, DoneType DEF Rotate, TypeOK
<1>5. ASSUME NEW r \in Requests, NEW f \in Families, BeginEndOne(r, f) PROVE TypeOK'
  <2>1. {t \in OfFamily(f) : ~row[t].revoked} \in SUBSET Rows
    BY Family
  <2>2. req' \in [Requests -> [does : Doing, at : Nat, ver : Nat, seen : SUBSET Rows]]
    BY <1>5, <2>1, BeginType DEF BeginEndOne, Doing, TypeOK
  <2> QED BY <1>5, <2>2 DEF BeginEndOne, TypeOK
<1>6. ASSUME NEW r \in Requests, BeginEndAll(r) PROVE TypeOK'
  <2>1. PICK v \in 0..version :
            Begin(r, "ends_all", v, {t \in Rows : row[t].in /\ ~row[t].revoked})
    BY <1>6 DEF BeginEndAll
  <2>2. v \in Nat
    BY DEF TypeOK
  <2>3. req' \in [Requests -> [does : Doing, at : Nat, ver : Nat, seen : SUBSET Rows]]
    BY <2>1, <2>2, BeginType DEF Doing
  <2> QED BY <1>6, <2>3 DEF BeginEndAll, TypeOK
<1>7. ASSUME NEW r \in Requests, EndOne(r) PROVE TypeOK'
  <2>1. PICK opened \in SUBSET Families : Revoke(r, opened)
    BY <1>7 DEF EndOne
  <2> QED BY <1>7, <2>1, RevokeType, DoneType DEF EndOne, TypeOK
<1>8. ASSUME NEW r \in Requests, EndAll(r) PROVE TypeOK'
  <2>1. PICK opened \in SUBSET Families : Revoke(r, opened)
    BY <1>8 DEF EndAll
  <2> QED BY <1>8, <2>1, RevokeType, DoneType DEF EndAll, TypeOK
<1>9. ASSUME Purge PROVE TypeOK'
  BY <1>9 DEF Purge, TypeOK, NoRow
<1>10. ASSUME Tick PROVE TypeOK'
  BY <1>10 DEF Tick, TypeOK
<1>11. ASSUME UNCHANGED vars PROVE TypeOK'
  BY <1>11 DEF vars, TypeOK
<1> QED BY <1>1, <1>2, <1>3, <1>4, <1>5, <1>6, <1>7, <1>8, <1>9, <1>10, <1>11 DEF Next

---------------------------------------------------------------------------

\* What a rotation does to the rows: its token is used, its successor stands
\* after every row of the family.
LEMMA RotateEffect ==
    ASSUME TypeOK, RotationHolds, NEW r \in Requests, Rotate(r)
    PROVE  \E t \in req[r].seen, new \in Rows :
              /\ t \in Rows /\ row[t].in /\ ~row[t].used
              /\ new[1] = t[1] /\ ~row[new].in
              /\ \A u \in OfFamily(t[1]) : u[2] < new[2]
              /\ row'[new].in /\ ~row'[new].used /\ ~row'[new].revoked
              /\ row'[t].in /\ row'[t].used /\ row'[t].revoked = row[t].revoked
              /\ \A u \in Rows : u # t /\ u # new => row'[u] = row[u]
<1>1. PICK t \in req[r].seen, n \in 1..MaxRows :
          /\ req[r].does = "rotates" /\ NextPlace(t[1], n)
          /\ row' = [row EXCEPT ![t].used = TRUE, ![<<t[1], n>>] = FreshRow(req[r].ver)]
  BY DEF Rotate
<1>2. t \in Rows /\ row[t].in /\ ~row[t].used
  BY <1>1 DEF RotationHolds, TypeOK
<1> DEFINE new == <<t[1], n>>
<1>3. new \in Rows /\ new[1] = t[1] /\ new[2] = n /\ t[1] \in Families
  BY <1>2, PlaceOfRow
<1>4. \A u \in OfFamily(t[1]) : u[2] < new[2]
  BY <1>1, <1>3 DEF NextPlace
<1>5. n \in Nat
  BY BoundsAssumption
<1>6. ~row[new].in
  BY <1>3, <1>4, <1>5, Family
<1>7. t # new
  BY <1>2, <1>6
<1>8. row'[new] = FreshRow(req[r].ver)
  BY <1>1, <1>3 DEF TypeOK
<1>9. row'[t] = [row[t] EXCEPT !.used = TRUE]
  BY <1>1, <1>2, <1>3, <1>7 DEF TypeOK
<1>10. \A u \in Rows : u # t /\ u # new => row'[u] = row[u]
  BY <1>1, <1>2, <1>3 DEF TypeOK
<1>11. row[t] \in [in : BOOLEAN, used : BOOLEAN, revoked : BOOLEAN, born : Nat, ver : Nat]
  BY <1>2 DEF TypeOK
<1>12. row'[t].in /\ row'[t].used /\ row'[t].revoked = row[t].revoked
  BY <1>2, <1>9, <1>11
<1>13. row'[new].in /\ ~row'[new].used /\ ~row'[new].revoked
  BY <1>8 DEF FreshRow
<1> HIDE DEF new
<1> QED BY <1>2, <1>3, <1>4, <1>6, <1>10, <1>12, <1>13

\* ... and of an end: the rows it saw are revoked, and nothing else changes but
\* for the first row of a family that begins.
LEMMA RevokeEffect ==
    ASSUME TypeOK, RowsOfStarted, NEW r \in Requests, EndOne(r) \/ EndAll(r)
    PROVE  \E opened \in SUBSET (Families \ started) :
              /\ started' = started \cup opened
              /\ closed' = closed \cup {t[1] : t \in {u \in req[r].seen : row[u].in}}
              /\ req[r].does \in {"ends_all", "ends_one"}
              /\ Done(r)
              /\ \A u \in Rows : u[1] \in opened =>
                    /\ ~row[u].in
                    /\ row'[u].in <=> u[2] = 1
                    /\ u[2] = 1 => ~row'[u].used /\ ~row'[u].revoked
              /\ \A u \in Rows : u[1] \notin opened =>
                    /\ row'[u].in = row[u].in
                    /\ row'[u].used = row[u].used
                    /\ row'[u].born = row[u].born
                    /\ row'[u].revoked = (row[u].revoked \/ (u \in req[r].seen /\ row[u].in))
<1>1. PICK opened \in SUBSET (Families \ started) : Revoke(r, opened)
  BY DEF EndOne, EndAll
<1>2. /\ started' = started \cup opened
      /\ closed' = closed \cup {t[1] : t \in {u \in req[r].seen : row[u].in}}
      /\ req[r].does \in {"ends_all", "ends_one"}
      /\ Done(r)
  BY <1>1 DEF Revoke, EndOne, EndAll
<1>3. \A u \in Rows : u[1] \in opened => ~row[u].in
  BY DEF RowsOfStarted
<1>4. \A u \in Rows : u[1] \in opened /\ u[2] = 1 =>
          row'[u].in /\ ~row'[u].used /\ ~row'[u].revoked
  BY <1>1 DEF Revoke, FreshRow
<1>5. ASSUME NEW u \in Rows, ~(u[1] \in opened /\ u[2] = 1)
      PROVE  /\ row'[u].in = row[u].in
             /\ row'[u].used = row[u].used
             /\ row'[u].born = row[u].born
             /\ row'[u].revoked = (row[u].revoked \/ (u \in req[r].seen /\ row[u].in))
  <2>1. row[u] \in [in : BOOLEAN, used : BOOLEAN, revoked : BOOLEAN, born : Nat, ver : Nat]
    BY DEF TypeOK
  <2>2. row'[u] = IF u \in req[r].seen /\ row[u].in
                  THEN [row[u] EXCEPT !.revoked = TRUE] ELSE row[u]
    BY <1>1, <1>5 DEF Revoke
  <2> QED BY <2>1, <2>2
<1>6. \A u \in Rows : u[1] \in opened => (row'[u].in <=> u[2] = 1)
  BY <1>3, <1>4, <1>5
<1> QED BY <1>1, <1>2, <1>3, <1>4, <1>5, <1>6

---------------------------------------------------------------------------

\* How the rows of the families may change in a step.
FirstStays ==
    \A f \in started : \/ OfFamily(f)' = {}
                       \/ \A s \in OfFamily(f) : First(s) => s \in OfFamily(f)' /\ First(s)'

RevokedStays ==
    \A t \in Rows : row[t].in /\ row[t].revoked /\ row'[t].in => row'[t].revoked

EmptyStays == \A f \in started : OfFamily(f) = {} => OfFamily(f)' = {}

BegunAfresh ==
    /\ started \subseteq started'
    /\ \A t \in Rows : t[1] \notin started /\ row'[t].in =>
          t[1] \in started' /\ t[2] = 1 /\ ~row'[t].revoked /\ ~row'[t].used

Evolve == FirstStays /\ RevokedStays /\ EmptyStays /\ BegunAfresh

LEMMA UnchangedEvolve ==
    ASSUME IInv, row' = row, started' = started
    PROVE  Evolve
<1>1. \A f \in Families : OfFamily(f)' = OfFamily(f)
  BY DEF OfFamily
<1>2. started \subseteq Families
  BY DEF IInv, TypeOK
<1>3. \A s \in Rows : First(s) => First(s)'
  BY <1>1, PlaceOfRow DEF First
<1>4. FirstStays
  BY <1>1, <1>2, <1>3, Family DEF FirstStays
<1>5. BegunAfresh
  BY DEF IInv, RowsOfStarted, BegunAfresh
<1> QED BY <1>1, <1>2, <1>4, <1>5 DEF Evolve, RevokedStays, EmptyStays

LEMMA OpenEvolve ==
    ASSUME IInv, NEW r \in Requests, NEW f \in Families, OpenSession(r, f)
    PROVE  Evolve
<1>1. <<f, 1>> \in Rows /\ <<f, 1>>[1] = f /\ <<f, 1>>[2] = 1
  BY PlaceOfRow, BoundsAssumption
<1>2. \A t \in Rows : row'[t] = IF t = <<f, 1>> THEN FreshRow(req[r].ver) ELSE row[t]
  BY <1>1 DEF IInv, TypeOK, OpenSession
<1>3. \A g \in Families : g # f => OfFamily(g)' = OfFamily(g)
  <2>1. \A g \in Families : \A u : g # f => (u \in OfFamily(g)' <=> u \in OfFamily(g))
    BY <1>1, <1>2, Family
  <2> QED BY <2>1
<1>4. started \subseteq Families /\ f \notin started /\ started' = started \cup {f}
  BY DEF IInv, TypeOK, OpenSession
<1>5. FirstStays
  BY <1>3, <1>4, Family DEF FirstStays, First
<1>6. EmptyStays
  BY <1>3, <1>4 DEF EmptyStays
<1>7. RevokedStays
  <2>1. ~row[<<f, 1>>].in
    BY <1>1, <1>4 DEF IInv, RowsOfStarted
  <2> QED BY <1>2, <2>1 DEF RevokedStays
<1>8. BegunAfresh
  <2> SUFFICES ASSUME NEW t \in Rows, t[1] \notin started, row'[t].in
               PROVE  t[1] \in started' /\ t[2] = 1 /\ ~row'[t].revoked /\ ~row'[t].used
    BY <1>4 DEF BegunAfresh
  <2>1. t = <<f, 1>>
    BY <1>2 DEF IInv, RowsOfStarted
  <2> QED BY <1>1, <1>2, <1>4, <2>1 DEF FreshRow
<1> QED BY <1>5, <1>6, <1>7, <1>8 DEF Evolve

LEMMA RotateEvolve ==
    ASSUME IInv, NEW r \in Requests, Rotate(r)
    PROVE  Evolve
<1>1. started' = started /\ started \subseteq Families
  BY DEF IInv, TypeOK, Rotate
<1>2. PICK t \in req[r].seen, new \in Rows :
          /\ t \in Rows /\ row[t].in /\ ~row[t].used
          /\ new[1] = t[1] /\ ~row[new].in
          /\ \A u \in OfFamily(t[1]) : u[2] < new[2]
          /\ row'[new].in /\ ~row'[new].used /\ ~row'[new].revoked
          /\ row'[t].in /\ row'[t].used /\ row'[t].revoked = row[t].revoked
          /\ \A u \in Rows : u # t /\ u # new => row'[u] = row[u]
  BY RotateEffect DEF IInv
<1>3. \A u \in Rows : row'[u].in <=> row[u].in \/ u = new
  BY <1>2
<1>4. t[1] \in Families /\ t[1] \in started /\ t \in OfFamily(t[1])
  BY <1>2, PlaceOfRow, Family DEF IInv, RowsOfStarted
<1>5. \A g \in Families : OfFamily(g)' = IF g = t[1] THEN OfFamily(g) \cup {new} ELSE OfFamily(g)
  <2>1. \A g \in Families : \A u : u \in OfFamily(g)' <=> u \in OfFamily(g) \/ (u = new /\ g = t[1])
    BY <1>2, <1>3, Family
  <2> QED BY <2>1
<1>6. \A s \in Rows : First(s) => First(s)'
  <2> SUFFICES ASSUME NEW s \in Rows, First(s) PROVE First(s)'
    OBVIOUS
  <2>1. s[1] \in Families /\ s \in OfFamily(s[1]) /\ \A u \in OfFamily(s[1]) : s[2] <= u[2]
    BY PlaceOfRow DEF First
  <2>2. s \in OfFamily(s[1])'
    BY <1>5, <2>1
  <2>3. s[1] = t[1] => s[2] <= new[2]
    <3>1. s[1] = t[1] => s[2] < new[2]
      BY <1>2, <2>1
    <3>2. s[2] \in Nat /\ new[2] \in Nat
      BY <1>2, PlaceOfRow, BoundsAssumption
    <3> QED BY <3>1, <3>2
  <2>4. \A u \in OfFamily(s[1])' : s[2] <= u[2]
    BY <1>5, <2>1, <2>3
  <2> QED BY <2>2, <2>4 DEF First
<1>7. FirstStays
  BY <1>1, <1>5, <1>6, Family DEF FirstStays
<1>8. EmptyStays
  BY <1>1, <1>4, <1>5 DEF EmptyStays
<1>9. RevokedStays
  BY <1>2 DEF RevokedStays
<1>10. BegunAfresh
  BY <1>1, <1>2, <1>3, <1>4 DEF BegunAfresh, IInv, RowsOfStarted
<1> QED BY <1>7, <1>8, <1>9, <1>10 DEF Evolve

LEMMA EndEvolve ==
    ASSUME IInv, NEW r \in Requests, EndOne(r) \/ EndAll(r)
    PROVE  Evolve
<1>1. PICK opened \in SUBSET (Families \ started) :
          /\ started' = started \cup opened
          /\ closed' = closed \cup {t[1] : t \in {u \in req[r].seen : row[u].in}}
          /\ req[r].does \in {"ends_all", "ends_one"}
          /\ Done(r)
          /\ \A u \in Rows : u[1] \in opened =>
                /\ ~row[u].in
                /\ row'[u].in <=> u[2] = 1
                /\ u[2] = 1 => ~row'[u].used /\ ~row'[u].revoked
          /\ \A u \in Rows : u[1] \notin opened =>
                /\ row'[u].in = row[u].in
                /\ row'[u].used = row[u].used
                /\ row'[u].born = row[u].born
                /\ row'[u].revoked = (row[u].revoked \/ (u \in req[r].seen /\ row[u].in))
  BY RevokeEffect DEF IInv
<1>2. \A g \in started : g \in Families /\ g \notin opened
  BY DEF IInv, TypeOK
<1>3. \A g \in started : OfFamily(g)' = OfFamily(g)
  <2>1. \A g \in started : \A u : u \in OfFamily(g)' <=> u \in OfFamily(g)
    BY <1>1, <1>2, Family
  <2> QED BY <2>1
<1>4. FirstStays
  BY <1>2, <1>3, Family DEF FirstStays, First
<1>5. EmptyStays
  BY <1>3 DEF EmptyStays
<1>6. RevokedStays
  BY <1>1 DEF RevokedStays
<1>7. BegunAfresh
  BY <1>1 DEF BegunAfresh, IInv, RowsOfStarted
<1> QED BY <1>4, <1>5, <1>6, <1>7 DEF Evolve

LEMMA PurgeEvolve ==
    ASSUME IInv, Purge
    PROVE  Evolve
<1>1. started' = started /\ started \subseteq Families
  BY DEF IInv, TypeOK, Purge
<1>2. \A t \in Rows : row'[t] = IF Forgotten(t) THEN NoRow ELSE row[t]
  BY DEF Purge
<1>3. \A t \in Rows : row'[t].in => row[t].in /\ row'[t] = row[t]
  BY <1>2 DEF NoRow
<1>4. FirstStays
  <2> SUFFICES ASSUME NEW f \in started, NEW v \in OfFamily(f)',
                      NEW s \in OfFamily(f), First(s)
               PROVE  s \in OfFamily(f)' /\ First(s)'
    BY DEF FirstStays
  <2>1. f \in Families /\ s \in Rows /\ s[1] = f /\ row[s].in
    BY <1>1, Family
  <2>2. v \in Rows /\ v[1] = f /\ row'[v].in
    BY <2>1, Family
  <2>3. ~Forgotten(s)
    <3>1. ASSUME Forgotten(s) PROVE FALSE
      <4>1. \A u \in OfFamily(f) : s[2] <= u[2] /\ s[2] \in Nat /\ u[2] \in Nat
        BY <2>1, PlaceOfRow, Family, BoundsAssumption DEF First
      <4>2. \A u \in OfFamily(f) : ~(u[2] < s[2])
        BY <4>1
      <4>3. \A u \in OfFamily(f) : row[u].born + Ttl + Grace < now
        BY <2>1, <3>1, <4>2 DEF Forgotten
      <4>4. v \in OfFamily(f)
        BY <1>3, <2>1, <2>2, Family
      <4>5. Forgotten(v)
        BY <2>2, <4>3, <4>4, Family, <2>1 DEF Forgotten
      <4> QED BY <1>2, <2>2, <4>5 DEF NoRow
    <3> QED BY <3>1
  <2>4. s \in OfFamily(f)'
    BY <1>2, <2>1, <2>3, Family
  <2>5. \A u \in OfFamily(f)' : u \in OfFamily(f)
    BY <1>3, <2>1, Family
  <2> QED BY <2>1, <2>4, <2>5 DEF First
<1>5. EmptyStays
  BY <1>1, <1>3, Family DEF EmptyStays
<1>6. RevokedStays
  BY <1>3 DEF RevokedStays
<1>7. BegunAfresh
  BY <1>1, <1>3 DEF BegunAfresh, IInv, RowsOfStarted
<1> QED BY <1>4, <1>5, <1>6, <1>7 DEF Evolve

LEMMA NextEvolve == IInv /\ [Next]_vars => Evolve
<1> SUFFICES ASSUME IInv, [Next]_vars PROVE Evolve
  OBVIOUS
<1>1. ASSUME NEW r \in Requests, NEW f \in Families, OpenSession(r, f) PROVE Evolve
  BY <1>1, OpenEvolve
<1>2. ASSUME NEW r \in Requests, Rotate(r) PROVE Evolve
  BY <1>2, RotateEvolve
<1>3. ASSUME NEW r \in Requests, EndOne(r) \/ EndAll(r) PROVE Evolve
  BY <1>3, EndEvolve
<1>4. CASE Purge
  BY <1>4, PurgeEvolve
<1>5. CASE row' = row /\ started' = started
  BY <1>5, UnchangedEvolve
<1>6. \/ \E r \in Requests, f \in Families : OpenSession(r, f)
      \/ \E r \in Requests : Rotate(r) \/ EndOne(r) \/ EndAll(r)
      \/ Purge
      \/ row' = row /\ started' = started
  BY DEF Next, CheckPassword, BeginRotation, BeginEndOne, BeginEndAll, Tick, vars
<1> QED BY <1>1, <1>2, <1>3, <1>4, <1>5, <1>6

---------------------------------------------------------------------------

LEMMA NextRowsOfStarted == IInv /\ [Next]_vars => RowsOfStarted'
<1> SUFFICES ASSUME IInv, [Next]_vars PROVE RowsOfStarted'
  OBVIOUS
<1>1. Evolve
  BY NextEvolve
<1>2. \A t \in Rows : row'[t].in => t[1] \in started'
  <2> SUFFICES ASSUME NEW t \in Rows, row'[t].in PROVE t[1] \in started'
    OBVIOUS
  <2>1. t[1] \in started => t[1] \in started'
    BY <1>1 DEF Evolve, BegunAfresh
  <2>2. t[1] \notin started => t[1] \in started'
    BY <1>1 DEF Evolve, BegunAfresh
  <2> QED BY <2>1, <2>2
<1>3. \A q \in Requests, t \in Rows : t \in req'[q].seen => t \in req[q].seen \/ row[t].in
  <2>1. ASSUME NEW r \in Requests, CheckPassword(r) \/ (\E t \in Rows : BeginRotation(r, t))
                                   \/ (\E f \in Families : BeginEndOne(r, f)) \/ BeginEndAll(r)
        PROVE  \A q \in Requests, t \in Rows : t \in req'[q].seen => t \in req[q].seen \/ row[t].in
    BY <2>1, Family DEF CheckPassword, BeginRotation, BeginEndOne, BeginEndAll, Begin, IInv, TypeOK
  <2>2. ASSUME NEW r \in Requests, Done(r)
        PROVE  \A q \in Requests, t \in Rows : t \in req'[q].seen => t \in req[q].seen \/ row[t].in
    BY <2>2 DEF Done, Idle, IInv, TypeOK
  <2>3. ASSUME req' = req
        PROVE  \A q \in Requests, t \in Rows : t \in req'[q].seen => t \in req[q].seen \/ row[t].in
    BY <2>3
  <2> QED BY <2>1, <2>2, <2>3
          DEF Next, OpenSession, Rotate, EndOne, EndAll, Purge, Tick, vars
<1>4. TypeOK'
  BY NextType DEF IInv
<1>5. \A q \in Requests : \A t \in req'[q].seen : t[1] \in started'
  BY <1>1, <1>3, <1>4 DEF IInv, RowsOfStarted, Evolve, BegunAfresh, TypeOK
<1> QED BY <1>2, <1>5 DEF RowsOfStarted

LEMMA NextHasFirst == IInv /\ [Next]_vars => HasFirst'
<1> SUFFICES ASSUME IInv, [Next]_vars, NEW t \in Rows, row'[t].in
             PROVE  \E s \in OfFamily(t[1])' : First(s)'
  BY DEF HasFirst
<1>1. Evolve /\ t[1] \in Families /\ t \in OfFamily(t[1])'
  BY NextEvolve, PlaceOfRow, Family
<1>2. CASE t[1] \in started
  <2>1. PICK u \in OfFamily(t[1]) : TRUE
    BY <1>1, <1>2 DEF Evolve, EmptyStays
  <2>2. u \in Rows /\ row[u].in /\ u[1] = t[1]
    BY <1>1, Family
  <2>3. PICK s \in OfFamily(t[1]) : First(s)
    BY <2>2 DEF IInv, HasFirst
  <2> QED BY <1>1, <1>2, <2>3 DEF Evolve, FirstStays
<1>3. CASE t[1] \notin started
  <2>1. \A u \in OfFamily(t[1])' : u[2] = 1
    BY <1>1, <1>3, Family DEF Evolve, BegunAfresh
  <2>2. First(t)'
    BY <1>1, <2>1 DEF First
  <2> QED BY <1>1, <2>2
<1> QED BY <1>2, <1>3

\* What is over stays over.
LEMMA OverStays ==
    ASSUME IInv, [Next]_vars, NEW f \in started, Over(f)
    PROVE  Over(f)'
<1>1. Evolve /\ f \in Families
  BY NextEvolve DEF IInv, TypeOK
<1>2. CASE OfFamily(f) = {}
  BY <1>1, <1>2 DEF Evolve, EmptyStays, Over
<1>3. CASE FamilyRevoked(f)
  <2>1. PICK t \in OfFamily(f) : row[t].revoked
    BY <1>3 DEF FamilyRevoked
  <2>2. t \in Rows /\ row[t].in /\ t[1] = f
    BY <1>1, Family
  <2>3. PICK s \in OfFamily(f) : First(s) /\ row[s].revoked
    BY <2>1, <2>2 DEF IInv, FirstIsRevoked
  <2>4. CASE s \in OfFamily(f)'
    <3>1. s \in Rows /\ row[s].in /\ row'[s].in
      BY <1>1, <2>4, Family
    <3>2. row'[s].revoked
      BY <1>1, <2>3, <3>1 DEF Evolve, RevokedStays
    <3> QED BY <2>4, <3>2 DEF Over, FamilyRevoked
  <2>5. CASE OfFamily(f)' = {}
    BY <2>5 DEF Over
  <2> QED BY <1>1, <2>3, <2>4, <2>5 DEF Evolve, FirstStays
<1> QED BY <1>2, <1>3 DEF Over

LEMMA NextFirstIsRevoked == IInv /\ [Next]_vars => FirstIsRevoked'
<1> SUFFICES ASSUME IInv, [Next]_vars, NEW t \in Rows, row'[t].in, row'[t].revoked
             PROVE  \E s \in OfFamily(t[1])' : First(s)' /\ row'[s].revoked
  BY DEF FirstIsRevoked
<1>1. Evolve /\ t[1] \in Families /\ t \in OfFamily(t[1])' /\ t[1] \in started
  BY NextEvolve, PlaceOfRow, Family DEF Evolve, BegunAfresh
\* A first row that is revoked before the step, or is one of those revoked now.
<1>2. ASSUME NEW s \in OfFamily(t[1]), First(s), row[s].revoked \/ row'[s].revoked
      PROVE  \E u \in OfFamily(t[1])' : First(u)' /\ row'[u].revoked
  <2>1. s \in OfFamily(t[1])' /\ First(s)'
    BY <1>1, <1>2 DEF Evolve, FirstStays
  <2>2. s \in Rows /\ row[s].in /\ row'[s].in
    BY <1>1, <2>1, Family
  <2> QED BY <1>1, <1>2, <2>1, <2>2 DEF Evolve, RevokedStays
<1>3. CASE row[t].in /\ row[t].revoked
  BY <1>2, <1>3 DEF IInv, FirstIsRevoked
<1>4. ASSUME NEW r \in Requests, EndOne(r) \/ EndAll(r)
      PROVE  \E s \in OfFamily(t[1])' : First(s)' /\ row'[s].revoked
  <2>1. PICK opened \in SUBSET (Families \ started) :
          /\ started' = started \cup opened
          /\ closed' = closed \cup {v[1] : v \in {u \in req[r].seen : row[u].in}}
          /\ req[r].does \in {"ends_all", "ends_one"}
          /\ Done(r)
          /\ \A u \in Rows : u[1] \in opened =>
                /\ ~row[u].in
                /\ row'[u].in <=> u[2] = 1
                /\ u[2] = 1 => ~row'[u].used /\ ~row'[u].revoked
          /\ \A u \in Rows : u[1] \notin opened =>
                /\ row'[u].in = row[u].in
                /\ row'[u].used = row[u].used
                /\ row'[u].born = row[u].born
                /\ row'[u].revoked = (row[u].revoked \/ (u \in req[r].seen /\ row[u].in))
    BY <1>4, RevokeEffect DEF IInv
  <2>2. t[1] \notin opened /\ row[t].in
    BY <1>1, <2>1
  <2>3. CASE row[t].revoked
    BY <1>3, <2>2, <2>3
  <2>4. CASE t \in req[r].seen
    <3>1. t \in OfFamily(t[1])
      BY <1>1, <2>2, Family
    <3>2. PICK s \in OfFamily(t[1]) : First(s) /\ (s \in req[r].seen \/ row[s].revoked)
      BY <2>1, <2>4, <3>1 DEF IInv, EndingSeesFirst
    <3>3. s \in Rows /\ s[1] = t[1] /\ row[s].in
      BY <1>1, Family
    <3>4. row'[s].revoked
      BY <2>1, <2>2, <3>2, <3>3
    <3> QED BY <1>2, <3>2, <3>4
  <2> QED BY <2>1, <2>2, <2>3, <2>4
<1>5. ASSUME NEW r \in Requests, Rotate(r) PROVE row[t].in /\ row[t].revoked
  <2>1. PICK v \in req[r].seen, new \in Rows :
              /\ v \in Rows /\ row[v].in /\ ~row[v].used
              /\ new[1] = v[1] /\ ~row[new].in
              /\ \A u \in OfFamily(v[1]) : u[2] < new[2]
              /\ row'[new].in /\ ~row'[new].used /\ ~row'[new].revoked
              /\ row'[v].in /\ row'[v].used /\ row'[v].revoked = row[v].revoked
              /\ \A u \in Rows : u # v /\ u # new => row'[u] = row[u]
    BY <1>5, RotateEffect DEF IInv
  <2> QED BY <2>1
<1>6. ASSUME NEW r \in Requests, NEW f \in Families, OpenSession(r, f)
      PROVE  row[t].in /\ row[t].revoked
  BY <1>6 DEF OpenSession, FreshRow, IInv, TypeOK
<1>7. CASE Purge
  BY <1>3, <1>7 DEF Purge, NoRow
<1>8. CASE row' = row
  BY <1>3, <1>8
<1> QED BY <1>3, <1>4, <1>5, <1>6, <1>7, <1>8
        DEF Next, CheckPassword, BeginRotation, BeginEndOne, BeginEndAll, Tick, vars

LEMMA NextEndingSeesFirst == IInv /\ [Next]_vars => EndingSeesFirst'
<1> SUFFICES ASSUME IInv, [Next]_vars, NEW q \in Requests,
                    req'[q].does \in {"ends_all", "ends_one"},
                    NEW t \in req'[q].seen, OfFamily(t[1])' # {}
             PROVE  \E s \in OfFamily(t[1])' : First(s)' /\ (s \in req'[q].seen \/ row'[s].revoked)
  BY DEF EndingSeesFirst
<1>1. TypeOK' /\ Evolve
  BY NextType, NextEvolve DEF IInv
<1>2. t \in Rows /\ t[1] \in Families
  BY <1>1, PlaceOfRow DEF TypeOK
<1>3. CASE req'[q] = req[q]
  <2>1. t[1] \in started
    BY <1>3 DEF IInv, RowsOfStarted
  <2>2. OfFamily(t[1]) # {}
    BY <1>1, <2>1 DEF Evolve, EmptyStays
  <2>3. PICK s \in OfFamily(t[1]) : First(s) /\ (s \in req[q].seen \/ row[s].revoked)
    BY <1>3, <2>2 DEF IInv, EndingSeesFirst
  <2>4. s \in OfFamily(t[1])' /\ First(s)'
    BY <1>1, <2>1, <2>3 DEF Evolve, FirstStays
  <2>5. s \in Rows /\ row[s].in /\ row'[s].in
    BY <1>2, <2>4, Family
  <2> QED BY <1>1, <1>3, <2>3, <2>4, <2>5 DEF Evolve, RevokedStays
\* A request that begins has seen every row that is not revoked.
<1>4. ASSUME row' = row, row[t].in,
             \A s \in OfFamily(t[1]) : s \in req'[q].seen \/ row[s].revoked
      PROVE  \E s \in OfFamily(t[1])' : First(s)' /\ (s \in req'[q].seen \/ row'[s].revoked)
  <2>1. PICK s \in OfFamily(t[1]) : First(s)
    BY <1>2, <1>4 DEF IInv, HasFirst
  <2>2. s[1] = t[1] /\ s \in Rows
    BY <1>2, Family
  <2>3. OfFamily(t[1])' = OfFamily(t[1])
    BY <1>4 DEF OfFamily
  <2>4. First(s)'
    BY <2>1, <2>2, <2>3 DEF First
  <2> QED BY <1>4, <2>1, <2>3, <2>4
<1>5. ASSUME NEW f \in Families, BeginEndOne(q, f)
      PROVE  \E s \in OfFamily(t[1])' : First(s)' /\ (s \in req'[q].seen \/ row'[s].revoked)
  <2>1. req'[q].seen = {u \in OfFamily(f) : ~row[u].revoked} /\ row' = row
    BY <1>5 DEF BeginEndOne, Begin, IInv, TypeOK
  <2>2. t[1] = f /\ row[t].in
    BY <2>1, Family
  <2> QED BY <1>4, <2>1, <2>2
<1>6. CASE BeginEndAll(q)
  <2>1. req'[q].seen = {u \in Rows : row[u].in /\ ~row[u].revoked} /\ row' = row
    BY <1>6 DEF BeginEndAll, Begin, IInv, TypeOK
  <2>2. \A s \in OfFamily(t[1]) : s \in req'[q].seen \/ row[s].revoked
    BY <1>2, <2>1, Family
  <2> QED BY <1>4, <2>1, <2>2
<1>7. ASSUME NEW r \in Requests, Done(r) PROVE req'[q] = req[q]
  BY <1>7 DEF Done, Idle, IInv, TypeOK
<1>8. ASSUME NEW r \in Requests, CheckPassword(r) \/ (\E u \in Rows : BeginRotation(r, u))
      PROVE  req'[q] = req[q]
  BY <1>8 DEF CheckPassword, BeginRotation, Begin, IInv, TypeOK
<1>9. ASSUME NEW r \in Requests, r # q, (\E f \in Families : BeginEndOne(r, f)) \/ BeginEndAll(r)
      PROVE  req'[q] = req[q]
  BY <1>9 DEF BeginEndOne, BeginEndAll, Begin, IInv, TypeOK
<1>10. \/ \E r \in Requests : \/ Done(r)
                              \/ CheckPassword(r) \/ (\E u \in Rows : BeginRotation(r, u))
                              \/ (\E f \in Families : BeginEndOne(r, f)) \/ BeginEndAll(r)
       \/ req' = req
  BY DEF Next, OpenSession, Rotate, EndOne, EndAll, Purge, Tick, vars
<1> QED BY <1>3, <1>5, <1>6, <1>7, <1>8, <1>9, <1>10

---------------------------------------------------------------------------

LEMMA NextRecent == IInv /\ [Next]_vars => Recent'
<1> SUFFICES ASSUME IInv, [Next]_vars PROVE Recent'
  OBVIOUS
<1>1. ASSUME NEW r \in Requests, NEW what, NEW v, NEW seen, Begin(r, what, v, seen), now' = now
      PROVE  Recent'
  BY <1>1 DEF Begin, Recent, IInv, TypeOK
<1>2. ASSUME NEW r \in Requests, Done(r), now' = now PROVE Recent'
  BY <1>2 DEF Done, Idle, Recent, IInv, TypeOK
<1>3. CASE Tick
  BY <1>3 DEF Tick, Idle, Recent, IInv, TypeOK
<1>4. CASE req' = req /\ now' = now
  BY <1>4 DEF Recent, IInv
<1>5. ASSUME NEW r \in Requests, CheckPassword(r) \/ BeginEndAll(r) PROVE Recent'
  BY <1>1, <1>5 DEF CheckPassword, BeginEndAll
<1>6. ASSUME NEW r \in Requests, NEW f \in Families, BeginEndOne(r, f) PROVE Recent'
  BY <1>1, <1>6 DEF BeginEndOne
<1>7. ASSUME NEW r \in Requests, NEW t \in Rows, BeginRotation(r, t) PROVE Recent'
  BY <1>1, <1>7 DEF BeginRotation
<1>8. ASSUME NEW r \in Requests,
             Rotate(r) \/ EndOne(r) \/ EndAll(r) \/ (\E f \in Families : OpenSession(r, f))
      PROVE Recent'
  BY <1>2, <1>8 DEF Rotate, EndOne, EndAll, OpenSession
<1> QED BY <1>3, <1>4, <1>5, <1>6, <1>7, <1>8 DEF Next, Purge, vars

\* A row that a rotation holds keeps what the rotation relies on, unless the
\* rotation itself is what happens.
LEMMA HeldRowStays ==
    ASSUME IInv, [Next]_vars, NEW q \in Requests, req[q].does = "rotates",
           req'[q] = req[q], NEW t \in req[q].seen
    PROVE  row'[t].in /\ ~row'[t].used /\ req[q].at < row'[t].born + Ttl
<1>1. /\ t \in Rows /\ row[t].in /\ ~row[t].used /\ req[q].at < row[t].born + Ttl
      /\ t[1] \in started
  BY DEF IInv, TypeOK, RotationHolds, RowsOfStarted
<1>2. ASSUME NEW r \in Requests, NEW f \in Families, OpenSession(r, f) PROVE row'[t] = row[t]
  BY <1>1, <1>2, PlaceOfRow DEF OpenSession, IInv, TypeOK
<1>3. ASSUME NEW r \in Requests, Rotate(r) PROVE row'[t] = row[t]
  <2>1. PICK v \in req[r].seen, new \in Rows :
              /\ v \in Rows /\ row[v].in /\ ~row[v].used
              /\ new[1] = v[1] /\ ~row[new].in
              /\ \A u \in OfFamily(v[1]) : u[2] < new[2]
              /\ row'[new].in /\ ~row'[new].used /\ ~row'[new].revoked
              /\ row'[v].in /\ row'[v].used /\ row'[v].revoked = row[v].revoked
              /\ \A u \in Rows : u # v /\ u # new => row'[u] = row[u]
    BY <1>3, RotateEffect DEF IInv
  <2>2. r # q
    BY <1>3 DEF Rotate, Done, Idle, IInv, TypeOK
  <2>3. req[r].does = "rotates"
    BY <1>3 DEF Rotate
  <2>4. t # v
    BY <2>1, <2>2, <2>3 DEF IInv, RotationHolds
  <2> QED BY <1>1, <2>1, <2>4
<1>4. ASSUME NEW r \in Requests, EndOne(r) \/ EndAll(r)
      PROVE  row'[t].in = row[t].in /\ row'[t].used = row[t].used /\ row'[t].born = row[t].born
  <2>1. PICK opened \in SUBSET (Families \ started) :
          /\ started' = started \cup opened
          /\ closed' = closed \cup {v[1] : v \in {u \in req[r].seen : row[u].in}}
          /\ req[r].does \in {"ends_all", "ends_one"}
          /\ Done(r)
          /\ \A u \in Rows : u[1] \in opened =>
                /\ ~row[u].in
                /\ row'[u].in <=> u[2] = 1
                /\ u[2] = 1 => ~row'[u].used /\ ~row'[u].revoked
          /\ \A u \in Rows : u[1] \notin opened =>
                /\ row'[u].in = row[u].in
                /\ row'[u].used = row[u].used
                /\ row'[u].born = row[u].born
                /\ row'[u].revoked = (row[u].revoked \/ (u \in req[r].seen /\ row[u].in))
    BY <1>4, RevokeEffect DEF IInv
  <2> QED BY <1>1, <2>1
<1>5. CASE Purge
  <2>1. now <= req[q].at + 1
    BY DEF IInv, Recent
  <2>2. /\ now \in Nat /\ req[q].at \in Nat /\ row[t].born \in Nat
        /\ Ttl \in Nat /\ Grace \in Nat
    BY <1>1, TimesAssumption DEF IInv, TypeOK
  <2>3. ~(row[t].born + Ttl + Grace < now)
    BY <1>1, <2>1, <2>2
  <2> QED BY <1>1, <1>5, <2>3 DEF Purge, Forgotten
<1>6. CASE row' = row
  BY <1>1, <1>6
<1> QED BY <1>1, <1>2, <1>3, <1>4, <1>5, <1>6
        DEF Next, CheckPassword, BeginRotation, BeginEndOne, BeginEndAll, Tick, vars

LEMMA NextRotationHolds == IInv /\ [Next]_vars => RotationHolds'
<1> SUFFICES ASSUME IInv, [Next]_vars PROVE RotationHolds'
  OBVIOUS
<1>1. ASSUME NEW r \in Requests, NEW t \in Rows, BeginRotation(r, t) PROVE RotationHolds'
  <2>1. /\ req' = [req EXCEPT ![r] = [does |-> "rotates", at |-> now, ver |-> version,
                                      seen |-> {t}]]
        /\ row' = row
    BY <1>1 DEF BeginRotation, Begin
  <2>2. row[t].in /\ ~row[t].used /\ now < row[t].born + Ttl
    <3>1. ~(row[t].born + Ttl <= now) /\ row[t].born \in Nat /\ Ttl \in Nat /\ now \in Nat
      BY <1>1, TimesAssumption DEF BeginRotation, Expired, IInv, TypeOK
    <3> QED BY <1>1, <3>1 DEF BeginRotation
  <2>3. \A q \in Requests : req[q].does = "rotates" => t \notin req[q].seen
    BY <1>1 DEF BeginRotation, Locked
  <2> QED BY <2>1, <2>2, <2>3 DEF RotationHolds, IInv, TypeOK
<1>2. ASSUME \A q \in Requests : req'[q].does = "rotates" => req'[q] = req[q]
      PROVE  RotationHolds'
  <2>1. \A q \in Requests : req'[q].does = "rotates" =>
            \A t \in req'[q].seen : row'[t].in /\ ~row'[t].used /\ req'[q].at < row'[t].born + Ttl
    BY <1>2, HeldRowStays
  <2>2. \A r, q \in Requests :
            req'[r].does = "rotates" /\ req'[q].does = "rotates" /\ r # q
                => req'[r].seen \cap req'[q].seen = {}
    BY <1>2 DEF IInv, RotationHolds
  <2> QED BY <2>1, <2>2 DEF RotationHolds
<1>3. ASSUME NEW r \in Requests, Done(r)
      PROVE  \A q \in Requests : req'[q].does = "rotates" => req'[q] = req[q]
  BY <1>3 DEF Done, Idle, IInv, TypeOK
<1>4. ASSUME NEW r \in Requests,
             CheckPassword(r) \/ BeginEndAll(r) \/ (\E f \in Families : BeginEndOne(r, f))
      PROVE  \A q \in Requests : req'[q].does = "rotates" => req'[q] = req[q]
  BY <1>4 DEF CheckPassword, BeginEndAll, BeginEndOne, Begin, IInv, TypeOK
<1>5. \/ \E r \in Requests : \/ Done(r) \/ (\E t \in Rows : BeginRotation(r, t))
                             \/ CheckPassword(r) \/ BeginEndAll(r)
                             \/ (\E f \in Families : BeginEndOne(r, f))
      \/ req' = req
  BY DEF Next, OpenSession, Rotate, EndOne, EndAll, Purge, Tick, vars
<1> QED BY <1>1, <1>2, <1>3, <1>4, <1>5

LEMMA NextOneTokenLives == IInv /\ [Next]_vars => OneTokenLives'
<1> SUFFICES ASSUME IInv, [Next]_vars, NEW f \in Families,
                    NEW s \in OfFamily(f)', NEW t \in OfFamily(f)',
                    ~row'[s].used, ~row'[t].used
             PROVE  s = t
  BY DEF OneTokenLives
<1>1. /\ s \in Rows /\ s[1] = f /\ row'[s].in
      /\ t \in Rows /\ t[1] = f /\ row'[t].in
  BY Family
\* Two rows that were there before, neither of them used.
<1>2. ASSUME row[s].in, row[t].in, ~row[s].used, ~row[t].used PROVE s = t
  BY <1>1, <1>2, Family DEF IInv, OneTokenLives
<1>3. CASE f \notin started
  <2>1. s[2] = 1 /\ t[2] = 1
    BY <1>1, <1>3, NextEvolve DEF Evolve, BegunAfresh
  <2> QED BY <1>1, <2>1, PlaceOfRow
<1>4. ASSUME f \in started, NEW r \in Requests, NEW g \in Families, OpenSession(r, g)
      PROVE  row'[s] = row[s] /\ row'[t] = row[t]
  BY <1>1, <1>4, PlaceOfRow DEF OpenSession, IInv, TypeOK
<1>5. ASSUME f \in started, NEW r \in Requests, Rotate(r) PROVE s = t
  <2>1. PICK v \in req[r].seen, new \in Rows :
              /\ v \in Rows /\ row[v].in /\ ~row[v].used
              /\ new[1] = v[1] /\ ~row[new].in
              /\ \A u \in OfFamily(v[1]) : u[2] < new[2]
              /\ row'[new].in /\ ~row'[new].used /\ ~row'[new].revoked
              /\ row'[v].in /\ row'[v].used /\ row'[v].revoked = row[v].revoked
              /\ \A u \in Rows : u # v /\ u # new => row'[u] = row[u]
    BY <1>5, RotateEffect DEF IInv
  <2>2. \A u \in Rows : u[1] = v[1] /\ row[u].in /\ ~row[u].used => u = v
    BY <2>1, Family, PlaceOfRow DEF IInv, OneTokenLives
  <2>3. \A u \in Rows : u[1] = v[1] /\ row'[u].in /\ ~row'[u].used => u = new
    BY <2>1, <2>2
  <2>4. CASE f = v[1]
    BY <1>1, <2>3, <2>4
  <2>5. CASE f # v[1]
    BY <1>1, <1>2, <2>1, <2>5
  <2> QED BY <2>4, <2>5
<1>6. ASSUME f \in started, NEW r \in Requests, EndOne(r) \/ EndAll(r)
      PROVE  /\ row'[s].in = row[s].in /\ row'[s].used = row[s].used
             /\ row'[t].in = row[t].in /\ row'[t].used = row[t].used
  <2>1. PICK opened \in SUBSET (Families \ started) :
          /\ started' = started \cup opened
          /\ closed' = closed \cup {v[1] : v \in {u \in req[r].seen : row[u].in}}
          /\ req[r].does \in {"ends_all", "ends_one"}
          /\ Done(r)
          /\ \A u \in Rows : u[1] \in opened =>
                /\ ~row[u].in
                /\ row'[u].in <=> u[2] = 1
                /\ u[2] = 1 => ~row'[u].used /\ ~row'[u].revoked
          /\ \A u \in Rows : u[1] \notin opened =>
                /\ row'[u].in = row[u].in
                /\ row'[u].used = row[u].used
                /\ row'[u].born = row[u].born
                /\ row'[u].revoked = (row[u].revoked \/ (u \in req[r].seen /\ row[u].in))
    BY <1>6, RevokeEffect DEF IInv
  <2> QED BY <1>1, <1>6, <2>1
<1>7. CASE Purge
  <2>1. row'[s] = row[s] /\ row'[t] = row[t]
    BY <1>1, <1>7 DEF Purge, NoRow
  <2> QED BY <1>1, <1>2, <2>1
<1>8. CASE row' = row
  BY <1>1, <1>2, <1>8
<1> QED BY <1>1, <1>2, <1>3, <1>4, <1>5, <1>6, <1>7, <1>8
        DEF Next, CheckPassword, BeginRotation, BeginEndOne, BeginEndAll, Tick, vars

LEMMA NextClosedAreOver == IInv /\ [Next]_vars => ClosedAreOver'
<1> SUFFICES ASSUME IInv, [Next]_vars, NEW f \in closed' PROVE Over(f)'
  BY DEF ClosedAreOver
<1>1. CASE f \in closed
  BY <1>1, OverStays DEF IInv, TypeOK, ClosedAreOver
<1>2. ASSUME NEW r \in Requests, EndOne(r) \/ EndAll(r) PROVE Over(f)'
  <2>1. PICK opened \in SUBSET (Families \ started) :
          /\ started' = started \cup opened
          /\ closed' = closed \cup {v[1] : v \in {u \in req[r].seen : row[u].in}}
          /\ req[r].does \in {"ends_all", "ends_one"}
          /\ Done(r)
          /\ \A u \in Rows : u[1] \in opened =>
                /\ ~row[u].in
                /\ row'[u].in <=> u[2] = 1
                /\ u[2] = 1 => ~row'[u].used /\ ~row'[u].revoked
          /\ \A u \in Rows : u[1] \notin opened =>
                /\ row'[u].in = row[u].in
                /\ row'[u].used = row[u].used
                /\ row'[u].born = row[u].born
                /\ row'[u].revoked = (row[u].revoked \/ (u \in req[r].seen /\ row[u].in))
    BY <1>2, RevokeEffect DEF IInv
  <2>2. CASE f \notin closed
    <3>1. PICK v \in req[r].seen : row[v].in /\ f = v[1]
      BY <2>1, <2>2
    <3>2. v \in Rows /\ v[1] \in started /\ f \in Families
      BY <3>1, PlaceOfRow DEF IInv, TypeOK, RowsOfStarted
    <3>3. row'[v].in /\ row'[v].revoked
      BY <2>1, <3>1, <3>2
    <3>4. v \in OfFamily(f)'
      BY <3>1, <3>2, <3>3, Family
    <3> QED BY <3>3, <3>4 DEF Over, FamilyRevoked
  <2> QED BY <1>1, <2>2
<1>3. CASE closed' = closed
  BY <1>1, <1>3
<1> QED BY <1>2, <1>3
        DEF Next, CheckPassword, OpenSession, BeginRotation, Rotate, BeginEndOne, BeginEndAll,
            Purge, Tick, vars

LEMMA NextIInv == IInv /\ [Next]_vars => IInv'
  BY NextType, NextRowsOfStarted, NextHasFirst, NextFirstIsRevoked, NextEndingSeesFirst,
     NextRecent, NextRotationHolds, NextOneTokenLives, NextClosedAreOver DEF IInv

---------------------------------------------------------------------------

\* Sessions, rows, requests and the version of the account stay in their types
\* (refresh_tokens, accounts.token_version).
THEOREM TypeCorrect == Spec => []TypeOK
<1>1. IInv => TypeOK
  BY DEF IInv
<1> QED BY InitIInv, NextIInv, <1>1, PTL DEF Spec

\* A family has one token at most that can still be exchanged, for any number
\* of requests that present it (get_by_hash, FOR UPDATE).
THEOREM TokenRotatedOnce == Spec => []OneTokenLives
<1>1. IInv => OneTokenLives
  BY DEF IInv
<1> QED BY InitIInv, NextIInv, <1>1, PTL DEF Spec

\* No access token of a family that a request has ended is accepted, for any
\* number of sessions, requests and rotations and any time (family_revoked,
\* delete_expired_before).
THEOREM EndedHasNoAccess == Spec => []ClosedStaysClosed
<1>1. IInv => ClosedStaysClosed
  <2> SUFFICES ASSUME IInv, NEW t \in Rows, row[t].in, t[1] \in closed
               PROVE  ~Accepted(t, row[t].ver, row[t].born)
    BY DEF ClosedStaysClosed
  <2>1. t \in OfFamily(t[1])
    BY PlaceOfRow, Family
  <2>2. FamilyRevoked(t[1])
    BY <2>1 DEF IInv, ClosedAreOver, Over
  <2> QED BY <2>2 DEF Accepted
<1> QED BY InitIInv, NextIInv, <1>1, PTL DEF Spec

LEMMA AccessOfOpen ==
    ASSUME IInv
    PROVE  \A f \in WithAccess : f \in Families /\ LifeOf(f) = "open"
<1> SUFFICES ASSUME NEW f \in WithAccess PROVE f \in Families /\ LifeOf(f) = "open"
  OBVIOUS
<1>1. f \in Families /\ \E t \in OfFamily(f) : Accepted(t, row[t].ver, row[t].born)
  BY DEF WithAccess
<1>2. PICK t \in OfFamily(f) : Accepted(t, row[t].ver, row[t].born)
  BY <1>1
<1>3. t \in Rows /\ t[1] = f /\ row[t].in
  BY <1>1, Family
<1>4. f \in started
  BY <1>3 DEF IInv, RowsOfStarted
<1> QED BY <1>1, <1>2, <1>3, <1>4 DEF LifeOf, Accepted

LEMMA AccessOfOpenNext ==
    ASSUME IInv'
    PROVE  \A f \in WithAccess' : f \in Families /\ LifeOf(f)' = "open"
<1> SUFFICES ASSUME NEW f \in WithAccess' PROVE f \in Families /\ LifeOf(f)' = "open"
  OBVIOUS
<1>1. f \in Families /\ \E t \in OfFamily(f)' : Accepted(t, row[t].ver, row[t].born)'
  BY DEF WithAccess
<1>2. PICK t \in OfFamily(f)' : Accepted(t, row[t].ver, row[t].born)'
  BY <1>1
<1>3. t \in Rows /\ t[1] = f /\ row'[t].in
  BY <1>1, Family
<1>4. f \in started'
  BY <1>3 DEF IInv, RowsOfStarted
<1> QED BY <1>1, <1>2, <1>3, <1>4 DEF LifeOf, Accepted

\* Sessions implements SessionLife: a session is opened once, ends once, and
\* access never outlives it.
THEOREM ImplementsSessionLife == Spec => EndsForGood
<1>1. Init => Promise!Init
  <2> SUFFICES ASSUME Init PROVE Promise!Init
    OBVIOUS
  <2>1. \A f \in Families : LifeOf(f) = "new"
    BY DEF Init, LifeOf
  <2>2. WithAccess = {}
    BY InitIInv, AccessOfOpen, <2>1
  <2> QED BY <2>1, <2>2 DEF Promise!Init
<1>2. IInv /\ IInv' /\ [Next]_vars => Promise!Next
  <2> SUFFICES ASSUME IInv, IInv', [Next]_vars PROVE Promise!Next
    OBVIOUS
  <2>1. \A f \in Families : LifeOf(f) \in {"new", "open", "ended"}
                            /\ LifeOf(f)' \in {"new", "open", "ended"}
    BY DEF LifeOf
  <2>2. ASSUME NEW f \in Families
        PROVE  \/ LifeOf(f)' = LifeOf(f)
               \/ LifeOf(f) = "new" /\ LifeOf(f)' = "open"
               \/ LifeOf(f) = "open" /\ LifeOf(f)' = "ended"
    <3>1. Evolve
      BY NextEvolve
    <3>2. CASE f \in started
      <4>1. f \in started'
        BY <3>1, <3>2 DEF Evolve, BegunAfresh
      <4>2. Over(f) => Over(f)'
        BY <3>2, OverStays
      <4> QED BY <3>2, <4>1, <4>2 DEF LifeOf, Over
    <3>3. CASE f \notin started /\ f \notin started'
      BY <3>3 DEF LifeOf
    <3>4. CASE f \notin started /\ f \in started'
      <4>1. OfFamily(f)' # {}
        <5>1. <<f, 1>> \in Rows /\ <<f, 1>>[1] = f /\ <<f, 1>>[2] = 1
          BY PlaceOfRow, BoundsAssumption
        <5>2. ASSUME NEW r \in Requests, NEW g \in Families, OpenSession(r, g)
              PROVE  row'[<<f, 1>>].in
          BY <3>4, <5>1, <5>2 DEF OpenSession, FreshRow, IInv, TypeOK
        <5>3. ASSUME NEW r \in Requests, EndOne(r) \/ EndAll(r)
              PROVE  row'[<<f, 1>>].in
          BY <3>4, <5>1, <5>3, RevokeEffect DEF IInv
        <5>4. row'[<<f, 1>>].in
          BY <3>4, <5>2, <5>3
             DEF Next, CheckPassword, BeginRotation, Rotate, BeginEndOne, BeginEndAll,
                 Purge, Tick, vars
        <5> QED BY <5>1, <5>4, Family
      <4>2. \A t \in OfFamily(f)' : ~row'[t].revoked
        BY <3>1, <3>4, Family DEF Evolve, BegunAfresh
      <4> QED BY <3>4, <4>1, <4>2 DEF LifeOf, FamilyRevoked
    <3> QED BY <3>2, <3>3, <3>4
  <2>3. \A f \in WithAccess' : f \in Families /\ LifeOf(f)' = "open"
    BY AccessOfOpenNext
  <2> QED BY <2>1, <2>2, <2>3 DEF Promise!Next, Promise!Open
<1> QED BY <1>1, <1>2, InitIInv, NextIInv, PTL DEF Spec, EndsForGood, Promise!Spec
=============================================================================
