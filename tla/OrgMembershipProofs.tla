------------------------- MODULE OrgMembershipProofs -------------------------
(***************************************************************************)
(* For any number of users and interleaved requests: an organization keeps *)
(* an owner unless one change overtakes another, nobody joins who did not  *)
(* ask, and only owners make owners.                                       *)
(***************************************************************************)
EXTENDS OrgMembership, TLAPS, FiniteSetTheorems

OwnersOf(m) == {u \in Users : m[u] = "OWNER"}
TwoOwners(m) == \E a, b \in OwnersOf(m) : a # b

IsRequest(r) ==
  /\ r.pc \in {"idle", "opened", "loading", "counting", "writing"}
  /\ r.op \in {"add", "claim", "remove"}
  /\ r.target \in Users /\ r.role \in Roles
  /\ r.acting \in Held /\ r.seen \in Held /\ r.existing \in Held
  /\ r.stale \in BOOLEAN

\* Past the look-up, a request that may add a row is for somebody who asked.
IsAsked(c, r) ==
  ~AllowNew /\ r.op # "remove" /\ r.pc \in {"loading", "counting", "writing"}
    => r.target = Founder \/ r.target \in c

\* What the role checks have settled once the request is past them.
IsChecked(r) ==
  /\ r.pc = "counting" => r.existing = "OWNER"
  /\ r.pc = "writing" /\ r.op = "remove" => r.existing # "none"
  /\ r.pc \in {"counting", "writing"} /\ r.op # "remove" /\ r.role = "OWNER"
       => r.acting = "OWNER"

\* Unless another change came in between, what the request read still holds,
\* and a request about to take an owner away leaves one.
IsCurrent(m, r) ==
  ~r.stale =>
    /\ r.pc = "loading" => r.seen \in {"none", m[r.target]}
    /\ r.pc \in {"counting", "writing"} => r.existing = m[r.target]
    /\ r.pc = "writing" /\ r.existing = "OWNER" /\ (r.op = "remove" \/ r.role # "OWNER")
         => TwoOwners(m)

Sound(m, c, r) == IsRequest(r) /\ IsAsked(c, r) /\ IsChecked(r) /\ IsCurrent(m, r)

Typed ==
  /\ member \in [Users -> Held]
  /\ req \in [Requests -> Request]
  /\ claims \in SUBSET Users
  /\ overtaken \in BOOLEAN

IInv ==
  /\ Typed
  /\ \A q \in Requests : Sound(member, claims, req[q])
  /\ MembersAsked
  /\ OwnerKeptUnlessOvertaken

\* A row count above one shows two owners.
LEMMA TwoCounted ==
  ASSUME NEW S, IsFiniteSet(S), ~(Cardinality(S) <= 1)
  PROVE  \E a, b \in S : a # b
<1>1. Cardinality(S) \in Nat
  BY FS_CardinalityType
<1>2. S # {}
  BY <1>1, FS_EmptySet
<1>3. PICK a \in S : TRUE
  BY <1>2
<1>4. S # {a}
  BY <1>1, FS_Singleton
<1>5. QED
  BY <1>3, <1>4

\* Nobody but the founder is a member when the organization is created.
LEMMA InitInv == Init => IInv
<1> SUFFICES ASSUME Init PROVE IInv
  OBVIOUS
<1>1. Typed
  BY MembershipAssumption DEF Init, Typed, Held, Roles, Request, IdleRequest
<1>2. \A q \in Requests : Sound(member, claims, req[q])
  BY MembershipAssumption
     DEF Init, Sound, IsRequest, IsAsked, IsChecked, IsCurrent, IdleRequest, Held, Roles
<1>3. MembersAsked /\ OwnerKeptUnlessOvertaken
  BY MembershipAssumption DEF Init, MembersAsked, OwnerKeptUnlessOvertaken, Owners
<1>4. QED
  BY <1>1, <1>2, <1>3 DEF IInv

\* A request that moves on without touching a row keeps the invariant if what
\* it holds afterwards is sound.
LEMMA MoveInv ==
  ASSUME IInv, NEW q \in Requests, NEW r \in Request, Sound(member, claims, r),
         req' = [req EXCEPT ![q] = r], UNCHANGED <<member, claims, overtaken>>
  PROVE  IInv'
<1>1. Typed'
  BY DEF IInv, Typed
<1>2. \A p \in Requests : Sound(member', claims', req'[p])
  <2> TAKE p \in Requests
  <2>1. req'[p] = IF p = q THEN r ELSE req[p]
    BY DEF IInv, Typed
  <2>2. QED
    BY <2>1 DEF IInv
<1>3. MembersAsked' /\ OwnerKeptUnlessOvertaken'
  BY DEF IInv, MembersAsked, OwnerKeptUnlessOvertaken, Owners
<1>4. QED
  BY <1>1, <1>2, <1>3 DEF IInv

\* An ended request holds nothing.
LEMMA StopInv ==
  ASSUME IInv, NEW q \in Requests, Stop(q), UNCHANGED <<member, claims, overtaken>>
  PROVE  IInv'
<1>1. IdleRequest \in Request /\ Sound(member, claims, IdleRequest)
  BY MembershipAssumption
     DEF Sound, IsRequest, IsAsked, IsChecked, IsCurrent, IdleRequest, Request, Held, Roles
<1>2. QED
  BY <1>1, MoveInv DEF Stop

\* A new claim takes nothing from anybody.
LEMMA MakeClaimInv ==
  ASSUME IInv, NEW u \in Users, MakeClaim(u)
  PROVE  IInv'
<1>1. Typed'
  BY DEF IInv, Typed, MakeClaim
<1>2. \A p \in Requests : Sound(member', claims', req'[p])
  <2> TAKE p \in Requests
  <2>1. IsAsked(claims', req'[p])
    BY DEF IInv, Sound, IsAsked, MakeClaim
  <2>2. QED
    BY <2>1 DEF IInv, Sound, MakeClaim
<1>3. MembersAsked' /\ OwnerKeptUnlessOvertaken'
  BY DEF IInv, MembersAsked, OwnerKeptUnlessOvertaken, Owners, MakeClaim
<1>4. QED
  BY <1>1, <1>2, <1>3 DEF IInv

\* The record a request starts with.
OpenedAs(y, p, o, t, ro, a) ==
  [y EXCEPT !.pc = p, !.op = o, !.target = t, !.role = ro, !.acting = a]

\* It keeps the fields that are not set.
LEMMA OpenedRecord ==
  ASSUME NEW y \in Request, NEW p, NEW o, NEW t, NEW ro, NEW a
  PROVE  OpenedAs(y, p, o, t, ro, a)
           = [pc |-> p, op |-> o, target |-> t, role |-> ro, acting |-> a,
              seen |-> y.seen, existing |-> y.existing, stale |-> y.stale]
<1> DEFINE r1 == [y EXCEPT !.pc = p]
           r2 == [r1 EXCEPT !.op = o]
           r3 == [r2 EXCEPT !.target = t]
           r4 == [r3 EXCEPT !.role = ro]
           r5 == [r4 EXCEPT !.acting = a]
<1>1. r1 = [pc |-> p, op |-> y.op, target |-> y.target, role |-> y.role, acting |-> y.acting,
            seen |-> y.seen, existing |-> y.existing, stale |-> y.stale]
  BY DEF Request
<1> HIDE DEF r1
<1>2. r2 = [pc |-> p, op |-> o, target |-> y.target, role |-> y.role, acting |-> y.acting,
            seen |-> y.seen, existing |-> y.existing, stale |-> y.stale]
  BY <1>1
<1> HIDE DEF r2
<1>3. r3 = [pc |-> p, op |-> o, target |-> t, role |-> y.role, acting |-> y.acting,
            seen |-> y.seen, existing |-> y.existing, stale |-> y.stale]
  BY <1>2
<1> HIDE DEF r3
<1>4. r4 = [pc |-> p, op |-> o, target |-> t, role |-> ro, acting |-> y.acting,
            seen |-> y.seen, existing |-> y.existing, stale |-> y.stale]
  BY <1>3
<1> HIDE DEF r4
<1>5. r5 = [pc |-> p, op |-> o, target |-> t, role |-> ro, acting |-> a,
            seen |-> y.seen, existing |-> y.existing, stale |-> y.stale]
  BY <1>4
<1> USE DEF r1, r2, r3, r4
<1>6. OpenedAs(y, p, o, t, ro, a) = r5
  BY Zenon DEF OpenedAs
<1>7. QED
  BY <1>5, <1>6

\* Opening a request records the actor's role and checks a claim.
LEMMA OpenInv ==
  ASSUME IInv, NEW q \in Requests, NEW op \in {"add", "claim", "remove"},
         NEW actor \in Users, NEW target \in Users, NEW role \in Roles,
         Open(q, op, actor, target, role)
  PROVE  IInv'
<1> DEFINE r == [IdleRequest EXCEPT !.pc = IF op = "add" THEN "opened" ELSE "loading",
                           !.op = op, !.target = target, !.role = role,
                           !.acting = member[actor]]
<1>1. r = [pc |-> IF op = "add" THEN "opened" ELSE "loading", op |-> op, target |-> target,
           role |-> role, acting |-> member[actor], seen |-> "none", existing |-> "none",
           stale |-> FALSE]
  <2>1. IdleRequest \in Request
    BY MembershipAssumption DEF IdleRequest, Request, Held, Roles
  <2>2. IdleRequest.seen = "none" /\ IdleRequest.existing = "none" /\ IdleRequest.stale = FALSE
    BY DEF IdleRequest
  <2>3. r = OpenedAs(IdleRequest, IF op = "add" THEN "opened" ELSE "loading", op, target,
                     role, member[actor])
    BY Zenon DEF OpenedAs
  <2> HIDE DEF r
  <2>4. r = [pc |-> IF op = "add" THEN "opened" ELSE "loading", op |-> op, target |-> target,
             role |-> role, acting |-> member[actor], seen |-> IdleRequest.seen,
             existing |-> IdleRequest.existing, stale |-> IdleRequest.stale]
    BY <2>1, <2>3, OpenedRecord
  <2>5. QED
    BY <2>2, <2>4
<1>2. member[actor] \in Held
  BY DEF IInv, Typed
<1>3. r \in Request
  BY <1>1, <1>2 DEF Request, Held, Roles
<1>4. op = "claim" => target \in claims
  BY DEF Open, ClaimValid
<1>5. Sound(member, claims, r)
  BY <1>1, <1>2, <1>4 DEF Sound, IsRequest, IsAsked, IsChecked, IsCurrent, Held, Roles
<1>6. req' = [req EXCEPT ![q] = r] /\ UNCHANGED <<member, claims, overtaken>>
  BY DEF Open
<1>7. QED
  BY <1>3, <1>5, <1>6, MoveInv

\* The look-up: without direct additions it lets only members through.
LEMMA LookUpInv ==
  ASSUME IInv, NEW q \in Requests, LookUp(q)
  PROVE  IInv'
<1>1. CASE member[req[q].target] = "none" /\ ~AllowNew
  BY <1>1, StopInv DEF LookUp
<1>2. CASE ~(member[req[q].target] = "none" /\ ~AllowNew)
  <2> DEFINE x == req[q]
             r == [pc |-> "loading", op |-> x.op, target |-> x.target, role |-> x.role,
                   acting |-> x.acting, seen |-> member[x.target], existing |-> x.existing,
                   stale |-> x.stale]
  <2>1. x \in Request /\ Sound(member, claims, x) /\ x.pc = "opened"
    BY DEF IInv, Typed, LookUp
  <2>2. member[x.target] \in Held
    BY <2>1 DEF IInv, Typed, Request
  <2>3. r \in Request
    BY <2>1, <2>2 DEF Request
  <2>4. req' = [req EXCEPT ![q] = r]
    BY <1>2, <2>1 DEF LookUp, IInv, Typed, Request
  <2>5. ~AllowNew => x.target = Founder \/ x.target \in claims
    BY <1>2, <2>1 DEF IInv, MembersAsked, Request
  <2>6. Sound(member, claims, r)
    BY <2>1, <2>2, <2>5 DEF Sound, IsRequest, IsAsked, IsChecked, IsCurrent
  <2>7. QED
    BY <2>3, <2>4, <2>6, MoveInv DEF LookUp
<1>3. QED
  BY <1>1, <1>2

\* The record of a request whose row is loaded.
LEMMA LoadedRecord ==
  ASSUME NEW q \in Requests, req \in [Requests -> Request], NEW p, NEW e,
         req' = [req EXCEPT ![q].pc = p, ![q].existing = e, ![q].seen = "none"]
  PROVE  req' = [req EXCEPT ![q] =
                   [pc |-> p, op |-> req[q].op, target |-> req[q].target,
                    role |-> req[q].role, acting |-> req[q].acting,
                    seen |-> "none", existing |-> e, stale |-> req[q].stale]]
<1> DEFINE r1 == [req[q] EXCEPT !.pc = p]
           r2 == [r1 EXCEPT !.existing = e]
           r3 == [r2 EXCEPT !.seen = "none"]
<1>1. req[q] \in Request
  OBVIOUS
<1>2. r1 = [pc |-> p, op |-> req[q].op, target |-> req[q].target, role |-> req[q].role,
            acting |-> req[q].acting, seen |-> req[q].seen, existing |-> req[q].existing,
            stale |-> req[q].stale]
  BY <1>1 DEF Request
<1> HIDE DEF r1
<1>3. r2 = [pc |-> p, op |-> req[q].op, target |-> req[q].target, role |-> req[q].role,
            acting |-> req[q].acting, seen |-> req[q].seen, existing |-> e,
            stale |-> req[q].stale]
  BY <1>2
<1> HIDE DEF r2
<1>4. r3 = [pc |-> p, op |-> req[q].op, target |-> req[q].target, role |-> req[q].role,
            acting |-> req[q].acting, seen |-> "none", existing |-> e,
            stale |-> req[q].stale]
  BY <1>3
<1> USE DEF r1, r2
<1>5. req' = [req EXCEPT ![q] = r3]
  BY Zenon
<1>6. QED
  BY <1>4, <1>5

\* Loading decides what the actor may do and whether the owners are counted.
LEMMA LoadInv ==
  ASSUME IInv, NEW q \in Requests, Load(q)
  PROVE  IInv'
<1> DEFINE x == req[q]
           e == Loaded(q)
<1>0. x \in Request /\ Sound(member, claims, x) /\ x.pc = "loading"
  BY DEF IInv, Typed, Load
<1>1. CASE ~Permitted(q, e) \/ (x.op = "remove" /\ e = "none")
  BY <1>1, StopInv DEF Load
<1>2. CASE Permitted(q, e) /\ ~(x.op = "remove" /\ e = "none")
  <2> DEFINE r == [pc |-> IF TakesOwner(q, e) THEN "counting" ELSE "writing", op |-> x.op,
                   target |-> x.target, role |-> x.role, acting |-> x.acting,
                   seen |-> "none", existing |-> e, stale |-> x.stale]
  <2>1. member[x.target] \in Held
    BY <1>0 DEF IInv, Typed, Request
  <2>2. e \in Held
    BY <1>0, <2>1 DEF Loaded, Request
  <2>3. ~x.stale => e = member[x.target]
    BY <1>0 DEF Loaded, Sound, IsCurrent
  <2>4. r \in Request
    BY <1>0, <2>2 DEF Request, Held
  <2>5. req' = [req EXCEPT ![q] = r]
    BY <1>0, <1>2, LoadedRecord DEF Load, IInv, Typed
  <2>6. r.pc = "writing" => ~(r.existing = "OWNER" /\ (r.op = "remove" \/ r.role # "OWNER"))
    BY DEF TakesOwner, Grants
  <2>7. IsChecked(r)
    BY <1>2 DEF IsChecked, TakesOwner, Permitted, Grants
  <2>8. IsCurrent(member, r)
    BY <2>3, <2>6 DEF IsCurrent
  <2>9. IsRequest(r) /\ IsAsked(claims, r)
    BY <1>0, <2>2 DEF IsRequest, IsAsked, Sound, Held, Request
  <2>10. QED
    BY <2>4, <2>5, <2>7, <2>8, <2>9, MoveInv DEF Load, Sound
<1>3. QED
  BY <1>1, <1>2

\* A count above one shows two owners.
LEMMA CountInv ==
  ASSUME IInv, NEW q \in Requests, CountOwners(q)
  PROVE  IInv'
<1>1. CASE LastOwner(Cardinality(Owners))
  BY <1>1, StopInv DEF CountOwners
<1>2. CASE ~LastOwner(Cardinality(Owners))
  <2> DEFINE x == req[q]
             r == [pc |-> "writing", op |-> x.op, target |-> x.target, role |-> x.role,
                   acting |-> x.acting, seen |-> x.seen, existing |-> x.existing,
                   stale |-> x.stale]
  <2>1. x \in Request /\ Sound(member, claims, x) /\ x.pc = "counting"
    BY DEF IInv, Typed, CountOwners
  <2>2. IsFiniteSet(Owners)
    BY MembershipAssumption, FS_Subset DEF Owners
  <2>3. TwoOwners(member)
    BY <1>2, <2>2, TwoCounted DEF LastOwner, TwoOwners, OwnersOf, Owners
  <2>4. r \in Request
    BY <2>1 DEF Request
  <2>5. req' = [req EXCEPT ![q] = r]
    BY <1>2, <2>1 DEF CountOwners, IInv, Typed, Request
  <2>6. Sound(member, claims, r)
    BY <2>1, <2>3 DEF Sound, IsRequest, IsAsked, IsChecked, IsCurrent
  <2>7. QED
    BY <2>4, <2>5, <2>6, MoveInv DEF CountOwners
<1>3. QED
  BY <1>1, <1>2

\* What a change leaves: the owners it does not concern stay, and the one it
\* takes was not the last.
LEMMA CommitKeeps ==
  ASSUME IInv, NEW q \in Requests, Commit(q), ~overtaken'
  PROVE  Owners' # {}
<1> DEFINE x == req[q]
<1>1. x \in Request /\ Sound(member, claims, x) /\ x.pc = "writing"
  BY DEF IInv, Typed, Commit
<1>2. ~overtaken /\ ~x.stale
  BY DEF Commit
<1>3. member' = [member EXCEPT ![x.target] = Flushed(q)] /\ member \in [Users -> Held]
  BY DEF Commit, IInv, Typed
<1>4. x.target \in Users
  BY <1>1 DEF Request
<1>5. CASE x.op # "remove" /\ x.role = "OWNER"
  BY <1>3, <1>4, <1>5 DEF Flushed, Owners
<1>6. CASE x.existing = "OWNER" /\ (x.op = "remove" \/ x.role # "OWNER")
  <2>1. TwoOwners(member)
    BY <1>1, <1>2, <1>6 DEF Sound, IsCurrent
  <2>2. PICK a \in Users : member[a] = "OWNER" /\ a # x.target
    BY <2>1 DEF TwoOwners, OwnersOf
  <2>3. QED
    BY <1>3, <2>2 DEF Owners
<1>7. CASE x.existing # "OWNER"
  <2>1. member[x.target] # "OWNER"
    BY <1>1, <1>2, <1>7 DEF Sound, IsCurrent
  <2>2. PICK a \in Users : member[a] = "OWNER"
    BY <1>2 DEF IInv, OwnerKeptUnlessOvertaken, Owners
  <2>3. QED
    BY <1>3, <2>1, <2>2 DEF Owners
<1>8. QED
  BY <1>5, <1>6, <1>7

\* A change makes every other request's reads old.
LEMMA CommitInv ==
  ASSUME IInv, NEW q \in Requests, Commit(q)
  PROVE  IInv'
<1> DEFINE x == req[q]
<1>1. x \in Request /\ Sound(member, claims, x) /\ x.pc = "writing"
  BY DEF IInv, Typed, Commit
<1>2. Flushed(q) \in Held /\ x.target \in Users
  BY <1>1 DEF Flushed, Request, Held
<1>3. \A p \in Requests : req'[p] \in Request /\ Sound(member', claims', req'[p])
  <2> TAKE p \in Requests
  <2>1. CASE p = q \/ req[p].pc = "idle"
    <3>1. req'[p].pc = "idle" /\ req'[p] \in Request
      BY <2>1, MembershipAssumption
         DEF Commit, IInv, Typed, IdleRequest, Request, Held, Roles
    <3>2. QED
      BY <3>1 DEF Sound, IsRequest, IsAsked, IsChecked, IsCurrent, Request
  <2>2. CASE p # q /\ req[p].pc # "idle"
    <3> DEFINE y == req[p]
    <3>1. y \in Request /\ Sound(member, claims, y)
      BY DEF IInv, Typed
    <3>2. req'[p] = [pc |-> y.pc, op |-> y.op, target |-> y.target, role |-> y.role,
                     acting |-> y.acting, seen |-> y.seen, existing |-> y.existing,
                     stale |-> TRUE]
      BY <2>2, <3>1 DEF Commit, Request
    <3>3. claims' = claims
      BY DEF Commit
    <3>4. QED
      BY <3>1, <3>2, <3>3 DEF Sound, IsRequest, IsAsked, IsChecked, IsCurrent, Request
  <2>3. QED
    BY <2>1, <2>2
<1>4. Typed'
  BY <1>2, <1>3 DEF IInv, Typed, Commit
<1>5. MembersAsked'
  BY <1>1, <1>2 DEF IInv, Typed, MembersAsked, Commit, Flushed, Sound, IsAsked
<1>6. OwnerKeptUnlessOvertaken'
  BY CommitKeeps DEF OwnerKeptUnlessOvertaken
<1>7. QED
  BY <1>3, <1>4, <1>5, <1>6 DEF IInv

\* Every step keeps the invariant.
LEMMA NextInv == IInv /\ [Next]_vars => IInv'
<1> SUFFICES ASSUME IInv, [Next]_vars PROVE IInv'
  OBVIOUS
<1>1. ASSUME NEW u \in Users, MakeClaim(u) PROVE IInv'
  BY <1>1, MakeClaimInv
<1>2. ASSUME NEW q \in Requests, LookUp(q) PROVE IInv'
  BY <1>2, LookUpInv
<1>3. ASSUME NEW q \in Requests, Load(q) PROVE IInv'
  BY <1>3, LoadInv
<1>4. ASSUME NEW q \in Requests, CountOwners(q) PROVE IInv'
  BY <1>4, CountInv
<1>5. ASSUME NEW q \in Requests, Commit(q) PROVE IInv'
  BY <1>5, CommitInv
<1>6. ASSUME NEW q \in Requests, NoCommit(q) PROVE IInv'
  BY <1>6, StopInv DEF NoCommit
<1>7. ASSUME NEW q \in Requests, NEW op \in {"add", "claim", "remove"},
             NEW actor \in Users, NEW target \in Users, NEW role \in Roles,
             Open(q, op, actor, target, role)
      PROVE  IInv'
  BY <1>7, OpenInv
<1>8. CASE UNCHANGED vars
  BY <1>8 DEF vars, IInv, Typed, Sound, IsRequest, IsAsked, IsChecked, IsCurrent,
     TwoOwners, OwnersOf, MembersAsked, OwnerKeptUnlessOvertaken, Owners
<1>9. QED
  BY <1>1, <1>2, <1>3, <1>4, <1>5, <1>6, <1>7, <1>8 DEF Next

\* What _upsert_organization_member and remove_organization_member keep true
\* between any two statements of any requests.
THEOREM InvHolds == Spec => []IInv
<1>1. QED
  BY InitInv, NextInv, PTL DEF Spec

\* The types, and what the role checks have settled: the store functions count
\* owners only for a change that takes one.
THEOREM TypesHold == Spec => []TypeOK
<1>1. IInv => TypeOK
  BY DEF IInv, Typed, Sound, IsChecked, TypeOK
<1>2. QED
  BY <1>1, InvHolds, PTL

\* The last-owner checks of store.py keep an owner for any number of users and
\* requests, as long as no change overtakes another.
THEOREM OwnerKept == Spec => []OwnerKeptUnlessOvertaken
<1>1. IInv => OwnerKeptUnlessOvertaken
  BY DEF IInv
<1>2. QED
  BY <1>1, InvHolds, PTL

\* With direct additions off (main.py), everybody but the founder asked to be
\* a member, in every interleaving.
THEOREM EverybodyAsked == Spec => []MembersAsked
<1>1. IInv => MembersAsked
  BY DEF IInv
<1>2. QED
  BY <1>1, InvHolds, PTL

\* Only a request opened by an owner makes an owner, in every interleaving.
THEOREM OnlyOwnersMakeOwners == Spec => OwnersMakeOwners
<1> DEFINE Made == \A u \in Users : member[u] # "OWNER" /\ member'[u] = "OWNER" =>
                     \E q \in Requests : req[q].target = u /\ req[q].acting = "OWNER"
                                         /\ req'[q].pc = "idle"
<1>1. IInv /\ [Next]_vars => [Made]_vars
  <2> SUFFICES ASSUME IInv, [Next]_vars, NEW u \in Users,
                      member[u] # "OWNER", member'[u] = "OWNER"
               PROVE  \E q \in Requests : req[q].target = u /\ req[q].acting = "OWNER"
                                          /\ req'[q].pc = "idle"
    OBVIOUS
  <2>1. member' # member
    OBVIOUS
  <2>2. PICK q \in Requests : Commit(q)
    BY <2>1 DEF Next, vars, MakeClaim, LookUp, Load, CountOwners, NoCommit, Open
  <2>3. req[q].target = u /\ Flushed(q) = "OWNER"
    BY <2>2 DEF Commit, IInv, Typed
  <2>4. req[q].acting = "OWNER"
    BY <2>2, <2>3 DEF Commit, Flushed, IInv, Sound, IsChecked
  <2>5. req'[q].pc = "idle"
    BY <2>2 DEF Commit, IdleRequest
  <2>6. QED
    BY <2>3, <2>4, <2>5
<1>2. QED
  BY <1>1, InvHolds, PTL DEF Spec, OwnersMakeOwners
=============================================================================
