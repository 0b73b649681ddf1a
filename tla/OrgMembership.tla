---------------------------- MODULE OrgMembership ----------------------------
(***************************************************************************)
(* The members of one organization, as store.py changes them: role         *)
(* updates by e-mail, joining by a membership claim, and removal.          *)
(*                                                                         *)
(* The authorization of a request is read in a session of its own          *)
(* (organization_access) before the session that changes the row is        *)
(* opened.  That session runs at READ COMMITTED and takes no lock, so      *)
(* every SELECT is a step of its own and sees what is then committed; the  *)
(* flush and the commit are the last step.  Two requests interleave        *)
(* between any two of these steps.                                         *)
(***************************************************************************)
EXTENDS Integers, FiniteSets

CONSTANTS
  Users,      \* accounts
  Founder,    \* the user who created the organization
  Requests,   \* requests in progress at once
  AllowNew    \* RIVEXIS_ALLOW_DIRECT_ORG_MEMBER_ADD

ASSUME MembershipAssumption ==
  IsFiniteSet(Users) /\ Founder \in Users /\ AllowNew \in BOOLEAN

VARIABLES
  member,     \* organization_members: user -> role, "none" without a row
  req,        \* the locals of each request
  claims,     \* users who made a membership claim
  overtaken   \* history: a change landed on rows read before another change

vars == <<member, req, claims, overtaken>>

Roles == {"OWNER", "ADMIN", "VIEWER"}   \* ANALYST is treated as VIEWER is
MANAGE_ROLES == {"OWNER", "ADMIN"}
Held == Roles \cup {"none"}

\* acting: the actor's role as organization_access read it; seen: the target's
\* row as add_organization_member looked it up; existing: the role the change
\* is decided on; stale: another request changed a row since.
Request == [pc: {"idle", "opened", "loading", "counting", "writing"},
            op: {"add", "claim", "remove"}, target: Users, role: Roles,
            acting: Held, seen: Held, existing: Held, stale: BOOLEAN]
IdleRequest == [pc |-> "idle", op |-> "add", target |-> Founder, role |-> "VIEWER",
                acting |-> "none", seen |-> "none", existing |-> "none", stale |-> FALSE]

TypeOK ==
  /\ member \in [Users -> Held]
  /\ req \in [Requests -> Request]
  /\ \A q \in Requests :
       /\ req[q].pc = "counting" => req[q].existing = "OWNER"
       /\ req[q].pc = "writing" /\ req[q].op = "remove" => req[q].existing # "none"
  /\ claims \in SUBSET Users
  /\ overtaken \in BOOLEAN

\* create_organization: the creator is its OWNER.
Init ==
  /\ member = [u \in Users |-> IF u = Founder THEN "OWNER" ELSE "none"]
  /\ req = [q \in Requests |-> IdleRequest]
  /\ claims = {} /\ overtaken = FALSE

Owners == {u \in Users : member[u] = "OWNER"}
Existing(q) == req[q].existing

-----------------------------------------------------------------------------
(* Membership claims *)

\* A signed claim of the user who wants to join.  It lapses with its lifetime or
\* when its user signs out everywhere; as another can be made at any time, a
\* lapsed claim is one that no request uses.
MakeClaim(u) ==
  /\ u \notin claims
  /\ claims' = claims \cup {u}
  /\ UNCHANGED <<member, req, overtaken>>

\* Variation: the endpoint trusts the target it is given.
ClaimTrusted(u) == TRUE
ClaimValid(u) == u \in claims

-----------------------------------------------------------------------------
(* Requests *)

\* The endpoint checks a claim, then organization_access reads the actor's role
\* and closes its session.
Open(q, op, actor, target, role) ==
  /\ req[q].pc = "idle"
  /\ member[actor] \in MANAGE_ROLES
  /\ op = "claim" => ClaimValid(target)
  /\ op = "remove" => role = "VIEWER"
  /\ req' = [req EXCEPT ![q] =
       [IdleRequest EXCEPT !.pc = IF op = "add" THEN "opened" ELSE "loading",
                           !.op = op, !.target = target, !.role = role,
                           !.acting = member[actor]]]
  /\ UNCHANGED <<member, claims, overtaken>>

Stop(q) == req' = [req EXCEPT ![q] = IdleRequest]

\* add_organization_member looks the row up before the shared upsert does.
LookUp(q) ==
  /\ req[q].pc = "opened"
  /\ IF member[req[q].target] = "none" /\ ~AllowNew
       THEN Stop(q)
       ELSE req' = [req EXCEPT ![q].pc = "loading", ![q].seen = member[req[q].target]]
  /\ UNCHANGED <<member, claims, overtaken>>

\* The session's identity map keeps a row as it was first loaded.  Rows are known by
\* their user here and by a primary key in the code: a flush that would fail there
\* because its row was removed and inserted again succeeds here.
Loaded(q) ==
  LET now == member[req[q].target]
  IN  IF now # "none" /\ req[q].seen # "none" THEN req[q].seen ELSE now

Grants(q) == req[q].op # "remove" /\ req[q].role = "OWNER"
\* Variation: every change that does not grant OWNER counts the owners.
TakesOwnerAlways(q, e) == ~Grants(q)
TakesOwner(q, e) == e = "OWNER" /\ ~Grants(q)

\* Variation: only the existing role is looked at.
PermittedByExisting(q, e) == req[q].acting = "OWNER" \/ e # "OWNER"
Permitted(q, e) == req[q].acting = "OWNER" \/ (e # "OWNER" /\ ~Grants(q))

\* The row the change is decided on: not permitted, nothing to remove, or on to
\* the count of the owners where one would be lost.
Load(q) ==
  LET e == Loaded(q)
  IN  /\ req[q].pc = "loading"
      /\ IF ~Permitted(q, e) \/ (req[q].op = "remove" /\ e = "none")
           THEN Stop(q)
           ELSE req' = [req EXCEPT
                  ![q].pc = IF TakesOwner(q, e) THEN "counting" ELSE "writing",
                  ![q].existing = e, ![q].seen = "none"]
      /\ UNCHANGED <<member, claims, overtaken>>

\* Variation: off by one at the last owner.
LastOwnerNever(n) == n <= 0
LastOwner(n) == n <= 1

CountOwners(q) ==
  /\ req[q].pc = "counting"
  /\ IF LastOwner(Cardinality(Owners))
       THEN Stop(q)
       ELSE req' = [req EXCEPT ![q].pc = "writing"]
  /\ UNCHANGED <<member, claims, overtaken>>

\* The flush: DELETE, UPDATE of a changed role, or INSERT.
Flushed(q) == IF req[q].op = "remove" THEN "none" ELSE req[q].role

\* An UPDATE that finds no row, and an INSERT that finds one, raise and roll
\* back; an unchanged role is not flushed; a DELETE of no row is only a warning.
FlushFails(q) ==
  /\ req[q].op # "remove"
  /\ (Existing(q) = "none") # (member[req[q].target] = "none")
FlushesNothing(q) == req[q].op # "remove" /\ Existing(q) = req[q].role

Commit(q) ==
  /\ req[q].pc = "writing"
  /\ ~FlushFails(q) /\ ~FlushesNothing(q)
  /\ member' = [member EXCEPT ![req[q].target] = Flushed(q)]
  /\ req' = [p \in Requests |->
               IF p = q THEN IdleRequest
               ELSE IF req[p].pc = "idle" THEN req[p]
               ELSE [req[p] EXCEPT !.stale = TRUE]]
  /\ overtaken' = (overtaken \/ req[q].stale)
  /\ UNCHANGED claims

\* The request ends without a change.
NoCommit(q) ==
  /\ req[q].pc = "writing"
  /\ FlushFails(q) \/ FlushesNothing(q)
  /\ Stop(q)
  /\ UNCHANGED <<member, claims, overtaken>>

Next ==
  \/ \E u \in Users : MakeClaim(u)
  \/ \E q \in Requests :
       \/ LookUp(q) \/ Load(q) \/ CountOwners(q) \/ Commit(q) \/ NoCommit(q)
       \/ \E op \in {"add", "claim", "remove"}, actor, target \in Users, role \in Roles :
            Open(q, op, actor, target, role)

Spec == Init /\ [][Next]_vars

-----------------------------------------------------------------------------
(* Properties *)

\* "Prevent removal of the last owner and other organization integrity
\* violations already enforced by FastAPI/store semantics" (BUILD_EXECUTION_PLAN):
\* the organization always has an owner.
HasOwner == Owners # {}

\* The checks of the code do keep an owner as long as no change lands on rows
\* that were read before another change: the count, the role it is compared
\* with and the actor's own role are read in three places.
OwnerKeptUnlessOvertaken == ~overtaken => Owners # {}

\* Whoever is a member without being the founder made a claim, when direct
\* additions are off: neither a race of a role update with a removal nor one of
\* two claims brings in somebody who never asked.
MembersAsked ==
  ~AllowNew => \A u \in Users \ {Founder} : member[u] # "none" => u \in claims

\* Only a request that an owner opened makes an owner, races included: the
\* role granted is compared with the actor's own before anything is written.
OwnersMakeOwners ==
  [][\A u \in Users : member[u] # "OWNER" /\ member'[u] = "OWNER" =>
       \E q \in Requests : req[q].target = u /\ req[q].acting = "OWNER"
                           /\ req'[q].pc = "idle"]_vars

=============================================================================
