--------------------------------- MODULE Roles ---------------------------------
(***************************************************************************)
(* Roles of users: the session callback of auth.ts, which promotes         *)
(* allow-listed members, the guards of lib/require-admin.ts, and the role  *)
(* change of app/api/admin/users/[id]/route.ts.  A request reads, counts   *)
(* and writes in separate statements, between those of other requests.     *)
(***************************************************************************)
EXTENDS Naturals, FiniteSets

CONSTANTS
  Users,
  AllowListed,   \* users in BOTFLEET_ADMIN_DISCORD_IDS
  RoleCalls,     \* requests in progress
  MaxRoleCalls   \* bound on requests

ASSUME RolesAssumption ==
  IsFiniteSet(Users) /\ AllowListed \subseteq Users /\ MaxRoleCalls \in Nat

RoleNames == {"owner", "admin", "member"}

VARIABLES
  role,       \* User.role
  rcall,      \* progress of each request
  raced,      \* an owner was demoted on a count or a role that was out of date
  roleCalls

rolesVars == <<role, rcall, raced, roleCalls>>

(* by, as: the user and the role in the session.  user, to: the change asked *)
(* for.  was: the target's role as read.  fresh: no role was written since   *)
(* the request read the role, or since it counted the owners.                *)
RoleCallRecords ==
  [pc : {"idle", "promote", "guard", "target", "count", "write"}, by : Users, as : RoleNames,
   user : Users, to : RoleNames, was : RoleNames, fresh : BOOLEAN]

Owners == {u \in Users : role[u] = "owner"}

RolesInit ==
  /\ role \in [Users -> RoleNames] /\ Owners # {}
  /\ rcall \in [RoleCalls -> {r \in RoleCallRecords :
                  /\ r.pc = "idle" /\ r.as = "member" /\ r.to = "member" /\ r.was = "member"
                  /\ ~r.fresh
                  /\ r.by = CHOOSE u \in Users : TRUE
                  /\ r.user = r.by}]
  /\ raced = FALSE /\ roleCalls = 0

Goes(q, pc) == rcall' = [rcall EXCEPT ![q].pc = pc]

(* Every other request's reading of the roles is out of date. *)
Written(q, x) ==
  rcall' = [p \in RoleCalls |-> IF p = q THEN x ELSE [rcall[p] EXCEPT !.fresh = FALSE]]

(* A user with a session asks for a role change; the adapter has read the *)
(* user's row, and an allow-listed member is to be promoted.              *)
SessionBegins(q, u, t, r) ==
  /\ rcall[q].pc = "idle" /\ roleCalls < MaxRoleCalls
  /\ roleCalls' = roleCalls + 1
  /\ rcall' = [rcall EXCEPT ![q] =
       [@ EXCEPT !.pc = IF role[u] = "member" /\ u \in AllowListed THEN "promote" ELSE "guard",
                 !.by = u, !.as = role[u], !.user = t, !.to = r]]
  /\ UNCHANGED <<role, raced>>

Promote(q) ==
  /\ rcall[q].pc = "promote"
  /\ role' = [role EXCEPT ![rcall[q].by] = "owner"]
  /\ Written(q, [rcall[q] EXCEPT !.pc = "guard", !.as = "owner"])
  /\ UNCHANGED <<raced, roleCalls>>

RequireOwner(q) ==
  /\ rcall[q].pc = "guard"
  /\ Goes(q, IF rcall[q].as = "owner" THEN "target" ELSE "idle")
  /\ UNCHANGED <<role, raced, roleCalls>>

ReadTarget(q) ==
  /\ rcall[q].pc = "target"
  /\ LET was == role[rcall[q].user]
         demotes == was = "owner" /\ rcall[q].to # "owner"
     IN rcall' = [rcall EXCEPT ![q].pc = IF demotes THEN "count" ELSE "write",
                    ![q].was = was, ![q].fresh = TRUE]
  /\ UNCHANGED <<role, raced, roleCalls>>

CountOwners(q) ==
  /\ rcall[q].pc = "count"
  /\ rcall' = [rcall EXCEPT ![q].pc = IF Cardinality(Owners) <= 1 THEN "idle" ELSE "write",
                 ![q].fresh = TRUE]
  /\ UNCHANGED <<role, raced, roleCalls>>

WriteRole(q) ==
  /\ rcall[q].pc = "write"
  /\ LET u == rcall[q].user
         demotes == role[u] = "owner" /\ rcall[q].to # "owner"
     IN /\ raced' = (raced \/ (demotes /\ ~rcall[q].fresh))
        /\ role' = [role EXCEPT ![u] = rcall[q].to]
  /\ Written(q, [rcall[q] EXCEPT !.pc = "idle"])
  /\ UNCHANGED roleCalls

RolesNext ==
  \E q \in RoleCalls :
    \/ \E u, t \in Users, r \in RoleNames : SessionBegins(q, u, t, r)
    \/ Promote(q) \/ RequireOwner(q) \/ ReadTarget(q) \/ CountOwners(q) \/ WriteRole(q)

RolesSpec == RolesInit /\ [][RolesNext]_rolesVars

-----------------------------------------------------------------------------

RolesTypeOK ==
  /\ role \in [Users -> RoleNames]
  /\ rcall \in [RoleCalls -> RoleCallRecords]
  /\ raced \in BOOLEAN /\ roleCalls \in 0 .. MaxRoleCalls

(* What the check of users/[id]/route.ts achieves: somebody stays owner in    *)
(* any mixture of requests and promotions in which no owner is demoted on a   *)
(* reading that another write has overtaken.                                  *)
OwnerUnlessRaced == ~raced => Owners # {}

(* Why: a demotion about to be written on an up-to-date count leaves another  *)
(* owner, and a change of somebody who was read as no owner is of a user who  *)
(* still is none.                                                             *)
CountIsGood ==
  \A q \in RoleCalls : rcall[q].pc = "write" /\ rcall[q].fresh /\ rcall[q].to # "owner" =>
    IF rcall[q].was = "owner" THEN \E u \in Owners : u # rcall[q].user
    ELSE role[rcall[q].user] # "owner"

-----------------------------------------------------------------------------

(* users/[id]/route.ts:26: "Never allow the last owner to be demoted".        *)
AnOwnerRemains == Owners # {}

=============================================================================
