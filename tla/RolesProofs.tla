------------------------------- MODULE RolesProofs -------------------------------
(***************************************************************************)
(* The last owner is not demoted, for any number of users and of requests  *)
(* in progress, unless a demotion is written on a reading another write    *)
(* has overtaken.                                                          *)
(***************************************************************************)
EXTENDS Roles, FiniteSetTheorems, TLAPS

(* The owners are counted only for a user who was read as an owner. *)
CountsForOwner == \A q \in RoleCalls : rcall[q].pc = "count" => rcall[q].was = "owner"

RolesInv == RolesTypeOK /\ CountsForOwner /\ CountIsGood /\ OwnerUnlessRaced

(* route.ts:29-31: a count above one means that somebody else is an owner. *)
LEMMA AnotherOwner ==
  ASSUME Cardinality(Owners) \in Nat, ~(Cardinality(Owners) <= 1), NEW u
  PROVE  \E v \in Owners : v # u
<1> SUFFICES ASSUME Owners \subseteq {u} PROVE FALSE
  OBVIOUS
<1>1. IsFiniteSet({u}) /\ Cardinality({u}) = 1
  BY FS_Singleton
<1>2. Cardinality(Owners) <= 1
  BY <1>1, FS_Subset
<1> QED BY <1>2

(* The number of owners is a number. *)
LEMMA OwnersCounted == Cardinality(Owners) \in Nat
<1>1. Owners \subseteq Users
  BY DEF Owners
<1> QED
  BY <1>1, RolesAssumption, FS_Subset, FS_CardinalityType

(* A step of one request keeps the types of all. *)
LEMMA OneCallMoves ==
  ASSUME RolesTypeOK, NEW q \in RoleCalls, NEW k \in RoleCallRecords,
         rcall' = [rcall EXCEPT ![q] = k]
  PROVE  rcall' \in [RoleCalls -> RoleCallRecords]
BY DEF RolesTypeOK

(* A step that leaves the roles alone. *)
LEMMA RolesKept ==
  ASSUME role' = role, raced' = raced, OwnerUnlessRaced
  PROVE  Owners' = Owners /\ OwnerUnlessRaced'
BY DEF Owners, OwnerUnlessRaced

(* Every step keeps the invariant. *)
LEMMA RolesStep ==
  ASSUME RolesInv, [RolesNext]_rolesVars
  PROVE  RolesInv'
<1> USE DEF RolesInv
<1>1. ASSUME NEW q \in RoleCalls, NEW u \in Users, NEW t \in Users, NEW r \in RoleNames,
             SessionBegins(q, u, t, r)
      PROVE RolesInv'
  <2> DEFINE k == [rcall[q] EXCEPT
                     !.pc = IF role[u] = "member" /\ u \in AllowListed THEN "promote" ELSE "guard",
                     !.by = u, !.as = role[u], !.user = t, !.to = r]
  <2>0. k \in RoleCallRecords /\ rcall' = [rcall EXCEPT ![q] = k]
    BY <1>1 DEF RolesTypeOK, SessionBegins, RoleCallRecords
  <2>1. RolesTypeOK'
    BY <1>1, <2>0, OneCallMoves, RolesAssumption DEF RolesTypeOK, SessionBegins
  <2>2. Owners' = Owners /\ OwnerUnlessRaced' /\ role' = role
    BY <1>1, RolesKept DEF SessionBegins
  <2>3. /\ rcall'[q].pc \in {"promote", "guard"}
        /\ \A p \in RoleCalls : p # q => rcall'[p] = rcall[p]
    BY <1>1 DEF RolesTypeOK, SessionBegins, RoleCallRecords
  <2> QED BY <2>1, <2>2, <2>3 DEF CountsForOwner, CountIsGood
<1>2. ASSUME NEW q \in RoleCalls, Promote(q) PROVE RolesInv'
  <2>1. RolesTypeOK'
    BY <1>2 DEF RolesTypeOK, Promote, Written, RoleCallRecords, RoleNames
  <2>2. /\ rcall'[q].pc = "guard"
        /\ \A p \in RoleCalls : p # q => /\ ~rcall'[p].fresh
                                         /\ rcall'[p].pc = rcall[p].pc
                                         /\ rcall'[p].was = rcall[p].was
    BY <1>2 DEF RolesTypeOK, Promote, Written, RoleCallRecords
  <2>3. rcall[q].by \in Users
    BY <1>2 DEF RolesTypeOK, RoleCallRecords
  <2>4. rcall[q].by \in Owners'
    BY <1>2, <2>3 DEF Promote, Owners, RolesTypeOK
  <2> QED BY <2>1, <2>2, <2>4 DEF CountsForOwner, CountIsGood, OwnerUnlessRaced
<1>3. ASSUME NEW q \in RoleCalls, RequireOwner(q) PROVE RolesInv'
  <2>1. RolesTypeOK'
    BY <1>3 DEF RolesTypeOK, RequireOwner, Goes, RoleCallRecords
  <2>2. Owners' = Owners /\ OwnerUnlessRaced' /\ role' = role
    BY <1>3, RolesKept DEF RequireOwner
  <2>3. /\ rcall'[q].pc \in {"target", "idle"}
        /\ \A p \in RoleCalls : p # q => rcall'[p] = rcall[p]
    BY <1>3 DEF RolesTypeOK, RequireOwner, Goes, RoleCallRecords
  <2> QED BY <2>1, <2>2, <2>3 DEF CountsForOwner, CountIsGood
<1>4. ASSUME NEW q \in RoleCalls, ReadTarget(q) PROVE RolesInv'
  <2>1. rcall[q].user \in Users /\ role[rcall[q].user] \in RoleNames
    BY <1>4 DEF RolesTypeOK, RoleCallRecords
  <2> DEFINE k == [rcall[q] EXCEPT
                     !.pc = IF role[rcall[q].user] = "owner" /\ rcall[q].to # "owner"
                            THEN "count" ELSE "write",
                     !.was = role[rcall[q].user], !.fresh = TRUE]
  <2>0. k \in RoleCallRecords /\ rcall' = [rcall EXCEPT ![q] = k]
    BY <1>4, <2>1 DEF RolesTypeOK, ReadTarget, RoleCallRecords
  <2>2. RolesTypeOK'
    BY <1>4, <2>0, OneCallMoves DEF RolesTypeOK, ReadTarget
  <2>3. Owners' = Owners /\ OwnerUnlessRaced' /\ role' = role
    BY <1>4, RolesKept DEF ReadTarget
  <2>4. /\ rcall'[q].user = rcall[q].user /\ rcall'[q].to = rcall[q].to
        /\ rcall'[q].was = role[rcall[q].user]
        /\ rcall'[q].pc = IF rcall'[q].was = "owner" /\ rcall[q].to # "owner"
                          THEN "count" ELSE "write"
        /\ \A p \in RoleCalls : p # q => rcall'[p] = rcall[p]
    BY <1>4 DEF RolesTypeOK, ReadTarget, RoleCallRecords
  <2> QED BY <2>2, <2>3, <2>4 DEF CountsForOwner, CountIsGood
<1>5. ASSUME NEW q \in RoleCalls, CountOwners(q) PROVE RolesInv'
  <2> DEFINE k == [rcall[q] EXCEPT
                     !.pc = IF Cardinality(Owners) <= 1 THEN "idle" ELSE "write", !.fresh = TRUE]
  <2>0. k \in RoleCallRecords /\ rcall' = [rcall EXCEPT ![q] = k]
    BY <1>5 DEF RolesTypeOK, CountOwners, RoleCallRecords
  <2>1. RolesTypeOK'
    BY <1>5, <2>0, OneCallMoves DEF RolesTypeOK, CountOwners
  <2>2. Owners' = Owners /\ OwnerUnlessRaced' /\ role' = role
    BY <1>5, RolesKept DEF CountOwners
  <2>3. /\ rcall'[q].user = rcall[q].user /\ rcall'[q].was = rcall[q].was
        /\ rcall'[q].pc = IF Cardinality(Owners) <= 1 THEN "idle" ELSE "write"
        /\ \A p \in RoleCalls : p # q => rcall'[p] = rcall[p]
    BY <1>5 DEF RolesTypeOK, CountOwners, RoleCallRecords
  <2>4. rcall[q].was = "owner"
    BY <1>5 DEF CountsForOwner, CountOwners
  <2>5. rcall'[q].pc = "write" => \E v \in Owners : v # rcall[q].user
    BY <2>3, AnotherOwner, OwnersCounted
  <2> QED BY <2>1, <2>2, <2>3, <2>4, <2>5 DEF CountsForOwner, CountIsGood
<1>6. ASSUME NEW q \in RoleCalls, WriteRole(q) PROVE RolesInv'
  <2> DEFINE u == rcall[q].user
             demotes == role[u] = "owner" /\ rcall[q].to # "owner"
  <2>1. u \in Users /\ rcall[q].to \in RoleNames /\ rcall[q].fresh \in BOOLEAN
    BY <1>6 DEF RolesTypeOK, RoleCallRecords
  <2>2. RolesTypeOK'
    BY <1>6, <2>1 DEF RolesTypeOK, WriteRole, Written, RoleCallRecords
  <2>3. /\ rcall'[q].pc = "idle"
        /\ \A p \in RoleCalls : p # q => /\ ~rcall'[p].fresh
                                         /\ rcall'[p].pc = rcall[p].pc
                                         /\ rcall'[p].was = rcall[p].was
    BY <1>6 DEF RolesTypeOK, WriteRole, Written, RoleCallRecords
  <2>4. /\ role' = [role EXCEPT ![u] = rcall[q].to]
        /\ raced' = (raced \/ (demotes /\ ~rcall[q].fresh))
    BY <1>6 DEF WriteRole
  <2>5. \A v \in Users : v # u => role'[v] = role[v]
    BY <2>1, <2>4 DEF RolesTypeOK
  <2>6. role'[u] = rcall[q].to
    BY <2>1, <2>4 DEF RolesTypeOK
  <2>7. OwnerUnlessRaced'
    <3> SUFFICES ASSUME ~raced' PROVE Owners' # {}
      BY DEF OwnerUnlessRaced
    <3>1. ~raced /\ (demotes => rcall[q].fresh)
      BY <2>4
    <3>2. CASE demotes
      <4>1. \E v \in Owners : v # u
        BY <1>6, <3>1, <3>2 DEF CountIsGood, WriteRole
      <4> QED BY <2>5, <4>1 DEF Owners
    <3>3. CASE ~demotes
      <4>1. PICK v \in Users : role[v] = "owner"
        BY <3>1 DEF OwnerUnlessRaced, Owners
      <4>2. role'[v] = "owner"
        BY <2>5, <2>6, <3>3, <4>1
      <4> QED BY <4>2 DEF Owners
    <3> QED BY <3>2, <3>3
  <2> QED BY <2>2, <2>3, <2>7 DEF CountsForOwner, CountIsGood
<1>7. CASE UNCHANGED rolesVars
  BY <1>7 DEF rolesVars, RolesTypeOK, CountsForOwner, CountIsGood, OwnerUnlessRaced, Owners
<1> QED
  BY <1>1, <1>2, <1>3, <1>4, <1>5, <1>6, <1>7 DEF RolesNext

(* So it holds throughout. *)
LEMMA RolesInvariant == RolesSpec => []RolesInv
<1>1. RolesInit => RolesInv
  <2> SUFFICES ASSUME RolesInit PROVE RolesInv
    OBVIOUS
  <2>1. RolesTypeOK
    <3>1. rcall \in [RoleCalls -> RoleCallRecords]
      BY DEF RolesInit
    <3>2. role \in [Users -> RoleNames] /\ raced \in BOOLEAN
      BY DEF RolesInit
    <3>3. roleCalls \in 0 .. MaxRoleCalls
      <4>1. roleCalls = 0 /\ MaxRoleCalls \in Nat
        BY RolesAssumption DEF RolesInit
      <4> QED BY <4>1
    <3> QED BY <3>1, <3>2, <3>3 DEF RolesTypeOK
  <2>2. \A q \in RoleCalls : rcall[q].pc = "idle"
    BY DEF RolesInit
  <2> QED
    BY <2>1, <2>2 DEF RolesInit, RolesInv, CountsForOwner, CountIsGood, OwnerUnlessRaced
<1> QED
  BY <1>1, RolesStep, PTL DEF RolesSpec

(* users/[id]/route.ts:26: an owner is left after any mixture of role changes *)
(* and promotions, as long as no owner is demoted on a count or a role that   *)
(* another write has overtaken.                                               *)
THEOREM OwnerUnlessRacedTheorem == RolesSpec => []OwnerUnlessRaced
<1>1. RolesInv => OwnerUnlessRaced
  BY DEF RolesInv
<1> QED
  BY <1>1, RolesInvariant, PTL

=============================================================================
