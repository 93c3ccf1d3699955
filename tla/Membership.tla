----------------------------- MODULE Membership -----------------------------
(***************************************************************************)
(* Administration of one active tenant: its settings, its members and its  *)
(* archiving.                                                              *)
(*                                                                         *)
(* A request runs in two or three transactions.  The application service   *)
(* reads the actor's context, then (where there is a target) the target's  *)
(* membership, decides, and builds the new row and the event from what it  *)
(* read; the repository then locks the tenant row, checks again and        *)
(* writes.  Requests interleave between these transactions.                *)
(***************************************************************************)
EXTENDS Naturals, Sequences

CONSTANTS
    Users,        \* users of the platform
    Requests,     \* requests in flight at the same time
    NoRequest,    \* a request slot that is free
    MaxVersion    \* bound: tenant version up to which requests are made

Roles == {"owner", "admin", "member", "viewer"}
NoRole == "none"                 \* not a member

Kinds == {"UpdateTenant", "ArchiveTenant", "AddMember", "UpdateMemberRole",
          "RemoveMember"}
Targeted == {"UpdateMemberRole", "RemoveMember"}

\* What a request carries from one transaction to the next: the stage it
\* reached, the tenant version and the target's role and version it read.
RequestRecords ==
    [kind : Kinds, stage : {"context", "ready"}, actor : Users,
     actorRole : Roles, target : Users, role : Roles, tenantVersion : Nat,
     previous : Roles \cup {NoRole}, memberVersion : Nat]

ASSUME MembershipAssumption ==
    /\ NoRequest \notin RequestRecords
    /\ MaxVersion \in Nat

\* A tenant that onboarding activated has version 2.
FirstVersion == 2

VARIABLES
    tenant,     \* tenant_tenants: status and version
    members,    \* tenant_memberships: role and version of each user
    outbox,     \* tenant_outbox, as the sequence of inserted events
    req         \* the requests in flight

rowVars == <<tenant, members, outbox>>
vars == <<rowVars, req>>

NotMember == [role |-> NoRole, version |-> 0]
Owner == [role |-> "owner", version |-> 1]

Init ==
    /\ tenant = [status |-> "active", version |-> FirstVersion]
    /\ \E u \in Users : members = [v \in Users |-> IF v = u THEN Owner ELSE NotMember]
    /\ outbox = << >>
    /\ req = [q \in Requests |-> NoRequest]

Owners == {u \in Users : members[u].role = "owner"}

-----------------------------------------------------------------------------
(* Authorization.                                                          *)

\* The roles whose permission set holds the permission of the operation.
RoleAllows(kind) ==
    IF kind = "ArchiveTenant" THEN {"owner"} ELSE {"owner", "admin"}

\* Mutant: an admin may also touch owners.
CanManageAnyMember(actor, target, newRole) ==
    actor \in {"owner", "admin"} /\ newRole \in Roles

CanManageMember(actor, target, newRole) ==
    \/ actor = "owner" /\ newRole \in Roles
    \/ actor = "admin" /\ target # "owner" /\ newRole \in Roles \ {"owner"}

\* The role constraint of each operation on members, for the roles read.
HierarchyAllows(kind, actor, target, newRole) ==
    CASE kind = "AddMember"        -> CanManageMember(actor, NoRole, newRole)
      [] kind = "UpdateMemberRole" -> CanManageMember(actor, target, newRole)
      [] kind = "RemoveMember"     -> CanManageMember(actor, target, target)
      [] OTHER                     -> TRUE

-----------------------------------------------------------------------------
(* The application service.                                                *)

\* GetTenantContext and what is decided from it alone; archived tenants
\* take no request, and the caller's expected tenant version is the one read.
ReadContext(q) ==
    /\ req[q] = NoRequest
    /\ tenant.version < MaxVersion
    /\ tenant.status = "active"
    /\ \E k \in Kinds, a \in Users, t \in Users, r \in Roles :
         /\ members[a].role \in RoleAllows(k)
         /\ k \in Targeted \/ HierarchyAllows(k, members[a].role, NoRole, r)
         /\ req' = [req EXCEPT ![q] =
              [kind |-> k, stage |-> IF k \in Targeted THEN "context" ELSE "ready",
               actor |-> a, actorRole |-> members[a].role, target |-> t,
               role |-> r, tenantVersion |-> tenant.version,
               previous |-> NoRole, memberVersion |-> 0]]
    /\ UNCHANGED rowVars

\* GetMembership of the target, in a later transaction; the caller's expected
\* membership version is the one read here.
ReadTarget(q) ==
    /\ req[q] # NoRequest
    /\ req[q].stage = "context"
    /\ LET r == req[q]
           m == members[r.target]
       IN IF m # NotMember /\ HierarchyAllows(r.kind, r.actorRole, m.role, r.role)
            THEN req' = [req EXCEPT ![q].stage = "ready", ![q].previous = m.role,
                                    ![q].memberVersion = m.version]
            ELSE req' = [req EXCEPT ![q] = NoRequest]
    /\ UNCHANGED rowVars

-----------------------------------------------------------------------------
(* The repository: one transaction each, serialized by the lock that       *)
(* queryContext takes on the tenant row.                                   *)

Ready(q, kind) ==
    /\ req[q] # NoRequest
    /\ req[q].kind = kind
    /\ req[q].stage = "ready"

ActorRole(r) == members[r.actor].role

insertOutbox(r, role) ==
    outbox' = Append(outbox, [type |-> r.kind, version |-> r.tenantVersion + 1,
                              user |-> r.target, role |-> role,
                              previous |-> r.previous])

\* version = expected + 1, checked against the row that is locked
NextVersion(r) == [tenant EXCEPT !.version = r.tenantVersion + 1]

Finish(q) == req' = [req EXCEPT ![q] = NoRequest]

Current(r) == tenant.version = r.tenantVersion

\* Mutant: off by one in the count of owners.
LastOwnerNever(u) == Owners = {}

\* len(owners) <= 1 for a target that is an owner
LastOwner(u) == Owners \subseteq {u}

UpdateTenant(q) ==
    /\ Ready(q, "UpdateTenant")
    /\ LET r == req[q] IN
         /\ tenant.status = "active"
         /\ ActorRole(r) \in RoleAllows("UpdateTenant")
         /\ Current(r)
         /\ tenant' = NextVersion(r)
         /\ insertOutbox(r, NoRole)
    /\ Finish(q)
    /\ UNCHANGED members

\* The status is not looked at again: the version tells.
ArchiveTenant(q) ==
    /\ Ready(q, "ArchiveTenant")
    /\ LET r == req[q] IN
         /\ ActorRole(r) \in RoleAllows("ArchiveTenant")
         /\ Current(r)
         /\ tenant' = [NextVersion(r) EXCEPT !.status = "archived"]
         /\ insertOutbox(r, NoRole)
    /\ Finish(q)
    /\ UNCHANGED members

\* Mutant: the decision of the first transaction is not made again.
AddMemberUnchecked(q) ==
    /\ Ready(q, "AddMember")
    /\ LET r == req[q] IN
         /\ members[r.target] = NotMember
         /\ members' = [members EXCEPT ![r.target] =
                          [role |-> r.role, version |-> 1]]
         /\ tenant' = NextVersion(r)
         /\ insertOutbox(r, r.role)
    /\ Finish(q)

AddMember(q) ==
    /\ Ready(q, "AddMember")
    /\ LET r == req[q] IN
         /\ tenant.status = "active"
         /\ Current(r)
         /\ CanManageMember(ActorRole(r), NoRole, r.role)
         /\ members[r.target] = NotMember
         /\ members' = [members EXCEPT ![r.target] =
                          [role |-> r.role, version |-> 1]]
         /\ tenant' = NextVersion(r)
         /\ insertOutbox(r, r.role)
    /\ Finish(q)

\* Mutant: neither version is compared.
UpdateMemberRoleUnversioned(q) ==
    /\ Ready(q, "UpdateMemberRole")
    /\ LET r == req[q]
           m == members[r.target]
       IN
         /\ tenant.status = "active"
         /\ CanManageMember(ActorRole(r), m.role, r.role)
         /\ m.role = "owner" /\ r.role # "owner" => ~LastOwner(r.target)
         /\ members' = [members EXCEPT ![r.target] =
                          [role |-> r.role, version |-> r.memberVersion + 1]]
         /\ tenant' = NextVersion(r)
         /\ insertOutbox(r, r.role)
    /\ Finish(q)

UpdateMemberRole(q) ==
    /\ Ready(q, "UpdateMemberRole")
    /\ LET r == req[q]
           m == members[r.target]
       IN
         /\ tenant.status = "active"
         /\ Current(r) /\ m.version = r.memberVersion
         /\ CanManageMember(ActorRole(r), m.role, r.role)
         /\ m.role = "owner" /\ r.role # "owner" => ~LastOwner(r.target)
         /\ members' = [members EXCEPT ![r.target] =
                          [role |-> r.role, version |-> r.memberVersion + 1]]
         /\ tenant' = NextVersion(r)
         /\ insertOutbox(r, r.role)
    /\ Finish(q)

RemoveMember(q) ==
    /\ Ready(q, "RemoveMember")
    /\ LET r == req[q]
           m == members[r.target]
       IN
         /\ tenant.status = "active"
         /\ Current(r) /\ m.version = r.memberVersion
         /\ CanManageMember(ActorRole(r), m.role, m.role)
         /\ m.role = "owner" => ~LastOwner(r.target)
         /\ members' = [members EXCEPT ![r.target] = NotMember]
         /\ tenant' = NextVersion(r)
         /\ insertOutbox(r, NoRole)
    /\ Finish(q)

\* A check of the repository fails, or the caller or the process goes away:
\* the transaction is rolled back.
Abandon(q) ==
    /\ req[q] # NoRequest
    /\ Finish(q)
    /\ UNCHANGED rowVars

Step(q) ==
    \/ ReadContext(q)
    \/ ReadTarget(q)
    \/ UpdateTenant(q)
    \/ ArchiveTenant(q)
    \/ AddMember(q)
    \/ UpdateMemberRole(q)
    \/ RemoveMember(q)
    \/ Abandon(q)

Next == \E q \in Requests : Step(q)

Spec == Init /\ [][Next]_vars

-----------------------------------------------------------------------------
Events ==
    [type : Kinds, version : Nat, user : Users, role : Roles \cup {NoRole},
     previous : Roles \cup {NoRole}]

TypeOK ==
    /\ tenant \in [status : {"active", "archived"}, version : Nat]
    /\ members \in [Users -> {NotMember} \cup [role : Roles, version : Nat \ {0}]]
    /\ outbox \in Seq(Events)
    /\ req \in [Requests -> RequestRecords \cup {NoRequest}]

(* README: "a tenant must always retain at least one owner", although      *)
(* owners demote and remove each other, and themselves, at the same time   *)
(* (membership.go UpdateMemberRole and RemoveMember, lockOwners).          *)
OwnerRemains == Owners # {}

(* README: "admins cannot assign, modify, or remove owners".  Whoever      *)
(* makes or unmakes an owner is an owner when it happens, not only when    *)
(* the request was read (policy.go CanManageMember).                       *)
OwnersAreManagedByOwners ==
    [][Owners' # Owners =>
         \E q \in Requests : /\ req[q] # NoRequest
                             /\ req'[q] = NoRequest
                             /\ req[q].actor \in Owners]_vars

(* README: "archived tenants are read-only": a request that was read       *)
(* before the tenant was archived changes nothing after.                   *)
ArchivedIsReadOnly ==
    [][tenant.status = "archived" => UNCHANGED rowVars]_vars

(* No change is lost: every committed change has a tenant version of its   *)
(* own, and its event carries that version (README: "optimistic versions   *)
(* must match for administrative mutations").                              *)
EveryChangeHasItsVersion ==
    /\ tenant.version = FirstVersion + Len(outbox)
    /\ \A k \in DOMAIN outbox : outbox[k].version = FirstVersion + k

About(u) == {k \in DOMAIN outbox : /\ outbox[k].user = u
                                   /\ outbox[k].type \notin
                                        {"UpdateTenant", "ArchiveTenant"}}

(* A consumer that replays the membership events has the table: the last   *)
(* event about a user carries the user's role, and each change announces   *)
(* the role it really replaced, though that role was read in an earlier    *)
(* transaction (application/service.go previousRole).                      *)
EventsTellTheTable ==
    \A u \in Users : \A k \in About(u) :
       /\ (\A j \in About(u) : j <= k) => outbox[k].role = members[u].role
       /\ \A j \in About(u) :
            (j < k /\ \A i \in About(u) : i <= j \/ k <= i)
              => outbox[k].previous = outbox[j].role

\* The tenant with its members, one aggregate, as its consumers see it.
Life == INSTANCE History WITH
           Entities <- {"tenant"},
           content <- [x \in {"tenant"} |-> <<tenant, members>>],
           version <- [x \in {"tenant"} |-> tenant.version],
           announced <- [x \in {"tenant"} |-> [k \in DOMAIN outbox |-> outbox[k].version]]

(* Whatever requests overlap, settings and members change one transaction  *)
(* at a time, each with the next version and one event that carries it, so *)
(* the projection can order them (tenant.go, membership.go, insertOutbox). *)
TenantHasAHistory == Life!HistorySpec
=============================================================================
