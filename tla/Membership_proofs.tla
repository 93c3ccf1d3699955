-------------------------- MODULE Membership_proofs --------------------------
(***************************************************************************)
(* What Membership guarantees for any set of users, any number of requests *)
(* in flight and any number of changes, and that it implements History.    *)
(*                                                                         *)
(* The invariant that carries the proofs adds two facts to the properties: *)
(* a request never carries a version newer than the tenant's, and once the *)
(* tenant is archived every request in flight carries an older one; and a  *)
(* request that carries the tenant's version knows its target as it is.    *)
(*                                                                         *)
(* The last part is about Policies, which decides for agents as Membership *)
(* does for users: the answers to one request agree, and a decision is as  *)
(* strict as every policy that stood while it was made.                    *)
(***************************************************************************)
EXTENDS Membership, Policies, FiniteSetTheorems, SequenceTheorems, TLAPS

InFlight == {q \in Requests : req[q] # NoRequest}

(* Requests read the tenant row before they write: what they carry is not  *)
(* newer than the row, and outdated as soon as the tenant is archived      *)
(* (tenant.go ArchiveTenant checks the version and not the status).        *)
VersionsSeen ==
    \A q \in InFlight :
       /\ req[q].tenantVersion <= tenant.version
       /\ tenant.status = "archived" => req[q].tenantVersion < tenant.version

IInv == TypeOK /\ VersionsSeen

-----------------------------------------------------------------------------
\* A request that reached the repository is a request record.
LEMMA ReadyIsRecord ==
    ASSUME TypeOK, NEW q \in Requests, req[q] # NoRequest
    PROVE  req[q] \in RequestRecords
  BY DEF TypeOK

LEMMA FinishType ==
    ASSUME TypeOK, NEW q \in Requests, Finish(q)
    PROVE  req' \in [Requests -> RequestRecords \cup {NoRequest}]
  BY DEF TypeOK, Finish

\* The event a request announces is well formed.
LEMMA OutboxType ==
    ASSUME TypeOK, NEW r \in RequestRecords, NEW role \in Roles \cup {NoRole},
           insertOutbox(r, role)
    PROVE  outbox' \in Seq(Events)
  BY DEF TypeOK, insertOutbox, Events, RequestRecords

LEMMA VersionType ==
    ASSUME TypeOK, NEW r \in RequestRecords
    PROVE  NextVersion(r) \in [status : {"active", "archived"}, version : Nat]
  BY DEF TypeOK, NextVersion, RequestRecords

\* TypeOK holds at the start (onboarding left an active tenant and its owner).
LEMMA InitType == Init => TypeOK
  BY DEF Init, TypeOK, Owner, NotMember, FirstVersion, Roles

\* Every step of a request preserves the types.
LEMMA NextType == TypeOK /\ [Next]_vars => TypeOK'
<1> SUFFICES ASSUME TypeOK, [Next]_vars PROVE TypeOK'
  OBVIOUS
<1>1. ASSUME NEW q \in Requests, ReadContext(q) PROVE TypeOK'
  <2>1. PICK k \in Kinds, a \in Users, t \in Users, r \in Roles :
          /\ members[a].role \in RoleAllows(k)
          /\ req' = [req EXCEPT ![q] =
               [kind |-> k, stage |-> IF k \in Targeted THEN "context" ELSE "ready",
                actor |-> a, actorRole |-> members[a].role, target |-> t,
                role |-> r, tenantVersion |-> tenant.version,
                previous |-> NoRole, memberVersion |-> 0]]
    BY <1>1 DEF ReadContext
  <2>2. members[a].role \in Roles
    BY <2>1 DEF RoleAllows, Roles
  <2>3. tenant.version \in Nat
    BY DEF TypeOK
  <2>4. req' \in [Requests -> RequestRecords \cup {NoRequest}]
    BY <2>1, <2>2, <2>3 DEF TypeOK, RequestRecords
  <2> QED BY <1>1, <2>4 DEF ReadContext, TypeOK, rowVars
<1>2. ASSUME NEW q \in Requests, ReadTarget(q) PROVE TypeOK'
  <2>1. req[q] \in RequestRecords
    BY <1>2, ReadyIsRecord DEF ReadTarget
  <2>2. members[req[q].target] \in {NotMember} \cup [role : Roles, version : Nat \ {0}]
    BY <2>1 DEF TypeOK, RequestRecords
  <2>3. req' \in [Requests -> RequestRecords \cup {NoRequest}]
    <3>1. CASE req' = [req EXCEPT ![q] = NoRequest]
      BY <3>1 DEF TypeOK
    <3>2. CASE /\ members[req[q].target] # NotMember
               /\ req' = [req EXCEPT ![q].stage = "ready",
                            ![q].previous = members[req[q].target].role,
                            ![q].memberVersion = members[req[q].target].version]
      BY <2>1, <2>2, <3>2 DEF TypeOK, RequestRecords
    <3> QED BY <1>2, <3>1, <3>2 DEF ReadTarget
  <2> QED BY <1>2, <2>3 DEF ReadTarget, TypeOK, rowVars
<1>3. ASSUME NEW q \in Requests, UpdateTenant(q) PROVE TypeOK'
  <2>1. req[q] \in RequestRecords
    BY <1>3, ReadyIsRecord DEF UpdateTenant, Ready
  <2>2. tenant' \in [status : {"active", "archived"}, version : Nat]
    BY <1>3, <2>1, VersionType DEF UpdateTenant
  <2>3. outbox' \in Seq(Events)
    BY <1>3, <2>1, OutboxType DEF UpdateTenant
  <2> QED BY <1>3, <2>2, <2>3, FinishType DEF UpdateTenant, TypeOK
<1>4. ASSUME NEW q \in Requests, ArchiveTenant(q) PROVE TypeOK'
  <2>1. req[q] \in RequestRecords
    BY <1>4, ReadyIsRecord DEF ArchiveTenant, Ready
  <2>2. tenant' \in [status : {"active", "archived"}, version : Nat]
    BY <1>4, <2>1, VersionType DEF ArchiveTenant
  <2>3. outbox' \in Seq(Events)
    BY <1>4, <2>1, OutboxType DEF ArchiveTenant
  <2> QED BY <1>4, <2>2, <2>3, FinishType DEF ArchiveTenant, TypeOK
<1>5. ASSUME NEW q \in Requests, AddMember(q) PROVE TypeOK'
  <2>1. req[q] \in RequestRecords
    BY <1>5, ReadyIsRecord DEF AddMember, Ready
  <2>2. tenant' \in [status : {"active", "archived"}, version : Nat]
    BY <1>5, <2>1, VersionType DEF AddMember
  <2>3. outbox' \in Seq(Events)
    BY <1>5, <2>1, OutboxType DEF AddMember, RequestRecords
  <2>4. members' \in [Users -> {NotMember} \cup [role : Roles, version : Nat \ {0}]]
    BY <1>5, <2>1 DEF AddMember, TypeOK, RequestRecords
  <2> QED BY <1>5, <2>2, <2>3, <2>4, FinishType DEF AddMember, TypeOK
<1>6. ASSUME NEW q \in Requests, UpdateMemberRole(q) PROVE TypeOK'
  <2>1. req[q] \in RequestRecords
    BY <1>6, ReadyIsRecord DEF UpdateMemberRole, Ready
  <2>2. tenant' \in [status : {"active", "archived"}, version : Nat]
    BY <1>6, <2>1, VersionType DEF UpdateMemberRole
  <2>3. outbox' \in Seq(Events)
    BY <1>6, <2>1, OutboxType DEF UpdateMemberRole, RequestRecords
  <2>4. members' \in [Users -> {NotMember} \cup [role : Roles, version : Nat \ {0}]]
    BY <1>6, <2>1 DEF UpdateMemberRole, TypeOK, RequestRecords
  <2> QED BY <1>6, <2>2, <2>3, <2>4, FinishType DEF UpdateMemberRole, TypeOK
<1>7. ASSUME NEW q \in Requests, RemoveMember(q) PROVE TypeOK'
  <2>1. req[q] \in RequestRecords
    BY <1>7, ReadyIsRecord DEF RemoveMember, Ready
  <2>2. tenant' \in [status : {"active", "archived"}, version : Nat]
    BY <1>7, <2>1, VersionType DEF RemoveMember
  <2>3. outbox' \in Seq(Events)
    BY <1>7, <2>1, OutboxType DEF RemoveMember
  <2>4. members' \in [Users -> {NotMember} \cup [role : Roles, version : Nat \ {0}]]
    BY <1>7, <2>1 DEF RemoveMember, TypeOK, RequestRecords
  <2> QED BY <1>7, <2>2, <2>3, <2>4, FinishType DEF RemoveMember, TypeOK
<1>8. ASSUME NEW q \in Requests, Abandon(q) PROVE TypeOK'
  BY <1>8, FinishType DEF Abandon, TypeOK, rowVars
<1>9. CASE UNCHANGED vars
  BY <1>9 DEF TypeOK, vars, rowVars
<1> QED BY <1>1, <1>2, <1>3, <1>4, <1>5, <1>6, <1>7, <1>8, <1>9 DEF Next, Step

(* The rows, the requests and the events stay well formed: no request      *)
(* writes a role or a version that is not one.                             *)
THEOREM TypeCorrect == Spec => []TypeOK
<1>1. Init => TypeOK
  BY InitType
<1>2. TypeOK /\ [Next]_vars => TypeOK'
  BY NextType
<1> QED BY <1>1, <1>2, PTL DEF Spec

-----------------------------------------------------------------------------
(* README: "a tenant must always retain at least one owner".  The owner    *)
(* who stays is another than the target: the last-owner check runs in the  *)
(* transaction that writes (membership.go lockOwners).                     *)
THEOREM OwnerAlwaysRemains == Spec => []OwnerRemains
<1>1. Init => OwnerRemains
  <2> SUFFICES ASSUME Init PROVE OwnerRemains
    OBVIOUS
  <2>1. PICK u \in Users : members = [v \in Users |-> IF v = u THEN Owner ELSE NotMember]
    BY DEF Init
  <2>2. members[u].role = "owner"
    BY <2>1 DEF Owner
  <2> QED BY <2>2 DEF OwnerRemains, Owners
<1>2. TypeOK /\ OwnerRemains /\ [Next]_vars => OwnerRemains'
  <2> SUFFICES ASSUME TypeOK, OwnerRemains, [Next]_vars PROVE OwnerRemains'
    OBVIOUS
  <2>1. CASE UNCHANGED members
    BY <2>1 DEF OwnerRemains, Owners
  <2>2. ASSUME NEW q \in Requests, AddMember(q) PROVE OwnerRemains'
    <3>1. PICK o \in Users : members[o].role = "owner"
      BY DEF OwnerRemains, Owners
    <3>2. req[q].target # o
      BY <2>2, <3>1 DEF AddMember, NotMember, NoRole
    <3>3. members'[o] = members[o]
      BY <2>2, <3>2 DEF AddMember, TypeOK
    <3> QED BY <3>1, <3>3 DEF OwnerRemains, Owners
  <2>3. ASSUME NEW q \in Requests, UpdateMemberRole(q) PROVE OwnerRemains'
    <3> DEFINE t == req[q].target
    <3>1. req[q] \in RequestRecords
      BY <2>3, ReadyIsRecord DEF UpdateMemberRole, Ready
    <3>2. members' = [members EXCEPT ![t] =
                        [role |-> req[q].role, version |-> req[q].memberVersion + 1]]
      BY <2>3 DEF UpdateMemberRole
    <3>3. CASE members[t].role = "owner" /\ req[q].role # "owner"
      <4>1. PICK o \in Owners : o # t
        BY <2>3, <3>3 DEF UpdateMemberRole, LastOwner
      <4>2. members'[o] = members[o] /\ o \in Users /\ members[o].role = "owner"
        BY <3>2, <4>1 DEF Owners, TypeOK
      <4> QED BY <4>2 DEF OwnerRemains, Owners
    <3>4. CASE members[t].role # "owner"
      <4>1. PICK o \in Users : members[o].role = "owner"
        BY DEF OwnerRemains, Owners
      <4>2. members'[o] = members[o]
        BY <3>2, <3>4, <4>1 DEF TypeOK
      <4> QED BY <4>1, <4>2 DEF OwnerRemains, Owners
    <3>5. CASE req[q].role = "owner"
      <4>1. t \in Users /\ members'[t].role = "owner"
        BY <3>1, <3>2, <3>5 DEF RequestRecords, TypeOK
      <4> QED BY <4>1 DEF OwnerRemains, Owners
    <3> QED BY <3>3, <3>4, <3>5
  <2>4. ASSUME NEW q \in Requests, RemoveMember(q) PROVE OwnerRemains'
    <3> DEFINE t == req[q].target
    <3>1. members' = [members EXCEPT ![t] = NotMember]
      BY <2>4 DEF RemoveMember
    <3>2. PICK o \in Owners : o # t
      <4>1. CASE members[t].role = "owner"
        BY <2>4, <4>1 DEF RemoveMember, LastOwner
      <4>2. CASE members[t].role # "owner"
        BY <4>2 DEF OwnerRemains, Owners
      <4> QED BY <4>1, <4>2
    <3>3. members'[o] = members[o] /\ o \in Users /\ members[o].role = "owner"
      BY <3>1, <3>2 DEF Owners, TypeOK
    <3> QED BY <3>3 DEF OwnerRemains, Owners
  <2> QED BY <2>1, <2>2, <2>3, <2>4
        DEF Next, Step, vars, rowVars, ReadContext, ReadTarget, UpdateTenant,
            ArchiveTenant, Abandon
<1> QED BY <1>1, <1>2, TypeCorrect, PTL DEF Spec

-----------------------------------------------------------------------------
\* What the repository transactions have in common.
Writes(q) ==
    \/ UpdateTenant(q) \/ ArchiveTenant(q) \/ AddMember(q)
    \/ UpdateMemberRole(q) \/ RemoveMember(q)

(* A transaction that changes a row found the version its request read,    *)
(* takes the next one and announces it.                                    *)
LEMMA WriteTakesNextVersion ==
    ASSUME TypeOK, NEW q \in Requests, Writes(q)
    PROVE  /\ req[q] \in RequestRecords
           /\ req[q].tenantVersion = tenant.version
           /\ tenant'.version = tenant.version + 1
           /\ \E e \in Events : /\ outbox' = Append(outbox, e)
                                /\ e.version = tenant.version + 1
           /\ req' = [req EXCEPT ![q] = NoRequest]
<1>1. req[q] \in RequestRecords
  BY ReadyIsRecord DEF Writes, Ready, UpdateTenant, ArchiveTenant, AddMember,
     UpdateMemberRole, RemoveMember
<1>2. req[q].tenantVersion = tenant.version
  BY DEF Writes, Current, UpdateTenant, ArchiveTenant, AddMember, UpdateMemberRole,
     RemoveMember
<1>3. tenant'.version = tenant.version + 1
  BY <1>2 DEF Writes, NextVersion, UpdateTenant, ArchiveTenant, AddMember,
     UpdateMemberRole, RemoveMember, TypeOK
<1>4. PICK role \in Roles \cup {NoRole} : insertOutbox(req[q], role)
  BY <1>1 DEF Writes, UpdateTenant, ArchiveTenant, AddMember, UpdateMemberRole,
     RemoveMember, RequestRecords
<1>5. \E e \in Events : /\ outbox' = Append(outbox, e)
                       /\ e.version = tenant.version + 1
  <2> DEFINE e == [type |-> req[q].kind, version |-> req[q].tenantVersion + 1,
                   user |-> req[q].target, role |-> role,
                   previous |-> req[q].previous]
  <2>1. e \in Events
    BY <1>1 DEF Events, RequestRecords
  <2>2. outbox' = Append(outbox, e)
    BY <1>4 DEF insertOutbox
  <2> QED BY <1>2, <2>1, <2>2
<1>6. req' = [req EXCEPT ![q] = NoRequest]
  BY DEF Writes, Finish, UpdateTenant, ArchiveTenant, AddMember, UpdateMemberRole,
     RemoveMember
<1> QED BY <1>1, <1>2, <1>3, <1>5, <1>6

(* Every committed change has a tenant version of its own and its event    *)
(* carries it, so no change is lost to a concurrent one.                   *)
THEOREM ChangesAreVersioned == Spec => []EveryChangeHasItsVersion
<1>1. Init => EveryChangeHasItsVersion
  BY DEF Init, EveryChangeHasItsVersion, FirstVersion
<1>2. TypeOK /\ EveryChangeHasItsVersion /\ [Next]_vars => EveryChangeHasItsVersion'
  <2> SUFFICES ASSUME TypeOK, EveryChangeHasItsVersion, [Next]_vars
               PROVE  EveryChangeHasItsVersion'
    OBVIOUS
  <2>1. CASE UNCHANGED rowVars
    BY <2>1 DEF rowVars, EveryChangeHasItsVersion
  <2>2. ASSUME NEW q \in Requests, Writes(q) PROVE EveryChangeHasItsVersion'
    <3>1. PICK e \in Events : /\ outbox' = Append(outbox, e)
                             /\ e.version = tenant.version + 1
      BY <2>2, WriteTakesNextVersion
    <3>2. tenant'.version = tenant.version + 1 /\ tenant.version \in Nat
      BY <2>2, WriteTakesNextVersion DEF TypeOK
    <3>3. outbox \in Seq(Events)
      BY DEF TypeOK
    <3>4. /\ Len(outbox') = Len(outbox) + 1
          /\ DOMAIN outbox' = 1 .. Len(outbox) + 1
          /\ \A k \in 1 .. Len(outbox) : outbox'[k] = outbox[k]
          /\ outbox'[Len(outbox) + 1] = e
      BY <3>1, <3>3
    <3>5. Len(outbox) \in Nat /\ DOMAIN outbox = 1 .. Len(outbox)
      BY <3>3
    <3>6. tenant.version = FirstVersion + Len(outbox) /\ FirstVersion \in Nat
      BY DEF EveryChangeHasItsVersion, FirstVersion
    <3>7. ASSUME NEW k \in DOMAIN outbox' PROVE outbox'[k].version = FirstVersion + k
      <4>1. CASE k \in 1 .. Len(outbox)
        BY <3>4, <3>5, <4>1 DEF EveryChangeHasItsVersion
      <4>2. CASE k = Len(outbox) + 1
        BY <3>1, <3>4, <3>5, <3>6, <4>2
      <4> QED BY <3>4, <3>5, <4>1, <4>2
    <3> QED BY <3>2, <3>4, <3>5, <3>6, <3>7 DEF EveryChangeHasItsVersion
  <2> QED BY <2>1, <2>2
        DEF Next, Step, vars, Writes, ReadContext, ReadTarget, Abandon, rowVars
<1> QED BY <1>1, <1>2, TypeCorrect, PTL DEF Spec

-----------------------------------------------------------------------------
\* VersionsSeen is inductive together with the types.
LEMMA VersionsSeenInvariant == Spec => []IInv
<1>1. Init => IInv
  BY InitType DEF Init, IInv, VersionsSeen, InFlight
<1>2. IInv /\ [Next]_vars => IInv'
  <2> SUFFICES ASSUME TypeOK, VersionsSeen, [Next]_vars PROVE VersionsSeen'
    BY NextType DEF IInv
  <2>1. CASE UNCHANGED vars
    BY <2>1 DEF vars, rowVars, VersionsSeen, InFlight
  <2>2. ASSUME NEW q \in Requests, Writes(q) PROVE VersionsSeen'
    <3>1. tenant'.version = tenant.version + 1 /\ tenant.version \in Nat
      BY <2>2, WriteTakesNextVersion DEF TypeOK
    <3>2. ASSUME NEW p \in InFlight' PROVE p \in InFlight /\ req'[p] = req[p]
      BY <2>2, <3>2, WriteTakesNextVersion DEF InFlight, TypeOK
    <3>3. ASSUME NEW p \in InFlight PROVE req[p].tenantVersion \in Nat
      BY <3>3 DEF InFlight, TypeOK, RequestRecords
    <3> QED BY <3>1, <3>2, <3>3 DEF VersionsSeen
  <2>3. ASSUME NEW q \in Requests, ReadContext(q) PROVE VersionsSeen'
    <3>1. /\ tenant' = tenant
          /\ tenant.status = "active" /\ tenant.version \in Nat
          /\ req'[q].tenantVersion = tenant.version
      BY <2>3 DEF ReadContext, rowVars, TypeOK
    <3>2. ASSUME NEW p \in InFlight', p # q PROVE p \in InFlight /\ req'[p] = req[p]
      BY <2>3, <3>2 DEF ReadContext, InFlight, TypeOK
    <3> QED BY <3>1, <3>2 DEF VersionsSeen
  <2>4. ASSUME NEW q \in Requests, ReadTarget(q) PROVE VersionsSeen'
    <3>1. req[q] \in RequestRecords /\ q \in InFlight
      BY <2>4, ReadyIsRecord DEF ReadTarget, InFlight
    <3>2. ASSUME NEW p \in InFlight'
          PROVE  p \in InFlight /\ req'[p].tenantVersion = req[p].tenantVersion
      <4>1. CASE req' = [req EXCEPT ![q] = NoRequest]
        BY <3>2, <4>1 DEF InFlight, TypeOK
      <4>2. CASE req' = [req EXCEPT ![q].stage = "ready",
                           ![q].previous = members[req[q].target].role,
                           ![q].memberVersion = members[req[q].target].version]
        BY <3>1, <3>2, <4>2 DEF InFlight, TypeOK, RequestRecords
      <4> QED BY <2>4, <4>1, <4>2 DEF ReadTarget
    <3>3. tenant' = tenant
      BY <2>4 DEF ReadTarget, rowVars
    <3> QED BY <3>2, <3>3 DEF VersionsSeen
  <2>5. ASSUME NEW q \in Requests, Abandon(q) PROVE VersionsSeen'
    <3>1. ASSUME NEW p \in InFlight' PROVE p \in InFlight /\ req'[p] = req[p]
      BY <2>5, <3>1 DEF Abandon, Finish, InFlight, TypeOK
    <3> QED BY <2>5, <3>1 DEF Abandon, rowVars, VersionsSeen
  <2> QED BY <2>1, <2>2, <2>3, <2>4, <2>5 DEF Next, Step, Writes
<1> QED BY <1>1, <1>2, PTL DEF Spec

(* README: "archived tenants are read-only".  A request that was read      *)
(* before the tenant was archived carries an older version, which every    *)
(* transaction of the repository refuses.                                  *)
THEOREM ArchivedStaysReadOnly == Spec => ArchivedIsReadOnly
<1>1. IInv /\ [Next]_vars => [tenant.status = "archived" => UNCHANGED rowVars]_vars
  <2> SUFFICES ASSUME IInv, [Next]_vars, tenant.status = "archived"
               PROVE  UNCHANGED rowVars
    OBVIOUS
  <2>1. ASSUME NEW q \in Requests, Writes(q) PROVE FALSE
    <3>1. req[q] \in RequestRecords /\ req[q].tenantVersion = tenant.version
      BY <2>1, WriteTakesNextVersion DEF IInv
    <3>2. q \in InFlight
      BY <3>1, MembershipAssumption DEF InFlight
    <3>3. req[q].tenantVersion < tenant.version /\ tenant.version \in Nat
      BY <3>2 DEF IInv, VersionsSeen, TypeOK
    <3> QED BY <3>1, <3>3
  <2> QED BY <2>1 DEF Next, Step, Writes, vars, rowVars, ReadContext, ReadTarget, Abandon
<1> QED BY <1>1, VersionsSeenInvariant, PTL DEF Spec, ArchivedIsReadOnly

-----------------------------------------------------------------------------
(* README: "admins cannot assign, modify, or remove owners".  The set of   *)
(* owners changes only in a transaction whose actor is an owner then: the  *)
(* repository asks CanManageMember again, with the roles it locked.        *)
THEOREM OwnersManageOwners == Spec => OwnersAreManagedByOwners
<1> DEFINE ByAnOwner == \E q \in Requests : /\ req[q] # NoRequest
                                            /\ req'[q] = NoRequest
                                            /\ req[q].actor \in Owners
<1>1. TypeOK /\ [Next]_vars => [Owners' # Owners => ByAnOwner]_vars
  <2> SUFFICES ASSUME TypeOK, [Next]_vars, Owners' # Owners PROVE ByAnOwner
    OBVIOUS
  <2>1. members' # members
    BY DEF Owners
  <2>2. ASSUME NEW q \in Requests, AddMember(q) PROVE ByAnOwner
    <3>1. req[q] \in RequestRecords /\ req[q] # NoRequest
      BY <2>2, ReadyIsRecord DEF AddMember, Ready
    <3>2. req'[q] = NoRequest
      BY <2>2 DEF AddMember, Finish, TypeOK
    <3>3. req[q].role = "owner"
      <4> SUFFICES ASSUME req[q].role # "owner" PROVE Owners' = Owners
        OBVIOUS
      <4>1. ASSUME NEW u \in Users
            PROVE  members'[u].role = "owner" <=> members[u].role = "owner"
        BY <2>2 DEF AddMember, NotMember, NoRole, TypeOK
      <4> QED BY <4>1 DEF Owners
    <3>4. members[req[q].actor].role = "owner"
      BY <2>2, <3>3 DEF AddMember, CanManageMember, ActorRole
    <3> QED BY <3>1, <3>2, <3>4 DEF Owners, RequestRecords
  <2>3. ASSUME NEW q \in Requests, UpdateMemberRole(q) PROVE ByAnOwner
    <3>1. req[q] \in RequestRecords /\ req[q] # NoRequest
      BY <2>3, ReadyIsRecord DEF UpdateMemberRole, Ready
    <3>2. req'[q] = NoRequest
      BY <2>3 DEF UpdateMemberRole, Finish, TypeOK
    <3>3. req[q].role = "owner" \/ members[req[q].target].role = "owner"
      <4> SUFFICES ASSUME req[q].role # "owner", members[req[q].target].role # "owner"
                   PROVE  Owners' = Owners
        OBVIOUS
      <4>1. ASSUME NEW u \in Users
            PROVE  members'[u].role = "owner" <=> members[u].role = "owner"
        BY <2>3 DEF UpdateMemberRole, TypeOK
      <4> QED BY <4>1 DEF Owners
    <3>4. members[req[q].actor].role = "owner"
      BY <2>3, <3>3 DEF UpdateMemberRole, CanManageMember, ActorRole
    <3> QED BY <3>1, <3>2, <3>4 DEF Owners, RequestRecords
  <2>4. ASSUME NEW q \in Requests, RemoveMember(q) PROVE ByAnOwner
    <3>1. req[q] \in RequestRecords /\ req[q] # NoRequest
      BY <2>4, ReadyIsRecord DEF RemoveMember, Ready
    <3>2. req'[q] = NoRequest
      BY <2>4 DEF RemoveMember, Finish, TypeOK
    <3>3. members[req[q].target].role = "owner"
      <4> SUFFICES ASSUME members[req[q].target].role # "owner"
                   PROVE  Owners' = Owners
        OBVIOUS
      <4>1. ASSUME NEW u \in Users
            PROVE  members'[u].role = "owner" <=> members[u].role = "owner"
        BY <2>4 DEF RemoveMember, TypeOK, NotMember, NoRole
      <4> QED BY <4>1 DEF Owners
    <3>4. members[req[q].actor].role = "owner"
      BY <2>4, <3>3 DEF RemoveMember, CanManageMember, ActorRole
    <3> QED BY <3>1, <3>2, <3>4 DEF Owners, RequestRecords
  <2> QED BY <2>1, <2>2, <2>3, <2>4
        DEF Next, Step, vars, rowVars, ReadContext, ReadTarget, UpdateTenant,
            ArchiveTenant, Abandon
<1> QED BY <1>1, TypeCorrect, PTL DEF Spec, OwnersAreManagedByOwners

-----------------------------------------------------------------------------
(* A request whose version is the tenant's has read the target as it is:   *)
(* no other transaction wrote in between (application/service.go reads the *)
(* membership after the context, queryContext locks the tenant row).       *)
TargetIsFresh ==
    \A q \in InFlight :
       /\ req[q].kind \in Kinds \ Targeted => req[q].previous = NoRole
       /\ req[q].stage = "context" => req[q].kind \in Targeted
       /\ /\ req[q].kind \in Targeted
          /\ req[q].stage = "ready"
          /\ req[q].tenantVersion = tenant.version
          => req[q].previous = members[req[q].target].role

LEMMA TargetStaysFresh ==
    ASSUME IInv, TargetIsFresh, [Next]_vars
    PROVE  TargetIsFresh'
<1>1. CASE UNCHANGED vars
  BY <1>1 DEF vars, rowVars, TargetIsFresh, InFlight
<1>2. ASSUME NEW q \in Requests, Writes(q) PROVE TargetIsFresh'
  <2>1. tenant'.version = tenant.version + 1 /\ tenant.version \in Nat
    BY <1>2, WriteTakesNextVersion DEF IInv, TypeOK
  <2>2. ASSUME NEW p \in InFlight'
        PROVE  p \in InFlight /\ req'[p] = req[p] /\ req[p] \in RequestRecords
    <3>1. req' = [req EXCEPT ![q] = NoRequest]
      BY <1>2, WriteTakesNextVersion DEF IInv
    <3> QED BY <2>2, <3>1 DEF InFlight, IInv, TypeOK
  <2>3. ASSUME NEW p \in InFlight' PROVE req'[p].tenantVersion # tenant'.version
    <3>1. req[p].tenantVersion <= tenant.version /\ req[p].tenantVersion \in Nat
      BY <2>2, <2>3 DEF IInv, VersionsSeen, RequestRecords
    <3> QED BY <2>1, <2>2, <2>3, <3>1
  <2> QED BY <2>2, <2>3 DEF TargetIsFresh
<1>3. ASSUME NEW q \in Requests, ReadContext(q) PROVE TargetIsFresh'
  <2>1. /\ UNCHANGED <<tenant, members>>
        /\ req'[q].kind \in Targeted <=> req'[q].stage = "context"
        /\ req'[q].previous = NoRole
    BY <1>3 DEF ReadContext, rowVars, IInv, TypeOK
  <2>2. ASSUME NEW p \in InFlight', p # q PROVE p \in InFlight /\ req'[p] = req[p]
    BY <1>3, <2>2 DEF ReadContext, InFlight, IInv, TypeOK
  <2> QED BY <2>1, <2>2 DEF TargetIsFresh
<1>4. ASSUME NEW q \in Requests, ReadTarget(q) PROVE TargetIsFresh'
  <2> DEFINE m == members[req[q].target]
  <2>1. req[q] \in RequestRecords /\ q \in InFlight /\ UNCHANGED <<tenant, members>>
    BY <1>4, ReadyIsRecord DEF ReadTarget, InFlight, rowVars, IInv
  <2>2. ASSUME NEW p \in InFlight', p # q PROVE p \in InFlight /\ req'[p] = req[p]
    BY <1>4, <2>2 DEF ReadTarget, InFlight, IInv, TypeOK
  <2>3. CASE req' = [req EXCEPT ![q] = NoRequest]
    <3>1. q \notin InFlight'
      BY <2>3 DEF InFlight, IInv, TypeOK
    <3> QED BY <2>1, <2>2, <3>1 DEF TargetIsFresh
  <2>4. ASSUME req' = [req EXCEPT ![q].stage = "ready", ![q].previous = m.role,
                                  ![q].memberVersion = m.version]
        PROVE  TargetIsFresh'
    <3>1. /\ req'[q].previous = m.role /\ req'[q].target = req[q].target
          /\ req'[q].kind = req[q].kind
      BY <2>1, <2>4 DEF IInv, TypeOK, RequestRecords
    <3>2. req[q].kind \in Targeted
      BY <1>4, <2>1 DEF ReadTarget, TargetIsFresh
    <3> QED BY <2>1, <2>2, <3>1, <3>2 DEF TargetIsFresh
  <2> QED BY <1>4, <2>3, <2>4 DEF ReadTarget
<1>5. ASSUME NEW q \in Requests, Abandon(q) PROVE TargetIsFresh'
  <2>1. ASSUME NEW p \in InFlight' PROVE p \in InFlight /\ req'[p] = req[p]
    BY <1>5, <2>1 DEF Abandon, Finish, InFlight, IInv, TypeOK
  <2> QED BY <1>5, <2>1 DEF Abandon, rowVars, TargetIsFresh
<1> QED BY <1>1, <1>2, <1>3, <1>4, <1>5 DEF Next, Step, Writes

\* An event about a user's membership.
Tells(e, u) == e.user = u /\ e.type \notin {"UpdateTenant", "ArchiveTenant"}

\* The members table follows the event e: the user it is about had the role
\* it announces as replaced and has its new one, nobody else changed.
Follows(e) ==
    \A u \in Users :
       IF Tells(e, u)
         THEN e.previous = members[u].role /\ e.role = members'[u].role
         ELSE members'[u].role = members[u].role

\* A transaction announces what it does to the table it finds.
LEMMA WriteFollowsItsEvent ==
    ASSUME IInv, TargetIsFresh, NEW q \in Requests, Writes(q)
    PROVE  \E e \in Events : outbox' = Append(outbox, e) /\ Follows(e)
<1> DEFINE r == req[q]
           E(role) == [type |-> r.kind, version |-> r.tenantVersion + 1,
                       user |-> r.target, role |-> role, previous |-> r.previous]
<1>1. /\ r \in RequestRecords /\ r.tenantVersion = tenant.version /\ q \in InFlight
      /\ r.target \in Users
  BY WriteTakesNextVersion, MembershipAssumption DEF IInv, InFlight, RequestRecords
<1>2. ASSUME NEW role \in Roles \cup {NoRole}
      PROVE  E(role) \in Events
  BY <1>1 DEF Events, RequestRecords
<1>3. CASE UpdateTenant(q) \/ ArchiveTenant(q)
  <2>1. outbox' = Append(outbox, E(NoRole)) /\ members' = members
    BY <1>3 DEF UpdateTenant, ArchiveTenant, insertOutbox
  <2>2. Follows(E(NoRole))
    BY <1>3, <2>1 DEF Follows, Tells, UpdateTenant, ArchiveTenant, Ready
  <2> QED BY <1>2, <2>1, <2>2
<1>4. CASE AddMember(q)
  <2>1. outbox' = Append(outbox, E(r.role)) /\ r.kind = "AddMember"
    BY <1>4 DEF AddMember, insertOutbox, Ready
  <2>2. r.previous = NoRole /\ members[r.target].role = NoRole
    BY <1>1, <1>4, <2>1 DEF AddMember, TargetIsFresh, Targeted, Kinds, NotMember
  <2>3. members' = [members EXCEPT ![r.target] = [role |-> r.role, version |-> 1]]
    BY <1>4 DEF AddMember
  <2>4. Follows(E(r.role))
    BY <1>1, <2>1, <2>2, <2>3 DEF Follows, Tells, IInv, TypeOK
  <2> QED BY <1>1, <1>2, <2>1, <2>4 DEF RequestRecords
<1>5. CASE UpdateMemberRole(q)
  <2>1. outbox' = Append(outbox, E(r.role)) /\ r.kind = "UpdateMemberRole"
    BY <1>5 DEF UpdateMemberRole, insertOutbox, Ready
  <2>2. r.previous = members[r.target].role
    BY <1>1, <1>5, <2>1 DEF UpdateMemberRole, Ready, TargetIsFresh, Targeted
  <2>3. members' = [members EXCEPT ![r.target] =
                      [role |-> r.role, version |-> r.memberVersion + 1]]
    BY <1>5 DEF UpdateMemberRole
  <2>4. Follows(E(r.role))
    BY <1>1, <2>1, <2>2, <2>3 DEF Follows, Tells, IInv, TypeOK
  <2> QED BY <1>1, <1>2, <2>1, <2>4 DEF RequestRecords
<1>6. CASE RemoveMember(q)
  <2>1. outbox' = Append(outbox, E(NoRole)) /\ r.kind = "RemoveMember"
    BY <1>6 DEF RemoveMember, insertOutbox, Ready
  <2>2. r.previous = members[r.target].role
    BY <1>1, <1>6, <2>1 DEF RemoveMember, Ready, TargetIsFresh, Targeted
  <2>3. members' = [members EXCEPT ![r.target] = NotMember]
    BY <1>6 DEF RemoveMember
  <2>4. Follows(E(NoRole))
    BY <1>1, <2>1, <2>2, <2>3 DEF Follows, Tells, IInv, TypeOK, NotMember
  <2> QED BY <1>2, <2>1, <2>4
<1> QED BY <1>3, <1>4, <1>5, <1>6 DEF Writes

(* A consumer that replays the membership events has the table, and every  *)
(* change announces the role it replaced: that role was read in an earlier *)
(* transaction, but the version the write checks tells that it still holds *)
(* (application/service.go previousRole, membership.go).                   *)
THEOREM EventsTellTheMembers == Spec => []EventsTellTheTable
<1>1. Init => TargetIsFresh /\ EventsTellTheTable
  <2> SUFFICES ASSUME Init PROVE TargetIsFresh /\ EventsTellTheTable
    OBVIOUS
  <2>1. TargetIsFresh
    BY DEF Init, TargetIsFresh, InFlight
  <2>2. ASSUME NEW u \in Users PROVE About(u) = {}
    BY DEF Init, About
  <2> QED BY <2>1, <2>2 DEF EventsTellTheTable
<1>2. IInv /\ TargetIsFresh /\ EventsTellTheTable /\ [Next]_vars => EventsTellTheTable'
  <2> SUFFICES ASSUME IInv, TargetIsFresh, EventsTellTheTable, [Next]_vars
               PROVE  EventsTellTheTable'
    OBVIOUS
  <2>1. CASE UNCHANGED rowVars
    BY <2>1 DEF rowVars, EventsTellTheTable, About
  <2>2. ASSUME NEW q \in Requests, Writes(q) PROVE EventsTellTheTable'
    <3>1. PICK e \in Events : outbox' = Append(outbox, e) /\ Follows(e)
      BY <2>2, WriteFollowsItsEvent
    <3> DEFINE n == Len(outbox)
    <3>2. outbox \in Seq(Events)
      BY DEF IInv, TypeOK
    <3>3. /\ n \in Nat /\ DOMAIN outbox = 1 .. n /\ DOMAIN outbox' = 1 .. n + 1
          /\ \A k \in 1 .. n : outbox'[k] = outbox[k]
          /\ outbox'[n + 1] = e
      BY <3>1, <3>2
    <3> HIDE DEF n
    <3>4. ASSUME NEW u \in Users
          PROVE  /\ About(u) \subseteq 1 .. n
                 /\ Tells(e, u) => About(u)' = About(u) \cup {n + 1}
                 /\ ~Tells(e, u) => About(u)' = About(u)
      BY <3>3 DEF About, Tells
    <3>5. ASSUME NEW u \in Users, NEW k \in About(u)', \A j \in About(u)' : j <= k
          PROVE  outbox'[k].role = members'[u].role
      <4>1. CASE Tells(e, u)
        <5>1. k = n + 1
          BY <3>3, <3>4, <3>5, <4>1
        <5> QED BY <3>1, <3>3, <4>1, <5>1 DEF Follows
      <4>2. CASE ~Tells(e, u)
        <5>1. k \in About(u) /\ k \in 1 .. n /\ \A j \in About(u) : j <= k
          BY <3>4, <3>5, <4>2
        <5>2. outbox[k].role = members[u].role
          BY <5>1 DEF EventsTellTheTable
        <5> QED BY <3>1, <3>3, <4>2, <5>1, <5>2 DEF Follows
      <4> QED BY <4>1, <4>2
    <3>6. ASSUME NEW u \in Users, NEW k \in About(u)', NEW j \in About(u)',
                 j < k, \A i \in About(u)' : i <= j \/ k <= i
          PROVE  outbox'[k].previous = outbox'[j].role
      <4>1. CASE k \in About(u)
        <5>1. k \in 1 .. n /\ j \in 1 .. n /\ j \in About(u)
          BY <3>3, <3>4, <3>6, <4>1
        <5>2. outbox[k].previous = outbox[j].role
          BY <3>4, <3>6, <4>1, <5>1 DEF EventsTellTheTable
        <5> QED BY <3>3, <5>1, <5>2
      <4>2. CASE k \notin About(u)
        <5>1. Tells(e, u) /\ k = n + 1 /\ j \in About(u) /\ j \in 1 .. n
          BY <3>3, <3>4, <3>6, <4>2
        <5>2. \A i \in About(u) : i <= j
          BY <3>3, <3>4, <3>6, <5>1
        <5>3. outbox[j].role = members[u].role
          BY <5>1, <5>2 DEF EventsTellTheTable
        <5> QED BY <3>1, <3>3, <5>1, <5>3 DEF Follows
      <4> QED BY <4>1, <4>2
    <3> QED BY <3>5, <3>6 DEF EventsTellTheTable
  <2> QED BY <2>1, <2>2
        DEF Next, Step, vars, Writes, ReadContext, ReadTarget, Abandon, rowVars
<1>3. IInv /\ TargetIsFresh /\ [Next]_vars => TargetIsFresh'
  BY TargetStaysFresh
<1> QED BY <1>1, <1>2, <1>3, VersionsSeenInvariant, PTL DEF Spec

-----------------------------------------------------------------------------
(* The tenant as its consumers see it.                                     *)

\* The versions of a sequence of events that one more is appended to.
LEMMA VersionsOfAppend ==
    ASSUME NEW s \in Seq(Events), NEW e \in Events
    PROVE  [k \in DOMAIN Append(s, e) |-> Append(s, e)[k].version]
             = Append([k \in DOMAIN s |-> s[k].version], e.version)
<1> DEFINE told == [k \in DOMAIN s |-> s[k].version]
           next == [k \in DOMAIN Append(s, e) |-> Append(s, e)[k].version]
<1>1. /\ Len(s) \in Nat /\ DOMAIN s = 1 .. Len(s)
      /\ Append(s, e) \in Seq(Events) /\ DOMAIN Append(s, e) = 1 .. Len(s) + 1
      /\ Append(s, e)[Len(s) + 1] = e
      /\ \A k \in 1 .. Len(s) : Append(s, e)[k] = s[k] /\ s[k] \in Events
  BY AppendProperties, LenProperties, ElementOfSeq
<1>2. told \in Seq(Nat) /\ Len(told) = Len(s)
  <2>1. told \in [1 .. Len(s) -> Nat]
    BY <1>1 DEF Events
  <2> QED BY <1>1, <2>1, SeqDef
<1>3. e.version \in Nat
  BY DEF Events
<1>4. /\ Append(told, e.version) = [k \in 1 .. Len(s) + 1 |-> Append(told, e.version)[k]]
      /\ Append(told, e.version)[Len(s) + 1] = e.version
      /\ \A k \in 1 .. Len(s) : Append(told, e.version)[k] = told[k]
  BY <1>1, <1>2, <1>3, AppendProperties, LenProperties
<1>5. /\ next = [k \in 1 .. Len(s) + 1 |-> next[k]]
      /\ next[Len(s) + 1] = e.version
      /\ \A k \in 1 .. Len(s) : next[k] = told[k]
  BY <1>1
<1>6. \A k \in 1 .. Len(s) + 1 : next[k] = Append(told, e.version)[k]
  BY <1>1, <1>4, <1>5
<1> HIDE DEF next, told
<1>7. next = Append(told, e.version)
  BY <1>4, <1>5, <1>6
<1> QED BY <1>7 DEF next, told

(* The tenant service implements History: however requests overlap, the    *)
(* settings and the members change one transaction at a time, with the     *)
(* next version and the event that carries it (tenant.go, membership.go,   *)
(* insertOutbox).                                                          *)
THEOREM TenantImplementsHistory == Spec => TenantHasAHistory
<1> DEFINE T == {"tenant"}
           contents == [x \in T |-> <<tenant, members>>]
           versions == [x \in T |-> tenant.version]
           told == [x \in T |-> [k \in DOMAIN outbox |-> outbox[k].version]]
<1>1. Init => Life!HistoryInit
  <2> SUFFICES ASSUME Init PROVE Life!HistoryInit
    OBVIOUS
  <2>1. tenant.version = 2 /\ outbox = << >>
    BY DEF Init, FirstVersion
  <2>2. [k \in DOMAIN outbox |-> outbox[k].version] = << >>
    BY <2>1
  <2> QED BY <2>1, <2>2 DEF Life!HistoryInit
<1>2. TypeOK /\ [Next]_vars => [Life!HistoryNext]_(Life!historyVars)
  <2> SUFFICES ASSUME TypeOK, [Next]_vars PROVE [Life!HistoryNext]_(Life!historyVars)
    OBVIOUS
  <2>1. CASE UNCHANGED rowVars
    BY <2>1 DEF rowVars, Life!historyVars
  <2>2. ASSUME NEW q \in Requests, Writes(q) PROVE Life!HistoryNext
    <3>1. PICK e \in Events : outbox' = Append(outbox, e) /\ e.version = tenant.version + 1
      BY <2>2, WriteTakesNextVersion
    <3>2. tenant'.version = tenant.version + 1
      BY <2>2, WriteTakesNextVersion
    <3>3. versions' = [versions EXCEPT !["tenant"] = @ + 1]
      BY <3>2
    <3>4. [k \in DOMAIN outbox' |-> outbox'[k].version]
            = Append([k \in DOMAIN outbox |-> outbox[k].version], tenant.version + 1)
      BY <3>1, VersionsOfAppend DEF TypeOK
    <3>5. told' = [told EXCEPT !["tenant"] = Append(@, versions["tenant"] + 1)]
      BY <3>4
    <3>6. \A y \in T \ {"tenant"} : contents'[y] = contents[y]
      OBVIOUS
    <3>7. Life!ChangeAndAnnounce("tenant")
      BY <3>3, <3>5, <3>6 DEF Life!ChangeAndAnnounce
    <3> QED BY <3>7 DEF Life!HistoryNext
  <2> QED BY <2>1, <2>2
        DEF Next, Step, vars, Writes, ReadContext, ReadTarget, Abandon, rowVars
<1> QED BY <1>1, <1>2, TypeCorrect, PTL DEF Spec, TenantHasAHistory, Life!HistorySpec

-----------------------------------------------------------------------------
(***************************************************************************)
(* The policy service keeps one decision for each request identifier       *)
(* (Policies).  The unique key makes the answers agree but for the         *)
(* nanoseconds that the table loses: what is kept of an answer is the      *)
(* decision in the table, which never changes.  The hash keeps an answer   *)
(* from going to another request: the decision in the table has the hash   *)
(* of the request it is about, and the hash tells requests apart.          *)
(*                                                                         *)
(* The decision itself is computed by two loops, over bundles and rules.   *)
(* Each is shown to obey what it has tried so far, by induction on the     *)
(* number of turns: SetInduction, on sets of numbers.                      *)
(***************************************************************************)
Recorded(q) ==
    /\ decision[q].n > 0
    /\ decision[q].hash.request = decision[q].input
    /\ Kept(decision[q]) = decision[q]
    /\ \A a \in answers[q] : Kept(a.given) = decision[q] /\ a.given.input = a.asked

DecisionsAreAnswers ==
    /\ left \in Nat
    /\ DOMAIN decision = RequestIds /\ decision = [q \in RequestIds |-> decision[q]]
    /\ DOMAIN answers = RequestIds /\ answers = [q \in RequestIds |-> answers[q]]
    /\ \A q \in RequestIds : (decision[q] = NoDecision /\ answers[q] = {}) \/ Recorded(q)

\* An evaluation that finds a decision answers with it, if the hash says that
\* it is about its request.
LEMMA FindingKeeps ==
    ASSUME DecisionsAreAnswers, NEW e \in Evaluators, FindDecisionByRequestID(e)
    PROVE  DecisionsAreAnswers'
<1> DEFINE run == evaluation[e]
           id == run.id
           answer == Answer(run, decision[id])
<1>1. UNCHANGED <<left, decision>>
  BY DEF FindDecisionByRequestID, tables
<1>2. \/ answers' = answers
      \/ /\ decision[id] # NoDecision
         /\ decision[id].hash = hashEvaluationInput(run)
         /\ answers' = [answers EXCEPT ![id] = @ \cup {answer}]
  BY DEF FindDecisionByRequestID
<1>3. /\ hashEvaluationInput(run).request = run.input
      /\ answer.asked = run.input
      /\ answer.given = decision[id]
  BY DEF hashEvaluationInput, Answer
<1> HIDE DEF id, run, answer
<1>4. /\ DOMAIN decision' = RequestIds /\ decision' = [q \in RequestIds |-> decision'[q]]
      /\ DOMAIN answers' = RequestIds /\ answers' = [q \in RequestIds |-> answers'[q]]
  BY <1>1, <1>2 DEF DecisionsAreAnswers
<1>5. ASSUME NEW q \in RequestIds
      PROVE  ((decision[q] = NoDecision /\ answers[q] = {}) \/ Recorded(q))'
  <2>1. CASE answers'[q] = answers[q]
    <3>1. decision'[q] = decision[q]
      BY <1>1
    <3>2. NoDecision' = NoDecision
      BY DEF NoDecision, NoResult, Unconstrained, Undecided
    <3> QED BY <2>1, <3>1, <3>2 DEF DecisionsAreAnswers, Recorded, Kept
  <2>2. CASE answers'[q] # answers[q]
    <3>1. /\ q = id /\ answers'[q] = answers[q] \cup {answer}
          /\ decision[q] # NoDecision /\ decision[q].hash = hashEvaluationInput(run)
      BY <1>2, <2>2 DEF DecisionsAreAnswers
    <3>2. Recorded(q)
      BY <3>1 DEF DecisionsAreAnswers
    <3>3. Kept(answer.given) = decision[q] /\ answer.given.input = answer.asked
      BY <1>3, <3>1, <3>2 DEF Recorded
    <3> QED BY <1>1, <3>1, <3>2, <3>3 DEF Recorded, Kept
  <2> QED BY <2>1, <2>2
<1> QED BY <1>1, <1>4, <1>5 DEF DecisionsAreAnswers

\* One that finds none records and answers with its own, unless it loses the
\* race for the unique key, and then it answers with an error.
LEMMA RecordingKeeps ==
    ASSUME DecisionsAreAnswers, NEW e \in Evaluators, RecordDecision(e)
    PROVE  DecisionsAreAnswers'
<1> DEFINE run == evaluation[e]
           id == run.id
           final(order) ==
               EvaluateBundles(run.input, run.subject,
                   [i \in DOMAIN order |-> Version(order[i][1], order[i][2])])
           record(order, nanoseconds) ==
               [n |-> left + 1, hash |-> hashEvaluationInput(run), input |-> run.input,
                standing |-> {v \in run.standing : Applies(v[1], run.subject)},
                result |-> final(order).result,
                decidedAt |-> nanoseconds, signed |-> nanoseconds]
<1>1. left' = left
  BY DEF RecordDecision
<1>2. PICK order \in SetToSeqs(run.bundles), nanoseconds \in 0 .. 1 :
         IF insertDecision(id) /\ ~final(order).error
           THEN /\ decision' = [decision EXCEPT ![id] = Kept(record(order, nanoseconds))]
                /\ answers' = [answers EXCEPT ![id] = @ \cup {Answer(run, record(order, nanoseconds))}]
           ELSE UNCHANGED <<decision, answers>>
  BY Zenon DEF RecordDecision
<1> DEFINE made == record(order, nanoseconds)
           answer == Answer(run, made)
<1>3. /\ Kept(made).n = left + 1
      /\ Kept(made).hash.request = Kept(made).input
      /\ Kept(Kept(made)) = Kept(made)
  BY DEF Kept, hashEvaluationInput
<1>4. answer.given = made /\ made.input = answer.asked
  BY DEF Answer
<1>5. \/ UNCHANGED <<decision, answers>>
      \/ /\ decision[id] = NoDecision
         /\ decision' = [decision EXCEPT ![id] = Kept(made)]
         /\ answers' = [answers EXCEPT ![id] = @ \cup {answer}]
  BY <1>2 DEF insertDecision
<1> HIDE DEF final, record, made, answer, id, run
<1>6. /\ DOMAIN decision' = RequestIds /\ decision' = [q \in RequestIds |-> decision'[q]]
      /\ DOMAIN answers' = RequestIds /\ answers' = [q \in RequestIds |-> answers'[q]]
  BY <1>5 DEF DecisionsAreAnswers
<1>7. ASSUME NEW q \in RequestIds
      PROVE  ((decision[q] = NoDecision /\ answers[q] = {}) \/ Recorded(q))'
  <2>1. CASE decision'[q] = decision[q] /\ answers'[q] = answers[q]
    <3>1. NoDecision' = NoDecision
      BY DEF NoDecision, NoResult, Unconstrained, Undecided
    <3> QED BY <2>1, <3>1 DEF DecisionsAreAnswers, Recorded, Kept
  <2>2. CASE q = id /\ decision[q] = NoDecision /\ decision'[q] = Kept(made)
             /\ answers'[q] = answers[q] \cup {answer}
    <3>1. answers[q] = {}
      <4>1. NoDecision.n = 0
        BY DEF NoDecision
      <4> QED BY <2>2, <4>1 DEF DecisionsAreAnswers, Recorded
    <3>2. answers'[q] = {answer} /\ Kept(made).n > 0
      BY <1>3, <2>2, <3>1 DEF DecisionsAreAnswers
    <3> QED BY <1>3, <1>4, <2>2, <3>2 DEF Recorded, Kept
  <2> QED BY <1>5, <2>1, <2>2 DEF DecisionsAreAnswers
<1> QED BY <1>1, <1>6, <1>7 DEF DecisionsAreAnswers

LEMMA PoliciesKeep ==
    ASSUME DecisionsAreAnswers, [PoliciesNext]_policiesVars
    PROVE  DecisionsAreAnswers'
<1>1. ASSUME UNCHANGED <<decision, answers>>, left' = left \/ Spend PROVE DecisionsAreAnswers'
  <2>1. left' \in Nat
    BY <1>1 DEF Spend, DecisionsAreAnswers
  <2> QED BY <1>1, <2>1
        DEF DecisionsAreAnswers, Recorded, Kept, NoDecision, NoResult, Unconstrained, Undecided
<1>2. \/ \E e \in Evaluators : FindDecisionByRequestID(e) \/ RecordDecision(e)
      \/ UNCHANGED <<decision, answers>> /\ (left' = left \/ Spend)
  BY DEF PoliciesNext, policiesVars, tables, CreatePolicy, CreateVersion, ArchivePolicy,
         ActivatePolicy, EnsureDefaultPolicies, EnsureDefaults,
         loadBootstrapPolicies, Evaluate, resolveSubject, ListActiveBundles,
         FailClosed, ChangeAutonomy
<1> QED BY <1>1, <1>2, FindingKeeps, RecordingKeeps

(* Two answers to one request identifier differ in nothing but the         *)
(* nanoseconds of their times, and each is about the request that was      *)
(* asked, for any policies, any number of evaluations that overlap and any *)
(* changes of policies and agents between their transactions               *)
(* (policy-approval evaluation.go Evaluate, hashEvaluationInput,           *)
(* RecordDecision and its unique key).                                     *)
THEOREM PolicyAnswersAgree == PoliciesSpec => []AnswersAgree
<1>1. PoliciesInit => DecisionsAreAnswers
  BY PolicyBoundAssumption DEF PoliciesInit, DecisionsAreAnswers
<1>2. DecisionsAreAnswers /\ [PoliciesNext]_policiesVars => DecisionsAreAnswers'
  BY PoliciesKeep
<1>3. DecisionsAreAnswers => AnswersAgree
  BY DEF DecisionsAreAnswers, Recorded, AnswersAgree
<1> QED BY <1>1, <1>2, <1>3, PTL DEF PoliciesSpec

-----------------------------------------------------------------------------
(* Induction, with a set where the library has an operator.                *)

\* A set of numbers that has 0 and with each number the next has them all.
LEMMA SetInduction ==
    ASSUME NEW T, 0 \in T, \A n \in Nat : n \in T => n + 1 \in T
    PROVE  \A n \in Nat : n \in T
<1> SUFFICES ASSUME Nat \ T # {} PROVE FALSE
  OBVIOUS
<1>1. PICK m \in Nat \ T : \A k \in Nat \ T : ~(<<k, m>> \in OpToRel(<, Nat))
  BY NatLessThanWellFounded, WFMin, Nat \ T \subseteq Nat
<1>2. \A k \in Nat : k < m => k \in T
  BY <1>1 DEF OpToRel
<1>3. m \in Nat /\ m \notin T
  OBVIOUS
<1>4. m - 1 \in Nat /\ m - 1 < m
  BY <1>3
<1> QED BY <1>2, <1>3, <1>4

\* One element remains when the others are taken away.
LEMMA WithoutOne ==
    ASSUME NEW S, IsFiniteSet(S), NEW n \in Nat, Cardinality(S) = n + 1, NEW x \in S
    PROVE  IsFiniteSet(S \ {x}) /\ Cardinality(S \ {x}) = n
  BY FS_RemoveElement

\* An enumeration without repetitions of as many places as there are
\* elements misses none.
LEMMA SeqsListAll ==
    ASSUME NEW S, IsFiniteSet(S), NEW s \in SetToSeqs(S)
    PROVE  /\ Cardinality(S) \in Nat
           /\ s \in [1 .. Cardinality(S) -> S]
           /\ \A x \in S : \E i \in 1 .. Cardinality(S) : s[i] = x
<1> DEFINE n == Cardinality(S)
<1>1. n \in Nat
  BY FS_CardinalityType
<1>2. s \in [1 .. n -> S] /\ \A i, j \in 1 .. n : i # j => s[i] # s[j]
  BY DEF SetToSeqs
<1>3. s \in Injection(1 .. n, S)
  BY <1>2 DEF Injection, IsInjective
<1>4. Cardinality(1 .. n) = n
  BY <1>1, FS_Interval
<1>5. s \in Surjection(1 .. n, S)
  BY <1>3, <1>4, FS_Injection
<1> QED BY <1>1, <1>2, <1>5 DEF Surjection

-----------------------------------------------------------------------------
(* Rules in order.                                                         *)

\* The rules of a version are finitely many, and the primary key of
\* policy_rules tells them apart.
RulesAreKeyed(rules) ==
    /\ IsFiniteSet(rules)
    /\ \A r \in rules : r.priority \in Int /\ r.id \in Int
    /\ \A r, s \in rules : r.id = s.id => r = s

Sorted(s) == \A i, j \in DOMAIN s : i < j => Before(s[i], s[j])

LEMMA BeforeIsAnOrder ==
    ASSUME NEW R, RulesAreKeyed(R)
    PROVE  /\ \A r, s \in R : r = s \/ Before(r, s) \/ Before(s, r)
           /\ \A r \in R : ~Before(r, r)
           /\ \A r, s, t \in R : Before(r, s) /\ Before(s, t) => Before(r, t)
  BY DEF RulesAreKeyed, Before

LEMMA KeyedSubset ==
    ASSUME NEW R, RulesAreKeyed(R), NEW Q \in SUBSET R
    PROVE  RulesAreKeyed(Q)
  BY FS_Subset DEF RulesAreKeyed

\* One of the rules is the last.
LEMMA LastRule ==
    ASSUME NEW R, RulesAreKeyed(R), R # {}
    PROVE  \E m \in R : \A r \in R : r = m \/ Before(r, m)
<1> DEFINE HasLast(Q) == \E m \in Q : \A r \in Q : r = m \/ Before(r, m)
           T == {n \in Nat : \A Q \in SUBSET R : Cardinality(Q) = n + 1 => HasLast(Q)}
<1>0. \A Q \in SUBSET R : IsFiniteSet(Q) /\ Cardinality(Q) \in Nat
  BY FS_Subset, FS_CardinalityType DEF RulesAreKeyed
<1>1. 0 \in T
  <2> SUFFICES ASSUME NEW Q \in SUBSET R, Cardinality(Q) = 1 PROVE HasLast(Q)
    OBVIOUS
  <2>1. \E x : Q = {x}
    BY <1>0, FS_Singleton
  <2> QED BY <2>1
<1>2. ASSUME NEW n \in Nat, n \in T PROVE n + 1 \in T
  <2> SUFFICES ASSUME NEW Q \in SUBSET R, Cardinality(Q) = n + 2 PROVE HasLast(Q)
    OBVIOUS
  <2>1. Q # {}
    BY FS_EmptySet
  <2>2. PICK x \in Q : TRUE
    BY <2>1
  <2>3. Cardinality(Q \ {x}) = n + 1
    BY <1>0, WithoutOne
  <2>5. HasLast(Q \ {x})
    BY <1>2, <2>3, Q \ {x} \in SUBSET R
  <2>6. PICK m \in Q \ {x} : \A r \in Q \ {x} : r = m \/ Before(r, m)
    BY <2>5
  <2>7. m \in R /\ x \in R
    OBVIOUS
  <2>8. CASE Before(x, m)
    <3>1. \A r \in Q : r = m \/ Before(r, m)
      BY <2>6, <2>8
    <3> QED BY <3>1
  <2>9. CASE Before(m, x)
    <3>1. \A r \in Q : r = x \/ Before(r, x)
      BY <2>6, <2>7, <2>9, BeforeIsAnOrder
    <3> QED BY <3>1
  <2> QED BY <2>7, <2>8, <2>9, BeforeIsAnOrder
<1> HIDE DEF T
<1>3. \A n \in Nat : n \in T
  BY <1>1, <1>2, SetInduction
<1>4. Cardinality(R) \in Nat /\ Cardinality(R) # 0
  BY <1>0, FS_EmptySet
<1>5. Cardinality(R) - 1 \in T
  BY <1>3, <1>4
<1> QED BY <1>4, <1>5 DEF T

\* Finitely many rules can be sorted.
LEMMA RulesCanBeSorted ==
    ASSUME NEW R, RulesAreKeyed(R)
    PROVE  \E s \in SetToSeqs(R) : Sorted(s)
<1> DEFINE Sortable(Q, n) == \E s \in [1 .. n -> Q] : Sorted(s)
           T == {n \in Nat : \A Q \in SUBSET R : Cardinality(Q) = n => Sortable(Q, n)}
<1>0. \A Q \in SUBSET R : IsFiniteSet(Q) /\ Cardinality(Q) \in Nat /\ RulesAreKeyed(Q)
  BY FS_Subset, FS_CardinalityType, KeyedSubset DEF RulesAreKeyed
<1>1. 0 \in T
  <2> SUFFICES ASSUME NEW Q PROVE Sortable(Q, 0)
    OBVIOUS
  <2> DEFINE none == [i \in 1 .. 0 |-> i]
  <2>1. none \in [1 .. 0 -> Q] /\ Sorted(none)
    BY DEF Sorted
  <2> QED BY <2>1
<1>2. ASSUME NEW n \in Nat, n \in T PROVE n + 1 \in T
  <2> SUFFICES ASSUME NEW Q \in SUBSET R, Cardinality(Q) = n + 1 PROVE Sortable(Q, n + 1)
    OBVIOUS
  <2>1. Q # {} /\ RulesAreKeyed(Q)
    BY <1>0, FS_EmptySet
  <2>2. PICK m \in Q : \A r \in Q : r = m \/ Before(r, m)
    BY <2>1, LastRule
  <2>3. Cardinality(Q \ {m}) = n
    BY <1>0, WithoutOne
  <2>4. PICK s \in [1 .. n -> Q \ {m}] : Sorted(s)
    BY <1>2, <2>3, Q \ {m} \in SUBSET R
  <2> DEFINE t == [i \in 1 .. n + 1 |-> IF i = n + 1 THEN m ELSE s[i]]
  <2>5. t \in [1 .. n + 1 -> Q]
    OBVIOUS
  <2>6. ASSUME NEW i \in 1 .. n + 1, NEW j \in 1 .. n + 1, i < j PROVE Before(t[i], t[j])
    <3>1. i \in 1 .. n /\ t[i] = s[i] /\ s[i] \in Q \ {m}
      BY <2>6
    <3>2. CASE j = n + 1
      BY <2>2, <3>1, <3>2
    <3>3. CASE j # n + 1
      BY <2>4, <2>6, <3>1, <3>3 DEF Sorted
    <3> QED BY <3>2, <3>3
  <2>7. Sorted(t)
    BY <2>5, <2>6 DEF Sorted
  <2> QED BY <2>5, <2>7
<1> HIDE DEF T
<1>3. \A n \in Nat : n \in T
  BY <1>1, <1>2, SetInduction
<1> DEFINE n == Cardinality(R)
<1>4. n \in Nat /\ n \in T
  BY <1>0, <1>3
<1>5. PICK s \in [1 .. n -> R] : Sorted(s)
  BY <1>4 DEF T
<1>6. ASSUME NEW i \in 1 .. n, NEW j \in 1 .. n, i # j PROVE s[i] # s[j]
  <2>1. i < j \/ j < i
    BY <1>4, <1>6
  <2>2. Before(s[i], s[j]) \/ Before(s[j], s[i])
    BY <1>5, <2>1 DEF Sorted
  <2> QED BY <1>5, <2>2, BeforeIsAnOrder
<1>7. s \in SetToSeqs(R)
  BY <1>5, <1>6 DEF SetToSeqs
<1> QED BY <1>5, <1>7

\* So the evaluator tries every rule of a version.
LEMMA ByPriorityListsAll ==
    ASSUME NEW R, RulesAreKeyed(R)
    PROVE  /\ ByPriority(R) \in Seq(R)
           /\ \A r \in R : \E i \in 1 .. Len(ByPriority(R)) : ByPriority(R)[i] = r
<1> DEFINE s == ByPriority(R)
<1>1. s \in SetToSeqs(R)
  BY RulesCanBeSorted DEF Sorted, ByPriority
<1> HIDE DEF s
<1>2. /\ Cardinality(R) \in Nat
      /\ s \in [1 .. Cardinality(R) -> R]
      /\ \A x \in R : \E i \in 1 .. Cardinality(R) : s[i] = x
  BY <1>1, SeqsListAll DEF RulesAreKeyed
<1>3. s \in Seq(R) /\ Len(s) = Cardinality(R)
  BY <1>2
<1>4. s \in Seq(R) /\ \A r \in R : \E i \in 1 .. Len(s) : s[i] = r
  BY <1>2, <1>3
<1> QED BY <1>4 DEF s

-----------------------------------------------------------------------------
(* What the evaluator does with a rule and with a bundle.                  *)

Shaped(result) == result = [effect |-> result.effect, constraints |-> result.constraints]

\* The evaluation so far is a record; one that ended without an error denies.
Running(acc) ==
    /\ acc = [result |-> acc.result, ended |-> acc.ended, error |-> acc.error]
    /\ Shaped(acc.result)
    /\ acc.ended \in BOOLEAN /\ acc.error \in BOOLEAN
    /\ acc.error => acc.ended
    /\ acc.ended /\ ~acc.error => acc.result.effect = "deny"

\* The evaluation goes on with a result at least as strict, or has ended.
Obeys(acc, effect) == acc.ended \/ severity(acc.result.effect) >= severity(effect)

Wants(rule, input) ==
    /\ rule.enabled /\ RuleMatchesPrefilter(rule, input)
    /\ CELEvaluate(rule.condition, input) = "true"

LEMMA Severities ==
    /\ \A effect : severity(effect) \in 0 .. 4
    /\ severity("deny") = 4
    /\ severity(Undecided) = 0
  BY DEF severity, Undecided

LEMMA CombineIsStrict ==
    ASSUME NEW current, NEW incoming, Shaped(current), Shaped(incoming)
    PROVE  /\ Shaped(combine(current, incoming))
           /\ severity(combine(current, incoming).effect) >= severity(current.effect)
           /\ severity(combine(current, incoming).effect) >= severity(incoming.effect)
<1> DEFINE both == combine(current, incoming)
<1>1. Shaped(both) /\ both.effect \in {current.effect, incoming.effect}
  BY DEF Shaped, combine
<1>2. /\ incoming.effect = Undecided => both.effect = current.effect
      /\ incoming.effect # Undecided /\ current.effect = Undecided =>
            both.effect = incoming.effect
      /\ incoming.effect # Undecided /\ current.effect # Undecided =>
            both.effect = IF severity(incoming.effect) > severity(current.effect)
                          THEN incoming.effect ELSE current.effect
  BY DEF Shaped, combine
<1> HIDE DEF both
<1>3. /\ severity(both.effect) >= severity(current.effect)
      /\ severity(both.effect) >= severity(incoming.effect)
  BY <1>2, Severities
<1> QED BY <1>1, <1>3 DEF both

LEMMA RuleIsObeyed ==
    ASSUME NEW acc, Running(acc), NEW rule, NEW input
    PROVE  /\ Running(TryRule(acc, rule, input))
           /\ \A effect : Obeys(acc, effect) => Obeys(TryRule(acc, rule, input), effect)
           /\ Wants(rule, input) => Obeys(TryRule(acc, rule, input), rule.effect)
<1> DEFINE next == TryRule(acc, rule, input)
           result == combine(acc.result, Outcome(rule.effect, rule.constraints))
<1>1. /\ Shaped(result)
      /\ severity(result.effect) >= severity(acc.result.effect)
      /\ severity(result.effect) >= severity(rule.effect)
  <2>1. Shaped(Outcome(rule.effect, rule.constraints)) /\ Shaped(acc.result)
    BY DEF Shaped, Outcome, Running
  <2>2. Outcome(rule.effect, rule.constraints).effect = rule.effect
    BY DEF Outcome
  <2> QED BY <2>1, <2>2, CombineIsStrict
<1>2. CASE acc.ended \/ ~rule.enabled \/ ~RuleMatchesPrefilter(rule, input)
  <2>1. next = acc
    BY <1>2 DEF TryRule
  <2> QED BY <1>2, <2>1 DEF Wants, Obeys
<1>3. CASE ~acc.ended /\ rule.enabled /\ RuleMatchesPrefilter(rule, input)
  <2>1. CELEvaluate(rule.condition, input) \in {"error", "true", "false"}
    BY DEF CELEvaluate
  <2>2. CASE CELEvaluate(rule.condition, input) = "error"
    <3>1. next = [acc EXCEPT !.ended = TRUE, !.error = TRUE]
      BY <1>3, <2>2 DEF TryRule
    <3> QED BY <3>1 DEF Running, Obeys
  <2>3. CASE CELEvaluate(rule.condition, input) = "false"
    <3>1. next = acc
      BY <1>3, <2>3 DEF TryRule
    <3> QED BY <2>3, <3>1 DEF Wants
  <2>4. CASE CELEvaluate(rule.condition, input) = "true"
    <3>1. next = [acc EXCEPT !.result = result, !.ended = (result.effect = "deny")]
      BY <1>3, <2>4 DEF TryRule
    <3> HIDE DEF result
    <3>2. next = [result |-> result, ended |-> (result.effect = "deny"), error |-> acc.error]
      BY <3>1 DEF Running
    <3>3. ~acc.error
      BY <1>3 DEF Running
    <3>4. Running(next)
      BY <1>1, <3>2, <3>3 DEF Running
    <3>5. \A effect : Obeys(acc, effect) => Obeys(next, effect)
      BY <1>1, <1>3, <3>2, Severities DEF Obeys
    <3>6. Obeys(next, rule.effect)
      BY <1>1, <3>2 DEF Obeys
    <3> QED BY <3>4, <3>5, <3>6
  <2> QED BY <2>1, <2>2, <2>3, <2>4
<1> QED BY <1>2, <1>3 DEF Running

\* The loop over the rules of a bundle: what the evaluation is after each.
RuleLoop(after, opened, rules, n, input) ==
    after = [i \in 0 .. n |-> IF i = 0 THEN opened ELSE TryRule(after[i - 1], rules[i], input)]

LEMMA RuleLoopExists ==
    ASSUME NEW opened, NEW rules, NEW input, NEW n \in Nat
    PROVE  \E after : RuleLoop(after, opened, rules, n, input)
<1> DEFINE T == {k \in Nat : \E after : RuleLoop(after, opened, rules, k, input)}
<1>1. 0 \in T
  <2> DEFINE g == [i \in 0 .. 0 |-> opened]
  <2>1. RuleLoop(g, opened, rules, 0, input)
    BY DEF RuleLoop
  <2> QED BY <2>1
<1>2. ASSUME NEW k \in Nat, k \in T PROVE k + 1 \in T
  <2>1. PICK g : RuleLoop(g, opened, rules, k, input)
    BY <1>2
  <2> DEFINE h == [i \in 0 .. k + 1 |->
                      IF i = k + 1 THEN TryRule(g[k], rules[k + 1], input) ELSE g[i]]
             E == [i \in 0 .. k + 1 |->
                      IF i = 0 THEN opened ELSE TryRule(h[i - 1], rules[i], input)]
  <2>2. ASSUME NEW i \in 0 .. k + 1 PROVE h[i] = E[i]
    <3>1. CASE i = 0
      BY <2>1, <3>1 DEF RuleLoop
    <3>2. CASE i = k + 1
      BY <3>2
    <3>3. CASE i # 0 /\ i # k + 1
      <4>1. i \in 0 .. k /\ i - 1 \in 0 .. k
        BY <3>3
      <4>2. h[i] = g[i] /\ h[i - 1] = g[i - 1]
        BY <3>3, <4>1
      <4>3. g[i] = TryRule(g[i - 1], rules[i], input)
        BY <2>1, <3>3, <4>1 DEF RuleLoop
      <4> QED BY <3>3, <4>2, <4>3
    <3> QED BY <3>1, <3>2, <3>3
  <2>3. RuleLoop(h, opened, rules, k + 1, input)
    BY <2>2 DEF RuleLoop
  <2> QED BY <2>3
<1> HIDE DEF T
<1>3. n \in T
  BY <1>1, <1>2, SetInduction
<1> QED BY <1>3 DEF T

\* The loop keeps the evaluation well formed and obeys each rule it tried.
LEMMA RuleLoopObeys ==
    ASSUME NEW opened, Running(opened), NEW rules, NEW input, NEW n \in Nat,
           NEW after, RuleLoop(after, opened, rules, n, input)
    PROVE  /\ Running(after[n])
           /\ \A effect : Obeys(opened, effect) => Obeys(after[n], effect)
           /\ \A i \in 1 .. n : Wants(rules[i], input) => Obeys(after[n], rules[i].effect)
<1> DEFINE Good(k) ==
              /\ Running(after[k])
              /\ \A effect : Obeys(opened, effect) => Obeys(after[k], effect)
              /\ \A i \in 1 .. k : Wants(rules[i], input) => Obeys(after[k], rules[i].effect)
           T == {k \in Nat : k <= n => Good(k)}
<1>1. 0 \in T
  <2>1. after[0] = opened
    BY DEF RuleLoop
  <2> QED BY <2>1
<1>2. ASSUME NEW k \in Nat, k \in T PROVE k + 1 \in T
  <2> SUFFICES ASSUME k + 1 <= n PROVE Good(k + 1)
    OBVIOUS
  <2>1. Good(k)
    BY <1>2
  <2>2. after[k + 1] = TryRule(after[k], rules[k + 1], input)
    BY DEF RuleLoop
  <2>3. /\ Running(after[k + 1])
        /\ \A effect : Obeys(after[k], effect) => Obeys(after[k + 1], effect)
        /\ Wants(rules[k + 1], input) => Obeys(after[k + 1], rules[k + 1].effect)
    BY <2>1, <2>2, RuleIsObeyed
  <2> QED BY <2>1, <2>3
<1> HIDE DEF T
<1>3. n \in T
  BY <1>1, <1>2, SetInduction
<1> QED BY <1>3 DEF T

LEMMA BundleIsObeyed ==
    ASSUME NEW acc, Running(acc), NEW bundle, RulesAreKeyed(bundle.rules), NEW input
    PROVE  /\ Running(TryBundle(acc, bundle, input))
           /\ \A effect : Obeys(acc, effect) => Obeys(TryBundle(acc, bundle, input), effect)
           /\ \A effect \in EffectsOf(bundle, input) :
                 Obeys(TryBundle(acc, bundle, input), effect)
<1> DEFINE next == TryBundle(acc, bundle, input)
           rules == ByPriority(bundle.rules)
           n == Len(rules)
           default == Outcome(bundle.default, Unconstrained)
           opened == [acc EXCEPT !.result = combine(acc.result, default)]
           after == CHOOSE g : RuleLoop(g, opened, rules, n, input)
<1>1. n \in Nat
  BY ByPriorityListsAll
<1>2. CASE acc.ended
  <2>1. next = acc
    BY <1>2 DEF TryBundle
  <2> QED BY <1>2, <2>1 DEF Obeys
<1>3. CASE ~acc.ended
  <2>1. next = after[n]
    BY <1>3 DEF TryBundle, RuleLoop
  <2>2. RuleLoop(after, opened, rules, n, input)
    BY <1>1, RuleLoopExists
  <2> HIDE DEF after
  <2>3. /\ Running(opened)
        /\ \A effect : Obeys(acc, effect) => Obeys(opened, effect)
        /\ Obeys(opened, bundle.default)
    <3> DEFINE result == combine(acc.result, default)
    <3>1. Shaped(default) /\ default.effect = bundle.default /\ Shaped(acc.result)
      BY DEF Shaped, Outcome, Running
    <3>2. /\ Shaped(result)
          /\ severity(result.effect) >= severity(acc.result.effect)
          /\ severity(result.effect) >= severity(bundle.default)
      BY <3>1, CombineIsStrict
    <3> HIDE DEF result
    <3>3. opened = [result |-> result, ended |-> acc.ended, error |-> acc.error]
      BY DEF Running, result
    <3>4. Running(opened)
      BY <1>3, <3>2, <3>3 DEF Running
    <3> QED BY <1>3, <3>2, <3>3, <3>4, Severities DEF Obeys
  <2> HIDE DEF opened
  <2>4. /\ Running(after[n])
        /\ \A effect : Obeys(opened, effect) => Obeys(after[n], effect)
        /\ \A i \in 1 .. n : Wants(rules[i], input) => Obeys(after[n], rules[i].effect)
    BY <1>1, <2>2, <2>3, RuleLoopObeys
  <2>5. ASSUME NEW effect \in EffectsOf(bundle, input) PROVE Obeys(after[n], effect)
    <3>1. CASE effect = bundle.default
      BY <2>3, <2>4, <3>1
    <3>2. CASE effect # bundle.default
      <4>1. PICK r \in bundle.rules : effect = r.effect /\ Wants(r, input)
        BY <2>5, <3>2 DEF EffectsOf, Wants
      <4>2. PICK i \in 1 .. n : rules[i] = r
        BY ByPriorityListsAll
      <4> QED BY <2>4, <4>1, <4>2
    <3> QED BY <3>1, <3>2
  <2> QED BY <2>1, <2>3, <2>4, <2>5
<1> QED BY <1>2, <1>3

-----------------------------------------------------------------------------
(* An evaluation.                                                          *)

BundleLoop(after, start, bundles, n, input) ==
    after = [i \in 0 .. n |-> IF i = 0 THEN start ELSE TryBundle(after[i - 1], bundles[i], input)]

LEMMA BundleLoopExists ==
    ASSUME NEW start, NEW bundles, NEW input, NEW n \in Nat
    PROVE  \E after : BundleLoop(after, start, bundles, n, input)
<1> DEFINE T == {k \in Nat : \E after : BundleLoop(after, start, bundles, k, input)}
<1>1. 0 \in T
  <2> DEFINE g == [i \in 0 .. 0 |-> start]
  <2>1. BundleLoop(g, start, bundles, 0, input)
    BY DEF BundleLoop
  <2> QED BY <2>1
<1>2. ASSUME NEW k \in Nat, k \in T PROVE k + 1 \in T
  <2>1. PICK g : BundleLoop(g, start, bundles, k, input)
    BY <1>2
  <2> DEFINE h == [i \in 0 .. k + 1 |->
                      IF i = k + 1 THEN TryBundle(g[k], bundles[k + 1], input) ELSE g[i]]
             E == [i \in 0 .. k + 1 |->
                      IF i = 0 THEN start ELSE TryBundle(h[i - 1], bundles[i], input)]
  <2>2. ASSUME NEW i \in 0 .. k + 1 PROVE h[i] = E[i]
    <3>1. CASE i = 0
      BY <2>1, <3>1 DEF BundleLoop
    <3>2. CASE i = k + 1
      BY <3>2
    <3>3. CASE i # 0 /\ i # k + 1
      <4>1. i \in 0 .. k /\ i - 1 \in 0 .. k
        BY <3>3
      <4>2. h[i] = g[i] /\ h[i - 1] = g[i - 1]
        BY <3>3, <4>1
      <4>3. g[i] = TryBundle(g[i - 1], bundles[i], input)
        BY <2>1, <3>3, <4>1 DEF BundleLoop
      <4> QED BY <3>3, <4>2, <4>3
    <3> QED BY <3>1, <3>2, <3>3
  <2>3. BundleLoop(h, start, bundles, k + 1, input)
    BY <2>2 DEF BundleLoop
  <2> QED BY <2>3
<1> HIDE DEF T
<1>3. n \in T
  BY <1>1, <1>2, SetInduction
<1> QED BY <1>3 DEF T

LEMMA BundleLoopObeys ==
    ASSUME NEW start, Running(start), NEW bundles, NEW input, NEW n \in Nat,
           \A i \in 1 .. n : RulesAreKeyed(bundles[i].rules),
           NEW after, BundleLoop(after, start, bundles, n, input)
    PROVE  /\ Running(after[n])
           /\ \A i \in 1 .. n : \A effect \in EffectsOf(bundles[i], input) : Obeys(after[n], effect)
<1> DEFINE Good(k) ==
              /\ Running(after[k])
              /\ \A i \in 1 .. k : \A effect \in EffectsOf(bundles[i], input) : Obeys(after[k], effect)
           T == {k \in Nat : k <= n => Good(k)}
<1>1. 0 \in T
  <2>1. after[0] = start
    BY DEF BundleLoop
  <2> QED BY <2>1
<1>2. ASSUME NEW k \in Nat, k \in T PROVE k + 1 \in T
  <2> SUFFICES ASSUME k + 1 <= n PROVE Good(k + 1)
    OBVIOUS
  <2>1. Good(k)
    BY <1>2
  <2>2. after[k + 1] = TryBundle(after[k], bundles[k + 1], input)
    BY DEF BundleLoop
  <2>3. /\ Running(after[k + 1])
        /\ \A effect : Obeys(after[k], effect) => Obeys(after[k + 1], effect)
        /\ \A effect \in EffectsOf(bundles[k + 1], input) : Obeys(after[k + 1], effect)
    BY <2>1, <2>2, BundleIsObeyed
  <2> QED BY <2>1, <2>3
<1> HIDE DEF T
<1>3. n \in T
  BY <1>1, <1>2, SetInduction
<1> QED BY <1>3 DEF T

\* The decision of an evaluation without an error is as strict as every
\* effect that a bundle asks for, in whatever order the bundles come.
LEMMA EvaluationObeys ==
    ASSUME NEW input, NEW subject, NEW n \in Nat, NEW bundles,
           Len(bundles) = n, \A i \in 1 .. n : RulesAreKeyed(bundles[i].rules),
           ~EvaluateBundles(input, subject, bundles).error,
           NEW i \in 1 .. n, NEW effect \in EffectsOf(bundles[i], input)
    PROVE  severity(EvaluateBundles(input, subject, bundles).result.effect)
              >= severity(effect)
<1> DEFINE start == [result |-> autonomyBaseline(subject, input.action),
                     ended |-> FALSE, error |-> FALSE]
           after == CHOOSE g : BundleLoop(g, start, bundles, n, input)
           denied == [after[n] EXCEPT !.result = Outcome("deny", Unconstrained)]
<1>1. EvaluateBundles(input, subject, bundles) =
         IF after[n].result.effect = Undecided THEN denied ELSE after[n]
  BY DEF EvaluateBundles, BundleLoop
<1>2. BundleLoop(after, start, bundles, n, input)
  BY BundleLoopExists
<1>3. Running(start)
  <2>1. Shaped(autonomyBaseline(subject, input.action))
    BY DEF Shaped, autonomyBaseline, NoResult, NeedsApproval, Outcome
  <2> QED BY <2>1 DEF Running
<1> HIDE DEF after, start
<1>4. Running(after[n]) /\ Obeys(after[n], effect)
  BY <1>2, <1>3, BundleLoopObeys
<1>5. CASE after[n].result.effect = Undecided
  <2>1. denied = [result |-> Outcome("deny", Unconstrained),
                  ended |-> after[n].ended, error |-> after[n].error]
    BY <1>4 DEF Running
  <2>2. denied.result.effect = "deny"
    BY <2>1 DEF Outcome
  <2> QED BY <1>1, <1>5, <2>2, Severities
<1>6. CASE after[n].result.effect # Undecided
  <2>1. ~after[n].error
    BY <1>1, <1>6
  <2>2. after[n].ended => after[n].result.effect = "deny"
    BY <1>4, <2>1 DEF Running
  <2>3. severity(after[n].result.effect) >= severity(effect)
    BY <1>4, <2>2, Severities DEF Obeys
  <2> QED BY <1>1, <1>6, <2>3
<1> QED BY <1>5, <1>6

-----------------------------------------------------------------------------
(* The invariant.                                                          *)

\* The active version of a policy is in the tables.
ActiveExist ==
    \A p \in PolicyIds :
       policy[p].status = "active" =>
          IF p \in Defaults THEN policy[p].active = 1
          ELSE p \in DOMAIN Stored /\ policy[p].active \in DOMAIN Stored[p]

IsRun(run) ==
    run = [x \in {"pc", "id", "input", "subject", "bundles", "standing"} |-> run[x]]

\* What an evaluation takes for active all the time is active, and when it has
\* listed the bundles it is among them if it applies.
RunIsSound(run, active) ==
    /\ IsRun(run)
    /\ run.standing \subseteq active
    /\ run.pc = "record" =>
          /\ IsFiniteSet(run.bundles)
          /\ \A v \in run.bundles : RulesAreKeyed(Version(v[1], v[2]).rules)
          /\ \A v \in run.standing : Applies(v[1], run.subject) => v \in run.bundles

PolicyInv ==
    /\ policy \in [PolicyIds -> PolicyRows]
    /\ ActiveExist
    /\ evaluation = [e \in Evaluators |-> evaluation[e]]
    /\ \A e \in Evaluators : RunIsSound(evaluation[e], ActiveVersions)
    /\ decision = [q \in RequestIds |-> decision[q]]
    /\ StandingPoliciesAreObeyed

LEMMA VersionsAreKeyed ==
    ASSUME PolicyInv, NEW v \in ActiveVersions
    PROVE  RulesAreKeyed(Version(v[1], v[2]).rules)
<1>1. PICK p \in PolicyIds : policy[p].status = "active" /\ v = <<p, policy[p].active>>
  BY DEF ActiveVersions
<1>2. CASE p \in Defaults
  <2>1. PICK name \in {"security", "approval", "read"} : p[2] = name
    BY <1>2 DEF Defaults, DefaultNames
  <2>2. Version(v[1], v[2]).rules = {defaultPolicies[name]}
    BY <1>1, <1>2, <2>1 DEF Version, newDefaultPolicy
  <2>3. defaultPolicies[name].priority \in Int /\ defaultPolicies[name].id \in Int
    BY <2>1 DEF defaultPolicies, Rule
  <2>4. IsFiniteSet({defaultPolicies[name]})
    BY FS_Singleton
  <2> QED BY <2>2, <2>3, <2>4 DEF RulesAreKeyed
<1>3. CASE p \notin Defaults
  <2>1. p \in DOMAIN Stored /\ policy[p].active \in DOMAIN Stored[p]
    BY <1>1, <1>3 DEF PolicyInv, ActiveExist
  <2>2. Version(v[1], v[2]) = Stored[p][policy[p].active]
    BY <1>1, <1>3 DEF Version
  <2>3. RulesAreKeyed(Stored[p][policy[p].active].rules)
    BY <2>1, PolicyTablesAssumption DEF RulesAreKeyed
  <2> QED BY <2>2, <2>3
<1> QED BY <1>2, <1>3

LEMMA ActiveVersionsFinite == IsFiniteSet(ActiveVersions)
<1> DEFINE S == {q \in PolicyIds : policy[q].status = "active"}
           f == [p \in S |-> <<p, policy[p].active>>]
<1>1. IsFiniteSet({"security", "approval", "read"})
  <2>1. IsFiniteSet({"security"}) /\ IsFiniteSet({"approval"}) /\ IsFiniteSet({"read"})
    BY FS_Singleton
  <2>2. IsFiniteSet({"security"} \cup {"approval"})
    BY <2>1, FS_Union
  <2>3. IsFiniteSet(({"security"} \cup {"approval"}) \cup {"read"})
    BY <2>1, <2>2, FS_Union
  <2>4. ({"security"} \cup {"approval"}) \cup {"read"} = {"security", "approval", "read"}
    OBVIOUS
  <2> QED BY <2>3, <2>4
<1>2. IsFiniteSet(Operations \X {"security", "approval", "read"})
  BY <1>1, FS_Product, PolicyTablesAssumption
<1>3. IsFiniteSet(DOMAIN Custom \cup (Operations \X {"security", "approval", "read"}))
  BY <1>2, FS_Union, PolicyTablesAssumption
<1>4. IsFiniteSet(PolicyIds)
  BY <1>3 DEF PolicyIds, Defaults, DefaultNames
<1>5. IsFiniteSet(S)
  BY <1>4, FS_Subset
<1>6. f \in Surjection(S, ActiveVersions)
  BY DEF Surjection, ActiveVersions
<1> QED BY <1>5, <1>6, FS_Surjection

\* Versions that stay active keep the evaluations sound.
LEMMA PoliciesChange ==
    ASSUME PolicyInv, policy' \in [PolicyIds -> PolicyRows], ActiveExist',
           UNCHANGED decision,
           \/ evaluation' = evaluation /\ ActiveVersions \subseteq ActiveVersions'
           \/ StillStanding(policy')
    PROVE  PolicyInv'
<1>1. StandingPoliciesAreObeyed'
  BY DEF PolicyInv, StandingPoliciesAreObeyed, EffectsOf, Version, severity
<1>2. evaluation' = [e \in Evaluators |-> evaluation'[e]]
  BY DEF PolicyInv, StillStanding
<1>3. ASSUME NEW e \in Evaluators PROVE RunIsSound(evaluation'[e], ActiveVersions')
  <2>1. RunIsSound(evaluation[e], ActiveVersions)
    BY DEF PolicyInv
  <2>2. CASE evaluation' = evaluation /\ ActiveVersions \subseteq ActiveVersions'
    BY <2>1, <2>2 DEF RunIsSound
  <2>3. CASE StillStanding(policy')
    <3> DEFINE run == evaluation[e]
               kept == {v \in run.standing :
                           policy'[v[1]].status = "active" /\ policy'[v[1]].active = v[2]}
    <3>1. evaluation'[e] = [run EXCEPT !.standing = kept]
      BY <2>3 DEF StillStanding
    <3>2. /\ IsRun(evaluation'[e]) /\ evaluation'[e].pc = run.pc
          /\ evaluation'[e].bundles = run.bundles /\ evaluation'[e].subject = run.subject
          /\ evaluation'[e].standing = kept
      BY <2>1, <3>1 DEF RunIsSound, IsRun
    <3>3. kept \subseteq ActiveVersions'
      <4> SUFFICES ASSUME NEW v \in kept PROVE v \in ActiveVersions'
        OBVIOUS
      <4>1. PICK p \in PolicyIds : v = <<p, policy[p].active>>
        BY <2>1 DEF RunIsSound, ActiveVersions
      <4>2. policy'[p].status = "active" /\ v = <<p, policy'[p].active>>
        BY <4>1
      <4> QED BY <4>2 DEF ActiveVersions, PolicyIds, Defaults, DefaultNames
    <3> QED BY <2>1, <3>2, <3>3 DEF RunIsSound
  <2> QED BY <2>2, <2>3
<1> QED BY <1>1, <1>2, <1>3 DEF PolicyInv

\* Steps of the management of policies.
LEMMA ManagementKeeps ==
    ASSUME PolicyInv, NEW p \in PolicyIds,
           \/ p \in DOMAIN Custom /\ (CreatePolicy(p) \/ CreateVersion(p))
           \/ \E expected \in 1 .. policy[p].version :
                 \/ ArchivePolicy(p, expected)
                 \/ \E n \in 1 .. 2 : ActivatePolicy(p, n, expected)
    PROVE  PolicyInv'
<1> USE DEF tables
<1>0. policy \in [PolicyIds -> PolicyRows] /\ policy[p] \in PolicyRows
  BY DEF PolicyInv
<1>1. CASE CreatePolicy(p)
  <2> DEFINE row == [status |-> "draft", active |-> 0, version |-> 1]
  <2>1. /\ policy[p].status # "active" /\ policy' = [policy EXCEPT ![p] = row]
        /\ UNCHANGED <<decision, evaluation>>
    BY <1>1 DEF CreatePolicy, insertPolicy, NoPolicy, None
  <2>2. policy' \in [PolicyIds -> PolicyRows]
    BY <1>0, <2>1 DEF PolicyRows
  <2>3. \A q \in PolicyIds : policy'[q].status = "active" => policy'[q] = policy[q]
    BY <1>0, <2>1
  <2>4. \A q \in PolicyIds : policy[q].status = "active" => policy'[q] = policy[q]
    BY <1>0, <2>1
  <2>5. ActiveExist'
    BY <2>3 DEF PolicyInv, ActiveExist, PolicyIds, Defaults, DefaultNames
  <2>6. ActiveVersions \subseteq ActiveVersions'
    BY <2>4 DEF ActiveVersions, PolicyIds, Defaults, DefaultNames
  <2> QED BY <2>1, <2>2, <2>5, <2>6, PoliciesChange
<1>2. CASE CreateVersion(p)
  <2>1. UNCHANGED <<policy, decision, evaluation>>
    BY <1>2 DEF CreateVersion
  <2>2. ActiveExist' /\ ActiveVersions' = ActiveVersions
    BY <2>1 DEF PolicyInv, ActiveExist, ActiveVersions, PolicyIds, Defaults, DefaultNames
  <2> QED BY <1>0, <2>1, <2>2, PoliciesChange
<1>3. ASSUME NEW expected \in 1 .. policy[p].version, ArchivePolicy(p, expected)
      PROVE  PolicyInv'
  <2>1. /\ policy' = policy \/ policy' = [policy EXCEPT ![p].status = "archived", ![p].version = @ + 1]
        /\ StillStanding(policy') /\ UNCHANGED decision
    BY <1>3 DEF ArchivePolicy
  <2>2. policy' \in [PolicyIds -> PolicyRows]
    BY <1>0, <2>1 DEF PolicyRows
  <2>3. \A q \in PolicyIds : policy'[q].status = "active" => policy'[q] = policy[q]
    BY <1>0, <2>1 DEF PolicyRows
  <2>4. ActiveExist'
    BY <2>3 DEF PolicyInv, ActiveExist, PolicyIds, Defaults, DefaultNames
  <2> QED BY <2>1, <2>2, <2>4, PoliciesChange
<1>4. ASSUME NEW expected \in 1 .. policy[p].version, NEW n \in 1 .. 2, ActivatePolicy(p, n, expected)
      PROVE  PolicyInv'
  <2> DEFINE row == [status |-> "active", active |-> n, version |-> policy[p].version + 1]
  <2>1. /\ \/ policy' = policy
           \/ policy' = [policy EXCEPT ![p] = row] /\ VersionExists(p, n)
        /\ StillStanding(policy') /\ UNCHANGED decision
    BY <1>4 DEF ActivatePolicy
  <2>2. policy' \in [PolicyIds -> PolicyRows]
    BY <1>0, <2>1 DEF PolicyRows
  <2>3. ASSUME NEW q \in PolicyIds, policy'[q].status = "active"
        PROVE  IF q \in Defaults THEN policy'[q].active = 1
               ELSE q \in DOMAIN Stored /\ policy'[q].active \in DOMAIN Stored[q]
    <3>1. CASE policy'[q] = policy[q]
      BY <2>3, <3>1 DEF PolicyInv, ActiveExist
    <3>2. CASE policy'[q] # policy[q]
      <4>1. q = p /\ policy'[q].active = n /\ VersionExists(p, n)
        BY <1>0, <2>1, <3>2
      <4> QED BY <4>1 DEF VersionExists
    <3> QED BY <3>1, <3>2
  <2>4. ActiveExist'
    BY <2>3 DEF ActiveExist, PolicyIds, Defaults, DefaultNames
  <2> QED BY <2>1, <2>2, <2>4, PoliciesChange
<1> QED BY <1>1, <1>2, <1>3, <1>4

\* The default policies: those of the operation become active, and the ones
\* that were active are so with the same version.
LEMMA DefaultsKeep ==
    ASSUME PolicyInv, NEW o \in Operations,
           \/ EnsureDefaultPolicies(o) \/ EnsureDefaults(o) \/ loadBootstrapPolicies(o)
    PROVE  PolicyInv'
<1> DEFINE made == [p \in PolicyIds |-> IF p \in {o} \X DefaultNames
                       THEN [status |-> "active", active |-> 1, version |-> 1] ELSE policy[p]]
<1>1. /\ UNCHANGED <<decision, evaluation>>
      /\ policy' = policy \/ policy' = made
  BY DEF EnsureDefaultPolicies, EnsureDefaults, loadBootstrapPolicies, tables
<1>2. policy \in [PolicyIds -> PolicyRows]
  BY DEF PolicyInv
<1>3. policy' \in [PolicyIds -> PolicyRows]
  BY <1>1, <1>2 DEF PolicyRows
<1>4. {o} \X DefaultNames \subseteq Defaults
  BY DEF Defaults
<1>5. \A q \in PolicyIds :
         \/ policy'[q] = policy[q]
         \/ q \in Defaults /\ policy'[q].status = "active" /\ policy'[q].active = 1
  BY <1>1, <1>2, <1>4
<1>6. ActiveExist'
  BY <1>5 DEF PolicyInv, ActiveExist, PolicyIds, Defaults, DefaultNames
<1>7. ActiveVersions \subseteq ActiveVersions'
  <2> SUFFICES ASSUME NEW q \in PolicyIds, policy[q].status = "active"
               PROVE  policy'[q].status = "active" /\ policy'[q].active = policy[q].active
    BY DEF ActiveVersions, PolicyIds, Defaults, DefaultNames
  <2> QED BY <1>5 DEF PolicyInv, ActiveExist
<1> QED BY <1>1, <1>3, <1>6, <1>7, PoliciesChange

\* A step of one evaluation that leaves policies and decisions alone.
LEMMA RunChanges ==
    ASSUME PolicyInv, UNCHANGED <<policy, decision>>, NEW e \in Evaluators, NEW run,
           evaluation' = [evaluation EXCEPT ![e] = run], RunIsSound(run, ActiveVersions)
    PROVE  PolicyInv'
<1>1. ActiveVersions' = ActiveVersions
  BY DEF ActiveVersions, PolicyIds, Defaults, DefaultNames
<1>2. StandingPoliciesAreObeyed'
  BY DEF PolicyInv, StandingPoliciesAreObeyed, EffectsOf, Version, severity
<1>3. policy' \in [PolicyIds -> PolicyRows] /\ ActiveExist'
  BY DEF PolicyInv, ActiveExist, PolicyIds, Defaults, DefaultNames
<1>4. evaluation' = [x \in Evaluators |-> evaluation'[x]]
  BY DEF PolicyInv
<1>5. \A x \in Evaluators : evaluation'[x] = run \/ evaluation'[x] = evaluation[x]
  BY DEF PolicyInv
<1>6. \A x \in Evaluators : RunIsSound(evaluation'[x], ActiveVersions')
  BY <1>1, <1>5 DEF PolicyInv
<1> QED BY <1>2, <1>3, <1>4, <1>6 DEF PolicyInv

LEMMA AsleepIsSound == RunIsSound(Asleep, ActiveVersions)
  BY DEF RunIsSound, IsRun, Asleep

\* The decision that is recorded obeys what stood all the time.
LEMMA RecordObeys ==
    ASSUME PolicyInv, NEW e \in Evaluators, RecordDecision(e)
    PROVE  PolicyInv'
<1> DEFINE run == evaluation[e]
<1>1. RunIsSound(run, ActiveVersions) /\ run.pc = "record"
  BY DEF PolicyInv, RecordDecision
<1>2. PICK order \in SetToSeqs(run.bundles), nanoseconds \in 0 .. 1 :
        LET final == EvaluateBundles(run.input, run.subject,
                        [i \in DOMAIN order |-> Version(order[i][1], order[i][2])])
            made == [n |-> left + 1, hash |-> hashEvaluationInput(run), input |-> run.input,
                     standing |-> {v \in run.standing : Applies(v[1], run.subject)},
                     result |-> final.result,
                     decidedAt |-> nanoseconds, signed |-> nanoseconds] IN
        IF insertDecision(run.id) /\ ~final.error
        THEN decision' = [decision EXCEPT ![run.id] = Kept(made)]
        ELSE decision' = decision
  BY DEF RecordDecision
<1> DEFINE bundles == [i \in DOMAIN order |-> Version(order[i][1], order[i][2])]
           final == EvaluateBundles(run.input, run.subject, bundles)
           n == Cardinality(run.bundles)
<1>3. /\ n \in Nat /\ order \in [1 .. n -> run.bundles]
      /\ \A v \in run.bundles : \E i \in 1 .. n : order[i] = v
  BY <1>1, SeqsListAll DEF RunIsSound
<1>4. /\ bundles = [i \in 1 .. n |-> Version(order[i][1], order[i][2])]
      /\ Len(bundles) = n
  <2>1. DOMAIN order = 1 .. n
    BY <1>3
  <2> QED BY <1>3, <2>1
<1>5. \A i \in 1 .. n : RulesAreKeyed(bundles[i].rules)
  BY <1>1, <1>3, <1>4 DEF RunIsSound
<1>6. ASSUME ~final.error, NEW v \in run.standing, Applies(v[1], run.subject),
             NEW effect \in EffectsOf(Version(v[1], v[2]), run.input)
      PROVE  severity(final.result.effect) >= severity(effect)
  <2>1. v \in run.bundles
    BY <1>1, <1>6 DEF RunIsSound
  <2>2. PICK i \in 1 .. n : order[i] = v
    BY <1>3, <2>1
  <2>3. bundles[i] = Version(v[1], v[2])
    BY <1>4, <2>2
  <2> HIDE DEF bundles, n
  <2> QED BY <1>3, <1>4, <1>5, <1>6, <2>3, EvaluationObeys
<1> DEFINE made == [n |-> left + 1, hash |-> hashEvaluationInput(run), input |-> run.input,
                    standing |-> {v \in run.standing : Applies(v[1], run.subject)},
                    result |-> final.result,
                    decidedAt |-> nanoseconds, signed |-> nanoseconds]
           Obeyed(d) == \A v \in d.standing : \A effect \in EffectsOf(Version(v[1], v[2]), d.input) :
                           severity(d.result.effect) >= severity(effect)
<1>7. decision' = decision \/ (~final.error /\ decision' = [decision EXCEPT ![run.id] = Kept(made)])
  BY <1>2
<1>8. ~final.error => Obeyed(Kept(made))
  BY <1>6 DEF Kept
<1> HIDE DEF made, final
<1>9. \A q \in RequestIds : Obeyed(decision'[q])
  <2>1. \A q \in RequestIds : Obeyed(decision[q])
    BY DEF PolicyInv, StandingPoliciesAreObeyed
  <2>2. \A q \in RequestIds : decision'[q] = decision[q] \/ (~final.error /\ decision'[q] = Kept(made))
    BY <1>7 DEF PolicyInv
  <2> HIDE DEF Obeyed
  <2> QED BY <1>8, <2>1, <2>2
<1>10. StandingPoliciesAreObeyed'
  BY <1>9 DEF StandingPoliciesAreObeyed
<1>11. decision' = [q \in RequestIds |-> decision'[q]]
  BY <1>7 DEF PolicyInv
<1>12. UNCHANGED policy /\ evaluation' = [evaluation EXCEPT ![e] = Asleep]
  BY DEF RecordDecision
<1>13. ActiveVersions' = ActiveVersions
  BY <1>12 DEF ActiveVersions, PolicyIds, Defaults, DefaultNames
<1>14. policy' \in [PolicyIds -> PolicyRows] /\ ActiveExist'
  BY <1>12 DEF PolicyInv, ActiveExist, PolicyIds, Defaults, DefaultNames
<1>15. \A x \in Evaluators : evaluation'[x] = Asleep \/ evaluation'[x] = evaluation[x]
  BY <1>12 DEF PolicyInv
<1>16. \A x \in Evaluators : RunIsSound(evaluation'[x], ActiveVersions')
  BY <1>13, <1>15, AsleepIsSound DEF PolicyInv
<1>17. evaluation' = [x \in Evaluators |-> evaluation'[x]]
  BY <1>12 DEF PolicyInv
<1> QED BY <1>10, <1>11, <1>14, <1>16, <1>17 DEF PolicyInv

\* The steps of an evaluation before its decision, and its failure.
LEMMA EvaluationStepsKeep ==
    ASSUME PolicyInv, NEW e \in Evaluators,
           \/ \E q \in RequestIds, input \in Inputs : Evaluate(e, q, input)
           \/ resolveSubject(e) \/ FindDecisionByRequestID(e)
           \/ ListActiveBundles(e) \/ FailClosed(e)
    PROVE  PolicyInv'
<1> USE DEF tables
<1> DEFINE run == evaluation[e]
<1>0. RunIsSound(run, ActiveVersions)
  BY DEF PolicyInv
<1>1. ASSUME NEW q \in RequestIds, NEW input \in Inputs, Evaluate(e, q, input) PROVE PolicyInv'
  <2> DEFINE new == [Asleep EXCEPT !.pc = "resolve", !.id = q, !.input = input,
                                      !.standing = ActiveVersions]
  <2>1. evaluation' = [evaluation EXCEPT ![e] = new] /\ UNCHANGED <<policy, decision>>
    BY <1>1 DEF Evaluate
  <2>2. IsRun(new) /\ new.pc = "resolve" /\ new.standing = ActiveVersions
    BY DEF Asleep, IsRun
  <2>3. RunIsSound(new, ActiveVersions)
    BY <2>2 DEF RunIsSound
  <2> QED BY <2>1, <2>3, RunChanges
<1>2. CASE resolveSubject(e)
  <2>1. PICK subject : /\ evaluation' = [evaluation EXCEPT ![e].pc = "find", ![e].subject = subject]
                       /\ UNCHANGED <<policy, decision>>
    BY <1>2 DEF resolveSubject
  <2> DEFINE new == [run EXCEPT !.pc = "find", !.subject = subject]
  <2>2. evaluation' = [evaluation EXCEPT ![e] = new]
    BY <2>1 DEF PolicyInv
  <2>3. IsRun(new) /\ new.pc = "find" /\ new.standing = run.standing
    BY <1>0 DEF RunIsSound, IsRun
  <2>4. RunIsSound(new, ActiveVersions)
    BY <1>0, <2>3 DEF RunIsSound
  <2> QED BY <2>1, <2>2, <2>4, RunChanges
<1>3. CASE FindDecisionByRequestID(e)
  <2>1. /\ UNCHANGED <<policy, decision>>
        /\ \/ evaluation' = [evaluation EXCEPT ![e].pc = "list"]
           \/ evaluation' = [evaluation EXCEPT ![e] = Asleep]
    BY <1>3 DEF FindDecisionByRequestID
  <2>2. CASE evaluation' = [evaluation EXCEPT ![e].pc = "list"]
    <3> DEFINE new == [run EXCEPT !.pc = "list"]
    <3>1. evaluation' = [evaluation EXCEPT ![e] = new]
      BY <2>2 DEF PolicyInv
    <3>2. IsRun(new) /\ new.pc = "list" /\ new.standing = run.standing
      BY <1>0 DEF RunIsSound, IsRun
    <3>3. RunIsSound(new, ActiveVersions)
      BY <1>0, <3>2 DEF RunIsSound
    <3> QED BY <2>1, <3>1, <3>3, RunChanges
  <2>3. CASE evaluation' = [evaluation EXCEPT ![e] = Asleep]
    BY <2>1, <2>3, AsleepIsSound, RunChanges
  <2> QED BY <2>1, <2>2, <2>3
<1>4. CASE ListActiveBundles(e)
  <2> DEFINE bundles == {v \in ActiveVersions : Applies(v[1], run.subject)}
             new == [run EXCEPT !.pc = "record", !.bundles = bundles]
  <2>1. /\ evaluation' = [evaluation EXCEPT ![e].pc = "record", ![e].bundles = bundles]
        /\ UNCHANGED <<policy, decision>>
    BY <1>4 DEF ListActiveBundles
  <2>2. IsFiniteSet(bundles)
    BY ActiveVersionsFinite, FS_Subset
  <2>3. \A v \in bundles : RulesAreKeyed(Version(v[1], v[2]).rules)
    BY VersionsAreKeyed
  <2>4. \A v \in run.standing : Applies(v[1], run.subject) => v \in bundles
    BY <1>0 DEF RunIsSound
  <2> HIDE DEF bundles
  <2>5. evaluation' = [evaluation EXCEPT ![e] = new]
    BY <2>1 DEF PolicyInv
  <2>6. /\ IsRun(new) /\ new.subject = run.subject
        /\ new.bundles = bundles /\ new.standing = run.standing
    BY <1>0 DEF RunIsSound, IsRun
  <2>7. RunIsSound(new, ActiveVersions)
    BY <1>0, <2>2, <2>3, <2>4, <2>6 DEF RunIsSound
  <2> QED BY <2>1, <2>5, <2>7, RunChanges
<1>5. CASE FailClosed(e)
  BY <1>5, AsleepIsSound, RunChanges DEF FailClosed
<1> QED BY <1>1, <1>2, <1>3, <1>4, <1>5

LEMMA PolicyInvKept ==
    ASSUME PolicyInv, [PoliciesNext]_policiesVars
    PROVE  PolicyInv'
<1>1. ASSUME UNCHANGED <<policy, decision, evaluation>> PROVE PolicyInv'
  <2>1. ActiveExist' /\ ActiveVersions' = ActiveVersions
    BY <1>1 DEF PolicyInv, ActiveExist, ActiveVersions, PolicyIds, Defaults, DefaultNames
  <2>2. policy' \in [PolicyIds -> PolicyRows]
    BY <1>1 DEF PolicyInv
  <2> QED BY <1>1, <2>1, <2>2, PoliciesChange
<1>2. CASE UNCHANGED policiesVars
  BY <1>1, <1>2 DEF policiesVars, tables
<1>3. ASSUME NEW a \in Agents, NEW level \in Levels, ChangeAutonomy(a, level)
      PROVE  PolicyInv'
  BY <1>1, <1>3 DEF ChangeAutonomy, tables
<1>4. DOMAIN Custom \subseteq PolicyIds
  BY DEF PolicyIds
<1> QED BY <1>2, <1>3, <1>4, ManagementKeeps, DefaultsKeep, EvaluationStepsKeep, RecordObeys
        DEF PoliciesNext

(* A decision is at least as strict as every policy version that applied   *)
(* and stayed active while it was made, for any policies and rules, in     *)
(* whatever order the versions come and however evaluations and changes    *)
(* overlap (policy-approval evaluator.go Evaluate, evaluation.go).         *)
THEOREM DecisionsObeyPolicies == PoliciesSpec => []StandingPoliciesAreObeyed
<1>1. PoliciesInit => PolicyInv
  <2> SUFFICES ASSUME PoliciesInit PROVE PolicyInv
    OBVIOUS
  <2>1. policy \in [PolicyIds -> PolicyRows] /\ \A p \in PolicyIds : policy[p].status # "active"
    BY DEF PoliciesInit, PolicyRows, NoPolicy, None
  <2>2. ActiveExist
    BY <2>1 DEF ActiveExist
  <2>3. \A e \in Evaluators : RunIsSound(evaluation[e], ActiveVersions)
    BY AsleepIsSound DEF PoliciesInit
  <2>4. StandingPoliciesAreObeyed
    <3>1. \A q \in RequestIds : decision[q].standing = {}
      BY DEF PoliciesInit, NoDecision
    <3> QED BY <3>1 DEF StandingPoliciesAreObeyed
  <2> QED BY <2>1, <2>2, <2>3, <2>4 DEF PoliciesInit, PolicyInv
<1>2. PolicyInv /\ [PoliciesNext]_policiesVars => PolicyInv'
  BY PolicyInvKept
<1>3. PolicyInv => StandingPoliciesAreObeyed
  BY DEF PolicyInv
<1> QED BY <1>1, <1>2, <1>3, PTL DEF PoliciesSpec
=============================================================================
