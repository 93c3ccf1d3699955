---- MODULE Credentials ----
(***************************************************************************)
(* A bring-your-own-key connection of the model access service: its row,   *)
(* the credential row, the secret in Vault and the queue of secrets to     *)
(* destroy.  Creating and rotating a credential crosses PostgreSQL, Vault  *)
(* and the provider's API; every call is a step of its own, so requests,   *)
(* their retries, an archiving owner and the cleanup workers interleave    *)
(* between any two calls, and a request may end after any of them.         *)
(*                                                                         *)
(* A credential is its own fingerprint: the HMAC of a key tells keys       *)
(* apart and nothing else.  One connection of one tenant is modelled; no   *)
(* statement of this code touches two.                                     *)
(***************************************************************************)
EXTENDS Naturals, Sequences, SequencesExt, FiniteSets

CONSTANTS
    Keys,            \* credentials a customer may send
    ValidKeys,       \* those the provider accepts
    Requests,        \* requests that can be in progress at once
    IdemKeys,        \* idempotency keys of rotations
    Workers,         \* cleanup workers
    MaxRequests,     \* bound: requests ever started
    MaxVersion,      \* bound: connection version up to which owners update
    RefreshRowFits   \* whether the row that asks for a catalog refresh suits its table

ASSUME KeysAssumption == ValidKeys \subseteq Keys
ASSUME BoundsAssumption == MaxRequests \in Nat /\ MaxVersion \in Nat
ASSUME FitsAssumption == RefreshRowFits \in BOOLEAN

None == "none"
Destroyed == "destroyed version"
NoKey == "no key"

ASSUME NoKeyAssumption == NoKey \notin Keys /\ Destroyed \notin Keys

VARIABLES
    connection,      \* model_access_connections: status, version
    history,         \* a revision and an outbox event per version: status, event
    credential,      \* model_access_connection_credentials
    operation,       \* model_access_credential_operations, by idempotency key
    audit,           \* model_access_connection_verification_events, as a set
    cleanup,         \* model_access_secret_cleanup, in order of cleanup_id
    vault,           \* versions of the secret, KV-v2; purged: <<>>
    request,         \* requests in progress
    worker,          \* cleanup workers
    started          \* requests started so far

credentialsVars == <<connection, history, credential, operation, audit, cleanup, vault,
                    request, worker, started>>
rows == <<connection, history, credential, operation, audit, cleanup>>

ConnectionStatuses == {None, "pending_verification", "active", "verification_failed", "archived"}
States == {None, "pending_store", "pending_verification", "active",
           "verification_failed", "destroyed"}
Events == {"created", "updated", "activated", "verification_failed", "credential_rotated", "archived"}
Idle == [pc |-> "idle", kind |-> None, key |-> NoKey, idem |-> None,
         known |-> 0, version |-> 0, stored |-> NoKey]

CredentialsTypeOK ==
    /\ connection \in [status : ConnectionStatuses, version : Nat]
    /\ history \in Seq([status : ConnectionStatuses, event : Events])
    /\ credential \in [state : States, fingerprint : Keys \cup {NoKey},
                       active : Nat, latest : Nat, pending : Nat]
    /\ operation \in [IdemKeys -> [state : {None, "prepared", "secret_stored", "succeeded", "rejected"},
                                   key : Keys \cup {NoKey}, expected : Nat]]
    /\ audit \subseteq [kind : {"create", "rotate"}, key : Keys,
                        outcome : {"succeeded", "rejected", "transient_failure"}]
    /\ cleanup \in Seq([action : {"destroy_version", "purge_secret"}, version : Nat, done : BOOLEAN])
    /\ vault \in Seq(Keys \cup {Destroyed})
    /\ worker \in [Workers -> [item : Nat, cleaned : BOOLEAN]]
    /\ started \in Nat

CredentialsInit ==
    /\ connection = [status |-> None, version |-> 0]
    /\ history = <<>>
    /\ credential = [state |-> None, fingerprint |-> NoKey,
                     active |-> 0, latest |-> 0, pending |-> 0]
    /\ operation = [i \in IdemKeys |-> [state |-> None, key |-> NoKey, expected |-> 0]]
    /\ audit = {}
    /\ cleanup = <<>>
    /\ vault = <<>>
    /\ request = [r \in Requests |-> Idle]
    /\ worker = [w \in Workers |-> [item |-> 0, cleaned |-> FALSE]]
    /\ started = 0

-----------------------------------------------------------------------------
(* Statements shared by the transactions. *)

Greatest(a, b) == IF a > b THEN a ELSE b

\* UPDATE ... version = version + 1 with insertRevision and insertOutbox.
SetConnection(status, event) ==
    /\ connection' = [status |-> status, version |-> connection.version + 1]
    /\ history' = Append(history, [status |-> status, event |-> event])

insertVerification(kind, key, outcome) ==
    audit' = audit \cup {[kind |-> kind, key |-> key, outcome |-> outcome]}

insertSecretCleanup(version, action) ==
    cleanup' = Append(cleanup, [action |-> action, version |-> version, done |-> FALSE])

\* The CHECK of model_access_connections: archived_at is set exactly on
\* archived rows, and no statement clears it.
StatusMayBecome(status) == connection.status = "archived" => status = "archived"

-----------------------------------------------------------------------------
(* Vault, as the KV-v2 calls of the secret store see it.                   *)

CurrentVersion == Len(vault)
Readable(version) == version \in 1 .. Len(vault) /\ vault[version] # Destroyed

\* The write is refused unless the caller knows the current version.
WriteCAS(key, known) ==
    /\ known = CurrentVersion
    /\ vault' = Append(vault, key)

DestroyVersion(version) ==
    vault' = IF version \in 1 .. Len(vault) THEN [vault EXCEPT ![version] = Destroyed]
                                            ELSE vault

Purge == vault' = <<>>

-----------------------------------------------------------------------------
(* Steps of a request. *)

At(r, pc) == request[r].pc = pc
Go(r, next) == request' = [request EXCEPT ![r] = next]
Reply(r) == Go(r, Idle)

\* The request ends: an error of a call, a timeout, a crash of the service.
Abort(r) ==
    /\ ~At(r, "idle")
    /\ Reply(r)
    /\ UNCHANGED <<rows, vault, worker, started>>

Start(r, next) ==
    /\ At(r, "idle")
    /\ started < MaxRequests
    /\ started' = started + 1
    /\ Go(r, next)

\* CreateConnection of the repository for the create's idempotency key: the
\* row is inserted once, a repeated key finds it.
CreateConnection ==
    IF connection.status = None
      THEN SetConnection("pending_verification", "created")
      ELSE UNCHANGED <<connection, history>>

\* CreateBYOKConnection up to the metadata.
CreateBYOKMetadata(r, k) ==
    /\ Start(r, [Idle EXCEPT !.pc = "ensure", !.kind = "create", !.key = k])
    /\ CreateConnection
    /\ UNCHANGED <<credential, operation, audit, cleanup, vault, worker>>

Ensured(key) ==
    IF credential.state = None
      THEN [state |-> "pending_store", fingerprint |-> key, active |-> 0, latest |-> 0, pending |-> 0]
      ELSE credential

\* A create with another key than the first one's is refused; one that finds
\* its credential active or rejected ends; any other writes the secret.
EnsureBYOKCredential(r) ==
    LET key == request[r].key
        row == Ensured(key)
    IN  /\ At(r, "ensure")
        /\ IF row.fingerprint # key
             THEN Reply(r) /\ UNCHANGED credential
             ELSE /\ credential' = row
                  /\ IF row.state \in {"active", "verification_failed"}
                       THEN Reply(r)
                       ELSE Go(r, [request[r] EXCEPT !.pc = "write", !.known = row.latest])
        /\ UNCHANGED <<connection, history, operation, audit, cleanup, vault, worker, started>>

\* The credential operation of a rotation, unless it has expired.
OperationOf(i, expired) ==
    IF expired THEN [state |-> None, key |-> NoKey, expected |-> 0] ELSE operation[i]

\* The connection is locked and must be rotatable at the expected version; a
\* replay must repeat the request.  An operation that has ended is answered.
PrepareBYOKRotation(r, i, k, expected, expired) ==
    LET old == OperationOf(i, expired)
        row == IF old.state = None
                 THEN [state |-> "prepared", key |-> k, expected |-> expected]
                 ELSE old
    IN  /\ connection.status \in {"active", "verification_failed"}
        /\ connection.version = expected
        /\ row.key = k /\ row.expected = expected
        /\ operation' = [operation EXCEPT ![i] = row]
        /\ IF row.state \in {"succeeded", "rejected"}
             THEN Start(r, Idle)
             ELSE Start(r, [Idle EXCEPT !.pc = "write", !.kind = "rotate", !.key = k,
                                        !.idem = i, !.known = credential.latest])
        /\ UNCHANGED <<connection, history, credential, audit, cleanup, vault, worker>>

RotateBYOKCredential(r, k) ==
    \E i \in IdemKeys, expired \in BOOLEAN :
        /\ expired => operation[i].state # None
        /\ PrepareBYOKRotation(r, i, k, connection.version, expired)

\* writeCredentialRecoverably: the check-and-set write, with the version the
\* credential row had when it was read.
WriteCredential(r) ==
    /\ At(r, "write")
    /\ \/ /\ WriteCAS(request[r].key, request[r].known)
          /\ Go(r, [request[r] EXCEPT !.pc = "mark", !.version = Len(vault) + 1])
       \/ /\ request[r].known # CurrentVersion
          /\ Go(r, [request[r] EXCEPT !.pc = "recover"])
          /\ UNCHANGED vault
    /\ UNCHANGED <<rows, worker, started>>

\* On a conflict the current version may be the one an earlier attempt wrote.
RecoverVersion(r) ==
    /\ At(r, "recover")
    /\ IF CurrentVersion > request[r].known
         THEN Go(r, [request[r] EXCEPT !.pc = "compare", !.version = CurrentVersion])
         ELSE Reply(r)
    /\ UNCHANGED <<rows, vault, worker, started>>

\* Mutant: whatever the current version holds is taken for the own secret.
IsAnySecret(r) == Readable(request[r].version)

IsOwnSecret(r) ==
    Readable(request[r].version) /\ vault[request[r].version] = request[r].key

CompareSecret(r) ==
    /\ At(r, "compare")
    /\ IF IsOwnSecret(r) THEN Go(r, [request[r] EXCEPT !.pc = "mark"]) ELSE Reply(r)
    /\ UNCHANGED <<rows, vault, worker, started>>

\* The row is updated whatever its state is by now.
MarkBYOKSecretStored(r) ==
    /\ At(r, "mark") /\ request[r].kind = "create"
    /\ credential' = [credential EXCEPT !.state = "pending_verification",
                                        !.latest = Greatest(@, request[r].version),
                                        !.pending = request[r].version]
    /\ Go(r, [request[r] EXCEPT !.pc = "read"])
    /\ UNCHANGED <<connection, history, operation, audit, cleanup, vault, worker, started>>

MarkBYOKRotationSecretStored(r) ==
    /\ At(r, "mark") /\ request[r].kind = "rotate"
    /\ credential' = [credential EXCEPT !.latest = Greatest(@, request[r].version),
                                        !.pending = request[r].version]
    /\ operation' = [operation EXCEPT ![request[r].idem].state =
                        IF @ \in {"prepared", "secret_stored"} THEN "secret_stored" ELSE @]
    /\ Go(r, [request[r] EXCEPT !.pc = "read"])
    /\ UNCHANGED <<connection, history, audit, cleanup, vault, worker, started>>

\* What Vault holds is verified, not the request's own copy.
ReadVersion(r) ==
    /\ At(r, "read")
    /\ IF Readable(request[r].version)
         THEN Go(r, [request[r] EXCEPT !.pc = "verify", !.stored = vault[request[r].version]])
         ELSE Reply(r)
    /\ UNCHANGED <<rows, vault, worker, started>>

\* The provider accepts with 2xx and 402 and rejects with 401 and 403; any
\* other answer, and none, is a failure of this attempt only.
Answers(key) == {IF key \in ValidKeys THEN "accepted" ELSE "rejected", "unavailable"}

\* The audit record of an answer.
Outcome(answer) ==
    CASE answer = "accepted" -> "succeeded"
      [] answer = "rejected" -> "rejected"
      [] OTHER -> "transient_failure"

RecordTransientVerification(r) ==
    insertVerification(request[r].kind, request[r].key, Outcome("unavailable"))

Verify(r) ==
    /\ At(r, "verify")
    /\ \E answer \in Answers(request[r].stored) :
          IF answer = "unavailable"
            THEN RecordTransientVerification(r) /\ Reply(r)
            ELSE Go(r, [request[r] EXCEPT !.pc = answer]) /\ UNCHANGED audit
    /\ UNCHANGED <<connection, history, credential, operation, cleanup, vault, worker, started>>

Promoted(r) ==
    [credential EXCEPT !.state = "active", !.fingerprint = request[r].key,
                       !.active = request[r].version,
                       !.latest = Greatest(@, request[r].version), !.pending = 0]

\* The transaction fails where the connection is not waiting for its
\* credential, and where the refresh row does not suit its table: the error
\* of that statement is dropped but PostgreSQL has given up the transaction.
ActivateBYOK(r) ==
    /\ At(r, "accepted") /\ request[r].kind = "create"
    /\ Reply(r)
    /\ IF connection.status \in {"pending_verification", "verification_failed"} /\ RefreshRowFits
         THEN /\ credential' = Promoted(r)
              /\ SetConnection("active", "activated")
              /\ insertVerification("create", request[r].key, Outcome("accepted"))
         ELSE UNCHANGED <<credential, connection, history, audit>>
    /\ UNCHANGED <<operation, cleanup, vault, worker, started>>

FailInitialBYOKVerification(r) ==
    /\ At(r, "rejected") /\ request[r].kind = "create"
    /\ Reply(r)
    /\ IF StatusMayBecome("verification_failed")
         THEN /\ credential' = [credential EXCEPT !.state = "verification_failed",
                                                  !.latest = Greatest(@, request[r].version),
                                                  !.pending = 0]
              /\ SetConnection("verification_failed", "verification_failed")
              /\ insertVerification("create", request[r].key, Outcome("rejected"))
              /\ insertSecretCleanup(request[r].version, "destroy_version")
         ELSE UNCHANGED <<credential, connection, history, audit, cleanup>>
    /\ UNCHANGED <<operation, vault, worker, started>>

\* The version that was active is queued for destruction, unless it is the
\* promoted one again.
RetireVersion(old, new) ==
    IF old > 0 /\ old # new THEN insertSecretCleanup(old, "destroy_version")
                            ELSE UNCHANGED cleanup

CompleteBYOKRotation(r) ==
    /\ At(r, "accepted") /\ request[r].kind = "rotate"
    /\ Reply(r)
    /\ IF StatusMayBecome("active") /\ RefreshRowFits
         THEN /\ credential' = Promoted(r)
              /\ SetConnection("active", "credential_rotated")
              /\ RetireVersion(credential.active, request[r].version)
              /\ insertVerification("rotate", request[r].key, Outcome("accepted"))
              /\ operation' = [operation EXCEPT ![request[r].idem].state =
                                  IF @ = None THEN None ELSE "succeeded"]
         ELSE UNCHANGED <<credential, connection, history, cleanup, audit, operation>>
    /\ UNCHANGED <<vault, worker, started>>

RejectBYOKRotation(r) ==
    /\ At(r, "rejected") /\ request[r].kind = "rotate"
    /\ Reply(r)
    /\ insertVerification("rotate", request[r].key, Outcome("rejected"))
    /\ insertSecretCleanup(request[r].version, "destroy_version")
    /\ operation' = [operation EXCEPT ![request[r].idem].state =
                        IF @ = None THEN None ELSE "rejected"]
    /\ UNCHANGED <<connection, history, credential, vault, worker, started>>

-----------------------------------------------------------------------------
(* The other commands on the connection, each one transaction.             *)

UpdateConnection ==
    /\ connection.status \notin {None, "archived"}
    /\ connection.version < MaxVersion
    /\ SetConnection(connection.status, "updated")
    /\ UNCHANGED <<credential, operation, audit, cleanup, vault, request, worker, started>>

purgeArchivedBYOKSecret ==
    IF credential.state = None
      THEN UNCHANGED <<credential, cleanup>>
      ELSE /\ credential' = [credential EXCEPT !.state = "destroyed"]
           /\ insertSecretCleanup(0, "purge_secret")

ArchiveConnection ==
    /\ connection.status \notin {None, "archived"}
    /\ SetConnection("archived", "archived")
    /\ purgeArchivedBYOKSecret
    /\ UNCHANGED <<operation, audit, vault, request, worker, started>>

-----------------------------------------------------------------------------
(* The cleanup worker.  A claim lapses with its lease, so an item may be    *)
(* in the hands of two workers, or be taken up again after a crash.         *)

\* Mutant: the worker takes up versions and never a purge.
ClaimVersionsOnly(w) ==
    /\ worker[w].item = 0
    /\ \E n \in 1 .. Len(cleanup) :
          /\ ~cleanup[n].done /\ cleanup[n].action = "destroy_version"
          /\ worker' = [worker EXCEPT ![w] = [item |-> n, cleaned |-> FALSE]]
    /\ UNCHANGED <<rows, vault, request, started>>

ClaimSecretCleanup(w) ==
    /\ worker[w].item = 0
    /\ \E n \in 1 .. Len(cleanup) :
          /\ ~cleanup[n].done
          /\ worker' = [worker EXCEPT ![w] = [item |-> n, cleaned |-> FALSE]]
    /\ UNCHANGED <<rows, vault, request, started>>

CleanupOne(w) ==
    LET item == cleanup[worker[w].item]
    IN  /\ worker[w].item # 0 /\ ~worker[w].cleaned
        /\ IF item.action = "destroy_version" THEN DestroyVersion(item.version) ELSE Purge
        /\ worker' = [worker EXCEPT ![w].cleaned = TRUE]
        /\ UNCHANGED <<rows, request, started>>

CompleteSecretCleanup(w) ==
    /\ worker[w].cleaned
    /\ cleanup' = [cleanup EXCEPT ![worker[w].item].done = TRUE]
    /\ worker' = [worker EXCEPT ![w] = [item |-> 0, cleaned |-> FALSE]]
    /\ UNCHANGED <<connection, history, credential, operation, audit, vault, request, started>>

\* A failed call releases the item, a crashed worker leaves it to its lease.
ReleaseSecretCleanup(w) ==
    /\ worker[w].item # 0
    /\ worker' = [worker EXCEPT ![w] = [item |-> 0, cleaned |-> FALSE]]
    /\ UNCHANGED <<rows, vault, request, started>>

-----------------------------------------------------------------------------
\* The steps only a create takes, those only a rotation takes, and the ones
\* they share: storing the secret, reading it back and verifying it.
CreateStep(r) ==
    \/ EnsureBYOKCredential(r)
    \/ MarkBYOKSecretStored(r)
    \/ ActivateBYOK(r)
    \/ FailInitialBYOKVerification(r)

RotateStep(r) ==
    \/ MarkBYOKRotationSecretStored(r)
    \/ CompleteBYOKRotation(r)
    \/ RejectBYOKRotation(r)

writeCredentialRecoverably(r) ==
    \/ WriteCredential(r)
    \/ RecoverVersion(r)
    \/ CompareSecret(r)

RequestStep(r) ==
    \/ CreateStep(r)
    \/ RotateStep(r)
    \/ writeCredentialRecoverably(r)
    \/ ReadVersion(r)
    \/ Verify(r)

CredentialsNext ==
    \/ \E r \in Requests, k \in Keys : CreateBYOKMetadata(r, k)
    \/ \E r \in Requests, k \in Keys : RotateBYOKCredential(r, k)
    \/ \E r \in Requests : RequestStep(r) \/ Abort(r)
    \/ UpdateConnection
    \/ ArchiveConnection
    \/ \E w \in Workers : \/ ClaimSecretCleanup(w)
                          \/ CleanupOne(w)
                          \/ CompleteSecretCleanup(w)
                          \/ ReleaseSecretCleanup(w)

\* The workers poll for as long as the service runs, and Vault is not down for
\* ever: an item that is taken up again and again is destroyed at last.
CredentialsFairness ==
    \A w \in Workers : /\ WF_credentialsVars(ClaimSecretCleanup(w))
                       /\ SF_credentialsVars(CleanupOne(w))
                       /\ SF_credentialsVars(CompleteSecretCleanup(w))

CredentialsSpec == CredentialsInit /\ [][CredentialsNext]_credentialsVars /\ CredentialsFairness

-----------------------------------------------------------------------------
(* Properties. *)

\* An active connection uses a key the provider accepted: the version its row
\* names holds the key with the recorded fingerprint or was destroyed since,
\* never another key, although attempts recover each other's versions and a
\* purge starts the numbering of Vault again.
ActiveIsVerified ==
    connection.status = "active" =>
        /\ credential.active \in 1 .. Len(vault)
        /\ vault[credential.active] \in {credential.fingerprint, Destroyed}
        /\ \E a \in audit : a.key = credential.fingerprint /\ a.outcome = "succeeded"

\* Not kept by the code from four requests on: the secret of an active
\* connection can be used, its version is in Vault and no item of the cleanup
\* queue is going to destroy it.
ActiveSecretIsKept ==
    connection.status = "active" =>
        /\ Readable(credential.active)
        /\ \A n \in 1 .. Len(cleanup) :
              ~cleanup[n].done => cleanup[n].version # credential.active

\* Every secret queued for destruction is destroyed: failed calls, crashes of
\* the worker and lapsed leases delay an item but do not lose it, so the
\* queue is worked off again and again (requests that add to it are bounded).
CleanupIsDone == []<>(\A n \in 1 .. Len(cleanup) : cleanup[n].done)
====
