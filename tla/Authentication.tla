--------------------------- MODULE Authentication ---------------------------
(***************************************************************************)
(* middleware/authentication.go: the interceptor that lets a request       *)
(* through to its handler when it is signed with the secret in the file of *)
(* the API key it names.  Secrets are read once, under a mutex, and kept;  *)
(* meanwhile files are written and removed by whoever manages the keys.    *)
(***************************************************************************)
EXTENDS GrpcServer

CONSTANTS
    KeyIds,      \* API key ids
    AlfaKeys,    \* those that begin with "key_alfa_"
    BravoKeys,   \* those that begin with "key_bravo_"
    Secrets,     \* what a key's file may hold
    Unhashable,  \* those HashBravoSecretWithDate refuses
    Empty,       \* a secret nobody was given
    Absent,      \* no file, no key, no holder, no request's id
    Nobody       \* the mutex is free

ASSUME KeyAssumption ==
    /\ AlfaKeys \subseteq KeyIds /\ BravoKeys \subseteq KeyIds \ AlfaKeys
    /\ Unhashable \subseteq Secrets
    /\ Absent \notin KeyIds \cup Secrets \cup {Empty}
    /\ Empty \notin Secrets /\ Nobody \notin Requests

VARIABLES
    files,   \* files[id]: the contents of the key's file
    held,    \* held[id]: all it has contained so far
    mu,      \* who holds the mutex
    keys,    \* keys[id]: the secret that is kept
    auth     \* auth[r]: where Unary is in a request, its key's id and secret,
             \* and the secret its signature was made with

authentication == <<files, held, mu, keys, auth>>

NoAuth == [at |-> "new", id |-> Absent, secret |-> Absent, signed |-> Absent]

AuthTypeOK ==
    /\ files \in [KeyIds -> Secrets \cup {Absent}]
    /\ held \in [KeyIds -> SUBSET Secrets]
    /\ mu \in Requests \cup {Nobody}
    /\ keys \in [KeyIds -> Secrets \cup {Absent}]
    /\ auth \in [Requests ->
           [at : {"new", "lock", "lookup", "store", "verify", "passed", "denied"},
            id : KeyIds \cup {Absent}, secret : Secrets \cup {Absent},
            signed : Secrets \cup {Empty, Absent}]]

AuthInit ==
    /\ files \in [KeyIds -> Secrets \cup {Absent}]
    /\ held = [id \in KeyIds |-> {files[id]} \ {Absent}]
    /\ mu = Nobody
    /\ keys = [id \in KeyIds |-> Absent]
    /\ auth = [r \in Requests |-> NoAuth]

\* A header is missing or repeated, or the timestamp is not a number.
Malformed(r) ==
    /\ auth[r].at = "new"
    /\ auth' = [auth EXCEPT ![r].at = "denied"]
    /\ UNCHANGED <<files, held, mu, keys>>

Receive(r, id) ==
    /\ auth[r].at = "new"
    /\ auth' = [auth EXCEPT ![r] = [@ EXCEPT !.at = "lock", !.id = id]]
    /\ UNCHANGED <<files, held, mu, keys>>

\* Mutant: the keys are read and stored without the mutex.
LockNothing(r) ==
    /\ auth[r].at = "lock"
    /\ auth' = [auth EXCEPT ![r].at = "lookup"]
    /\ UNCHANGED <<files, held, mu, keys>>

Lock(r) ==
    /\ auth[r].at = "lock" /\ mu = Nobody
    /\ mu' = r
    /\ auth' = [auth EXCEPT ![r].at = "lookup"]
    /\ UNCHANGED <<files, held, keys>>

KeyKept(r) ==
    LET id == auth[r].id IN
    /\ auth[r].at = "lookup" /\ keys[id] # Absent
    /\ auth' = [auth EXCEPT ![r] = [@ EXCEPT !.at = "verify", !.secret = keys[id]]]
    /\ mu' = Nobody
    /\ UNCHANGED <<files, held, keys>>

ReadFile(r) ==
    LET id == auth[r].id IN
    /\ auth[r].at = "lookup" /\ keys[id] = Absent /\ files[id] # Absent
    /\ auth' = [auth EXCEPT ![r] = [@ EXCEPT !.at = "store", !.secret = files[id]]]
    /\ UNCHANGED <<files, held, mu, keys>>

\* Mutant: the mutex is kept.
ReadFailsLocked(r) ==
    /\ auth[r].at = "lookup" /\ keys[auth[r].id] = Absent
    /\ auth' = [auth EXCEPT ![r].at = "denied"]
    /\ UNCHANGED <<files, held, mu, keys>>

\* There is no file, or it cannot be read: nothing is kept.
ReadFails(r) ==
    /\ auth[r].at = "lookup" /\ keys[auth[r].id] = Absent
    /\ auth' = [auth EXCEPT ![r].at = "denied"]
    /\ mu' = Nobody
    /\ UNCHANGED <<files, held, keys>>

StoreKey(r) ==
    /\ auth[r].at = "store"
    /\ keys' = [keys EXCEPT ![auth[r].id] = auth[r].secret]
    /\ auth' = [auth EXCEPT ![r].at = "verify"]
    /\ mu' = Nobody
    /\ UNCHANGED <<files, held>>

\* The signature is checked against a secret by a library, which also refuses a
\* timestamp too far from now.
Checks(signed, timely, secret) == timely /\ signed = secret

\* The verdict of verifySignature; a request of another type is not a VTProto one.
Verified(id, signed, timely, vtproto, secret) ==
    /\ vtproto
    /\ \/ id \in AlfaKeys
       \/ id \in BravoKeys /\ secret \notin Unhashable
    /\ Checks(signed, timely, secret)

Verify(r) ==
    LET id == auth[r].id  secret == auth[r].secret IN
    /\ auth[r].at = "verify"
    /\ \E signed \in Secrets \cup {Empty}, timely, vtproto \in BOOLEAN :
           auth' = [auth EXCEPT ![r] = [@ EXCEPT
               !.signed = signed,
               !.at = IF Verified(id, signed, timely, vtproto, secret)
                      THEN "passed" ELSE "denied"]]
    /\ UNCHANGED <<files, held, mu, keys>>

PutFile(id, secret) ==
    /\ files[id] # secret
    /\ files' = [files EXCEPT ![id] = secret]
    /\ held' = [held EXCEPT ![id] = @ \cup {secret}]
    /\ UNCHANGED <<mu, keys, auth>>

RemoveFile(id) ==
    /\ files[id] # Absent
    /\ files' = [files EXCEPT ![id] = Absent]
    /\ UNCHANGED <<held, mu, keys, auth>>

\* What the goroutine of a request does next.
AuthStep(r) ==
    \/ Malformed(r)
    \/ \E id \in KeyIds : Receive(r, id)
    \/ Lock(r) \/ KeyKept(r) \/ ReadFile(r) \/ ReadFails(r) \/ StoreKey(r)
    \/ Verify(r)

Environment ==
    \E id \in KeyIds : RemoveFile(id) \/ \E secret \in Secrets : PutFile(id, secret)
=============================================================================
