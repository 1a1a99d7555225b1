------------------------- MODULE InterceptorsProofs -------------------------
(***************************************************************************)
(* Proofs about Interceptors, for every set of requests, keys, secrets and *)
(* methods: which secret a request is checked against, who is answered and *)
(* what the counters say.                                                  *)
(***************************************************************************)
EXTENDS Interceptors, FiniteSetTheorems, TLAPS

\* The mutex is held exactly by the request that looks its key up.
MutexInv == \A r \in Requests : mu = r <=> auth[r].at \in {"lookup", "store"}

\* Past the headers a request names a key.
IdInv ==
    \A r \in Requests :
        auth[r].at \in {"lock", "lookup", "store", "verify", "passed"} =>
            auth[r].id \in KeyIds

\* Files hold what was put in them, and a secret that is kept came from a file.
HeldInv ==
    \A id \in KeyIds :
        /\ files[id] # Absent => files[id] \in held[id]
        /\ keys[id] # Absent => keys[id] \in held[id]

\* A secret that was read is stored while the key still has none; from then on
\* the request has the secret that is kept.
SecretInv ==
    \A r \in Requests :
        /\ auth[r].at = "store" =>
               keys[auth[r].id] = Absent /\ auth[r].secret \in held[auth[r].id]
        /\ auth[r].at \in {"verify", "passed"} =>
               auth[r].secret = keys[auth[r].id] /\ auth[r].secret # Absent
        /\ auth[r].at = "passed" => auth[r].signed = auth[r].secret

AuthInv == AuthTypeOK /\ MutexInv /\ IdInv /\ HeldInv /\ SecretInv

\* What authentication keeps of a request.
AuthRecord ==
    [at : {"new", "lock", "lookup", "store", "verify", "passed", "denied"},
     id : KeyIds \cup {Absent}, secret : Secrets \cup {Absent},
     signed : Secrets \cup {Empty, Absent}]

-----------------------------------------------------------------------------
(* Authentication by itself.                                               *)

LEMMA AuthInitially == AuthInit => AuthInv
<1> SUFFICES ASSUME AuthInit PROVE AuthInv
  OBVIOUS
<1>1. AuthTypeOK
  BY DEF AuthInit, AuthTypeOK, NoAuth
<1>2. MutexInv
  BY KeyAssumption DEF AuthInit, MutexInv, NoAuth
<1>3. IdInv /\ SecretInv
  BY DEF AuthInit, IdInv, SecretInv, NoAuth
<1>4. HeldInv
  BY DEF AuthInit, HeldInv
<1>5. QED
  BY <1>1, <1>2, <1>3, <1>4 DEF AuthInv

\* What the other requests see of a step: nothing but a secret that is kept now
\* and was not before.
LEMMA OthersStay ==
    ASSUME AuthTypeOK, NEW r \in Requests, AuthStep(r), NEW q \in Requests, q # r
    PROVE  auth'[q] = auth[q]
BY DEF AuthTypeOK, AuthStep, Malformed, Receive, Lock, KeyKept, ReadFile, ReadFails,
       StoreKey, Verify

LEMMA AuthTypeNext ==
    ASSUME AuthInv, NEW r \in Requests, AuthStep(r)
    PROVE  AuthTypeOK'
<1> USE DEF AuthTypeOK
<1>0. AuthTypeOK /\ IdInv /\ HeldInv /\ SecretInv
  BY DEF AuthInv
<1>1. CASE Malformed(r)
  BY <1>0, <1>1 DEF Malformed
<1>2. ASSUME NEW id \in KeyIds, Receive(r, id)
      PROVE  AuthTypeOK'
  BY <1>0, <1>2 DEF Receive
<1>3. CASE Lock(r)
  BY <1>0, <1>3 DEF Lock
<1>4. CASE KeyKept(r)
  <2>1. keys[auth[r].id] \in Secrets
    BY <1>0, <1>4 DEF KeyKept, IdInv
  <2>2. QED
    BY <1>0, <1>4, <2>1 DEF KeyKept
<1>5. CASE ReadFile(r)
  <2>1. files[auth[r].id] \in Secrets
    BY <1>0, <1>5 DEF ReadFile, IdInv
  <2>2. [auth[r] EXCEPT !.at = "store", !.secret = files[auth[r].id]] \in AuthRecord
    BY <1>0, <2>1 DEF AuthRecord
  <2>3. QED
    BY <1>0, <1>5, <2>2 DEF ReadFile, AuthRecord
<1>6. CASE ReadFails(r)
  BY <1>0, <1>6 DEF ReadFails
<1>7. CASE StoreKey(r)
  BY <1>0, <1>7 DEF StoreKey
<1>8. CASE Verify(r)
  <2>1. PICK signed \in Secrets \cup {Empty}, to \in {"passed", "denied"} :
             auth' = [auth EXCEPT ![r] = [@ EXCEPT !.signed = signed, !.at = to]]
    BY <1>8 DEF Verify
  <2>2. [auth[r] EXCEPT !.signed = signed, !.at = to] \in AuthRecord
    BY <1>0 DEF AuthRecord
  <2>3. QED
    BY <1>0, <1>8, <2>1, <2>2 DEF Verify, AuthRecord
<1>9. QED
  BY <1>1, <1>2, <1>3, <1>4, <1>5, <1>6, <1>7, <1>8 DEF AuthStep

\* Where each step leads, and that no step but Receive changes the key a request names.
LEMMA NextAt ==
    ASSUME AuthTypeOK, NEW r \in Requests
    PROVE  /\ Malformed(r) \/ ReadFails(r) => auth'[r].at = "denied"
           /\ \A id \in KeyIds :
                  Receive(r, id) => auth'[r].at = "lock" /\ auth'[r].id = id
           /\ Lock(r) => auth'[r].at = "lookup"
           /\ ReadFile(r) => auth'[r].at = "store"
           /\ KeyKept(r) \/ StoreKey(r) => auth'[r].at = "verify"
           /\ Verify(r) => auth'[r].at \in {"passed", "denied"}
           /\ AuthStep(r) /\ auth[r].at # "new" => auth'[r].id = auth[r].id
<1> USE DEF AuthTypeOK
<1>1. Malformed(r) \/ ReadFails(r) =>
          auth'[r].at = "denied" /\ auth'[r].id = auth[r].id
  BY DEF Malformed, ReadFails
<1>2. \A id \in KeyIds : Receive(r, id) => auth'[r].at = "lock" /\ auth'[r].id = id
  BY DEF Receive
<1>3. Lock(r) => auth'[r].at = "lookup" /\ auth'[r].id = auth[r].id
  BY DEF Lock
<1>4. ReadFile(r) => auth'[r].at = "store" /\ auth'[r].id = auth[r].id
  BY DEF ReadFile
<1>5. KeyKept(r) => auth'[r].at = "verify" /\ auth'[r].id = auth[r].id
  BY DEF KeyKept
<1>6. StoreKey(r) => auth'[r].at = "verify" /\ auth'[r].id = auth[r].id
  BY DEF StoreKey
<1>7. Verify(r) => auth'[r].at \in {"passed", "denied"} /\ auth'[r].id = auth[r].id
  BY DEF Verify
<1>8. \A id : Receive(r, id) => auth[r].at = "new"
  BY DEF Receive
<1>9. QED
  BY <1>1, <1>2, <1>3, <1>4, <1>5, <1>6, <1>7, <1>8 DEF AuthStep

LEMMA MutexNext ==
    ASSUME AuthInv, NEW r \in Requests, AuthStep(r)
    PROVE  MutexInv'
<1>0. AuthTypeOK /\ MutexInv
  BY DEF AuthInv
<1>1. \/ mu' = r /\ auth'[r].at \in {"lookup", "store"} /\ mu \in {Nobody, r}
      \/ mu' = Nobody /\ mu = r /\ auth'[r].at \notin {"lookup", "store"}
      \/ mu' = mu /\ mu # r /\ auth'[r].at \notin {"lookup", "store"}
  <2>1. CASE \/ Malformed(r) \/ (\E id \in KeyIds : Receive(r, id)) \/ Verify(r)
    <3>1. mu' = mu /\ auth[r].at \notin {"lookup", "store"}
      BY <2>1 DEF Malformed, Receive, Verify
    <3>2. auth'[r].at \notin {"lookup", "store"}
      BY <1>0, <2>1, NextAt
    <3>3. QED
      BY <1>0, <3>1, <3>2 DEF MutexInv
  <2>2. CASE Lock(r) \/ ReadFile(r)
    BY <1>0, <2>2 DEF Lock, ReadFile, AuthTypeOK, MutexInv
  <2>3. CASE KeyKept(r) \/ ReadFails(r) \/ StoreKey(r)
    <3>1. mu' = Nobody /\ auth[r].at \in {"lookup", "store"}
      BY <2>3 DEF KeyKept, ReadFails, StoreKey
    <3>2. auth'[r].at \notin {"lookup", "store"}
      BY <1>0, <2>3, NextAt
    <3>3. QED
      BY <1>0, <3>1, <3>2 DEF MutexInv
  <2>4. QED
    BY <2>1, <2>2, <2>3 DEF AuthStep
<1>2. \A q \in Requests : q # r => auth'[q] = auth[q]
  BY <1>0, OthersStay
<1>3. QED
  BY <1>0, <1>1, <1>2, KeyAssumption DEF MutexInv

LEMMA IdNext ==
    ASSUME AuthInv, NEW r \in Requests, AuthStep(r)
    PROVE  IdInv'
<1>0. AuthTypeOK /\ IdInv
  BY DEF AuthInv
<1>1. auth'[r].at \in {"lock", "lookup", "store", "verify", "passed"} =>
          auth'[r].id \in KeyIds
  <2>1. CASE Malformed(r) \/ \E id \in KeyIds : Receive(r, id)
    BY <1>0, <2>1, NextAt
  <2>2. CASE Lock(r) \/ KeyKept(r) \/ ReadFile(r) \/ StoreKey(r) \/ Verify(r)
    <3>1. auth[r].at \in {"lock", "lookup", "store", "verify"}
      BY <2>2 DEF Lock, KeyKept, ReadFile, StoreKey, Verify
    <3>2. QED
      BY <1>0, <3>1, NextAt DEF IdInv
  <2>3. CASE ReadFails(r)
    BY <1>0, <2>3, NextAt
  <2>4. QED
    BY <2>1, <2>2, <2>3 DEF AuthStep
<1>2. QED
  BY <1>0, <1>1, OthersStay DEF IdInv

\* Only the request that holds the mutex changes a key's secret, from none.
LEMMA KeysStep ==
    ASSUME AuthInv, NEW r \in Requests, AuthStep(r)
    PROVE  /\ files' = files /\ held' = held
           /\ \/ keys' = keys
              \/ /\ auth[r].at = "store"
                 /\ keys' = [keys EXCEPT ![auth[r].id] = auth[r].secret]
BY DEF AuthStep, Malformed, Receive, Lock, KeyKept, ReadFile, ReadFails, StoreKey, Verify

LEMMA HeldNext ==
    ASSUME AuthInv, NEW r \in Requests, AuthStep(r)
    PROVE  HeldInv'
BY KeysStep DEF AuthInv, AuthTypeOK, HeldInv, SecretInv

LEMMA SecretNext ==
    ASSUME AuthInv, NEW r \in Requests, AuthStep(r)
    PROVE  SecretInv'
<1>0. AuthTypeOK /\ MutexInv /\ IdInv /\ HeldInv /\ SecretInv
  BY DEF AuthInv
<1> DEFINE Good(a) ==
        /\ a.at = "store" => keys'[a.id] = Absent /\ a.secret \in held'[a.id]
        /\ a.at \in {"verify", "passed"} => a.secret = keys'[a.id] /\ a.secret # Absent
        /\ a.at = "passed" => a.signed = a.secret
<1>1. ASSUME NEW q \in Requests, q # r
      PROVE  Good(auth[q])
  <2>1. CASE keys' = keys
    BY <1>0, <2>1, KeysStep DEF SecretInv
  <2>2. CASE /\ auth[r].at = "store"
             /\ keys' = [keys EXCEPT ![auth[r].id] = auth[r].secret]
    <3>1. auth[q].at # "store"
      BY <1>0, <1>1, <2>2 DEF MutexInv
    <3>2. keys[auth[r].id] = Absent
      BY <1>0, <2>2 DEF SecretInv
    <3>3. auth[q].at \in {"verify", "passed"} =>
              auth[q].id # auth[r].id /\ keys'[auth[q].id] = keys[auth[q].id]
      BY <1>0, <2>2, <3>2 DEF SecretInv, IdInv, AuthTypeOK
    <3>4. QED
      BY <1>0, <3>1, <3>3 DEF SecretInv
  <2>3. QED
    BY <2>1, <2>2, KeysStep
<1>2. Good(auth'[r])
  <2>1. CASE \/ Malformed(r) \/ (\E id \in KeyIds : Receive(r, id)) \/ Lock(r)
             \/ ReadFails(r)
    <3>1. auth'[r].at \in {"denied", "lock", "lookup"}
      BY <1>0, <2>1 DEF Malformed, Receive, Lock, ReadFails, AuthTypeOK
    <3>2. QED
      BY <3>1
  <2>2. CASE KeyKept(r)
    BY <1>0, <2>2 DEF KeyKept, AuthTypeOK
  <2>3. CASE ReadFile(r)
    BY <1>0, <2>3 DEF ReadFile, AuthTypeOK, IdInv, HeldInv
  <2>4. CASE StoreKey(r)
    <3>1. /\ auth'[r].at = "verify" /\ auth'[r].id = auth[r].id
          /\ auth'[r].secret = auth[r].secret
      BY <1>0, <2>4 DEF StoreKey, AuthTypeOK
    <3>2. auth[r].id \in KeyIds /\ auth[r].secret \in held[auth[r].id]
      BY <1>0, <2>4 DEF StoreKey, IdInv, SecretInv
    <3>3. auth[r].secret # Absent
      BY <1>0, <3>2, KeyAssumption DEF AuthTypeOK
    <3>4. keys'[auth[r].id] = auth[r].secret
      BY <1>0, <2>4, <3>2 DEF StoreKey, AuthTypeOK
    <3>5. QED
      BY <3>1, <3>3, <3>4
  <2>5. CASE Verify(r)
    <3>1. PICK signed \in Secrets \cup {Empty}, timely \in BOOLEAN, vtproto \in BOOLEAN :
               auth' = [auth EXCEPT ![r] = [@ EXCEPT
                   !.signed = signed,
                   !.at = IF Verified(auth[r].id, signed, timely, vtproto, auth[r].secret)
                          THEN "passed" ELSE "denied"]]
      BY <2>5 DEF Verify
    <3>2. /\ auth'[r].at \in {"passed", "denied"}
          /\ auth'[r].at = "passed" => signed = auth[r].secret
          /\ auth'[r].signed = signed
          /\ auth'[r].secret = auth[r].secret /\ auth'[r].id = auth[r].id
      BY <1>0, <3>1 DEF AuthTypeOK, Verified, Checks
    <3>3. auth[r].secret = keys[auth[r].id] /\ auth[r].secret # Absent /\ keys' = keys
      BY <1>0, <2>5 DEF Verify, SecretInv
    <3>4. QED
      BY <3>2, <3>3
  <2>6. QED
    BY <2>1, <2>2, <2>3, <2>4, <2>5 DEF AuthStep
<1>3. \A q \in Requests : Good(auth'[q])
  BY <1>0, <1>1, <1>2, OthersStay
<1>4. QED
  BY <1>3 DEF SecretInv

LEMMA EnvironmentNext ==
    ASSUME AuthInv, Environment
    PROVE  AuthInv'
<1>0. AuthTypeOK /\ MutexInv /\ IdInv /\ HeldInv /\ SecretInv
  BY DEF AuthInv
<1>1. ASSUME NEW id \in KeyIds, RemoveFile(id)
      PROVE  AuthInv'
  <2>1. AuthTypeOK' /\ HeldInv'
    BY <1>0, <1>1 DEF RemoveFile, AuthTypeOK, HeldInv
  <2>2. MutexInv' /\ IdInv' /\ SecretInv'
    BY <1>0, <1>1 DEF RemoveFile, MutexInv, IdInv, SecretInv
  <2>3. QED
    BY <2>1, <2>2 DEF AuthInv
<1>2. ASSUME NEW id \in KeyIds, NEW secret \in Secrets, PutFile(id, secret)
      PROVE  AuthInv'
  <2>1. AuthTypeOK'
    BY <1>0, <1>2 DEF PutFile, AuthTypeOK
  <2>2. \A k \in KeyIds : held[k] \subseteq held'[k]
    BY <1>0, <1>2 DEF PutFile, AuthTypeOK
  <2>3. HeldInv'
    BY <1>0, <1>2, <2>2 DEF PutFile, AuthTypeOK, HeldInv
  <2>4. MutexInv' /\ IdInv'
    BY <1>0, <1>2 DEF PutFile, MutexInv, IdInv
  <2>5. SecretInv'
    BY <1>0, <1>2, <2>2 DEF PutFile, IdInv, SecretInv
  <2>6. QED
    BY <2>1, <2>3, <2>4, <2>5 DEF AuthInv
<1>3. QED
  BY <1>1, <1>2 DEF Environment

LEMMA AuthNext ==
    ASSUME AuthInv, NEW r \in Requests, AuthStep(r)
    PROVE  AuthInv'
BY AuthTypeNext, MutexNext, IdNext, HeldNext, SecretNext DEF AuthInv

-----------------------------------------------------------------------------
(* Monitoring, and the two together.                                       *)

\* What monitoring keeps of a request.
MonRecord ==
    [at : {"new", "handling", "observe", "classify", "returned", "panicked"},
     method : Methods, outcome : Codes \cup {"panic"},
     code : Codes, masked : BOOLEAN]

LEMMA MonInitially == MonInit => MonTypeOK
<1> SUFFICES ASSUME MonInit PROVE MonTypeOK
  OBVIOUS
<1>1. "OK" \in Codes
  BY DEF Codes
<1>2. QED
  BY <1>1 DEF MonInit, MonTypeOK

LEMMA MonNext ==
    ASSUME MonTypeOK, NEW r \in Requests,
           \/ Count(r) \/ Observe(r) \/ Succeed(r) \/ Fail(r)
           \/ \E outcome \in Codes \cup {"panic"} : Handled(r, outcome)
    PROVE  MonTypeOK'
<1> USE DEF MonTypeOK
<1>0. "OK" \in Codes /\ "Internal" \in Codes
  BY DEF Codes
<1>1. CASE Count(r)
  BY <1>1 DEF Count
<1>2. ASSUME NEW outcome \in Codes \cup {"panic"}, Handled(r, outcome)
      PROVE  MonTypeOK'
  <2>1. [rpc[r] EXCEPT !.at = "observe", !.outcome = outcome,
                       !.code = IF outcome = "panic" THEN "OK" ELSE outcome] \in MonRecord
    BY <1>0, <1>2 DEF MonRecord
  <2>2. QED
    BY <1>2, <2>1 DEF Handled, MonRecord
<1>3. CASE Observe(r)
  BY <1>3 DEF Observe
<1>4. CASE Succeed(r)
  <2>1. End(r) \in {"returned", "panicked"}
    BY DEF End
  <2>2. QED
    BY <1>4, <2>1 DEF Succeed
<1>5. CASE Fail(r)
  <2>1. End(r) \in {"returned", "panicked"}
    BY DEF End
  <2>2. PICK category \in Categories :
             failedRequests' = [failedRequests EXCEPT ![<<rpc[r].method, category>>] = @ + 1]
    BY <1>5 DEF Fail, Categories
  <2>3. failedRequests' \in [Methods \X Categories -> Nat]
    BY <2>2
  <2>4. rpc' \in [Requests ->
           [at : {"new", "handling", "observe", "classify", "returned", "panicked"},
            method : Methods, outcome : Codes \cup {"panic"},
            code : Codes, masked : BOOLEAN]]
    BY <1>0, <1>5, <2>1 DEF Fail
  <2>5. QED
    BY <1>5, <2>3, <2>4 DEF Fail
<1>6. QED
  BY <1>1, <1>2, <1>3, <1>4, <1>5

\* Who is answered otherwise than with a denial has passed.
AnswerInv ==
    \A r \in Requests :
        rpc[r].at \notin {"new", "handling"} /\ rpc[r].code # "Unauthenticated" =>
            auth[r].at = "passed"

IInv == AuthInv /\ MonTypeOK /\ AnswerInv

LEMMA AnswerNext ==
    ASSUME IInv, NEW r \in Requests, Serve(r)
    PROVE  AnswerInv'
<1>0. AuthTypeOK /\ MonTypeOK /\ AnswerInv
  BY DEF IInv, AuthInv
<1>1. CASE Authenticate(r)
  BY <1>0, <1>1, OthersStay DEF Authenticate, AnswerInv, monitoring
<1>2. CASE Handle(r)
  <2>1. UNCHANGED auth
    BY <1>2 DEF Handle, authentication
  <2>2. auth[r].at = "passed" \/ rpc'[r].code = "Unauthenticated"
    BY <1>0, <1>2 DEF Handle, Handled, MonTypeOK
  <2>3. \A q \in Requests : q # r => rpc'[q] = rpc[q]
    BY <1>0, <1>2 DEF Handle, Handled, MonTypeOK
  <2>4. QED
    BY <1>0, <2>1, <2>2, <2>3 DEF AnswerInv
<1>3. CASE (Count(r) \/ Observe(r) \/ Succeed(r) \/ Fail(r)) /\ UNCHANGED authentication
  <2>1. UNCHANGED auth
    BY <1>3 DEF authentication
  <2>2. \A q \in Requests : q # r => rpc'[q] = rpc[q]
    BY <1>0, <1>3 DEF Count, Observe, Succeed, Fail, MonTypeOK
  <2>3. FromGrpcError("Unauthenticated") = "unauthenticated"
    BY DEF FromGrpcError
  <2>4. \/ rpc'[r].at = "handling"
        \/ rpc[r].at \notin {"new", "handling"} /\ rpc'[r].code = rpc[r].code
        \/ rpc[r].at \notin {"new", "handling"} /\ rpc[r].code # "Unauthenticated"
    <3>1. CASE Count(r)
      BY <1>0, <3>1 DEF Count, MonTypeOK
    <3>2. CASE Observe(r)
      BY <1>0, <3>2 DEF Observe, MonTypeOK
    <3>3. CASE Succeed(r)
      BY <1>0, <3>3 DEF Succeed, MonTypeOK
    <3>4. CASE Fail(r) /\ FromGrpcError(rpc[r].code) = "internal"
      BY <2>3, <3>4 DEF Fail
    <3>5. CASE Fail(r) /\ FromGrpcError(rpc[r].code) # "internal"
      BY <1>0, <3>5 DEF Fail, MonTypeOK
    <3>6. QED
      BY <1>3, <3>1, <3>2, <3>3, <3>4, <3>5
  <2>5. QED
    BY <1>0, <2>1, <2>2, <2>4 DEF AnswerInv
<1>4. QED
  BY <1>1, <1>2, <1>3 DEF Serve

LEMMA Inductive ==
    /\ Init => IInv
    /\ IInv /\ [Next]_vars => IInv'
<1>1. ASSUME Init PROVE IInv
  <2>1. AnswerInv
    BY <1>1 DEF Init, MonInit, AnswerInv
  <2>2. QED
    BY <1>1, <2>1, AuthInitially, MonInitially DEF Init, IInv
<1>2. ASSUME IInv, NEW r \in Requests, Serve(r)
      PROVE  IInv'
  <2>1. CASE Authenticate(r)
    <3>1. AuthInv'
      BY <1>2, <2>1, AuthNext DEF IInv, Authenticate
    <3>2. MonTypeOK'
      BY <1>2, <2>1 DEF IInv, Authenticate, MonTypeOK, monitoring
    <3>3. QED
      BY <1>2, <3>1, <3>2, AnswerNext DEF IInv
  <2>2. CASE ~Authenticate(r)
    <3>1. AuthInv'
      BY <1>2, <2>2 DEF IInv, Serve, Handle, authentication, AuthInv, AuthTypeOK,
                        MutexInv, IdInv, HeldInv, SecretInv
    <3>2. \/ Count(r) \/ Observe(r) \/ Succeed(r) \/ Fail(r)
          \/ \E outcome \in Codes \cup {"panic"} : Handled(r, outcome)
      <4>1. "Unauthenticated" \in Codes
        BY DEF Codes
      <4>2. QED
        BY <1>2, <2>2, <4>1, OutcomeAssumption DEF Serve, Handle
    <3>3. MonTypeOK'
      BY <1>2, <3>2, MonNext DEF IInv
    <3>4. QED
      BY <1>2, <3>1, <3>3, AnswerNext DEF IInv
  <2>3. QED
    BY <2>1, <2>2
<1>3. ASSUME IInv, Environment, UNCHANGED monitoring
      PROVE  IInv'
  <2>1. AuthInv'
    BY <1>3, EnvironmentNext DEF IInv
  <2>2. UNCHANGED auth
    BY <1>3 DEF Environment, PutFile, RemoveFile
  <2>3. MonTypeOK' /\ AnswerInv'
    BY <1>3, <2>2 DEF IInv, MonTypeOK, AnswerInv, monitoring
  <2>4. QED
    BY <2>1, <2>3 DEF IInv
<1>4. ASSUME IInv, UNCHANGED vars
      PROVE  IInv'
  BY <1>4 DEF IInv, vars, authentication, monitoring, AuthInv, AuthTypeOK, MutexInv,
              IdInv, HeldInv, SecretInv, MonTypeOK, AnswerInv
<1>5. QED
  BY <1>1, <1>2, <1>3, <1>4 DEF Next

LEMMA Invariant == Spec => []IInv
BY Inductive, PTL DEF Spec

-----------------------------------------------------------------------------
(* The counters.                                                           *)

\* A handler that panicked left err nil.
PanicInv == \A r \in Requests : rpc[r].outcome = "panic" => rpc[r].code = "OK"

CounterInv == MonTypeOK /\ PanicInv /\ CountersAgree

LEMMA OneMore ==
    ASSUME NEW S \in SUBSET Requests, NEW r \in Requests, r \notin S
    PROVE  Cardinality(S \cup {r}) = Cardinality(S) + 1
<1>1. IsFiniteSet(S)
  BY RequestAssumption, FS_Subset
<1>2. QED
  BY <1>1, FS_AddElement

LEMMA CodeCategory ==
    /\ FromGrpcError("OK") = "" /\ FromGrpcError("Internal") = "internal"
    /\ "" \notin Categories
    /\ \A code \in Codes : FromGrpcError(code) # "" => FromGrpcError(code) \in Categories
BY DEF FromGrpcError, Categories

\* A step of r: the requests of each kind afterwards, when it is known of r whether
\* it is one of them.
LEMMA StepOf ==
    ASSUME NEW r \in Requests, \A q \in Requests \ {r} : rpc'[q] = rpc[q],
           rpc'[r].method = rpc[r].method, NEW m \in Methods, NEW c
    PROVE  /\ (r \in Begun(m)' <=> r \in Begun(m)) => Begun(m)' = Begun(m)
           /\ (r \in Observed(m)' <=> r \in Observed(m)) => Observed(m)' = Observed(m)
           /\ (r \in Failed(m, c)' <=> r \in Failed(m, c)) => Failed(m, c)' = Failed(m, c)
           /\ r \in Begun(m)' => Begun(m)' = Begun(m) \cup {r}
           /\ r \in Observed(m)' => Observed(m)' = Observed(m) \cup {r}
           /\ r \in Failed(m, c)' => Failed(m, c)' = Failed(m, c) \cup {r}
<1>1. \A q \in Requests \ {r} : q \in Begun(m)' <=> q \in Begun(m)
  BY DEF Begun
<1>2. \A q \in Requests \ {r} : q \in Observed(m)' <=> q \in Observed(m)
  BY DEF Begun, Observed
<1>3. \A q \in Requests \ {r} : q \in Failed(m, c)' <=> q \in Failed(m, c)
  BY DEF Begun, Failed
<1>4. /\ Begun(m) \subseteq Requests /\ Begun(m)' \subseteq Requests
      /\ Observed(m) \subseteq Requests /\ Observed(m)' \subseteq Requests
      /\ Failed(m, c) \subseteq Requests /\ Failed(m, c)' \subseteq Requests
  BY DEF Begun, Observed, Failed
<1>5. QED
  BY <1>1, <1>2, <1>3, <1>4

LEMMA PanicNext ==
    ASSUME MonTypeOK, PanicInv, NEW r \in Requests,
           \/ Count(r) \/ Observe(r) \/ Succeed(r) \/ Fail(r)
           \/ \E outcome \in Codes \cup {"panic"} : Handled(r, outcome)
    PROVE  /\ PanicInv'
           /\ \A q \in Requests \ {r} : rpc'[q] = rpc[q]
           /\ rpc'[r].method = rpc[r].method
<1> USE DEF MonTypeOK
<1>1. CASE Count(r) \/ Observe(r) \/ Succeed(r)
  <2>1. /\ \A q \in Requests \ {r} : rpc'[q] = rpc[q]
        /\ rpc'[r].method = rpc[r].method
        /\ rpc'[r].outcome = rpc[r].outcome /\ rpc'[r].code = rpc[r].code
    <3>1. PICK at : rpc' = [rpc EXCEPT ![r] = [@ EXCEPT !.at = at]]
      BY <1>1 DEF Count, Observe, Succeed
    <3>2. QED
      BY <3>1
  <2>2. QED
    BY <2>1 DEF PanicInv
<1>2. ASSUME NEW outcome \in Codes \cup {"panic"}, Handled(r, outcome)
      PROVE  /\ rpc'[r].method = rpc[r].method
             /\ rpc'[r].outcome = outcome
             /\ rpc'[r].code = IF outcome = "panic" THEN "OK" ELSE outcome
             /\ \A q \in Requests \ {r} : rpc'[q] = rpc[q]
  BY <1>2 DEF Handled
<1>3. ASSUME Fail(r)
      PROVE  /\ rpc'[r].method = rpc[r].method
             /\ rpc'[r].outcome = rpc[r].outcome
             /\ rpc[r].code # "OK"
             /\ \A q \in Requests \ {r} : rpc'[q] = rpc[q]
  BY <1>3, CodeCategory DEF Fail
<1>4. QED
  BY <1>1, <1>2, <1>3 DEF PanicInv

LEMMA CountersNext ==
    ASSUME CounterInv, NEW r \in Requests,
           \/ Count(r) \/ Observe(r) \/ Succeed(r) \/ Fail(r)
           \/ \E outcome \in Codes \cup {"panic"} : Handled(r, outcome)
    PROVE  CountersAgree'
<1> DEFINE m0 == rpc[r].method
<1>0. /\ MonTypeOK /\ PanicInv /\ CountersAgree
      /\ \A q \in Requests \ {r} : rpc'[q] = rpc[q]
      /\ rpc'[r].method = m0 /\ m0 \in Methods
  BY PanicNext DEF CounterInv, MonTypeOK
<1> HIDE DEF m0
<1>1. CASE Count(r)
  <2>1. /\ rpc[r].at = "new" /\ rpc'[r].at = "handling" /\ rpc[r].method = m0
        /\ totalRequests' = [totalRequests EXCEPT ![m0] = @ + 1]
        /\ UNCHANGED <<failedRequests, requestsDuration>>
    BY <1>0, <1>1 DEF Count, MonTypeOK, m0
  <2>2. ASSUME NEW m \in Methods
        PROVE  totalRequests'[m] = Cardinality(Begun(m)')
    <3>1. CASE m = m0
      <4>1. r \notin Begun(m) /\ r \in Begun(m)'
        BY <1>0, <2>1, <3>1 DEF Begun
      <4>2. Begun(m)' = Begun(m) \cup {r}
        BY <1>0, <2>1, <4>1, StepOf
      <4>3. Cardinality(Begun(m) \cup {r}) = Cardinality(Begun(m)) + 1
        BY <4>1, OneMore DEF Begun
      <4>4. totalRequests'[m] = totalRequests[m] + 1
        BY <1>0, <2>1, <3>1 DEF MonTypeOK
      <4>5. QED
        BY <1>0, <4>2, <4>3, <4>4 DEF CountersAgree
    <3>2. CASE m # m0
      <4>1. r \notin Begun(m) /\ r \notin Begun(m)'
        BY <1>0, <2>1, <3>2 DEF Begun
      <4>2. Begun(m)' = Begun(m)
        BY <1>0, <2>1, <4>1, StepOf
      <4>3. totalRequests'[m] = totalRequests[m]
        BY <1>0, <2>1, <3>2 DEF MonTypeOK
      <4>4. QED
        BY <1>0, <4>2, <4>3 DEF CountersAgree
    <3>3. QED
      BY <3>1, <3>2
  <2>3. \A m \in Methods : Observed(m)' = Observed(m) /\ \A c : Failed(m, c)' = Failed(m, c)
    <3>1. ASSUME NEW m \in Methods, NEW c
          PROVE  /\ r \notin Observed(m) /\ r \notin Observed(m)'
                 /\ r \notin Failed(m, c) /\ r \notin Failed(m, c)'
      BY <2>1 DEF Begun, Observed, Failed
    <3>2. QED
      BY <1>0, <2>1, <3>1, StepOf
  <2>4. \A m \in Methods : \A q \in Failed(m, "internal") : rpc'[q] = rpc[q]
    BY <1>0, <2>1 DEF Failed, Begun
  <2>5. QED
    BY <1>0, <2>1, <2>2, <2>3, <2>4 DEF CountersAgree
<1>2. CASE Observe(r)
  <2>1. /\ rpc[r].at = "observe" /\ rpc'[r].at = "classify" /\ rpc[r].method = m0
        /\ requestsDuration' = [requestsDuration EXCEPT ![m0] = @ + 1]
        /\ UNCHANGED <<failedRequests, totalRequests>>
    BY <1>0, <1>2 DEF Observe, MonTypeOK, m0
  <2>2. ASSUME NEW m \in Methods
        PROVE  requestsDuration'[m] = Cardinality(Observed(m)')
    <3>1. CASE m = m0
      <4>1. r \notin Observed(m) /\ r \in Observed(m)'
        BY <1>0, <2>1, <3>1 DEF Begun, Observed
      <4>2. Observed(m)' = Observed(m) \cup {r}
        BY <1>0, <2>1, <4>1, StepOf
      <4>3. Cardinality(Observed(m) \cup {r}) = Cardinality(Observed(m)) + 1
        BY <4>1, OneMore DEF Observed, Begun
      <4>4. requestsDuration'[m] = requestsDuration[m] + 1
        BY <1>0, <2>1, <3>1 DEF MonTypeOK
      <4>5. QED
        BY <1>0, <4>2, <4>3, <4>4 DEF CountersAgree
    <3>2. CASE m # m0
      <4>1. r \notin Observed(m) /\ r \notin Observed(m)'
        BY <1>0, <2>1, <3>2 DEF Begun, Observed
      <4>2. Observed(m)' = Observed(m)
        BY <1>0, <2>1, <4>1, StepOf
      <4>3. requestsDuration'[m] = requestsDuration[m]
        BY <1>0, <2>1, <3>2 DEF MonTypeOK
      <4>4. QED
        BY <1>0, <4>2, <4>3 DEF CountersAgree
    <3>3. QED
      BY <3>1, <3>2
  <2>3. \A m \in Methods : Begun(m)' = Begun(m) /\ \A c : Failed(m, c)' = Failed(m, c)
    <3>1. ASSUME NEW m \in Methods, NEW c
          PROVE  /\ r \in Begun(m)' <=> r \in Begun(m)
                 /\ r \notin Failed(m, c) /\ r \notin Failed(m, c)'
      BY <1>0, <2>1 DEF Begun, Failed
    <3>2. QED
      BY <1>0, <2>1, <3>1, StepOf
  <2>4. \A m \in Methods : \A q \in Failed(m, "internal") : rpc'[q] = rpc[q]
    BY <1>0, <2>1 DEF Failed, Begun
  <2>5. QED
    BY <1>0, <2>1, <2>2, <2>3, <2>4 DEF CountersAgree
<1>3. CASE Succeed(r) \/ \E outcome \in Codes \cup {"panic"} : Handled(r, outcome)
  <2>1. /\ UNCHANGED <<totalRequests, failedRequests, requestsDuration>>
        /\ rpc[r].method = m0
        /\ \/ /\ rpc[r].at = "classify" /\ rpc'[r].at \in {"returned", "panicked"}
              /\ FromGrpcError(rpc'[r].code) = ""
           \/ rpc[r].at = "handling" /\ rpc'[r].at = "observe"
    <3>1. CASE Succeed(r)
      BY <1>0, <3>1 DEF Succeed, End, MonTypeOK, m0
    <3>2. ASSUME NEW outcome \in Codes \cup {"panic"}, Handled(r, outcome)
          PROVE  /\ UNCHANGED <<totalRequests, failedRequests, requestsDuration>>
                 /\ rpc[r].at = "handling" /\ rpc'[r].at = "observe"
      BY <1>0, <3>2 DEF Handled, MonTypeOK
    <3>3. QED
      BY <1>3, <3>1, <3>2 DEF m0
  <2>2. ASSUME NEW m \in Methods, NEW c \in Categories
        PROVE  /\ r \in Begun(m)' <=> r \in Begun(m)
               /\ r \in Observed(m)' <=> r \in Observed(m)
               /\ r \notin Failed(m, c) /\ r \notin Failed(m, c)'
    <3>1. c # ""
      BY CodeCategory
    <3>2. QED
      BY <1>0, <2>1, <3>1 DEF Begun, Observed, Failed
  <2>3. ASSUME NEW m \in Methods, NEW c \in Categories
        PROVE  /\ Begun(m)' = Begun(m) /\ Observed(m)' = Observed(m)
               /\ Failed(m, c)' = Failed(m, c)
    <3>1. /\ r \in Begun(m)' <=> r \in Begun(m)
          /\ r \in Observed(m)' <=> r \in Observed(m)
          /\ r \in Failed(m, c)' <=> r \in Failed(m, c)
      BY <2>2
    <3>2. rpc'[r].method = rpc[r].method
      BY <1>0, <2>1
    <3>3. QED
      BY <1>0, <3>1, <3>2, StepOf
  <2>4. "internal" \in Categories
    BY CodeCategory DEF Codes
  <2>5. \A m \in Methods : \A q \in Failed(m, "internal") : rpc'[q] = rpc[q]
    BY <1>0, <2>2, <2>4 DEF Failed, Begun
  <2>6. ASSUME NEW m \in Methods
        PROVE  /\ totalRequests'[m] = Cardinality(Begun(m)')
               /\ requestsDuration'[m] = Cardinality(Observed(m)')
               /\ \A q \in Failed(m, "internal")' : rpc'[q].masked
    <3>1. /\ Begun(m)' = Begun(m) /\ Observed(m)' = Observed(m)
          /\ Failed(m, "internal")' = Failed(m, "internal")
      BY <2>3, <2>4
    <3>2. \A q \in Failed(m, "internal") : rpc[q].masked /\ rpc'[q] = rpc[q]
      BY <1>0, <2>5 DEF CountersAgree
    <3>3. \A q \in Failed(m, "internal")' : rpc'[q].masked
      BY <3>1, <3>2
    <3>4. /\ totalRequests'[m] = Cardinality(Begun(m))
          /\ requestsDuration'[m] = Cardinality(Observed(m))
      BY <1>0, <2>1 DEF CountersAgree
    <3>5. QED
      BY <3>1, <3>3, <3>4
  <2>7. ASSUME NEW m \in Methods, NEW c \in Categories
        PROVE  failedRequests'[<<m, c>>] = Cardinality(Failed(m, c)')
    BY <1>0, <2>1, <2>3 DEF CountersAgree
  <2>8. QED
    BY <2>6, <2>7 DEF CountersAgree
<1>4. CASE Fail(r)
  <2> DEFINE c0 == FromGrpcError(rpc[r].code)
  <2>1. /\ rpc[r].at = "classify" /\ c0 # "" /\ rpc[r].method = m0
        /\ failedRequests' = [failedRequests EXCEPT ![<<m0, c0>>] = @ + 1]
        /\ UNCHANGED <<totalRequests, requestsDuration>>
    BY <1>4 DEF Fail, m0
  <2>2. rpc[r].code \in Codes /\ c0 \in Categories /\ rpc[r].outcome # "panic"
    <3>1. rpc[r].code \in Codes
      BY <1>0 DEF MonTypeOK
    <3>2. c0 \in Categories /\ rpc[r].code # "OK"
      BY <2>1, <3>1, CodeCategory
    <3>3. QED
      BY <1>0, <3>1, <3>2 DEF PanicInv
  <2>3. /\ rpc'[r].at = "returned" /\ FromGrpcError(rpc'[r].code) = c0
        /\ c0 = "internal" => rpc'[r].masked
    <3>1. End(r) = "returned"
      BY <2>2 DEF End
    <3>2. CASE c0 = "internal"
      <4>1. rpc' = [rpc EXCEPT ![r] =
                       [@ EXCEPT !.at = "returned", !.code = "Internal", !.masked = TRUE]]
        BY <1>4, <3>1, <3>2 DEF Fail
      <4>2. /\ rpc'[r].at = "returned" /\ rpc'[r].code = "Internal"
            /\ rpc'[r].masked = TRUE
        BY <1>0, <4>1 DEF MonTypeOK
      <4>3. QED
        BY <3>2, <4>2, CodeCategory
    <3>3. CASE c0 # "internal"
      <4>1. rpc' = [rpc EXCEPT ![r].at = "returned"]
        BY <1>4, <3>1, <3>3 DEF Fail
      <4>2. QED
        BY <1>0, <3>3, <4>1 DEF MonTypeOK
    <3>4. QED
      BY <3>2, <3>3
  <2> HIDE DEF c0
  <2>4. ASSUME NEW m \in Methods
        PROVE  Begun(m)' = Begun(m) /\ Observed(m)' = Observed(m)
    <3>1. /\ r \in Begun(m)' <=> r \in Begun(m)
          /\ r \in Observed(m)' <=> r \in Observed(m)
      BY <1>0, <2>1, <2>3 DEF Begun, Observed
    <3>2. QED
      BY <1>0, <2>1, <3>1, StepOf
  <2>5. ASSUME NEW m \in Methods, NEW c \in Categories
        PROVE  failedRequests'[<<m, c>>] = Cardinality(Failed(m, c)')
    <3>1. CASE m = m0 /\ c = c0
      <4>1. r \notin Failed(m, c) /\ r \in Failed(m, c)'
        BY <1>0, <2>1, <2>3, <3>1 DEF Begun, Failed
      <4>2. Failed(m, c)' = Failed(m, c) \cup {r}
        BY <1>0, <2>1, <4>1, StepOf
      <4>3. Cardinality(Failed(m, c) \cup {r}) = Cardinality(Failed(m, c)) + 1
        BY <4>1, OneMore DEF Failed, Begun
      <4>4. failedRequests'[<<m, c>>] = failedRequests[<<m, c>>] + 1
        BY <1>0, <2>1, <3>1 DEF MonTypeOK
      <4>5. QED
        BY <1>0, <4>2, <4>3, <4>4 DEF CountersAgree
    <3>2. CASE ~(m = m0 /\ c = c0)
      <4>1. r \notin Failed(m, c) /\ r \notin Failed(m, c)'
        BY <1>0, <2>1, <2>3, <3>2 DEF Begun, Failed
      <4>2. Failed(m, c)' = Failed(m, c)
        BY <1>0, <2>1, <4>1, StepOf
      <4>3. failedRequests'[<<m, c>>] = failedRequests[<<m, c>>]
        BY <1>0, <2>1, <3>2 DEF MonTypeOK
      <4>4. QED
        BY <1>0, <4>2, <4>3 DEF CountersAgree
    <3>3. QED
      BY <3>1, <3>2
  <2>6. ASSUME NEW m \in Methods, NEW q \in Failed(m, "internal")'
        PROVE  rpc'[q].masked
    <3>1. CASE q = r
      BY <2>3, <2>6, <3>1 DEF Failed
    <3>2. CASE q # r
      <4>1. q \in Requests /\ rpc'[q] = rpc[q]
        BY <1>0, <2>6, <3>2 DEF Failed, Begun
      <4>2. q \in Failed(m, "internal")
        BY <2>6, <4>1 DEF Failed, Begun
      <4>3. QED
        BY <1>0, <4>1, <4>2 DEF CountersAgree
    <3>3. QED
      BY <3>1, <3>2
  <2>7. QED
    BY <1>0, <2>1, <2>4, <2>5, <2>6 DEF CountersAgree
<1>5. QED
  BY <1>1, <1>2, <1>3, <1>4

LEMMA CountersInitially == Init => CounterInv
<1> SUFFICES ASSUME Init PROVE CounterInv
  OBVIOUS
<1>1. MonTypeOK /\ PanicInv
  <2>1. \A r \in Requests : rpc[r].outcome = "OK" /\ rpc[r].code = "OK"
    BY DEF Init, MonInit
  <2>2. QED
    BY <2>1, MonInitially DEF Init, PanicInv
<1>2. \A m \in Methods : Begun(m) = {} /\ Observed(m) = {} /\ \A c : Failed(m, c) = {}
  BY DEF Init, MonInit, Begun, Observed, Failed
<1>3. Cardinality({}) = 0
  BY FS_EmptySet
<1>4. CountersAgree
  BY <1>2, <1>3 DEF Init, MonInit, CountersAgree
<1>5. QED
  BY <1>1, <1>4 DEF CounterInv

LEMMA CountersInductive == CounterInv /\ [Next]_vars => CounterInv'
<1> SUFFICES ASSUME CounterInv, [Next]_vars PROVE CounterInv'
  OBVIOUS
<1>1. ASSUME NEW r \in Requests, Serve(r), ~Authenticate(r)
      PROVE  CounterInv'
  <2>1. \/ Count(r) \/ Observe(r) \/ Succeed(r) \/ Fail(r)
        \/ \E outcome \in Codes \cup {"panic"} : Handled(r, outcome)
    <3>1. "Unauthenticated" \in Codes
      BY DEF Codes
    <3>2. QED
      BY <1>1, <3>1, OutcomeAssumption DEF Serve, Handle
  <2>2. QED
    BY <2>1, MonNext, PanicNext, CountersNext DEF CounterInv
<1>2. CASE UNCHANGED monitoring
  <2>1. /\ totalRequests' = totalRequests /\ failedRequests' = failedRequests
        /\ requestsDuration' = requestsDuration /\ rpc' = rpc
    BY <1>2 DEF monitoring
  <2>2. MonTypeOK' /\ PanicInv'
    BY <2>1 DEF CounterInv, MonTypeOK, PanicInv
  <2>3. \A m : Begun(m)' = Begun(m) /\ Observed(m)' = Observed(m)
    BY <2>1 DEF Begun, Observed
  <2>4. \A m, c : Failed(m, c)' = Failed(m, c)
    BY <2>1 DEF Begun, Failed
  <2>5. CountersAgree'
    BY <2>1, <2>3, <2>4 DEF CounterInv, CountersAgree
  <2>6. QED
    BY <2>2, <2>5 DEF CounterInv
<1>3. \/ \E r \in Requests : Serve(r) /\ ~Authenticate(r)
      \/ UNCHANGED monitoring
  BY DEF Next, Authenticate, vars
<1>4. QED
  BY <1>1, <1>2, <1>3

-----------------------------------------------------------------------------
(* The theorems.                                                           *)

\* Every variable keeps its type.
THEOREM TypeCorrect == Spec => []TypeOK
<1>1. IInv => TypeOK
  BY DEF IInv, AuthInv, TypeOK
<1>2. QED
  BY <1>1, Invariant, PTL

\* Requests that name a key are checked against one secret, the one that is kept,
\* however many race to read its file and whatever becomes of the file meanwhile.
THEOREM OneSecretForAll == Spec => []OneSecretPerKey
<1>1. IInv => OneSecretPerKey
  BY DEF IInv, AuthInv, SecretInv, OneSecretPerKey
<1>2. QED
  BY <1>1, Invariant, PTL

\* A request that is not denied was signed with a secret its key's file has held.
THEOREM OnlySignedAreAnswered == Spec => []AnswersOnlySigned
<1>1. ASSUME IInv PROVE AnswersOnlySigned
  <2>1. ASSUME NEW r \in Requests, auth[r].at = "passed"
        PROVE  auth[r].id # Absent /\ auth[r].signed \in held[auth[r].id]
    <3>1. auth[r].id \in KeyIds
      BY <1>1, <2>1 DEF IInv, AuthInv, IdInv
    <3>2. auth[r].signed = keys[auth[r].id] /\ keys[auth[r].id] # Absent
      BY <1>1, <2>1 DEF IInv, AuthInv, SecretInv
    <3>3. QED
      BY <1>1, <3>1, <3>2, KeyAssumption DEF IInv, AuthInv, HeldInv
  <2>2. QED
    BY <1>1, <2>1 DEF IInv, AnswerInv, AnswersOnlySigned
<1>2. QED
  BY <1>1, Invariant, PTL

\* The counters tell what callers saw, denials and panics included, and no caller
\* saw what an internal error said.
THEOREM CountersTellTheTruth == Spec => []CountersAgree
<1>1. CounterInv => CountersAgree
  BY DEF CounterInv
<1>2. QED
  BY <1>1, CountersInitially, CountersInductive, PTL DEF Spec
=============================================================================
