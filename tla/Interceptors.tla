---------------------------- MODULE Interceptors ----------------------------
(***************************************************************************)
(* Both interceptors of package middleware on one server, which passes     *)
(* every request through MonitoringMiddleware.Unary, its handler being     *)
(* AuthenticationMiddleware.Unary, and that one's the application's.       *)
(***************************************************************************)
EXTENDS Authentication, Monitoring

\* As many as are ever made.
ASSUME RequestAssumption == IsFiniteSet(Requests)

vars == <<authentication, monitoring>>

TypeOK == AuthTypeOK /\ MonTypeOK

Init == AuthInit /\ MonInit

\* The authentication of a request runs as the handler the monitoring called.
Authenticate(r) ==
    /\ rpc[r].at = "handling"
    /\ AuthStep(r)
    /\ UNCHANGED monitoring

\* Mutant: a request that is denied is handled all the same.
HandleDenied(r) ==
    /\ auth[r].at \in {"passed", "denied"}
    /\ \E outcome \in Outcomes : Handled(r, outcome)
    /\ UNCHANGED authentication

\* Authentication denies the request, or the application handles it.
Handle(r) ==
    /\ \/ auth[r].at = "denied" /\ Handled(r, "Unauthenticated")
       \/ auth[r].at = "passed" /\ \E outcome \in Outcomes : Handled(r, outcome)
    /\ UNCHANGED authentication

Serve(r) ==
    \/ Authenticate(r)
    \/ Handle(r)
    \/ (Count(r) \/ Observe(r) \/ Succeed(r) \/ Fail(r)) /\ UNCHANGED authentication

Next ==
    \/ \E r \in Requests : Serve(r)
    \/ Environment /\ UNCHANGED monitoring

Spec == Init /\ [][Next]_vars

\* Goroutines run, and handlers return.
FairSpec == Spec /\ \A r \in Requests : WF_vars(Serve(r))

-----------------------------------------------------------------------------
(* Properties.                                                             *)

\* However requests race to read a key's file while it is replaced, the requests
\* that name the key are all checked against one secret, the one that is kept.
OneSecretPerKey ==
    \A r \in Requests :
        auth[r].at \in {"verify", "passed"} => auth[r].secret = keys[auth[r].id]

\* The application answers only a request signed with a secret the key's file has
\* held: a failed read lets nobody in, then or later.
AnswersOnlySigned ==
    \A r \in Requests :
        rpc[r].at \notin {"new", "handling"} /\ rpc[r].code # "Unauthenticated" =>
            auth[r].id # Absent /\ auth[r].signed \in held[auth[r].id]

Begun(m) == {r \in Requests : rpc[r].at # "new" /\ rpc[r].method = m}
Observed(m) == {r \in Begun(m) : rpc[r].at \in {"classify", "returned", "panicked"}}
Failed(m, category) ==
    {r \in Begun(m) : rpc[r].at = "returned" /\ FromGrpcError(rpc[r].code) = category}

\* The counters tell what callers saw, denials included: a method's requests are
\* those that are under way and those whose duration was observed, and its
\* failures of a category are the errors of that category callers were returned,
\* the internal ones without what they said.
CountersAgree ==
    \A m \in Methods :
        /\ totalRequests[m] = Cardinality(Begun(m))
        /\ requestsDuration[m] = Cardinality(Observed(m))
        /\ \A c \in Categories : failedRequests[<<m, c>>] = Cardinality(Failed(m, c))
        /\ \A r \in Failed(m, "internal") : rpc[r].masked

\* Every request ends, though files cannot be read while all wait for the mutex.
EveryRequestEnds ==
    \A r \in Requests :
        rpc[r].at = "handling" ~> rpc[r].at \in {"returned", "panicked"}
=============================================================================
