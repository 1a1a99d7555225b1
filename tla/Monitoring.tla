----------------------------- MODULE Monitoring -----------------------------
(***************************************************************************)
(* middleware/monitoring.go and metrics/helpers.go: the interceptor that   *)
(* counts requests and failures, and hides from callers what an internal   *)
(* error says.                                                             *)
(***************************************************************************)
EXTENDS GrpcServer

CONSTANTS
    Methods,    \* the methods it may be for
    Outcomes    \* how handlers end: gRPC codes, or "panic"

ASSUME OutcomeAssumption == Outcomes \subseteq Codes \cup {"panic"}

\* The category FromGrpcError gives a code.
FromGrpcError(code) ==
    CASE code = "OK" -> ""
      [] code \in {"DeadlineExceeded", "Canceled"} -> "timeout"
      [] code \in {"Aborted", "FailedPrecondition", "AlreadyExists",
                   "InvalidArgument", "OutOfRange"} -> "invalid_request"
      [] code = "NotFound" -> "not_found"
      [] code = "PermissionDenied" -> "permission_denied"
      [] code = "ResourceExhausted" -> "resource_exhausted"
      [] code = "Unauthenticated" -> "unauthenticated"
      [] OTHER -> "internal"

Categories == {FromGrpcError(c) : c \in Codes} \ {""}

VARIABLES
    totalRequests,     \* totalRequests[m]
    failedRequests,    \* failedRequests[m, category]
    requestsDuration,  \* requestsDuration[m]: how many durations were observed
    rpc                \* rpc[r]: where Unary is in a request, its method, the
                       \* handler's outcome, and the code returned with a message
                       \* of the handler's or not

monitoring == <<totalRequests, failedRequests, requestsDuration, rpc>>

MonTypeOK ==
    /\ totalRequests \in [Methods -> Nat]
    /\ failedRequests \in [Methods \X Categories -> Nat]
    /\ requestsDuration \in [Methods -> Nat]
    /\ rpc \in [Requests ->
           [at : {"new", "handling", "observe", "classify", "returned", "panicked"},
            method : Methods, outcome : Codes \cup {"panic"},
            code : Codes, masked : BOOLEAN]]

MonInit ==
    /\ totalRequests = [m \in Methods |-> 0]
    /\ failedRequests = [l \in Methods \X Categories |-> 0]
    /\ requestsDuration = [m \in Methods |-> 0]
    /\ \E m \in [Requests -> Methods] :
           rpc = [r \in Requests |-> [at |-> "new", method |-> m[r], outcome |-> "OK",
                                      code |-> "OK", masked |-> FALSE]]

Count(r) ==
    /\ rpc[r].at = "new"
    /\ totalRequests' = [totalRequests EXCEPT ![rpc[r].method] = @ + 1]
    /\ rpc' = [rpc EXCEPT ![r].at = "handling"]
    /\ UNCHANGED <<failedRequests, requestsDuration>>

\* The handler returns, or panics and leaves err nil.
Handled(r, outcome) ==
    /\ rpc[r].at = "handling"
    /\ rpc' = [rpc EXCEPT ![r] = [@ EXCEPT
           !.at = "observe", !.outcome = outcome,
           !.code = IF outcome = "panic" THEN "OK" ELSE outcome]]
    /\ UNCHANGED <<totalRequests, failedRequests, requestsDuration>>

\* Mutant: the duration is observed when the handler succeeds only.
ObserveSuccess(r) ==
    /\ rpc[r].at = "observe"
    /\ requestsDuration' = IF rpc[r].code # "OK" THEN requestsDuration
                           ELSE [requestsDuration EXCEPT ![rpc[r].method] = @ + 1]
    /\ rpc' = [rpc EXCEPT ![r].at = "classify"]
    /\ UNCHANGED <<totalRequests, failedRequests>>

Observe(r) ==
    /\ rpc[r].at = "observe"
    /\ requestsDuration' = [requestsDuration EXCEPT ![rpc[r].method] = @ + 1]
    /\ rpc' = [rpc EXCEPT ![r].at = "classify"]
    /\ UNCHANGED <<totalRequests, failedRequests>>

End(r) == IF rpc[r].outcome = "panic" THEN "panicked" ELSE "returned"

Succeed(r) ==
    /\ rpc[r].at = "classify" /\ FromGrpcError(rpc[r].code) = ""
    /\ rpc' = [rpc EXCEPT ![r].at = End(r)]
    /\ UNCHANGED <<totalRequests, failedRequests, requestsDuration>>

Fail(r) ==
    LET category == FromGrpcError(rpc[r].code) IN
    /\ rpc[r].at = "classify" /\ category # ""
    /\ failedRequests' = [failedRequests EXCEPT ![<<rpc[r].method, category>>] = @ + 1]
    /\ rpc' = IF category = "internal"
              THEN [rpc EXCEPT ![r] = [@ EXCEPT !.at = End(r), !.code = "Internal", !.masked = TRUE]]
              ELSE [rpc EXCEPT ![r].at = End(r)]
    /\ UNCHANGED <<totalRequests, requestsDuration>>
=============================================================================
