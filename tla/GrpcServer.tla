----------------------------- MODULE GrpcServer -----------------------------
(***************************************************************************)
(* google.golang.org/grpc, as package middleware uses it: requests, each   *)
(* served once, on a goroutine of its own, and the codes they end with.    *)
(***************************************************************************)
EXTENDS Integers, FiniteSets

CONSTANT Requests

\* An error that carries no code counts as Unknown.
Codes == {"OK", "Canceled", "Unknown", "InvalidArgument", "DeadlineExceeded",
          "NotFound", "AlreadyExists", "PermissionDenied", "ResourceExhausted",
          "FailedPrecondition", "Aborted", "OutOfRange", "Unimplemented", "Internal",
          "Unavailable", "DataLoss", "Unauthenticated"}
=============================================================================
