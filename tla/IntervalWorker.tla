--------------------------- MODULE IntervalWorker ---------------------------
(***************************************************************************)
(* workers/interval.go: a worker that calls a function again and again     *)
(* until it is stopped.  Nothing guards its one field, so that goroutines  *)
(* which start and stop it meet between any two of its reads and writes.   *)
(***************************************************************************)
EXTENDS Naturals

CONSTANTS
    Callers,   \* goroutines that call Start and Stop
    MaxStarts  \* bound: calls of Start

Runs == 1 .. MaxStarts
Nil == 0

VARIABLES
    workerCancel,  \* the run whose cancel function the worker keeps
    pc,            \* where each caller is
    mine,          \* the run it is starting
    run,           \* where the goroutine of each run is
    cancelled      \* the runs whose context is done

vars == <<workerCancel, pc, mine, run, cancelled>>

Init ==
    /\ workerCancel = Nil
    /\ pc = [c \in Callers |-> "idle"]
    /\ mine = [c \in Callers |-> Nil]
    /\ run = [r \in Runs |-> "none"]
    /\ cancelled = {}

-----------------------------------------------------------------------------
(* Start: a context is made, its cancel function kept, the goroutine begun. *)

Start(c) ==
    \E r \in Runs :
        /\ pc[c] = "idle"
        /\ run[r] = "none" /\ \A q \in 1 .. r - 1 : run[q] # "none"
        /\ run' = [run EXCEPT ![r] = "made"]
        /\ mine' = [mine EXCEPT ![c] = r]
        /\ pc' = [pc EXCEPT ![c] = "keep"]
        /\ UNCHANGED <<workerCancel, cancelled>>

Keep(c) ==
    /\ pc[c] = "keep"
    /\ workerCancel' = mine[c]
    /\ pc' = [pc EXCEPT ![c] = "go"]
    /\ UNCHANGED <<mine, run, cancelled>>

Go(c) ==
    /\ pc[c] = "go"
    /\ run' = [run EXCEPT ![mine[c]] = "calling"]
    /\ pc' = [pc EXCEPT ![c] = "idle"]
    /\ UNCHANGED <<workerCancel, mine, cancelled>>

-----------------------------------------------------------------------------
(* Stop: the field is read for the comparison, and read again for the call. *)

Stop(c) ==
    /\ pc[c] = "idle"
    /\ workerCancel # Nil
    /\ pc' = [pc EXCEPT ![c] = "cancel"]
    /\ UNCHANGED <<workerCancel, mine, run, cancelled>>

Cancel(c) ==
    /\ pc[c] = "cancel"
    /\ cancelled' = cancelled \cup {workerCancel}
    /\ pc' = [pc EXCEPT ![c] = "idle"]
    /\ UNCHANGED <<workerCancel, mine, run>>

-----------------------------------------------------------------------------
(* The goroutine of a run.                                                 *)

\* fn returns, and the goroutine waits for the context or the timer.
Called(r) ==
    /\ run[r] = "calling"
    /\ run' = [run EXCEPT ![r] = "waiting"]
    /\ UNCHANGED <<workerCancel, pc, mine, cancelled>>

\* The timer; it may be ready together with the context, and be chosen.
CallAgain(r) ==
    /\ run[r] = "waiting"
    /\ run' = [run EXCEPT ![r] = "calling"]
    /\ UNCHANGED <<workerCancel, pc, mine, cancelled>>

\* Mutant: the goroutine looks at the worker's context instead of its own.
EndOfLatest(r) ==
    /\ run[r] = "waiting" /\ workerCancel \in cancelled
    /\ run' = [run EXCEPT ![r] = "ended"]
    /\ UNCHANGED <<workerCancel, pc, mine, cancelled>>

End(r) ==
    /\ run[r] = "waiting" /\ r \in cancelled
    /\ run' = [run EXCEPT ![r] = "ended"]
    /\ UNCHANGED <<workerCancel, pc, mine, cancelled>>

CallerStep(c) == Keep(c) \/ Go(c) \/ Cancel(c)

Next ==
    \/ \E c \in Callers : Start(c) \/ Stop(c) \/ CallerStep(c)
    \/ \E r \in Runs : Called(r) \/ CallAgain(r) \/ End(r)

\* Goroutines run, fn returns and timers fire; and select, which chooses at random
\* among what is ready, does not pass the context over for ever.
Fairness ==
    /\ \A c \in Callers : WF_vars(CallerStep(c))
    /\ \A r \in Runs : WF_vars(Called(r)) /\ WF_vars(CallAgain(r)) /\ SF_vars(End(r))

Spec == Init /\ [][Next]_vars /\ Fairness

-----------------------------------------------------------------------------
(* Properties.                                                             *)

\* The goroutine that Stop cancels ends, though it may call fn again before that,
\* and though another Start has replaced its cancel function by then.
CancelledRunEnds == \A r \in Runs : r \in cancelled ~> run[r] = "ended"

\* A goroutine that no Stop cancels calls fn again and again, whoever stops the
\* others: one that a second Start has superseded goes on for good.
CalledUntilCancelled ==
    \A r \in Runs : run[r] # "none" ~> (run[r] = "calling" \/ r \in cancelled)
=============================================================================
