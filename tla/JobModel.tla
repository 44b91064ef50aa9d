------------------------------ MODULE JobModel ------------------------------
(***************************************************************************)
(* The job and execution records of internal/model, with the predicates    *)
(* the services use as guards, and the retry rule of internal/scheduler.   *)
(* Only the fields that some guard reads are kept: the status and the      *)
(* retry counter of a job, the attempt number and the status of an         *)
(* execution.  "none" is the status of a job the store does not hold.      *)
(*                                                                         *)
(* Here and in the other modules, a definition whose name has an           *)
(* underscore is a deliberately wrong variant of the next definition; it   *)
(* is used by no specification, only to confirm that a property notices.   *)
(***************************************************************************)
EXTENDS Integers

JobStatus == {"pending", "scheduled", "running", "succeeded", "failed",
              "retrying", "cancelled"}

Job == [status : JobStatus \cup {"none"}, retry : Nat]

ExecutionStatus == {"running", "succeeded", "failed"}

\* What CreateJob stores for a validated input.
NewJob == [status |-> "pending", retry |-> 0]

Missing == [status |-> "none", retry |-> 0]

CanSchedule(job) == job.status \in {"pending", "retrying"}

CanCancel(job) == job.status \in {"pending", "scheduled", "retrying"}

CanRetry_Finished(job) == job.status \in {"failed", "retrying", "succeeded"}
CanRetry(job) == job.status \in {"failed", "retrying"}

IsTerminal(job) == job.status \in {"succeeded", "failed", "cancelled"}

\* scheduler.CanRetry: is there an automatic retry left after a failure?
RetryLeft_Inclusive(retry, maxRetries) == retry <= maxRetries
RetryLeft(retry, maxRetries) == retry < maxRetries

AfterFailure_CountsDown(retry, maxRetries) ==
    IF RetryLeft(retry, maxRetries)
    THEN [status |-> "retrying", retry |-> retry - 1]
    ELSE [status |-> "failed", retry |-> retry]
AfterFailure_NoStatus(retry, maxRetries) ==
    IF RetryLeft(retry, maxRetries)
    THEN [status |-> "running", retry |-> retry + 1]
    ELSE [status |-> "failed", retry |-> retry]

\* What finishFailed stores after a failed execution of a job whose snapshot
\* has this retry counter: scheduler.MarkRetrying, or failed.
AfterFailure(retry, maxRetries) ==
    IF RetryLeft(retry, maxRetries)
    THEN [status |-> "retrying", retry |-> retry + 1]
    ELSE [status |-> "failed", retry |-> retry]

\* The counters that finishFailed increments.
FailureCounters_NoRuntime(retry, maxRetries) ==
    {IF RetryLeft(retry, maxRetries) THEN "retried" ELSE "failed"}
FailureCounters(retry, maxRetries) ==
    {"executionCount",
     IF RetryLeft(retry, maxRetries) THEN "retried" ELSE "failed"}
=============================================================================
