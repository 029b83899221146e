------------------------------ MODULE BullJob ------------------------------
(***************************************************************************)
(* One BullMQ job, as libs/queue and the worker use it (the library itself *)
(* is not part of the repository).  A job waits, is handed to one worker   *)
(* under a lock, and leaves the active state in one of three ways: the     *)
(* lock holder reports success, the lock holder reports failure, or the    *)
(* lock expires and the stalled-job check takes the job back.              *)
(* The operators map the job's record to its next value.                   *)
(***************************************************************************)
EXTENDS Naturals

CONSTANTS
  MaxAttempts,       \* defaultJobOptions.attempts (3 in queue.module.ts)
  MaxStalledCount,   \* how often a stalled job is handed out again (BullMQ: 1)
  NoWorker           \* the lock of a job nobody holds

ASSUME JobLimits == MaxAttempts \in Nat \ {0} /\ MaxStalledCount \in Nat

JobState == {"waiting", "active", "delayed", "completed", "failed"}

Job(Holder) == [state : JobState, lock : Holder \union {NoWorker},
                attemptsMade : 0 .. MaxAttempts,
                stalled : 0 .. MaxStalledCount + 1]

AddedJob ==
  [state |-> "waiting", lock |-> NoWorker, attemptsMade |-> 0, stalled |-> 0]

Acquired(j, w) == [j EXCEPT !.state = "active", !.lock = w]

Completed(j) == [j EXCEPT !.state = "completed", !.lock = NoWorker]

\* A failed attempt is retried after a backoff, until the attempts are used up.
Rejected(j) ==
  [j EXCEPT !.state = IF j.attemptsMade + 1 < MaxAttempts
                      THEN "delayed" ELSE "failed",
            !.lock = NoWorker, !.attemptsMade = @ + 1]

\* The backoff is over.
Promoted(j) == [j EXCEPT !.state = "waiting"]

\* A stalled job goes back to the queue without using up an attempt; a job
\* that stalls too often fails without the processor being called again.
Stalled(j) ==
  [j EXCEPT !.state = IF j.stalled + 1 > MaxStalledCount
                      THEN "failed" ELSE "waiting",
            !.lock = NoWorker, !.stalled = @ + 1]
=============================================================================
