------------------------------ MODULE JobQueue ------------------------------
(***************************************************************************)
(* The Redis job queue of one job type (pkg/queue/queue.go) with the       *)
(* worker that drains it (pkg/queue/worker.go) and the dead-letter retries *)
(* an administrator requests (controller/restapi/v1/queue.go).             *)
(*                                                                         *)
(* Every action is one Redis round trip; a pipeline is one round trip.  An *)
(* action takes ok: FALSE when Redis answers with an error, so that each   *)
(* early return and each ignored error of the code is here.  Next only     *)
(* takes ok = TRUE; JobQueueCrash takes both and adds crashes.             *)
(***************************************************************************)
EXTENDS Naturals, Sequences, SequencesExt

CONSTANTS
    Jobs,        \* job ids drawn from the INCR counter, never reused
    NoJob,       \* no job in hand
    Slots,       \* tokens of the worker's semaphore (its concurrency)
    Requeuers,   \* concurrent retry requests
    MaxAttempts  \* Queue.maxAttempts, copied into every job

ASSUME ConstantsAssumption ==
    /\ NoJob \notin Jobs
    /\ MaxAttempts \in Nat \ {0}

VARIABLES
    issued,      \* the ids handed out by Enqueue, in order
    pending,     \* the pending list, next job to pop first
    processing,  \* members of the processing sorted set
    dead,        \* members of the dead-letter sorted set
    record,      \* the job hash: status "none" when the key does not exist
    slot,        \* what the holder of each semaphore token is doing
    retry        \* what each retry request is doing

vars == <<issued, pending, processing, dead, record, slot, retry>>

Statuses == {"none", "pending", "processing", "completed", "dead"}

\* The loop goroutine works from the pop until it has a job it may start.
LoopPcs == {"popped", "loaded", "marked", "claimed", "returning", "returned"}
\* The goroutine that processJob runs in.
GoroutinePcs == {"running", "failing", "retrying", "burying"}

Record == [status : Statuses, attempts : Nat, delayed : BOOLEAN]
Slot == [pc : {"free"} \cup LoopPcs \cup GoroutinePcs,
         job : Jobs \cup {NoJob}, attempts : Nat, delayed : BOOLEAN]
Retry == [pc : {"idle", "loaded", "saved"},
          job : Jobs \cup {NoJob}, todo : SUBSET Jobs]

NoRecord == [status |-> "none", attempts |-> 0, delayed |-> FALSE]
FreeSlot == [pc |-> "free", job |-> NoJob, attempts |-> 0, delayed |-> FALSE]
NoRetry  == [pc |-> "idle", job |-> NoJob, todo |-> {}]

Init ==
    /\ issued = <<>>
    /\ pending = <<>>
    /\ processing = {}
    /\ dead = {}
    /\ record = [j \in Jobs |-> NoRecord]
    /\ slot = [s \in Slots |-> FreeSlot]
    /\ retry = [r \in Requeuers |-> NoRetry]

-----------------------------------------------------------------------------
(* Redis primitives and their failures                                     *)

\* Mutant: a retried job is saved as failed, a status nothing reads.
SaveJob_Failed(j, status, attempts, delayed) ==
    record' = [record EXCEPT ![j] =
                 [status |-> IF delayed THEN "failed" ELSE status,
                  attempts |-> attempts, delayed |-> delayed]]

\* saveJob: the whole hash is overwritten with the caller's copy.
SaveJob(j, status, attempts, delayed) ==
    record' = [record EXCEPT ![j] =
                 [status |-> status, attempts |-> attempts, delayed |-> delayed]]

\* Mutant: RPUSH, a stack instead of a queue.
LPush_Right(j) == pending' = <<j>> \o pending

LPush(j) == pending' = Append(pending, j)

Goto(s, pc) == slot' = [slot EXCEPT ![s].pc = pc]
Release(s)  == slot' = [slot EXCEPT ![s] = FreeSlot]

LoopBusy == \E s \in Slots : slot[s].pc \in LoopPcs

-----------------------------------------------------------------------------
(* Producers                                                               *)

\* The id is fresh; the hash and the list entry are written in one pipeline.
Enqueue(j) ==
    /\ j \notin ToSet(issued)
    /\ issued' = Append(issued, j)
    /\ SaveJob(j, "pending", 0, FALSE)
    /\ LPush(j)
    /\ UNCHANGED <<processing, dead, slot, retry>>

-----------------------------------------------------------------------------
(* The worker loop: take a token, dequeue, start the job or put it back    *)

\* A tick that finds the list empty gives the token back.
IdleTick ==
    /\ ~LoopBusy
    /\ pending = <<>>
    /\ UNCHANGED vars

\* Mutant: the id is read and left in the list.
Pop_Peek(s) ==
    /\ ~LoopBusy
    /\ slot[s].pc = "free"
    /\ pending # <<>>
    /\ slot' = [slot EXCEPT ![s] = [FreeSlot EXCEPT !.pc = "popped",
                                                    !.job = Head(pending)]]
    /\ UNCHANGED <<issued, pending, processing, dead, record, retry>>

\* Dequeue: LMOVE to the _temp list and LREM from it.  Nothing ever reads
\* the _temp list, so only the removal from pending is kept.
Pop(s) ==
    /\ ~LoopBusy
    /\ slot[s].pc = "free"
    /\ pending # <<>>
    /\ slot' = [slot EXCEPT ![s] = [FreeSlot EXCEPT !.pc = "popped",
                                                    !.job = Head(pending)]]
    /\ pending' = Tail(pending)
    /\ UNCHANGED <<issued, processing, dead, record, retry>>

\* Dequeue: loadJob.  A missing hash or an error drops the popped id.
Load(s, ok) ==
    /\ slot[s].pc = "popped"
    /\ LET rec == record[slot[s].job] IN
       IF ok /\ rec.status # "none"
       THEN slot' = [slot EXCEPT ![s] =
                       [pc |-> "loaded", job |-> slot[s].job,
                        attempts |-> rec.attempts, delayed |-> rec.delayed]]
       ELSE Release(s)
    /\ UNCHANGED <<issued, pending, processing, dead, record, retry>>

\* Dequeue: saveJob with status processing.  An error drops the popped id.
Mark(s, ok) ==
    /\ slot[s].pc = "loaded"
    /\ IF ok
       THEN /\ SaveJob(slot[s].job, "processing", slot[s].attempts, slot[s].delayed)
            /\ Goto(s, "marked")
       ELSE Release(s) /\ UNCHANGED record
    /\ UNCHANGED <<issued, pending, processing, dead, retry>>

\* Mutant: the error of the ZADD queues the job again and it still starts.
Claim_ErrorRequeues(s, ok) ==
    /\ slot[s].pc = "marked"
    /\ IF ok THEN processing' = processing \cup {slot[s].job} /\ UNCHANGED pending
             ELSE LPush(slot[s].job) /\ UNCHANGED processing
    /\ Goto(s, "claimed")
    /\ UNCHANGED <<issued, dead, record, retry>>

\* Dequeue: ZADD processing; its error is not looked at.
Claim(s, ok) ==
    /\ slot[s].pc = "marked"
    /\ processing' = IF ok THEN processing \cup {slot[s].job} ELSE processing
    /\ Goto(s, "claimed")
    /\ UNCHANGED <<issued, pending, dead, record, retry>>

\* NextRunAt has passed: hand the job to a goroutine; the loop is free again.
Start(s) ==
    /\ slot[s].pc = "claimed"
    /\ ~slot[s].delayed
    /\ Goto(s, "running")
    /\ UNCHANGED <<issued, pending, processing, dead, record, retry>>

\* NextRunAt is ahead: saveJob with status pending; its error is ignored.
PutBackSave(s, ok) ==
    /\ slot[s].pc = "claimed"
    /\ slot[s].delayed
    /\ IF ok THEN SaveJob(slot[s].job, "pending", slot[s].attempts, TRUE)
             ELSE UNCHANGED record
    /\ Goto(s, "returning")
    /\ UNCHANGED <<issued, pending, processing, dead, retry>>

\* LPUSH before the ZREM; its error is ignored.
PutBackPush(s, ok) ==
    /\ slot[s].pc = "returning"
    /\ IF ok THEN LPush(slot[s].job) ELSE UNCHANGED pending
    /\ Goto(s, "returned")
    /\ UNCHANGED <<issued, processing, dead, record, retry>>

\* ZREM, and the token is given back.
PutBackRemove(s, ok) ==
    /\ slot[s].pc = "returned"
    /\ processing' = IF ok THEN processing \ {slot[s].job} ELSE processing
    /\ Release(s)
    /\ UNCHANGED <<issued, pending, dead, record, retry>>

\* The clock passes NextRunAt of every copy of the job.
BackoffElapses(j) ==
    /\ \/ record[j].delayed
       \/ \E s \in Slots : slot[s].job = j /\ slot[s].delayed
    /\ record' = [record EXCEPT ![j].delayed = FALSE]
    /\ slot' = [s \in Slots |-> IF slot[s].job = j
                                THEN [slot[s] EXCEPT !.delayed = FALSE]
                                ELSE slot[s]]
    /\ UNCHANGED <<issued, pending, processing, dead, retry>>

-----------------------------------------------------------------------------
(* The goroutine: processJob, then Complete or Fail                        *)

\* process returned nil: Complete writes the hash and leaves the processing
\* set in one pipeline, whose error is only logged.
Succeed(s, ok) ==
    /\ slot[s].pc = "running"
    /\ IF ok
       THEN /\ SaveJob(slot[s].job, "completed", slot[s].attempts, slot[s].delayed)
            /\ processing' = processing \ {slot[s].job}
       ELSE UNCHANGED <<record, processing>>
    /\ Release(s)
    /\ UNCHANGED <<issued, pending, dead, retry>>

\* Mutant: the attempt is not counted.
FailRemove_NoCount(s, ok) ==
    /\ slot[s].pc = "running"
    /\ processing' = IF ok THEN processing \ {slot[s].job} ELSE processing
    /\ Goto(s, "failing")
    /\ UNCHANGED <<issued, pending, dead, record, retry>>

\* process returned an error: Fail counts the attempt in its copy and leaves
\* the processing set; the error of the ZREM is ignored.
FailRemove(s, ok) ==
    /\ slot[s].pc = "running"
    /\ processing' = IF ok THEN processing \ {slot[s].job} ELSE processing
    /\ slot' = [slot EXCEPT ![s].pc = "failing", ![s].attempts = @ + 1]
    /\ UNCHANGED <<issued, pending, dead, record, retry>>

\* Fail: saveJob as dead on the last attempt, as pending with a backoff
\* before it.  An error ends Fail here.
FailSave(s, ok) ==
    /\ slot[s].pc = "failing"
    /\ \/ /\ ok
          /\ slot[s].attempts >= MaxAttempts
          /\ SaveJob(slot[s].job, "dead", slot[s].attempts, FALSE)
          /\ Goto(s, "burying")
       \/ /\ ok
          /\ ~(slot[s].attempts >= MaxAttempts)
          /\ SaveJob(slot[s].job, "pending", slot[s].attempts, TRUE)
          /\ Goto(s, "retrying")
       \/ ~ok /\ Release(s) /\ UNCHANGED record
    /\ UNCHANGED <<issued, pending, processing, dead, retry>>

\* Mutant: the job to try again is not pushed.
FailPush_Forgets(s, ok) ==
    /\ slot[s].pc = "retrying"
    /\ Release(s)
    /\ UNCHANGED <<issued, pending, processing, dead, record, retry>>

\* Fail: LPUSH of the job that will be tried again; its error is ignored.
FailPush(s, ok) ==
    /\ slot[s].pc = "retrying"
    /\ IF ok THEN LPush(slot[s].job) ELSE UNCHANGED pending
    /\ Release(s)
    /\ UNCHANGED <<issued, processing, dead, record, retry>>

\* Fail: ZADD to the dead-letter set; an error is returned and logged.
FailBury(s, ok) ==
    /\ slot[s].pc = "burying"
    /\ dead' = IF ok THEN dead \cup {slot[s].job} ELSE dead
    /\ Release(s)
    /\ UNCHANGED <<issued, pending, processing, record, retry>>

-----------------------------------------------------------------------------
(* Dead-letter retries, one request per r                                  *)

\* The request is done with its job and goes on to the ids left.
NextOf(r) ==
    retry' = [retry EXCEPT ![r] =
                [pc |-> "idle", job |-> NoJob, todo |-> retry[r].todo]]

\* RetryDeadJob names one job; RetryDeadJobs walks a snapshot of the
\* dead-letter set.  Both hand the ids to RequeueDead one after the other.
RetryRequest(r) ==
    /\ retry[r] = NoRetry
    /\ \E ids \in {{j} : j \in ToSet(issued)} \cup {dead} :
          /\ ids # {}
          /\ retry' = [retry EXCEPT ![r].todo = ids]
    /\ UNCHANGED <<issued, pending, processing, dead, record, slot>>

\* Mutant: the status is not checked.
RequeueLoad_AnyStatus(r, ok) ==
    /\ retry[r].pc = "idle"
    /\ \E j \in retry[r].todo :
          retry' = [retry EXCEPT
              ![r] = [pc |-> "loaded", job |-> j, todo |-> @.todo \ {j}]]
    /\ UNCHANGED <<issued, pending, processing, dead, record, slot>>

\* RequeueDead: loadJob and the check of its status; a job that is missing
\* or not dead is skipped.
RequeueLoad(r, ok) ==
    /\ retry[r].pc = "idle"
    /\ \E j \in retry[r].todo :
         \/ /\ ok /\ record[j].status = "dead"
            /\ retry' = [retry EXCEPT ![r] =
                 [pc |-> "loaded", job |-> j, todo |-> retry[r].todo \ {j}]]
         \/ /\ ~ok \/ record[j].status # "dead"
            /\ retry' = [retry EXCEPT ![r] =
                 [pc |-> "idle", job |-> NoJob, todo |-> retry[r].todo \ {j}]]
    /\ UNCHANGED <<issued, pending, processing, dead, record, slot>>

\* Mutant: a retried job keeps its attempts.
RequeueSave_KeepsAttempts(r, ok) ==
    /\ retry[r].pc = "loaded"
    /\ SaveJob(retry[r].job, "pending", record[retry[r].job].attempts, FALSE)
    /\ retry' = [retry EXCEPT ![r].pc = "saved"]
    /\ UNCHANGED <<issued, pending, processing, dead, slot>>

\* RequeueDead: saveJob as pending with its attempts forgotten; an error
\* ends the request for this job.
RequeueSave(r, ok) ==
    /\ retry[r].pc = "loaded"
    /\ IF ok
       THEN /\ SaveJob(retry[r].job, "pending", 0, FALSE)
            /\ retry' = [retry EXCEPT ![r] =
                 [pc |-> "saved", job |-> retry[r].job, todo |-> retry[r].todo]]
       ELSE NextOf(r) /\ UNCHANGED record
    /\ UNCHANGED <<issued, pending, processing, dead, slot>>

\* RequeueDead: ZREM from the dead-letter set and LPUSH in one pipeline.
RequeuePush(r, ok) ==
    /\ retry[r].pc = "saved"
    /\ IF ok THEN LPush(retry[r].job) /\ dead' = dead \ {retry[r].job}
             ELSE UNCHANGED <<pending, dead>>
    /\ NextOf(r)
    /\ UNCHANGED <<issued, processing, record, slot>>

-----------------------------------------------------------------------------
(* The time to live of the job hash                                        *)

InHand(j) == \/ \E s \in Slots : slot[s].job = j
             \/ \E r \in Requeuers : retry[r].job = j

\* One hour after completion and seven days after death the hash is gone; no
\* handler holds a copy of a job for that long.
Expire(j) ==
    /\ record[j].status \in {"completed", "dead"}
    /\ ~InHand(j)
    /\ record' = [record EXCEPT ![j] = NoRecord]
    /\ UNCHANGED <<issued, pending, processing, dead, slot, retry>>

\* Mutant: the members whose hash exists are the ones removed.
CleanStale_Inverted ==
    LET live == {j \in Jobs : record[j].status = "none"} IN
    /\ ~(processing \subseteq live /\ dead \subseteq live)
    /\ processing' = processing \cap live
    /\ dead' = dead \cap live
    /\ UNCHANGED <<issued, pending, record, slot, retry>>

\* cleanStaleSortedSetMembers, called by every listing and by the statistics.
CleanStale ==
    LET live == {j \in Jobs : record[j].status # "none"} IN
    /\ ~(processing \subseteq live /\ dead \subseteq live)
    /\ processing' = processing \cap live
    /\ dead' = dead \cap live
    /\ UNCHANGED <<issued, pending, record, slot, retry>>

-----------------------------------------------------------------------------
LoopStep(s, ok) ==
    \/ Load(s, ok) \/ Mark(s, ok) \/ Claim(s, ok)
    \/ PutBackSave(s, ok) \/ PutBackPush(s, ok) \/ PutBackRemove(s, ok)

GoroutineStep(s, ok) ==
    \/ Succeed(s, ok) \/ FailRemove(s, ok) \/ FailSave(s, ok)
    \/ FailPush(s, ok) \/ FailBury(s, ok)

RequeueStep(r, ok) ==
    RequeueLoad(r, ok) \/ RequeueSave(r, ok) \/ RequeuePush(r, ok)

\* Every round trip that Redis may refuse.
RedisStep(ok) ==
    \/ \E s \in Slots : LoopStep(s, ok) \/ GoroutineStep(s, ok)
    \/ \E r \in Requeuers : RequeueStep(r, ok)

\* The steps that have no error to handle.
LocalStep ==
    \/ \E j \in Jobs : Enqueue(j) \/ BackoffElapses(j) \/ Expire(j)
    \/ IdleTick \/ CleanStale
    \/ \E s \in Slots : Pop(s) \/ Start(s)
    \/ \E r \in Requeuers : RetryRequest(r)

Next == LocalStep \/ RedisStep(TRUE)

Spec == Init /\ [][Next]_vars

\* The ticker keeps firing, every goroutine and request handler runs to its
\* end, and time passes.
Fairness ==
    /\ WF_vars(\E s \in Slots : Pop(s))
    /\ \A s \in Slots : WF_vars(LoopStep(s, TRUE) \/ Start(s))
    /\ \A s \in Slots : WF_vars(GoroutineStep(s, TRUE))
    /\ \A r \in Requeuers : WF_vars(RequeueStep(r, TRUE))
    /\ \A j \in Jobs : WF_vars(BackoffElapses(j))

FairSpec == Spec /\ Fairness

-----------------------------------------------------------------------------
(* Properties                                                              *)

\* Types of the Redis structures, of the hashes and of the copies in memory.
TypeOK ==
    /\ issued \in Seq(Jobs)
    /\ pending \in Seq(Jobs)
    /\ processing \subseteq Jobs
    /\ dead \subseteq Jobs
    /\ record \in [Jobs -> Record]
    /\ slot \in [Slots -> Slot]
    /\ retry \in [Requeuers -> Retry]
    /\ \A s \in Slots : slot[s].pc # "free" => slot[s].job \in Jobs
    /\ \A r \in Requeuers : retry[r].pc # "idle" => retry[r].job \in Jobs

\* The token's holder is the one responsible for its job: it has popped the
\* id and has not yet put it back, finished it or saved it as dead.
Holds(s) == slot[s].pc \notin {"free", "returned", "burying"}

QueuedOnce ==
    \A i, k \in DOMAIN pending : pending[i] = pending[k] => i = k
HeldOnce ==
    \A s, t \in Slots :
        Holds(s) /\ Holds(t) /\ slot[s].job = slot[t].job => s = t
HeldNotQueued ==
    \A s \in Slots : Holds(s) => slot[s].job \notin ToSet(pending)

\* A job is in one place at a time: it is queued once or worked on by one
\* goroutine, never both.  Dequeue, Fail, the worker's put-back and
\* RequeueDead each pass it on over several round trips.
SingleHolder == QueuedOnce /\ HeldOnce /\ HeldNotQueued

Owned(j) == \/ j \in ToSet(pending)
            \/ \E s \in Slots : Holds(s) /\ slot[s].job = j

\* Nobody will queue, run or overwrite a job that is finished, nor one that a
\* retry request has loaded as dead and is about to queue.
AtRest ==
    /\ \A j \in Jobs : record[j].status \in {"completed", "dead"} => ~Owned(j)
    /\ \A r \in Requeuers : retry[r].pc # "idle" => ~Owned(retry[r].job)

\* A job whose hash says pending or processing can still be reached: it is
\* queued, or someone holds it and has yet to queue or finish it.  No
\* hand-over over several round trips drops it.
UnfinishedIsReachable ==
    \A j \in Jobs : record[j].status \in {"pending", "processing"} =>
        \/ j \in ToSet(pending)
        \/ \E s \in Slots : Holds(s) /\ slot[s].job = j
        \/ \E r \in Requeuers : retry[r].pc = "saved" /\ retry[r].job = j

\* A job whose hash says dead is in the dead-letter set, where bulk retries
\* look, unless Fail is about to add it.
DeadIsListed ==
    \A j \in Jobs : record[j].status = "dead" =>
        j \in dead \/ \E s \in Slots : slot[s].pc = "burying" /\ slot[s].job = j

\* No run of a job starts after MaxAttempts failed ones, and a job is dead
\* exactly when it has used them all.
AttemptsBounded ==
    /\ \A j \in Jobs : record[j].attempts <= MaxAttempts
    /\ \A j \in Jobs : record[j].status \in {"none", "dead"} \/ record[j].attempts < MaxAttempts
    /\ \A j \in Jobs : record[j].status = "dead" => record[j].attempts = MaxAttempts
    /\ \A s \in Slots : slot[s].pc = "running" => slot[s].attempts < MaxAttempts

\* No request queues a dead job again.
NoRetries == \A r \in Requeuers : retry[r].pc = "idle"

FirstRunsInOrder ==
    \A i, k \in DOMAIN issued :
        LET j == issued[i]
            m == issued[k]
        IN  (/\ i < k
             /\ record[j].attempts = 0 /\ record[m].attempts = 0
             /\ j \in ToSet(pending))
            => \E p, q \in DOMAIN pending : p < q /\ pending[p] = j /\ pending[q] = m

\* A job that has not failed yet is popped before those that were enqueued
\* after it, which is what the poller counts on when it enqueues the oldest
\* release first and the differ looks for its predecessor.  A retry by hand
\* makes an old job new again, so this is about behaviours without one.
FirstRunsAreFIFO == []NoRetries => []FirstRunsInOrder

\* What the contract calls a status of the job hash; the hash of a job that
\* was enqueued is only missing once it has expired.
StateName == [none |-> "gone", pending |-> "waiting", processing |-> "running",
              completed |-> "done", dead |-> "dead"]

\* The record of each job behaves as the contract's state machine.
ContractState ==
    [j \in Jobs |-> IF j \in ToSet(issued) THEN StateName[record[j].status] ELSE "absent"]
ContractAttempts == [j \in Jobs |-> record[j].attempts]

Contract == INSTANCE JobContract WITH state <- ContractState,
                                      attempts <- ContractAttempts

\* The queue implements the contract: no stale copy of a job that a handler
\* still holds ever overwrites a newer record.
ImplementsContract == Contract!Spec

\* Under the fairness of the ticker, the goroutines and the clock every job
\* that waits or runs is completed or dead in the end, whatever it shares
\* the tokens with and however often its backoff sends it back.
EveryJobSettles ==
    \A j \in Jobs : record[j].status \in {"pending", "processing"}
                     ~> record[j].status \notin {"pending", "processing"}
=============================================================================
