---------------------------- MODULE JobQueueCrash ----------------------------
(***************************************************************************)
(* JobQueue under the failures the code has answers for: the server dies   *)
(* between any two round trips and restarts with RecoverStuckJobs          *)
(* (pkg/queue/queue.go, called once from app/deps.go), Redis refuses a     *)
(* command, and the hash of an unfinished job outlives its 24 hours.       *)
(***************************************************************************)
EXTENDS JobQueue

CONSTANTS
    MaxCrashes,  \* bound on crashes
    MaxFaults    \* bound on refused commands and expired unfinished jobs

ASSUME BoundsAssumption == MaxCrashes \in Nat /\ MaxFaults \in Nat

VARIABLES
    recovery,    \* RecoverStuckJobs at work; pc "off" once the server is up
    crashes, faults

crashVars == <<vars, recovery, crashes, faults>>

Recovery == [pc : {"off", "scan", "walk", "loaded", "removed", "saved"},
             todo : SUBSET Jobs, job : Jobs \cup {NoJob},
             attempts : Nat, delayed : BOOLEAN]

ServerUp == [pc |-> "off", todo |-> {}, job |-> NoJob,
             attempts |-> 0, delayed |-> FALSE]

CrashInit == Init /\ recovery = ServerUp /\ crashes = 0 /\ faults = 0

-----------------------------------------------------------------------------
\* Everything in memory is gone; what is in Redis stays as it is.  A shutdown
\* ends the same way: cancelling the workers' context makes the next Redis
\* command of every goroutine fail.
Crash ==
    /\ crashes < MaxCrashes
    /\ crashes' = crashes + 1
    /\ slot' = [s \in Slots |-> FreeSlot]
    /\ retry' = [r \in Requeuers |-> NoRetry]
    /\ recovery' = [ServerUp EXCEPT !.pc = "scan"]
    /\ UNCHANGED <<issued, pending, processing, dead, record, faults>>

\* The members of the processing set that are older than the lock timeout:
\* any of them may be, depending on how long the server was down.  An error
\* is logged and the server comes up without recovery.
RecoverScan(ok) ==
    /\ recovery.pc = "scan"
    /\ IF ok THEN \E stuck \in SUBSET processing :
                    recovery' = [recovery EXCEPT !.pc = "walk", !.todo = stuck]
             ELSE recovery' = ServerUp
    /\ UNCHANGED vars

\* loadJob of the next stuck id; if that fails the id stays where it is.
RecoverLoad(ok) ==
    /\ recovery.pc = "walk"
    /\ \E j \in recovery.todo :
         LET rest == recovery.todo \ {j} IN
         recovery' = IF ok /\ record[j].status # "none"
                     THEN [pc |-> "loaded", todo |-> rest, job |-> j,
                           attempts |-> record[j].attempts,
                           delayed |-> record[j].delayed]
                     ELSE [recovery EXCEPT !.todo = rest]
    /\ UNCHANGED vars

\* Mutant: the id is lost between two steps.
RecoverRemove_NoJob(ok) ==
    /\ recovery.pc = "loaded"
    /\ processing' = processing \ {recovery.job}
    /\ recovery' = [recovery EXCEPT !.pc = "removed", !.job = NoJob]
    /\ UNCHANGED <<issued, pending, dead, record, slot, retry>>

RecoverRemove(ok) ==
    /\ recovery.pc = "loaded"
    /\ processing' = IF ok THEN processing \ {recovery.job} ELSE processing
    /\ recovery' = [recovery EXCEPT !.pc = "removed"]
    /\ UNCHANGED <<issued, pending, dead, record, slot, retry>>

UsedUp == recovery.attempts >= MaxAttempts

\* The attempts are not counted: a job that crashes the server is tried again
\* as if it had never run.  The error of saveJob is ignored.
RecoverSave(ok) ==
    /\ recovery.pc = "removed"
    /\ IF ok THEN SaveJob(recovery.job, IF UsedUp THEN "dead" ELSE "pending",
                          recovery.attempts, recovery.delayed)
             ELSE UNCHANGED record
    /\ recovery' = [recovery EXCEPT !.pc = "saved"]
    /\ UNCHANGED <<issued, pending, processing, dead, slot, retry>>

\* Mutant: a recovered job is not pushed.
RecoverPush_Forgets(ok) ==
    /\ recovery.pc = "saved"
    /\ dead' = IF ok /\ UsedUp THEN dead \cup {recovery.job} ELSE dead
    /\ recovery' = [ServerUp EXCEPT !.pc = "walk", !.todo = recovery.todo]
    /\ UNCHANGED <<issued, pending, processing, record, slot, retry>>

\* ZADD to the dead-letter set or LPUSH; the error is ignored.
RecoverPush(ok) ==
    /\ recovery.pc = "saved"
    /\ dead' = IF ok /\ UsedUp THEN dead \cup {recovery.job} ELSE dead
    /\ IF ok /\ ~UsedUp THEN LPush(recovery.job) ELSE UNCHANGED pending
    /\ recovery' = [ServerUp EXCEPT !.pc = "walk", !.todo = recovery.todo]
    /\ UNCHANGED <<issued, processing, record, slot, retry>>

\* The poller, the workers and the HTTP server start after the recovery.
RecoverDone ==
    /\ recovery.pc = "walk"
    /\ recovery.todo = {}
    /\ recovery' = ServerUp
    /\ UNCHANGED vars

RecoverStep(ok) ==
    \/ RecoverScan(ok) \/ RecoverLoad(ok) \/ RecoverRemove(ok)
    \/ RecoverSave(ok) \/ RecoverPush(ok)

\* A job that waits, or is stuck, for more than 24 hours loses its hash; its
\* id stays in the list or the set.
ExpireUnfinished(j) ==
    /\ record[j].status \in {"pending", "processing"}
    /\ ~InHand(j)
    /\ record' = [record EXCEPT ![j] = NoRecord]
    /\ UNCHANGED <<issued, pending, processing, dead, slot, retry, recovery>>

-----------------------------------------------------------------------------
ServerStep == recovery.pc = "off" /\ Next /\ UNCHANGED recovery

Fault ==
    /\ faults < MaxFaults
    /\ faults' = faults + 1
    /\ \/ recovery.pc = "off" /\ RedisStep(FALSE) /\ UNCHANGED recovery
       \/ RecoverStep(FALSE)
       \/ \E j \in Jobs : ExpireUnfinished(j)
    /\ UNCHANGED crashes

CrashNext ==
    \/ (ServerStep \/ RecoverStep(TRUE) \/ RecoverDone) /\ UNCHANGED <<crashes, faults>>
    \/ Fault
    \/ Crash

CrashSpec == CrashInit /\ [][CrashNext]_crashVars

-----------------------------------------------------------------------------
(* Properties                                                              *)

\* The same, with the recovery and its bounds.
RecoveryTypeOK ==
    /\ TypeOK
    /\ recovery \in Recovery
    /\ recovery.pc \in {"loaded", "removed", "saved"} => recovery.job \in Jobs
    /\ crashes \in 0..MaxCrashes
    /\ faults \in 0..MaxFaults

Unfinished(j) == record[j].status \in {"pending", "processing"}

\* Queued, in the processing set where a later start may find it, or in the
\* hands of a goroutine, a retry request or the recovery.
Reachable(j) ==
    \/ j \in ToSet(pending) \cup processing
    \/ \E s \in Slots : Holds(s) /\ slot[s].job = j
    \/ \E r \in Requeuers : retry[r].pc = "saved" /\ retry[r].job = j
    \/ recovery.pc # "off" /\ recovery.job = j

\* In neither the list nor the processing set, only in memory.  A job that is being
\* put back is still in the processing set, unless a second copy of it, which an
\* earlier crash left behind, has removed it.
InWindow(j) ==
    \/ \E s \in Slots : slot[s].job = j
         /\ \/ slot[s].pc \in {"popped", "loaded", "marked", "failing", "retrying"}
            \/ slot[s].pc = "returning" /\ crashes > 0
    \/ \E r \in Requeuers : retry[r].pc = "saved" /\ retry[r].job = j
    \/ recovery.pc \in {"removed", "saved"} /\ recovery.job = j

\* Redis errors and expired hashes may drop a job, but until a crash they never
\* put it in two places or let it run past its attempts: every early return of
\* the code leaves the job with at most one holder.
FaultsNeverDuplicate == crashes = 0 => SingleHolder /\ AttemptsBounded

\* As long as Redis answers, an unfinished job is dropped by nothing but a
\* crash, and by a crash only in the windows between leaving one Redis
\* structure and entering the next.
DropsOnlyInWindows ==
    faults' = 0 => \A j \in Jobs :
        Unfinished(j) /\ Reachable(j) /\ Unfinished(j)' /\ ~Reachable(j)'
        => crashes' > crashes /\ InWindow(j)
LostOnlyInWindows == [][DropsOnlyInWindows]_crashVars
=============================================================================
