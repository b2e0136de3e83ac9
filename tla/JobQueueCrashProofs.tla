------------------------- MODULE JobQueueCrashProofs -------------------------
(***************************************************************************)
(* Theorems about the queue under crashes, restarts, refused commands and  *)
(* expired hashes (JobQueueCrash), for every set of jobs, every            *)
(* concurrency, every limit of attempts and every number of failures.      *)
(***************************************************************************)
EXTENDS JobQueueCrash, JobQueueProofs

-----------------------------------------------------------------------------
(* Type correctness                                                        *)

\* Every step of the server keeps the types, whether Redis answers or not.
LEMMA ServerTypeOK ==
    ASSUME TypeOK, NEW ok \in BOOLEAN, LocalStep \/ RedisStep(ok)
    PROVE  TypeOK'
<1>1. CASE LocalStep  BY <1>1, LocalStepTypeOK
<1>2. ASSUME NEW s \in Slots, LoopStep(s, ok) \/ GoroutineStep(s, ok) PROVE TypeOK'
  BY <1>2, WorkerTypeOK
<1>3. ASSUME NEW r \in Requeuers, RequeueStep(r, ok) PROVE TypeOK'
  BY <1>3, RequeueTypeOK
<1> QED  BY <1>1, <1>2, <1>3 DEF RedisStep

\* What the recovery has in hand, and what it has still to do.
RecoveryOK ==
    /\ recovery \in Recovery
    /\ recovery.pc \in {"loaded", "removed", "saved"} => recovery.job \in Jobs

\* RecoverStuckJobs, step by step.
LEMMA RecoverTypeOK ==
    ASSUME TypeOK, RecoveryOK, NEW ok \in BOOLEAN, RecoverStep(ok) \/ RecoverDone
    PROVE  TypeOK' /\ RecoveryOK'
<1> USE DEF RecoveryOK, Recovery, ServerUp
<1>1. CASE RecoverScan(ok)
  <2>1. processing \subseteq Jobs /\ UNCHANGED vars  BY <1>1 DEF RecoverScan, TypeOK
  <2>2. CASE recovery' = ServerUp  BY <2>1, <2>2 DEF TypeOK, vars
  <2>3. ASSUME NEW stuck \in SUBSET Jobs,
               recovery' = [recovery EXCEPT !.pc = "walk", !.todo = stuck]
        PROVE  TypeOK' /\ RecoveryOK'
    <3>1. RecoveryOK'  BY <2>3
    <3> QED  BY <2>1, <3>1 DEF TypeOK, vars
  <2> QED  BY <1>1, <2>1, <2>2, <2>3 DEF RecoverScan
<1>2. CASE RecoverLoad(ok)
  <2>1. PICK j \in recovery.todo :
           \/ recovery' = [pc |-> "loaded", todo |-> recovery.todo \ {j}, job |-> j,
                           attempts |-> record[j].attempts, delayed |-> record[j].delayed]
           \/ recovery' = [recovery EXCEPT !.todo = recovery.todo \ {j}]
    BY <1>2 DEF RecoverLoad
  <2>2. j \in Jobs /\ record[j] \in Record  BY DEF TypeOK
  <2>3. RecoveryOK'  BY <2>1, <2>2 DEF Record
  <2> QED  BY <1>2, <2>3 DEF RecoverLoad, TypeOK, vars
<1>3. CASE RecoverRemove(ok)
  <2>1. RecoveryOK'  BY <1>3 DEF RecoverRemove
  <2> QED  BY <1>3, <2>1 DEF RecoverRemove, TypeOK
<1>4. CASE RecoverSave(ok)
  <2>1. RecoveryOK'  BY <1>4 DEF RecoverSave
  <2>2. record' \in [Jobs -> Record]
    <3>1. CASE UsedUp
      BY <1>4, <3>1, SaveJobType DEF RecoverSave, TypeOK, Statuses
    <3>2. CASE ~UsedUp
      BY <1>4, <3>2, SaveJobType DEF RecoverSave, TypeOK, Statuses
    <3> QED  BY <3>1, <3>2
  <2> QED  BY <1>4, <2>1, <2>2 DEF RecoverSave, TypeOK
<1>5. CASE RecoverPush(ok)
  <2>1. RecoveryOK'  BY <1>5 DEF RecoverPush
  <2>2. recovery.job \in Jobs /\ Append(pending, recovery.job) \in Seq(Jobs)
    BY <1>5 DEF RecoverPush, TypeOK
  <2> QED  BY <1>5, <2>1, <2>2 DEF RecoverPush, LPush, TypeOK
<1>6. CASE RecoverDone
  <2>1. RecoveryOK'  BY <1>6 DEF RecoverDone
  <2> QED  BY <1>6, <2>1 DEF RecoverDone, TypeOK, vars
<1> QED  BY <1>1, <1>2, <1>3, <1>4, <1>5, <1>6 DEF RecoverStep

\* A crash forgets what was in memory and nothing else.
LEMMA CrashTypeOK == TypeOK /\ Crash => TypeOK' /\ RecoveryOK'
<1> SUFFICES ASSUME TypeOK, Crash PROVE TypeOK' /\ RecoveryOK'
  OBVIOUS
<1>1. RecoveryOK'  BY DEF Crash, RecoveryOK, Recovery, ServerUp
<1>2. FreeSlot \in Slot /\ NoRetry \in Retry  BY DEF FreeSlot, NoRetry, Slot, Retry
<1>3. slot' \in [Slots -> Slot] /\ retry' \in [Requeuers -> Retry]  BY <1>2 DEF Crash
<1>4. /\ \A s \in Slots : slot'[s].pc = "free"
      /\ \A r \in Requeuers : retry'[r].pc = "idle"
  BY DEF Crash, FreeSlot, NoRetry
<1> QED  BY <1>1, <1>3, <1>4 DEF TypeOK, Crash

LEMMA ExpireTypeOK ==
    ASSUME TypeOK, NEW j \in Jobs, ExpireUnfinished(j)
    PROVE  TypeOK'
BY DEF TypeOK, ExpireUnfinished, Record, NoRecord, Statuses

LEMMA CrashNextTypeOK == RecoveryTypeOK /\ [CrashNext]_crashVars => RecoveryTypeOK'
<1> SUFFICES ASSUME RecoveryTypeOK, [CrashNext]_crashVars PROVE RecoveryTypeOK'
  OBVIOUS
<1>1. TypeOK /\ RecoveryOK /\ crashes \in 0..MaxCrashes /\ faults \in 0..MaxFaults
  BY DEF RecoveryTypeOK, RecoveryOK
<1>2. TypeOK' /\ RecoveryOK'
  <2>1. CASE ServerStep
    BY <1>1, <2>1, ServerTypeOK DEF ServerStep, Next, RecoveryOK
  <2>2. CASE RecoverStep(TRUE) \/ RecoverDone  BY <1>1, <2>2, RecoverTypeOK
  <2>3. CASE RecoverStep(FALSE)  BY <1>1, <2>3, RecoverTypeOK
  <2>4. CASE RedisStep(FALSE) /\ UNCHANGED recovery
    BY <1>1, <2>4, ServerTypeOK DEF RecoveryOK
  <2>5. ASSUME NEW j \in Jobs, ExpireUnfinished(j) PROVE TypeOK' /\ RecoveryOK'
    BY <1>1, <2>5, ExpireTypeOK DEF ExpireUnfinished, RecoveryOK
  <2>6. CASE Crash  BY <1>1, <2>6, CrashTypeOK
  <2>7. CASE UNCHANGED crashVars
    BY <1>1, <2>7 DEF crashVars, vars, TypeOK, RecoveryOK
  <2> QED  BY <2>1, <2>2, <2>3, <2>4, <2>5, <2>6, <2>7 DEF CrashNext, Fault
<1>3. crashes' \in 0..MaxCrashes /\ faults' \in 0..MaxFaults
  <2>1. CASE UNCHANGED <<crashes, faults>>  BY <1>1, <2>1
  <2>2. CASE Fault  BY <1>1, <2>2, BoundsAssumption DEF Fault
  <2>3. CASE Crash  BY <1>1, <2>3, BoundsAssumption DEF Crash
  <2> QED  BY <2>1, <2>2, <2>3 DEF CrashNext, crashVars
<1> QED  BY <1>2, <1>3 DEF RecoveryTypeOK, RecoveryOK

\* Redis, the copies in memory and the recovery keep their types through every
\* crash, restart, refused command and expired hash, and the recovery has a job in
\* hand from loading it until it has queued or buried it.
THEOREM CrashTypeCorrect == CrashSpec => []RecoveryTypeOK
<1>1. CrashInit => RecoveryTypeOK
  <2> SUFFICES ASSUME CrashInit PROVE RecoveryTypeOK
    OBVIOUS
  <2>1. TypeOK  BY InitTypeOK DEF CrashInit
  <2> QED
    BY <2>1, BoundsAssumption DEF CrashInit, RecoveryTypeOK, Recovery, ServerUp
<1> QED  BY <1>1, CrashNextTypeOK, PTL DEF CrashSpec

-----------------------------------------------------------------------------
(* Until the first crash: one holder, and no run past the limit            *)

\* The attempts a hash may show, and those a holder's copy may.
WithinLimit(rec) ==
    /\ rec.attempts <= MaxAttempts
    /\ rec.status \notin {"none", "dead"} => rec.attempts < MaxAttempts
    /\ rec.status = "dead" => rec.attempts = MaxAttempts

CopyWithin(c) ==
    /\ c.pc \in {"loaded", "marked", "claimed", "returning", "running"} =>
         c.attempts < MaxAttempts
    /\ c.pc = "failing" => c.attempts <= MaxAttempts

\* AttemptsBounded is not inductive: a copy past the limit would be saved.
LimitInv ==
    /\ \A j \in Jobs : WithinLimit(record[j])
    /\ \A s \in Slots : CopyWithin(slot[s])

\* What a worker's command, answered or refused, writes to the hash of its job and
\* to its copy.
LEMMA WorkerLimits ==
    ASSUME HolderInv, LimitInv, NEW ok \in BOOLEAN, NEW s \in Slots,
           LoopStep(s, ok) \/ GoroutineStep(s, ok)
    PROVE  LimitInv'
<1>1. TypeOK  BY DEF HolderInv
<1>2. slot[s].pc # "free"
  BY DEF LoopStep, Load, Mark, Claim, PutBackSave, PutBackPush, PutBackRemove,
         GoroutineStep, Succeed, FailRemove, FailSave, FailPush, FailBury
<1>3. PICK k \in Jobs : slot[s].job = k  BY <1>1, <1>2 DEF TypeOK
<1>4. /\ record \in [Jobs -> Record] /\ slot \in [Slots -> Slot]
      /\ slot[s].attempts \in Nat /\ record[k].attempts \in Nat /\ MaxAttempts \in Nat \ {0}
  BY <1>1, ConstantsAssumption DEF TypeOK, Slot, Record
<1>5. WithinLimit(record[k]) /\ CopyWithin(slot[s])  BY DEF LimitInv
<1>6. ASSUME \A j \in Jobs : j # k => record'[j] = record[j], WithinLimit(record'[k]),
             \A t \in Slots : t # s => slot'[t] = slot[t], CopyWithin(slot'[s])
      PROVE  LimitInv'
  BY <1>5, <1>6 DEF LimitInv
<1> DEFINE Wrote(status, n) == /\ record'[k].status = status /\ record'[k].attempts = n
                               /\ \A j \in Jobs : j # k => record'[j] = record[j]
           At(pc, n) == /\ slot'[s].pc = pc /\ slot'[s].attempts = n
                        /\ \A t \in Slots : t # s => slot'[t] = slot[t]
<1>7. ASSUME NEW status, NEW n, NEW d, SaveJob(k, status, n, d) PROVE Wrote(status, n)
  BY <1>4, <1>7 DEF SaveJob
<1>8. ASSUME NEW pc, Goto(s, pc) PROVE At(pc, slot[s].attempts)
  BY <1>4, <1>8 DEF Goto, Slot
<1>9. Release(s) => At("free", 0)  BY <1>4 DEF Release, FreeSlot
<1>10. ASSUME NEW pc \in {"free", "returned", "retrying", "burying"}, NEW n, At(pc, n),
              UNCHANGED record
       PROVE  LimitInv'
  BY <1>5, <1>6, <1>10 DEF CopyWithin
<1>11. CASE Load(s, ok)
  <2>1. UNCHANGED record  BY <1>11 DEF Load
  <2>2. CASE Release(s)  BY <1>9, <1>10, <2>1, <2>2
  <2>3. CASE ~Release(s)
    <3>1. /\ record[k].status # "none"
          /\ slot' = [slot EXCEPT ![s] = [pc |-> "loaded", job |-> k,
                                           attempts |-> record[k].attempts,
                                           delayed |-> record[k].delayed]]
      BY <1>3, <1>11, <2>3 DEF Load
    <3>2. At("loaded", record[k].attempts)  BY <1>4, <3>1
    <3>3. Owned(k)  BY <1>3, <1>11 DEF Load, Owned, Holds
    <3>4. record[k].status # "dead"  BY <3>3 DEF HolderInv, AtRest
    <3>5. record[k].attempts < MaxAttempts  BY <1>5, <3>1, <3>4 DEF WithinLimit
    <3> QED  BY <1>5, <1>6, <2>1, <3>2, <3>5 DEF CopyWithin
  <2> QED  BY <2>2, <2>3
<1>12. CASE Mark(s, ok)
  <2>1. CASE /\ SaveJob(k, "processing", slot[s].attempts, slot[s].delayed)
             /\ Goto(s, "marked")
    <3>1. Wrote("processing", slot[s].attempts)  BY <1>7, <2>1
    <3>2. At("marked", slot[s].attempts)  BY <1>8, <2>1
    <3>3. slot[s].attempts < MaxAttempts  BY <1>5, <1>12 DEF Mark, CopyWithin
    <3> QED  BY <1>4, <1>6, <3>1, <3>2, <3>3 DEF WithinLimit, CopyWithin
  <2>2. CASE Release(s) /\ UNCHANGED record  BY <1>9, <1>10, <2>2
  <2> QED  BY <1>3, <1>12, <2>1, <2>2 DEF Mark
<1>13. CASE Claim(s, ok)
  <2>1. UNCHANGED record /\ At("claimed", slot[s].attempts)  BY <1>8, <1>13 DEF Claim
  <2>2. slot[s].attempts < MaxAttempts  BY <1>5, <1>13 DEF Claim, CopyWithin
  <2> QED  BY <1>5, <1>6, <2>1, <2>2 DEF CopyWithin
<1>14. CASE PutBackSave(s, ok)
  <2>1. At("returning", slot[s].attempts)  BY <1>8, <1>14 DEF PutBackSave
  <2>2. slot[s].attempts < MaxAttempts  BY <1>5, <1>14 DEF PutBackSave, CopyWithin
  <2>3. CASE SaveJob(k, "pending", slot[s].attempts, TRUE)
    <3>1. Wrote("pending", slot[s].attempts)  BY <1>7, <2>3
    <3> QED  BY <1>4, <1>6, <2>1, <2>2, <3>1 DEF WithinLimit, CopyWithin
  <2>4. CASE UNCHANGED record  BY <1>5, <1>6, <2>1, <2>2, <2>4 DEF CopyWithin
  <2> QED  BY <1>3, <1>14, <2>3, <2>4 DEF PutBackSave
<1>15. CASE PutBackPush(s, ok)
  BY <1>8, <1>10, <1>15 DEF PutBackPush
<1>16. CASE PutBackRemove(s, ok)
  BY <1>9, <1>10, <1>16 DEF PutBackRemove
<1>17. CASE Succeed(s, ok)
  <2>1. At("free", 0)  BY <1>9, <1>17 DEF Succeed
  <2>2. CASE SaveJob(k, "completed", slot[s].attempts, slot[s].delayed)
    <3>1. Wrote("completed", slot[s].attempts)  BY <1>7, <2>2
    <3>2. slot[s].attempts < MaxAttempts  BY <1>5, <1>17 DEF Succeed, CopyWithin
    <3> QED  BY <1>4, <1>6, <2>1, <3>1, <3>2 DEF WithinLimit, CopyWithin
  <2>3. CASE UNCHANGED record  BY <1>10, <2>1, <2>3
  <2> QED  BY <1>3, <1>17, <2>2, <2>3 DEF Succeed
<1>18. CASE FailRemove(s, ok)
  <2>1. UNCHANGED record /\ At("failing", slot[s].attempts + 1)
    BY <1>4, <1>18 DEF FailRemove, Slot
  <2>2. slot[s].attempts + 1 <= MaxAttempts
    BY <1>4, <1>5, <1>18 DEF FailRemove, CopyWithin
  <2> QED  BY <1>5, <1>6, <2>1, <2>2 DEF CopyWithin
<1>19. CASE FailSave(s, ok)
  <2>1. slot[s].attempts <= MaxAttempts  BY <1>5, <1>19 DEF FailSave, CopyWithin
  <2>2. CASE /\ slot[s].attempts >= MaxAttempts
             /\ SaveJob(k, "dead", slot[s].attempts, FALSE) /\ Goto(s, "burying")
    <3>1. Wrote("dead", slot[s].attempts)  BY <1>7, <2>2
    <3>2. At("burying", slot[s].attempts)  BY <1>8, <2>2
    <3>3. slot[s].attempts = MaxAttempts  BY <1>4, <2>1, <2>2
    <3> QED  BY <1>4, <1>6, <3>1, <3>2, <3>3 DEF WithinLimit, CopyWithin
  <2>3. CASE /\ ~(slot[s].attempts >= MaxAttempts)
             /\ SaveJob(k, "pending", slot[s].attempts, TRUE) /\ Goto(s, "retrying")
    <3>1. Wrote("pending", slot[s].attempts)  BY <1>7, <2>3
    <3>2. At("retrying", slot[s].attempts)  BY <1>8, <2>3
    <3>3. slot[s].attempts < MaxAttempts  BY <1>4, <2>3
    <3> QED  BY <1>4, <1>6, <3>1, <3>2, <3>3 DEF WithinLimit, CopyWithin
  <2>4. CASE Release(s) /\ UNCHANGED record  BY <1>9, <1>10, <2>4
  <2> QED  BY <1>3, <1>19, <2>2, <2>3, <2>4 DEF FailSave
<1>20. CASE FailPush(s, ok)  BY <1>9, <1>10, <1>20 DEF FailPush
<1>21. CASE FailBury(s, ok)  BY <1>9, <1>10, <1>21 DEF FailBury
<1> QED
  BY <1>11, <1>12, <1>13, <1>14, <1>15, <1>16, <1>17, <1>18, <1>19, <1>20, <1>21
  DEF LoopStep, GoroutineStep

\* The steps of the producers, the loop, the clock and the listings.
LEMMA LocalLimits ==
    ASSUME HolderInv, LimitInv, LocalStep
    PROVE  LimitInv'
<1>1. TypeOK /\ MaxAttempts \in Nat \ {0}  BY ConstantsAssumption DEF HolderInv
<1>2. ASSUME NEW j \in Jobs, Enqueue(j) PROVE LimitInv'
  <2>1. UNCHANGED slot /\ record'[j].status = "pending" /\ record'[j].attempts = 0
        /\ \A k \in Jobs : k # j => record'[k] = record[k]
    BY <1>1, <1>2 DEF Enqueue, SaveJob, TypeOK
  <2> QED  BY <1>1, <2>1 DEF LimitInv, WithinLimit
<1>3. ASSUME NEW j \in Jobs, BackoffElapses(j) PROVE LimitInv'
  <2>1. \A k \in Jobs : record'[k].status = record[k].status
                         /\ record'[k].attempts = record[k].attempts
    BY <1>1, <1>3 DEF BackoffElapses, TypeOK, Record
  <2>2. \A s \in Slots : slot'[s].pc = slot[s].pc /\ slot'[s].attempts = slot[s].attempts
    BY <1>1, <1>3 DEF BackoffElapses, TypeOK, Slot
  <2> QED  BY <2>1, <2>2 DEF LimitInv, WithinLimit, CopyWithin
<1>4. ASSUME NEW j \in Jobs, record' = [record EXCEPT ![j] = NoRecord], UNCHANGED slot
      PROVE  LimitInv'
  <2>1. record'[j] = NoRecord /\ \A k \in Jobs : k # j => record'[k] = record[k]
    BY <1>1, <1>4 DEF TypeOK
  <2> QED  BY <1>1, <1>4, <2>1 DEF LimitInv, WithinLimit, NoRecord
<1>5. ASSUME UNCHANGED <<record, slot>> PROVE LimitInv'  BY <1>5 DEF LimitInv
<1>6. ASSUME NEW s \in Slots, Pop(s) PROVE LimitInv'
  <2>1. UNCHANGED record /\ slot'[s].pc = "popped"
        /\ \A t \in Slots : t # s => slot'[t] = slot[t]
    BY <1>1, <1>6 DEF Pop, TypeOK, FreeSlot
  <2> QED  BY <2>1 DEF LimitInv, CopyWithin
<1>7. ASSUME NEW s \in Slots, Start(s) PROVE LimitInv'
  <2>1. UNCHANGED record /\ slot[s].pc = "claimed" /\ slot'[s].pc = "running"
        /\ slot'[s].attempts = slot[s].attempts
        /\ \A t \in Slots : t # s => slot'[t] = slot[t]
    BY <1>1, <1>7 DEF Start, Goto, TypeOK, Slot
  <2> QED  BY <2>1 DEF LimitInv, CopyWithin
<1>8. ASSUME NEW j \in Jobs, Expire(j) PROVE LimitInv'  BY <1>4, <1>8 DEF Expire
<1>9. ASSUME NEW r \in Requeuers, RetryRequest(r) PROVE LimitInv'
  BY <1>5, <1>9 DEF RetryRequest
<1> QED
  BY <1>2, <1>3, <1>5, <1>6, <1>7, <1>8, <1>9 DEF LocalStep, IdleTick, CleanStale, vars

\* A retry by hand starts over at zero.
LEMMA RequeueLimits ==
    ASSUME HolderInv, LimitInv, NEW ok \in BOOLEAN, NEW r \in Requeuers, RequeueStep(r, ok)
    PROVE  LimitInv'
<1>1. TypeOK /\ MaxAttempts \in Nat \ {0}  BY ConstantsAssumption DEF HolderInv
<1>2. UNCHANGED slot  BY DEF RequeueStep, RequeueLoad, RequeueSave, RequeuePush
<1>3. CASE UNCHANGED record  BY <1>2, <1>3 DEF LimitInv
<1>4. CASE RequeueSave(r, ok) /\ SaveJob(retry[r].job, "pending", 0, FALSE)
  <2>1. PICK k \in Jobs : retry[r].job = k  BY <1>1, <1>4 DEF RequeueSave, TypeOK
  <2>2. record'[k].status = "pending" /\ record'[k].attempts = 0
        /\ \A j \in Jobs : j # k => record'[j] = record[j]
    BY <1>1, <1>4, <2>1 DEF SaveJob, TypeOK
  <2> QED  BY <1>1, <1>2, <2>2 DEF LimitInv, WithinLimit
<1> QED  BY <1>3, <1>4 DEF RequeueStep, RequeueLoad, RequeueSave, RequeuePush

\* The hash of a job nobody has in hand runs out: a job that is gone owns no place it
\* did not own.
LEMMA ExpireHolder ==
    ASSUME HolderInv, LimitInv, NEW j \in Jobs, ExpireUnfinished(j)
    PROVE  HolderInv' /\ LimitInv'
<1>1. TypeOK /\ TypeOK'  BY ExpireTypeOK DEF HolderInv
<1>2. UNCHANGED <<issued, pending, slot, retry>>  BY DEF ExpireUnfinished
<1>3. record'[j] = NoRecord /\ \A k \in Jobs : k # j => record'[k] = record[k]
  BY <1>1 DEF ExpireUnfinished, TypeOK
<1>4. \A k \in Jobs : record'[k].status \in {record[k].status, "none"}
  BY <1>3 DEF NoRecord
<1>5. SingleHolder'
  BY <1>2 DEF HolderInv, SingleHolder, QueuedOnce, HeldOnce, HeldNotQueued, Holds
<1>6. AtRest'  BY <1>2, <1>4 DEF HolderInv, AtRest, Owned, Holds
<1>7. KnownIds'  BY <1>2, <1>4 DEF HolderInv, KnownIds
<1>8. SavedIsPending'  BY <1>1, <1>2, <1>4 DEF HolderInv, TypeOK, SavedIsPending
<1>9. LimitInv'  BY <1>2, <1>3, ConstantsAssumption DEF LimitInv, WithinLimit, NoRecord
<1> QED  BY <1>1, <1>5, <1>6, <1>7, <1>8, <1>9 DEF HolderInv

\* Without a crash there has been no recovery, which does not ask who holds a job.
NoCrashInv == crashes = 0 => recovery = ServerUp /\ HolderInv /\ LimitInv

LEMMA CrashNextNoCrash ==
    ASSUME OneRequeuer
    PROVE  RecoveryTypeOK /\ NoCrashInv /\ [CrashNext]_crashVars => NoCrashInv'
<1> SUFFICES ASSUME RecoveryTypeOK, NoCrashInv, [CrashNext]_crashVars, crashes' = 0
             PROVE  recovery' = ServerUp /\ HolderInv' /\ LimitInv'
  BY DEF NoCrashInv
<1>1. ~Crash
  <2> SUFFICES ASSUME Crash PROVE FALSE
    OBVIOUS
  <2>1. crashes \in Nat /\ crashes' = crashes + 1
    BY BoundsAssumption DEF RecoveryTypeOK, Crash
  <2> QED  BY <2>1
<1>2. recovery = ServerUp /\ HolderInv /\ LimitInv
  <2>1. crashes' = crashes  BY <1>1 DEF CrashNext, Fault, crashVars
  <2> QED  BY <2>1 DEF NoCrashInv
<1>3. ASSUME NEW ok \in BOOLEAN, RecoverStep(ok) \/ RecoverDone PROVE FALSE
  BY <1>2, <1>3 DEF ServerUp, RecoverStep, RecoverScan, RecoverLoad, RecoverRemove,
                    RecoverSave, RecoverPush, RecoverDone
<1>4. ASSUME NEW ok \in BOOLEAN, LocalStep \/ RedisStep(ok), UNCHANGED recovery
      PROVE  recovery' = ServerUp /\ HolderInv' /\ LimitInv'
  <2>1. CASE LocalStep  BY <1>2, <1>4, <2>1, LocalHolderInv, LocalLimits
  <2>2. ASSUME NEW s \in Slots, LoopStep(s, ok) \/ GoroutineStep(s, ok)
        PROVE  HolderInv' /\ LimitInv'
    BY <1>2, <2>2, WorkerHolderInv, WorkerLimits
  <2>3. ASSUME NEW r \in Requeuers, RequeueStep(r, ok) PROVE HolderInv' /\ LimitInv'
    BY <1>2, <2>3, RequeueHolderInv, RequeueLimits
  <2> QED  BY <1>2, <1>4, <2>1, <2>2, <2>3 DEF RedisStep
<1>5. ASSUME NEW j \in Jobs, ExpireUnfinished(j)
      PROVE  recovery' = ServerUp /\ HolderInv' /\ LimitInv'
  BY <1>2, <1>5, ExpireHolder DEF ExpireUnfinished
<1>6. CASE UNCHANGED crashVars
  <2>1. UNCHANGED vars /\ UNCHANGED recovery  BY <1>6 DEF crashVars
  <2>2. HolderInv'  BY <1>2, <2>1, NextHolderInv
  <2>3. LimitInv'  BY <1>2, <2>1 DEF vars, LimitInv
  <2> QED  BY <1>2, <2>1, <2>2, <2>3
<1>7. CASE ServerStep  BY <1>4, <1>7 DEF ServerStep, Next
<1>8. CASE Fault  BY <1>3, <1>4, <1>5, <1>8 DEF Fault
<1> QED  BY <1>1, <1>3, <1>6, <1>7, <1>8 DEF CrashNext

LEMMA InitLimits == CrashInit => RecoveryTypeOK /\ NoCrashInv
<1> SUFFICES ASSUME CrashInit PROVE RecoveryTypeOK /\ NoCrashInv
  OBVIOUS
<1>1. HolderInv /\ TypeOK  BY InitHolderInv DEF CrashInit, HolderInv
<1>2. LimitInv
  BY ConstantsAssumption DEF CrashInit, Init, LimitInv, WithinLimit, CopyWithin,
                             NoRecord, FreeSlot
<1>3. RecoveryTypeOK
  BY <1>1, BoundsAssumption DEF CrashInit, RecoveryTypeOK, Recovery, ServerUp
<1> QED  BY <1>1, <1>2, <1>3 DEF CrashInit, NoCrashInv

\* Refused commands and expired hashes never put a job in two places and never let it
\* run past its attempts: until the first crash every early return and every ignored
\* error of the code leaves the job with at most one holder, and no copy is saved with
\* more than the attempts that were counted.
THEOREM ErrorsNeverDuplicate ==
    ASSUME OneRequeuer
    PROVE  CrashSpec => []FaultsNeverDuplicate
<1>1. RecoveryTypeOK /\ NoCrashInv => FaultsNeverDuplicate
  BY DEF RecoveryTypeOK, TypeOK, Record, NoCrashInv, FaultsNeverDuplicate, AttemptsBounded,
         LimitInv, WithinLimit, CopyWithin, HolderInv
<1> QED  BY <1>1, InitLimits, CrashNextTypeOK, CrashNextNoCrash, PTL DEF CrashSpec

-----------------------------------------------------------------------------
(* What a crash may lose                                                   *)

\* The job is in Redis, or somebody will put it back there unless a crash comes first.
Somewhere(j) ==
    \/ j \in ToSet(pending) \cup processing
    \/ \E s \in Slots : slot[s].job = j
         /\ slot[s].pc \in {"popped", "loaded", "marked", "returning", "failing", "retrying"}
    \/ \E r \in Requeuers : retry[r].pc = "saved" /\ retry[r].job = j
    \/ recovery.pc \in {"removed", "saved"} /\ recovery.job = j

Tracked(j) == Unfinished(j) /\ Reachable(j) => Somewhere(j)

\* LostOnlyInWindows rests on this: a put-back pushes before it removes; what the recovery
\* has still to walk through is in the processing set; what it has saved as dead stays so
\* until it is listed; and a job that is running or held up is somewhere in Redis.
PlaceInv == faults = 0 =>
    /\ \A j \in Jobs : Tracked(j)
    /\ \A s \in Slots : slot[s].pc = "returned" => slot[s].job \in ToSet(pending)
    /\ \A s \in Slots : slot[s].pc \notin {"free", "popped"} => record[slot[s].job].status # "none"
    /\ recovery.pc \in {"off", "scan"} => recovery.todo = {}
    /\ recovery.pc \in {"off", "scan", "walk"} => recovery.job = NoJob
    /\ recovery.todo \subseteq processing
    /\ recovery.pc = "loaded" => recovery.job \in processing
    /\ recovery.pc \in {"loaded", "removed", "saved"} => recovery.job \notin recovery.todo
    /\ recovery.pc = "saved" /\ UsedUp => record[recovery.job].status = "dead"

\* Without a second copy, a job that is held up stays in the processing set.
HeldUpInv ==
    faults = 0 /\ crashes = 0 =>
        \A s \in Slots : slot[s].pc \in {"claimed", "returning"} => slot[s].job \in processing

\* What a step may do to a job: afterwards it is somewhere, or it is finished, or it was
\* nowhere before the step either.
StaysPut(j) ==
    Unfinished(j)' =>
        \/ Somewhere(j)'
        \/ Unfinished(j) /\ ~Somewhere(j) /\ (Reachable(j)' => Reachable(j))

LEMMA StaysTracked ==
    ASSUME NEW j, Tracked(j), StaysPut(j)
    PROVE  /\ Tracked(j)'
           /\ Unfinished(j) /\ Reachable(j) /\ Unfinished(j)' => Reachable(j)'
<1>1. Somewhere(j)' => Reachable(j)'
  BY DEF Somewhere, Reachable, Holds
<1> QED  BY <1>1 DEF Tracked, StaysPut

\* What a command of the worker that Redis answers does to the job in its slot; it does
\* nothing to any other.
Moves(s, k) ==
    /\ \A t \in Slots : t # s => slot'[t] = slot[t]
    /\ slot'[s].pc # "popped"
    /\ slot'[s].pc # "free" => slot'[s].job = k
    /\ slot'[s].pc = "free" => slot'[s].job = NoJob
    /\ \A j \in Jobs : j # k => record'[j] = record[j]
    /\ \A j : j # k => (j \in ToSet(pending') <=> j \in ToSet(pending))
    /\ \A j : j # k => (j \in processing' <=> j \in processing)
    /\ UNCHANGED <<retry, recovery>>
    /\ k \in ToSet(pending) => k \in ToSet(pending')
    /\ record'[k].status = "none" => record[k].status = "none" /\ slot'[s].pc # "loaded"
    /\ slot'[s].pc \notin {"free", "loaded"} => slot[s].pc \notin {"free", "popped"}
    /\ slot'[s].pc = "returned" => k \in ToSet(pending')
    /\ slot'[s].pc = "claimed" => k \in processing'
    /\ slot'[s].pc = "returning" => slot[s].pc = "claimed" /\ UNCHANGED processing
    /\ k \in processing => k \in processing' \/ slot[s].pc \in {"returned", "running"}
    /\ \/ ~Unfinished(k)'
       \/ k \in ToSet(pending') \cup processing'
       \/ slot'[s].pc \in {"loaded", "marked", "returning", "failing", "retrying"}
       \/ slot[s].pc = "returned"
       \/ slot[s].pc = "burying" /\ UNCHANGED <<pending, processing, record>>
            /\ slot'[s].pc = "free"

LEMMA WorkerMoves ==
    ASSUME TypeOK, UNCHANGED recovery, NEW s \in Slots, NEW k \in Jobs, slot[s].job = k,
           LoopStep(s, TRUE) \/ GoroutineStep(s, TRUE)
    PROVE  Moves(s, k)
<1>1. slot \in [Slots -> Slot] /\ record \in [Jobs -> Record] /\ pending \in Seq(Jobs)
  BY DEF TypeOK
<1>2. ASSUME NEW pc, Goto(s, pc)
      PROVE  /\ \A t \in Slots : t # s => slot'[t] = slot[t]
             /\ slot'[s].pc = pc /\ slot'[s].job = k
  BY <1>1, <1>2 DEF Goto, Slot
<1>3. ASSUME Release(s)
      PROVE  /\ \A t \in Slots : t # s => slot'[t] = slot[t]
             /\ slot'[s].pc = "free" /\ slot'[s].job = NoJob
  BY <1>1, <1>3 DEF Release, FreeSlot
<1>4. ASSUME NEW status, NEW n, NEW d, SaveJob(k, status, n, d)
      PROVE  record'[k].status = status /\ \A j \in Jobs : j # k => record'[j] = record[j]
  BY <1>1, <1>4 DEF SaveJob
<1>5. LPush(k) => ToSet(pending') = ToSet(pending) \cup {k}
  BY <1>1, AppendFacts DEF LPush
<1> USE DEF Moves, Unfinished
<1>6. CASE Load(s, TRUE)
  <2>1. UNCHANGED <<pending, processing, record, retry>>  BY <1>6 DEF Load
  <2>2. CASE record[k].status = "none"
    <3>1. Release(s)  BY <1>6, <2>2 DEF Load
    <3> QED  BY <1>3, <2>1, <2>2, <3>1
  <2>3. CASE record[k].status # "none"
    <3>1. /\ \A t \in Slots : t # s => slot'[t] = slot[t]
          /\ slot'[s].pc = "loaded" /\ slot'[s].job = k
      BY <1>1, <1>6, <2>3 DEF Load
    <3> QED  BY <2>1, <2>3, <3>1
  <2> QED  BY <2>2, <2>3
<1>7. CASE Mark(s, TRUE)  BY <1>2, <1>4, <1>7 DEF Mark
<1>8. CASE Claim(s, TRUE)  BY <1>2, <1>8 DEF Claim
<1>9. CASE PutBackSave(s, TRUE)
  <2>1. /\ record'[k].status = "pending"
        /\ \A j \in Jobs : j # k => record'[j] = record[j]
    BY <1>4, <1>9 DEF PutBackSave
  <2> QED  BY <1>2, <1>9, <2>1 DEF PutBackSave
<1>10. CASE PutBackPush(s, TRUE)  BY <1>2, <1>5, <1>10 DEF PutBackPush
<1>11. CASE PutBackRemove(s, TRUE)  BY <1>3, <1>11 DEF PutBackRemove
<1>12. CASE Succeed(s, TRUE)  BY <1>3, <1>4, <1>12 DEF Succeed
<1>13. CASE FailRemove(s, TRUE)
  <2>1. /\ \A t \in Slots : t # s => slot'[t] = slot[t]
        /\ slot'[s].pc = "failing" /\ slot'[s].job = k
    BY <1>1, <1>13 DEF FailRemove, Slot
  <2> QED  BY <1>13, <2>1 DEF FailRemove
<1>14. CASE FailSave(s, TRUE)
  <2>1. UNCHANGED <<pending, processing, retry>> /\ slot[s].pc = "failing"
    BY <1>14 DEF FailSave
  <2>2. CASE SaveJob(k, "dead", slot[s].attempts, FALSE) /\ Goto(s, "burying")
    <3>1. /\ record'[k].status = "dead"
          /\ \A j \in Jobs : j # k => record'[j] = record[j]
      BY <1>4, <2>2
    <3>2. /\ \A t \in Slots : t # s => slot'[t] = slot[t]
          /\ slot'[s].pc = "burying" /\ slot'[s].job = k
      BY <1>2, <2>2
    <3> QED  BY <2>1, <3>1, <3>2
  <2>3. CASE SaveJob(k, "pending", slot[s].attempts, TRUE) /\ Goto(s, "retrying")
    <3>1. /\ record'[k].status = "pending"
          /\ \A j \in Jobs : j # k => record'[j] = record[j]
      BY <1>4, <2>3
    <3>2. /\ \A t \in Slots : t # s => slot'[t] = slot[t]
          /\ slot'[s].pc = "retrying" /\ slot'[s].job = k
      BY <1>2, <2>3
    <3> QED  BY <2>1, <3>1, <3>2
  <2> QED  BY <1>14, <2>2, <2>3 DEF FailSave
<1>15. CASE FailPush(s, TRUE)  BY <1>3, <1>5, <1>15 DEF FailPush
<1>16. CASE FailBury(s, TRUE)  BY <1>3, <1>16 DEF FailBury
<1> QED
  BY <1>6, <1>7, <1>8, <1>9, <1>10, <1>11, <1>12, <1>13, <1>14, <1>15, <1>16
  DEF LoopStep, GoroutineStep

\* Such a command drops no job, and keeps what the invariants say of the slots.
LEMMA MovesKeep ==
    ASSUME RecoveryTypeOK, RecoveryTypeOK', PlaceInv, NoCrashInv, HeldUpInv, faults = 0,
           faults' = 0, crashes' = crashes, recovery.pc = "off",
           NEW s \in Slots, NEW k \in Jobs, slot[s].job = k, Moves(s, k)
    PROVE  (\A j \in Jobs : StaysPut(j)) /\ PlaceInv' /\ HeldUpInv'
<1>1. /\ \A j \in Jobs : record[j].status \in Statuses
      /\ \A t \in Slots : slot[t].pc # "free" => slot[t].job \in Jobs
  BY DEF RecoveryTypeOK, TypeOK, Record
<1>2. \A j \in Jobs : StaysPut(j)
  <2>1. ASSUME NEW j \in Jobs, j # k PROVE StaysPut(j)
    <3>1. /\ j \in ToSet(pending') \cup processing' <=> j \in ToSet(pending) \cup processing
          /\ record'[j] = record[j] /\ UNCHANGED <<retry, recovery>>
      BY <2>1 DEF Moves
    <3>2. \A t \in Slots : slot'[t].job = j => t # s
      BY <2>1, ConstantsAssumption DEF Moves
    <3>3. \A t \in Slots : slot'[t].job = j => slot'[t] = slot[t]
      BY <3>2 DEF Moves
    <3>4. \A t \in Slots : slot[t].job = j => slot'[t] = slot[t]
      BY <2>1 DEF Moves
    <3>5. Somewhere(j) => Somewhere(j)'  BY <3>1, <3>4 DEF Somewhere
    <3>6. Reachable(j)' => Reachable(j)  BY <3>1, <3>3 DEF Reachable, Holds
    <3> QED  BY <3>1, <3>5, <3>6 DEF StaysPut, Unfinished
  <2>2. StaysPut(k)
    <3>1. CASE k \in ToSet(pending') \cup processing'
      BY <3>1 DEF StaysPut, Somewhere
    <3>2. CASE slot'[s].pc \in {"loaded", "marked", "returning", "failing", "retrying"}
      BY <3>2 DEF StaysPut, Somewhere, Moves
    <3>3. CASE slot[s].pc = "returned"
      <4>1. k \in ToSet(pending')  BY <3>3 DEF PlaceInv, Moves
      <4> QED  BY <4>1 DEF StaysPut, Somewhere
    <3>4. CASE /\ slot[s].pc = "burying" /\ UNCHANGED <<pending, processing, record>>
               /\ slot'[s].pc = "free"
      <4>1. UNCHANGED <<retry, recovery>> /\ \A t \in Slots : t # s => slot'[t] = slot[t]
        BY DEF Moves
      <4>2. Somewhere(k) => Somewhere(k)'  BY <3>4, <4>1 DEF Somewhere
      <4>3. Reachable(k)' => Reachable(k)  BY <3>4, <4>1 DEF Reachable, Holds
      <4> QED  BY <3>4, <4>2, <4>3 DEF StaysPut, Unfinished
    <3>5. CASE ~Unfinished(k)'  BY <3>5 DEF StaysPut
    <3> QED  BY <3>1, <3>2, <3>3, <3>4, <3>5 DEF Moves
  <2> QED  BY <2>1, <2>2
<1>3. PlaceInv'
  <2>1. \A j \in Jobs : Tracked(j)'  BY <1>2, StaysTracked DEF PlaceInv
  <2>2. ASSUME NEW t \in Slots, slot'[t].pc = "returned"
        PROVE  slot'[t].job \in ToSet(pending')
    <3>1. CASE t = s  BY <2>2, <3>1 DEF Moves
    <3>2. CASE t # s
      <4>1. slot'[t] = slot[t] /\ slot[t].job \in ToSet(pending)
        BY <2>2, <3>2 DEF Moves, PlaceInv
      <4> QED  BY <4>1 DEF Moves
    <3> QED  BY <3>1, <3>2
  <2>3. ASSUME NEW t \in Slots, slot'[t].pc \notin {"free", "popped"}
        PROVE  record'[slot'[t].job].status # "none"
    <3>1. CASE t = s
      <4>1. slot'[s].job = k  BY <2>3, <3>1 DEF Moves
      <4>2. CASE slot'[s].pc = "loaded"  BY <3>1, <4>1, <4>2 DEF Moves
      <4>3. CASE slot'[s].pc # "loaded"
        <5>1. record[k].status # "none"  BY <2>3, <3>1, <4>3 DEF Moves, PlaceInv
        <5> QED  BY <3>1, <4>1, <5>1 DEF Moves
      <4> QED  BY <4>2, <4>3
    <3>2. CASE t # s
      <4>1. slot'[t] = slot[t] /\ slot[t].job \in Jobs /\ record[slot[t].job].status # "none"
        BY <1>1, <2>3, <3>2 DEF Moves, PlaceInv
      <4> QED  BY <4>1 DEF Moves
    <3> QED  BY <3>1, <3>2
  <2>4. UNCHANGED recovery /\ recovery.todo = {}  BY DEF Moves, PlaceInv
  <2> QED  BY <2>1, <2>2, <2>3, <2>4 DEF PlaceInv
<1>4. HeldUpInv'
  <2> SUFFICES ASSUME crashes = 0, NEW t \in Slots, slot'[t].pc \in {"claimed", "returning"}
               PROVE  slot'[t].job \in processing'
    BY DEF HeldUpInv
  <2>1. SingleHolder  BY DEF NoCrashInv, HolderInv
  <2>2. CASE t = s  BY <2>2 DEF Moves, HeldUpInv
  <2>3. CASE t # s
    <3>1. slot'[t] = slot[t] /\ slot[t].job \in processing /\ Holds(t)
      BY <2>3 DEF Moves, HeldUpInv, Holds
    <3>2. CASE slot[t].job # k  BY <3>1, <3>2 DEF Moves
    <3>3. CASE slot[t].job = k
      <4>1. slot[s].pc # "returned"
        BY <2>1, <3>1, <3>3 DEF SingleHolder, HeldNotQueued, PlaceInv
      <4>2. slot[s].pc # "running"
        BY <2>1, <2>3, <3>1, <3>3 DEF SingleHolder, HeldOnce, Holds
      <4> QED  BY <3>1, <3>3, <4>1, <4>2 DEF Moves
    <3> QED  BY <3>2, <3>3
  <2> QED  BY <2>2, <2>3
<1> QED  BY <1>2, <1>3, <1>4

\* What the other steps of the server have to show for the same, the recovery being off.
LEMMA KeptUp ==
    ASSUME PlaceInv, UNCHANGED <<recovery, faults>>, faults = 0, recovery.pc = "off",
           \A j \in Jobs : StaysPut(j),
           \A t \in Slots : slot'[t].pc = "returned" => slot'[t].job \in ToSet(pending'),
           \A t \in Slots : slot'[t].pc \notin {"free", "popped"} =>
                record'[slot'[t].job].status # "none"
    PROVE  PlaceInv'
<1>1. \A j \in Jobs : Tracked(j)'  BY StaysTracked DEF PlaceInv
<1> QED  BY <1>1 DEF PlaceInv

LEMMA RequeueMoves ==
    ASSUME RecoveryTypeOK, PlaceInv, HeldUpInv, UNCHANGED <<recovery, faults, crashes>>,
           faults = 0, recovery.pc = "off", NEW r \in Requeuers, RequeueStep(r, TRUE)
    PROVE  (\A j \in Jobs : StaysPut(j)) /\ PlaceInv' /\ HeldUpInv'
<1>1. UNCHANGED <<slot, processing>>
  BY DEF RequeueStep, RequeueLoad, RequeueSave, RequeuePush
<1>2. /\ retry \in [Requeuers -> Retry] /\ record \in [Jobs -> Record]
      /\ pending \in Seq(Jobs)
      /\ \A t \in Slots : slot[t].pc # "free" => slot[t].job \in Jobs
  BY DEF RecoveryTypeOK, TypeOK
<1>3. HeldUpInv'  BY <1>1 DEF HeldUpInv
<1>4. ASSUME NEW k \in Jobs,
             \A j \in Jobs : j # k => record'[j] = record[j],
             \A j : j # k => (j \in ToSet(pending') <=> j \in ToSet(pending)),
             k \in ToSet(pending) => k \in ToSet(pending'),
             record'[k].status = "none" => record[k].status = "none",
             \A q \in Requeuers : q # r => retry'[q] = retry[q],
             retry[r].pc = "saved" => retry[r].job = k,
             retry'[r].pc = "saved" => retry'[r].job = k,
             StaysPut(k)
      PROVE  (\A j \in Jobs : StaysPut(j)) /\ PlaceInv'
  <2>1. ASSUME NEW j \in Jobs, j # k PROVE StaysPut(j)
    <3>1. \A q \in Requeuers : retry[q].pc = "saved" /\ retry[q].job = j =>
               retry'[q].pc = "saved" /\ retry'[q].job = j
      BY <1>4, <2>1
    <3>2. \A q \in Requeuers : retry'[q].pc = "saved" /\ retry'[q].job = j =>
               retry[q].pc = "saved" /\ retry[q].job = j
      BY <1>4, <2>1
    <3>3. Somewhere(j) => Somewhere(j)'  BY <1>1, <1>4, <2>1, <3>1 DEF Somewhere
    <3>4. Reachable(j)' => Reachable(j)  BY <1>1, <1>4, <2>1, <3>2 DEF Reachable, Holds
    <3> QED  BY <1>4, <2>1, <3>3, <3>4 DEF StaysPut, Unfinished
  <2>2. \A j \in Jobs : StaysPut(j)  BY <1>4, <2>1
  <2>3. \A t \in Slots : slot'[t].pc = "returned" => slot'[t].job \in ToSet(pending')
    BY <1>1, <1>4 DEF PlaceInv
  <2>4. \A t \in Slots : slot'[t].pc \notin {"free", "popped"} =>
             record'[slot'[t].job].status # "none"
    BY <1>1, <1>2, <1>4 DEF PlaceInv
  <2> QED  BY <2>2, <2>3, <2>4, KeptUp
<1>5. CASE RequeueLoad(r, TRUE)
  <2>1. UNCHANGED <<record, pending>> /\ retry[r].pc = "idle"  BY <1>5 DEF RequeueLoad
  <2>2. PICK k \in Jobs : TRUE  BY <1>2, <1>5 DEF RequeueLoad, Retry
  <2>3. retry'[r].pc # "saved" /\ \A q \in Requeuers : q # r => retry'[q] = retry[q]
    BY <1>2, <1>5 DEF RequeueLoad
  <2>4. \A q \in Requeuers : retry[q].pc = "saved" => retry'[q] = retry[q]
    BY <2>1, <2>3
  <2>5. \A q \in Requeuers : retry'[q].pc = "saved" => retry'[q] = retry[q]
    BY <2>3
  <2>6. Somewhere(k) => Somewhere(k)'  BY <1>1, <2>1, <2>4 DEF Somewhere
  <2>7. Reachable(k)' => Reachable(k)  BY <1>1, <2>1, <2>5 DEF Reachable, Holds
  <2>8. StaysPut(k)  BY <2>1, <2>6, <2>7 DEF StaysPut, Unfinished
  <2> QED  BY <1>3, <1>4, <2>1, <2>3, <2>8
<1>6. CASE RequeueSave(r, TRUE)
  <2>1. PICK k \in Jobs : retry[r].job = k  BY <1>6 DEF RequeueSave, RecoveryTypeOK, TypeOK
  <2>2. /\ record'[k].status = "pending" /\ \A j \in Jobs : j # k => record'[j] = record[j]
        /\ UNCHANGED pending /\ retry[r].pc = "loaded"
    BY <1>2, <1>6, <2>1 DEF RequeueSave, SaveJob
  <2>3. /\ retry'[r].pc = "saved" /\ retry'[r].job = k
        /\ \A q \in Requeuers : q # r => retry'[q] = retry[q]
    BY <1>2, <1>6, <2>1 DEF RequeueSave
  <2>4. StaysPut(k)  BY <2>3 DEF StaysPut, Somewhere
  <2> QED  BY <1>3, <1>4, <2>2, <2>3, <2>4
<1>7. CASE RequeuePush(r, TRUE)
  <2>1. PICK k \in Jobs : retry[r].job = k  BY <1>7 DEF RequeuePush, RecoveryTypeOK, TypeOK
  <2>2. UNCHANGED record /\ ToSet(pending') = ToSet(pending) \cup {k}
    <3>1. UNCHANGED record /\ pending' = Append(pending, k)
      BY <1>7, <2>1 DEF RequeuePush, LPush
    <3> QED  BY <1>2, <3>1, AppendFacts
  <2>3. retry'[r].pc = "idle" /\ \A q \in Requeuers : q # r => retry'[q] = retry[q]
    BY <1>2, <1>7 DEF RequeuePush, NextOf
  <2>4. StaysPut(k)  BY <2>2 DEF StaysPut, Somewhere
  <2> QED  BY <1>3, <1>4, <2>1, <2>2, <2>3, <2>4
<1> QED  BY <1>5, <1>6, <1>7 DEF RequeueStep

LEMMA LocalMoves ==
    ASSUME RecoveryTypeOK, PlaceInv, HeldUpInv, UNCHANGED <<recovery, faults, crashes>>,
           faults = 0, recovery.pc = "off", LocalStep
    PROVE  (\A j \in Jobs : StaysPut(j)) /\ PlaceInv' /\ HeldUpInv'
<1>1. /\ record \in [Jobs -> Record] /\ slot \in [Slots -> Slot]
      /\ retry \in [Requeuers -> Retry] /\ pending \in Seq(Jobs)
      /\ \A t \in Slots : slot[t].pc # "free" => slot[t].job \in Jobs
  BY DEF RecoveryTypeOK, TypeOK
<1>2. /\ \A t \in Slots : slot[t].pc = "returned" => slot[t].job \in ToSet(pending)
      /\ \A t \in Slots : slot[t].pc \notin {"free", "popped"} =>
              record[slot[t].job].status # "none"
  BY DEF PlaceInv
<1>3. ASSUME NEW j \in Jobs, Enqueue(j)
      PROVE  (\A k \in Jobs : StaysPut(k)) /\ PlaceInv' /\ HeldUpInv'
  <2>1. UNCHANGED <<slot, processing, retry>> /\ pending' = Append(pending, j)
    BY <1>3 DEF Enqueue, LPush
  <2>2. ToSet(pending') = ToSet(pending) \cup {j}  BY <1>1, <2>1, AppendFacts
  <2>3. record'[j].status = "pending" /\ \A k \in Jobs : k # j => record'[k] = record[k]
    BY <1>1, <1>3 DEF Enqueue, SaveJob
  <2>4. ASSUME NEW k \in Jobs PROVE StaysPut(k)
    <3>1. CASE k = j  BY <2>2, <3>1 DEF StaysPut, Somewhere
    <3>2. CASE k # j
      <4>1. Somewhere(k) => Somewhere(k)'  BY <2>1, <2>2 DEF Somewhere
      <4>2. Reachable(k)' => Reachable(k)  BY <2>1, <2>2, <3>2 DEF Reachable, Holds
      <4> QED  BY <2>3, <3>2, <4>1, <4>2 DEF StaysPut, Unfinished
    <3> QED  BY <3>1, <3>2
  <2>5. \A t \in Slots : slot'[t].pc \notin {"free", "popped"} =>
             record'[slot'[t].job].status # "none"
    BY <1>1, <1>2, <2>1, <2>3
  <2>6. PlaceInv'  BY <1>2, <2>1, <2>2, <2>4, <2>5, KeptUp
  <2> QED  BY <2>1, <2>4, <2>6 DEF HeldUpInv
<1>4. ASSUME NEW j \in Jobs, BackoffElapses(j)
      PROVE  (\A k \in Jobs : StaysPut(k)) /\ PlaceInv' /\ HeldUpInv'
  <2>1. UNCHANGED <<pending, processing, retry>>  BY <1>4 DEF BackoffElapses
  <2>2. \A k \in Jobs : record'[k].status = record[k].status
    BY <1>1, <1>4 DEF BackoffElapses, Record
  <2>3. \A t \in Slots : slot'[t].pc = slot[t].pc /\ slot'[t].job = slot[t].job
    BY <1>1, <1>4 DEF BackoffElapses, Slot
  <2>4. ASSUME NEW k \in Jobs PROVE StaysPut(k)
    <3>1. Somewhere(k) => Somewhere(k)'  BY <2>1, <2>3 DEF Somewhere
    <3>2. Reachable(k)' => Reachable(k)  BY <2>1, <2>3 DEF Reachable, Holds
    <3> QED  BY <2>2, <3>1, <3>2 DEF StaysPut, Unfinished
  <2>5. \A t \in Slots : slot'[t].pc \notin {"free", "popped"} =>
             record'[slot'[t].job].status # "none"
    BY <1>1, <1>2, <2>2, <2>3
  <2>6. PlaceInv'  BY <1>2, <2>1, <2>3, <2>4, <2>5, KeptUp
  <2> QED  BY <2>1, <2>3, <2>4, <2>6 DEF HeldUpInv
<1>5. ASSUME NEW j \in Jobs, Expire(j)
      PROVE  (\A k \in Jobs : StaysPut(k)) /\ PlaceInv' /\ HeldUpInv'
  <2>1. UNCHANGED <<pending, processing, slot, retry>> /\ \A t \in Slots : slot[t].job # j
    BY <1>5 DEF Expire, InHand
  <2>2. record'[j].status = "none" /\ \A k \in Jobs : k # j => record'[k] = record[k]
    BY <1>1, <1>5 DEF Expire, NoRecord
  <2>3. ASSUME NEW k \in Jobs PROVE StaysPut(k)
    <3>1. Somewhere(k) => Somewhere(k)'  BY <2>1 DEF Somewhere
    <3>2. Reachable(k)' => Reachable(k)  BY <2>1 DEF Reachable, Holds
    <3> QED  BY <2>2, <3>1, <3>2 DEF StaysPut, Unfinished
  <2>4. \A t \in Slots : slot'[t].pc \notin {"free", "popped"} =>
             record'[slot'[t].job].status # "none"
    BY <1>1, <1>2, <2>1, <2>2
  <2>5. PlaceInv'  BY <1>2, <2>1, <2>3, <2>4, KeptUp
  <2> QED  BY <2>1, <2>3, <2>5 DEF HeldUpInv
<1>6. CASE CleanStale
  <2>1. UNCHANGED <<pending, record, slot, retry>> /\ processing' \subseteq processing
        /\ \A k \in Jobs : record[k].status # "none" /\ k \in processing => k \in processing'
    BY <1>6 DEF CleanStale
  <2>2. ASSUME NEW k \in Jobs PROVE StaysPut(k)
    <3>1. Unfinished(k)' => Unfinished(k) /\ record[k].status # "none"
      BY <2>1 DEF Unfinished
    <3>2. record[k].status # "none" /\ Somewhere(k) => Somewhere(k)'
      BY <2>1 DEF Somewhere
    <3>3. Reachable(k)' => Reachable(k)  BY <2>1 DEF Reachable, Holds
    <3> QED  BY <3>1, <3>2, <3>3 DEF StaysPut
  <2>3. PlaceInv'  BY <1>2, <2>1, <2>2, KeptUp
  <2>4. HeldUpInv'
    <3> SUFFICES ASSUME crashes = 0, NEW t \in Slots, slot[t].pc \in {"claimed", "returning"}
                 PROVE  slot[t].job \in processing'
      BY <2>1 DEF HeldUpInv
    <3> QED  BY <1>1, <1>2, <2>1 DEF HeldUpInv
  <2> QED  BY <2>2, <2>3, <2>4
<1>7. ASSUME NEW s \in Slots, Pop(s)
      PROVE  (\A k \in Jobs : StaysPut(k)) /\ PlaceInv' /\ HeldUpInv'
  <2>1. UNCHANGED <<processing, record, retry>> /\ pending # <<>> /\ pending' = Tail(pending)
        /\ slot[s].pc = "free" /\ \A t \in Slots : slot[t].pc \notin LoopPcs
    BY <1>7 DEF Pop, LoopBusy
  <2>2. slot'[s].pc = "popped" /\ slot'[s].job = Head(pending)
        /\ \A t \in Slots : t # s => slot'[t] = slot[t]
    BY <1>1, <1>7 DEF Pop, FreeSlot
  <2>3. /\ ToSet(pending) \subseteq ToSet(pending') \cup {Head(pending)}
        /\ ToSet(pending') \cup {Head(pending)} \subseteq ToSet(pending)
    BY <1>1, <2>1, TailFacts, PopFacts
  <2>4. ASSUME NEW k \in Jobs PROVE StaysPut(k)
    <3>1. CASE k = Head(pending)  BY <2>2, <3>1 DEF StaysPut, Somewhere
    <3>2. CASE k # Head(pending)
      <4>1. \A t \in Slots : slot'[t].job = k => slot'[t] = slot[t]  BY <2>2, <3>2
      <4>2. \A t \in Slots : slot[t].pc # "free" => slot'[t] = slot[t]  BY <2>1, <2>2
      <4>3. Somewhere(k) => Somewhere(k)'  BY <2>1, <2>3, <3>2, <4>2 DEF Somewhere
      <4>4. Reachable(k)' => Reachable(k)  BY <2>1, <2>3, <4>1 DEF Reachable, Holds
      <4> QED  BY <2>1, <4>3, <4>4 DEF StaysPut, Unfinished
    <3> QED  BY <3>1, <3>2
  <2>5. \A t \in Slots : slot'[t].pc \notin LoopPcs \/ slot'[t].pc = "popped"
    BY <2>1, <2>2
  <2>6. \A t \in Slots : slot'[t].pc \notin {"free", "popped"} =>
             record'[slot'[t].job].status # "none"
    BY <1>2, <2>1, <2>2
  <2>7. PlaceInv'  BY <2>4, <2>5, <2>6, KeptUp DEF LoopPcs
  <2> QED  BY <2>4, <2>5, <2>7 DEF HeldUpInv, LoopPcs
<1>8. ASSUME NEW s \in Slots, Start(s)
      PROVE  (\A k \in Jobs : StaysPut(k)) /\ PlaceInv' /\ HeldUpInv'
  <2>1. UNCHANGED <<pending, processing, record, retry>> /\ slot[s].pc = "claimed"
    BY <1>8 DEF Start
  <2>2. slot'[s].pc = "running" /\ slot'[s].job = slot[s].job
        /\ \A t \in Slots : t # s => slot'[t] = slot[t]
    BY <1>1, <1>8 DEF Start, Goto, Slot
  <2>3. ASSUME NEW k \in Jobs PROVE StaysPut(k)
    <3>1. \A t \in Slots : slot[t].pc # "claimed" => slot'[t] = slot[t]  BY <2>1, <2>2
    <3>2. Somewhere(k) => Somewhere(k)'  BY <2>1, <3>1 DEF Somewhere
    <3>3. \A t \in Slots : slot'[t].job = slot[t].job /\ (Holds(t)' => Holds(t))
      BY <2>1, <2>2 DEF Holds
    <3>4. Reachable(k)' => Reachable(k)  BY <2>1, <3>3 DEF Reachable
    <3> QED  BY <2>1, <3>2, <3>4 DEF StaysPut, Unfinished
  <2>4. \A t \in Slots : slot'[t].pc = "returned" => slot'[t].job \in ToSet(pending')
    BY <1>2, <2>1, <2>2
  <2>5. \A t \in Slots : slot'[t].pc \notin {"free", "popped"} =>
             record'[slot'[t].job].status # "none"
    BY <1>2, <2>1, <2>2
  <2>6. PlaceInv'  BY <2>3, <2>4, <2>5, KeptUp
  <2>7. \A t \in Slots : slot'[t].pc \in {"claimed", "returning"} => slot'[t] = slot[t]
    BY <2>2
  <2> QED  BY <2>1, <2>3, <2>6, <2>7 DEF HeldUpInv
<1>9. ASSUME NEW r \in Requeuers, RetryRequest(r)
      PROVE  (\A k \in Jobs : StaysPut(k)) /\ PlaceInv' /\ HeldUpInv'
  <2>1. UNCHANGED <<pending, processing, record, slot>>  BY <1>9 DEF RetryRequest
  <2>2. \A q \in Requeuers : retry'[q].pc = retry[q].pc /\ retry'[q].job = retry[q].job
    BY <1>1, <1>9 DEF RetryRequest, Retry
  <2>3. ASSUME NEW k \in Jobs PROVE StaysPut(k)
    <3>1. Somewhere(k) => Somewhere(k)'  BY <2>1, <2>2 DEF Somewhere
    <3>2. Reachable(k)' => Reachable(k)  BY <2>1, <2>2 DEF Reachable, Holds
    <3> QED  BY <2>1, <3>1, <3>2 DEF StaysPut, Unfinished
  <2>4. PlaceInv'  BY <1>2, <2>1, <2>3, KeptUp
  <2> QED  BY <2>1, <2>3, <2>4 DEF HeldUpInv
<1>10. CASE IdleTick
  <2>1. UNCHANGED <<pending, processing, record, slot, retry>>  BY <1>10 DEF IdleTick, vars
  <2>2. ASSUME NEW k \in Jobs PROVE StaysPut(k)
    <3>1. Somewhere(k) => Somewhere(k)'  BY <2>1 DEF Somewhere
    <3>2. Reachable(k)' => Reachable(k)  BY <2>1 DEF Reachable, Holds
    <3> QED  BY <2>1, <3>1, <3>2 DEF StaysPut, Unfinished
  <2>3. PlaceInv'  BY <1>2, <2>1, <2>2, KeptUp
  <2> QED  BY <2>1, <2>2, <2>3 DEF HeldUpInv
<1> QED  BY <1>3, <1>4, <1>5, <1>6, <1>7, <1>8, <1>9, <1>10 DEF LocalStep

\* The recovery takes an id out of the processing set only with the id in its hands, and
\* forgets it only when the job is queued again or dead.
LEMMA RecoverMoves ==
    ASSUME RecoveryTypeOK, PlaceInv, UNCHANGED faults, faults = 0,
           RecoverStep(TRUE) \/ RecoverDone
    PROVE  (\A j \in Jobs : StaysPut(j)) /\ PlaceInv'
<1>1. /\ record \in [Jobs -> Record] /\ pending \in Seq(Jobs) /\ recovery \in Recovery
      /\ \A t \in Slots : slot[t].pc # "free" => slot[t].job \in Jobs
      /\ recovery.pc \in {"loaded", "removed", "saved"} => recovery.job \in Jobs
  BY DEF RecoveryTypeOK, TypeOK
<1>2. /\ \A t \in Slots : slot[t].pc = "returned" => slot[t].job \in ToSet(pending)
      /\ \A t \in Slots : slot[t].pc \notin {"free", "popped"} =>
              record[slot[t].job].status # "none"
      /\ recovery.todo \subseteq processing
      /\ recovery.pc \in {"off", "scan", "walk"} => recovery.job = NoJob
  BY DEF PlaceInv
<1>3. UNCHANGED <<slot, retry>>
  BY DEF RecoverStep, RecoverScan, RecoverLoad, RecoverRemove, RecoverSave, RecoverPush,
         RecoverDone, vars
<1>4. ASSUME UNCHANGED vars, recovery.pc \in {"off", "scan", "walk"},
             recovery'.todo \subseteq processing,
             recovery'.pc \in {"off", "scan"} => recovery'.todo = {},
             \/ recovery'.pc \in {"off", "scan", "walk"} /\ recovery'.job = NoJob
             \/ /\ recovery'.pc = "loaded" /\ recovery'.job \in processing
                /\ recovery'.job \notin recovery'.todo
      PROVE  (\A j \in Jobs : StaysPut(j)) /\ PlaceInv'
  <2>1. UNCHANGED <<pending, processing, record, slot, retry>>  BY <1>4 DEF vars
  <2>2. ASSUME NEW j \in Jobs PROVE StaysPut(j)
    <3>1. Somewhere(j) => Somewhere(j)'  BY <1>4, <2>1 DEF Somewhere
    <3>2. Reachable(j)' => Reachable(j)
      BY <1>4, <2>1, ConstantsAssumption DEF Reachable, Holds
    <3> QED  BY <2>1, <3>1, <3>2 DEF StaysPut, Unfinished
  <2>3. \A j \in Jobs : Tracked(j)'  BY <2>2, StaysTracked DEF PlaceInv
  <2> QED  BY <1>2, <1>4, <2>1, <2>2, <2>3 DEF PlaceInv
<1>5. CASE RecoverScan(TRUE)
  BY <1>1, <1>2, <1>4, <1>5 DEF RecoverScan, Recovery
<1>6. CASE RecoverLoad(TRUE)
  BY <1>1, <1>2, <1>4, <1>6 DEF RecoverLoad, Recovery
<1>7. CASE RecoverDone
  BY <1>1, <1>2, <1>4, <1>7 DEF RecoverDone, ServerUp
<1>8. ASSUME NEW k \in Jobs, k = recovery.job, k \notin recovery.todo,
             recovery.pc \in {"loaded", "removed", "saved"},
             recovery'.todo = recovery.todo,
             \A j \in Jobs : j # k => record'[j] = record[j],
             \A j : j # k => (j \in ToSet(pending') <=> j \in ToSet(pending)),
             \A j : j # k => (j \in processing' <=> j \in processing),
             k \in ToSet(pending) => k \in ToSet(pending'),
             record'[k].status = "none" => record[k].status = "none",
             \/ recovery'.pc \in {"removed", "saved"} /\ recovery'.job = k
             \/ /\ recovery'.pc = "walk" /\ recovery'.job = NoJob
                /\ ~Unfinished(k)' \/ k \in ToSet(pending'),
             recovery'.pc = "saved" /\ UsedUp' => record'[k].status = "dead"
      PROVE  (\A j \in Jobs : StaysPut(j)) /\ PlaceInv'
  <2>1. StaysPut(k)  BY <1>8 DEF StaysPut, Somewhere
  <2>2. ASSUME NEW j \in Jobs, j # k PROVE StaysPut(j)
    <3>1. recovery'.job # j /\ recovery.job # j  BY <1>8, <2>2, ConstantsAssumption
    <3>2. Somewhere(j) => Somewhere(j)'  BY <1>3, <1>8, <2>2, <3>1 DEF Somewhere
    <3>3. Reachable(j)' => Reachable(j)  BY <1>3, <1>8, <2>2, <3>1 DEF Reachable, Holds
    <3> QED  BY <1>8, <2>2, <3>2, <3>3 DEF StaysPut, Unfinished
  <2>3. \A j \in Jobs : StaysPut(j)  BY <2>1, <2>2
  <2>4. \A j \in Jobs : Tracked(j)'  BY <2>3, StaysTracked DEF PlaceInv
  <2>5. \A t \in Slots : slot'[t].pc = "returned" => slot'[t].job \in ToSet(pending')
    BY <1>2, <1>3, <1>8
  <2>6. \A t \in Slots : slot'[t].pc \notin {"free", "popped"} =>
             record'[slot'[t].job].status # "none"
    BY <1>1, <1>2, <1>3, <1>8
  <2>7. recovery'.todo \subseteq processing'  BY <1>2, <1>8
  <2>8. recovery'.pc \in {"removed", "saved"} => recovery'.job \notin recovery'.todo
    BY <1>8
  <2> QED  BY <1>8, <2>3, <2>4, <2>5, <2>6, <2>7, <2>8 DEF PlaceInv
<1>9. ASSUME recovery.pc \in {"loaded", "removed", "saved"}
      PROVE  recovery.job \in Jobs /\ recovery.job \notin recovery.todo
  BY <1>1, <1>9 DEF PlaceInv
<1>10. CASE RecoverRemove(TRUE)
  <2>1. PICK k \in Jobs : k = recovery.job /\ k \notin recovery.todo
    BY <1>9, <1>10 DEF RecoverRemove
  <2>2. /\ recovery.pc = "loaded" /\ UNCHANGED <<pending, record>>
        /\ processing' = processing \ {k}
    BY <1>10, <2>1 DEF RecoverRemove
  <2>3. recovery'.pc = "removed" /\ recovery'.job = k /\ recovery'.todo = recovery.todo
    BY <1>1, <1>10, <2>1 DEF RecoverRemove, Recovery
  <2> QED  BY <1>8, <2>1, <2>2, <2>3
<1>11. CASE RecoverSave(TRUE)
  <2>1. PICK k \in Jobs : k = recovery.job /\ k \notin recovery.todo
    BY <1>9, <1>11 DEF RecoverSave
  <2>2. /\ recovery.pc = "removed" /\ UNCHANGED <<pending, processing>>
        /\ SaveJob(k, IF UsedUp THEN "dead" ELSE "pending",
                   recovery.attempts, recovery.delayed)
    BY <1>11, <2>1 DEF RecoverSave
  <2>3. /\ recovery'.pc = "saved" /\ recovery'.job = k /\ recovery'.todo = recovery.todo
        /\ UsedUp' <=> UsedUp
    BY <1>1, <1>11, <2>1 DEF RecoverSave, Recovery, UsedUp
  <2>4. \A j \in Jobs : j # k => record'[j] = record[j]
    BY <1>1, <2>2 DEF SaveJob
  <2>5. record'[k].status = IF UsedUp THEN "dead" ELSE "pending"
    BY <1>1, <2>2 DEF SaveJob
  <2> QED  BY <1>8, <2>1, <2>2, <2>3, <2>4, <2>5
<1>12. CASE RecoverPush(TRUE)
  <2>1. PICK k \in Jobs : k = recovery.job /\ k \notin recovery.todo
    BY <1>9, <1>12 DEF RecoverPush
  <2>2. recovery.pc = "saved" /\ UNCHANGED <<processing, record>>
    BY <1>12 DEF RecoverPush
  <2>3. recovery'.pc = "walk" /\ recovery'.job = NoJob /\ recovery'.todo = recovery.todo
    BY <1>12 DEF RecoverPush, ServerUp
  <2>4. CASE UsedUp
    <3>1. UNCHANGED pending /\ record[k].status = "dead"
      BY <1>12, <2>1, <2>2, <2>4 DEF RecoverPush, PlaceInv
    <3> QED  BY <1>8, <2>1, <2>2, <2>3, <3>1 DEF Unfinished
  <2>5. CASE ~UsedUp
    <3>1. pending' = Append(pending, k)
      BY <1>12, <2>1, <2>5 DEF RecoverPush, LPush
    <3>2. ToSet(pending') = ToSet(pending) \cup {k}  BY <1>1, <3>1, AppendFacts
    <3> QED  BY <1>8, <2>1, <2>2, <2>3, <3>2
  <2> QED  BY <2>4, <2>5
<1> QED  BY <1>5, <1>6, <1>7, <1>10, <1>11, <1>12 DEF RecoverStep

\* What a crash leaves: Redis, and a start-up that has yet to look at it.
LEMMA CrashDrops ==
    ASSUME RecoveryTypeOK, PlaceInv, HeldUpInv, faults = 0, Crash
    PROVE  DropsOnlyInWindows /\ PlaceInv' /\ HeldUpInv'
<1>1. UNCHANGED <<pending, processing, record, faults>>  BY DEF Crash
<1>2. /\ \A s \in Slots : slot'[s].pc = "free"
      /\ \A r \in Requeuers : retry'[r].pc = "idle"
      /\ recovery'.pc = "scan" /\ recovery'.job = NoJob /\ recovery'.todo = {}
  BY DEF Crash, FreeSlot, NoRetry, ServerUp
<1>3. ASSUME NEW j \in Jobs, Reachable(j)' PROVE j \in ToSet(pending') \cup processing'
  BY <1>2, <1>3, ConstantsAssumption DEF Reachable, Holds
<1>4. \A j \in Jobs : Tracked(j)'  BY <1>3 DEF Tracked, Somewhere
<1>5. PlaceInv'  BY <1>1, <1>2, <1>4 DEF PlaceInv
<1>6. HeldUpInv'  BY <1>2 DEF HeldUpInv
<1>7. ASSUME NEW j \in Jobs, Unfinished(j), Reachable(j), ~Reachable(j)'
      PROVE  crashes' > crashes /\ InWindow(j)
  <2>1. crashes \in Nat /\ crashes' = crashes + 1
    BY BoundsAssumption DEF Crash, RecoveryTypeOK
  <2>2. Somewhere(j) /\ j \notin ToSet(pending) \cup processing
    BY <1>1, <1>7 DEF PlaceInv, Tracked, Reachable
  <2>3. ASSUME NEW s \in Slots, slot[s].job = j, slot[s].pc = "returning"
        PROVE  crashes > 0
    BY <2>1, <2>2, <2>3 DEF HeldUpInv
  <2>4. InWindow(j)  BY <2>2, <2>3 DEF Somewhere, InWindow
  <2> QED  BY <2>1, <2>4
<1> QED  BY <1>5, <1>6, <1>7 DEF DropsOnlyInWindows

LossyInv == RecoveryTypeOK /\ NoCrashInv /\ PlaceInv /\ HeldUpInv

LEMMA CrashNextDrops ==
    ASSUME OneRequeuer
    PROVE  LossyInv /\ [CrashNext]_crashVars =>
               LossyInv' /\ [DropsOnlyInWindows]_crashVars
<1> SUFFICES ASSUME LossyInv, [CrashNext]_crashVars
             PROVE  LossyInv' /\ [DropsOnlyInWindows]_crashVars
  OBVIOUS
<1>1. RecoveryTypeOK' /\ NoCrashInv'
  BY CrashNextTypeOK, CrashNextNoCrash DEF LossyInv
<1>2. RecoveryTypeOK /\ NoCrashInv /\ PlaceInv /\ HeldUpInv /\ faults \in Nat
  BY BoundsAssumption DEF LossyInv, RecoveryTypeOK
<1>3. CASE UNCHANGED crashVars
  <2>1. UNCHANGED <<pending, processing, record, slot, retry, recovery, crashes, faults>>
    BY <1>3 DEF crashVars, vars
  <2>2. \A j \in Jobs : Tracked(j) <=> Tracked(j)'
    BY <2>1 DEF Tracked, Unfinished, Reachable, Somewhere, Holds
  <2>3. PlaceInv' /\ HeldUpInv'  BY <1>2, <2>1, <2>2 DEF PlaceInv, HeldUpInv, UsedUp
  <2> QED  BY <1>1, <1>3, <2>3 DEF LossyInv
<1>4. CASE faults' # 0
  BY <1>1, <1>4 DEF LossyInv, PlaceInv, HeldUpInv, DropsOnlyInWindows
<1>5. CASE CrashNext /\ faults' = 0
  <2>1. ~Fault /\ UNCHANGED faults /\ faults = 0
    <3>1. ~Fault
      <4> SUFFICES ASSUME Fault PROVE FALSE
        OBVIOUS
      <4>1. faults' = faults + 1  BY DEF Fault
      <4> QED  BY <1>2, <1>5, <4>1
    <3> QED  BY <1>5, <3>1 DEF CrashNext, Crash
  <2>2. ASSUME \A j \in Jobs : StaysPut(j) PROVE DropsOnlyInWindows
    <3>1. \A j \in Jobs : Tracked(j)  BY <1>2, <2>1 DEF PlaceInv
    <3> QED  BY <2>2, <3>1, StaysTracked DEF DropsOnlyInWindows
  <2>3. CASE Crash  BY <1>1, <1>2, <2>1, <2>3, CrashDrops DEF LossyInv
  <2>4. CASE (RecoverStep(TRUE) \/ RecoverDone) /\ UNCHANGED crashes
    <3>1. (\A j \in Jobs : StaysPut(j)) /\ PlaceInv'  BY <1>2, <2>1, <2>4, RecoverMoves
    <3>2. crashes' # 0
      <4>1. recovery.pc # "off"
        BY <2>4 DEF RecoverStep, RecoverScan, RecoverLoad, RecoverRemove, RecoverSave,
                    RecoverPush, RecoverDone
      <4>2. crashes # 0  BY <1>2, <4>1 DEF NoCrashInv, ServerUp
      <4> QED  BY <2>4, <4>2
    <3> QED  BY <1>1, <2>2, <3>1, <3>2 DEF LossyInv, HeldUpInv
  <2>5. CASE ServerStep /\ UNCHANGED crashes
    <3>1. recovery.pc = "off" /\ Next /\ UNCHANGED recovery  BY <2>5 DEF ServerStep
    <3>2. CASE LocalStep
      BY <1>1, <1>2, <2>1, <2>2, <2>5, <3>1, <3>2, LocalMoves DEF LossyInv
    <3>3. ASSUME NEW r \in Requeuers, RequeueStep(r, TRUE)
          PROVE  LossyInv' /\ DropsOnlyInWindows
      BY <1>1, <1>2, <2>1, <2>2, <2>5, <3>1, <3>3, RequeueMoves DEF LossyInv
    <3>4. ASSUME NEW s \in Slots, LoopStep(s, TRUE) \/ GoroutineStep(s, TRUE)
          PROVE  LossyInv' /\ DropsOnlyInWindows
      <4>1. slot[s].pc # "free"
        BY <3>4 DEF LoopStep, Load, Mark, Claim, PutBackSave, PutBackPush, PutBackRemove,
                    GoroutineStep, Succeed, FailRemove, FailSave, FailPush, FailBury
      <4>2. PICK k \in Jobs : slot[s].job = k  BY <1>2, <4>1 DEF RecoveryTypeOK, TypeOK
      <4>3. Moves(s, k)  BY <1>2, <3>1, <3>4, <4>2, WorkerMoves DEF RecoveryTypeOK
      <4>4. (\A j \in Jobs : StaysPut(j)) /\ PlaceInv' /\ HeldUpInv'
        BY <1>1, <1>2, <2>1, <2>5, <3>1, <4>2, <4>3, MovesKeep
      <4> QED  BY <1>1, <2>2, <4>4 DEF LossyInv
    <3> QED  BY <3>1, <3>2, <3>3, <3>4 DEF Next, RedisStep
  <2> QED  BY <1>5, <2>1, <2>3, <2>4, <2>5 DEF CrashNext
<1> QED  BY <1>3, <1>4, <1>5

\* As long as Redis answers, nothing but a crash drops an unfinished job, however many
\* crashes came before it and whatever they left behind, and a crash only drops one that
\* is between two Redis structures: popped and not yet in the processing set, taken out
\* of it by Fail or by the recovery and not yet queued, or saved by a retry request.
THEOREM OnlyCrashesDrop ==
    ASSUME OneRequeuer
    PROVE  CrashSpec => LostOnlyInWindows
<1>1. CrashInit => LossyInv
  <2> SUFFICES ASSUME CrashInit PROVE LossyInv
    OBVIOUS
  <2>1. RecoveryTypeOK /\ NoCrashInv  BY InitLimits
  <2>2. PlaceInv /\ HeldUpInv
    BY DEF CrashInit, Init, PlaceInv, HeldUpInv, Tracked, Unfinished, NoRecord, FreeSlot,
           ServerUp
  <2> QED  BY <2>1, <2>2 DEF LossyInv
<1> QED  BY <1>1, CrashNextDrops, PTL DEF CrashSpec, LostOnlyInWindows
=============================================================================
