--------------------------- MODULE JobQueueProofs ---------------------------
(***************************************************************************)
(* Theorems about JobQueue, for every set of jobs, every concurrency and   *)
(* every limit of attempts.                                                *)
(***************************************************************************)
EXTENDS JobQueue, TLAPS

-----------------------------------------------------------------------------
(* The pending list                                                        *)

NoRepeat(q) == \A i, k \in DOMAIN q : q[i] = q[k] => i = k

\* LPUSH adds one id and, if the list did not hold it, repeats none.
LEMMA AppendFacts ==
    ASSUME NEW S, NEW q \in Seq(S), NEW e \in S
    PROVE  /\ Append(q, e) \in Seq(S)
           /\ ToSet(Append(q, e)) = ToSet(q) \cup {e}
           /\ NoRepeat(q) /\ e \notin ToSet(q) => NoRepeat(Append(q, e))
<1> DEFINE a == Append(q, e)
<1>1. /\ a \in Seq(S) /\ DOMAIN q = 1..Len(q) /\ DOMAIN a = 1..(Len(q) + 1)
      /\ Len(q) \in Nat
      /\ a[Len(q) + 1] = e /\ \A i \in 1..Len(q) : a[i] = q[i]
  OBVIOUS
<1>2. ToSet(a) = ToSet(q) \cup {e}
  <2>1. ASSUME NEW x \in ToSet(a) PROVE x \in ToSet(q) \cup {e}
    <3>1. PICK i \in 1..(Len(q) + 1) : x = a[i]  BY <1>1, <2>1 DEF ToSet
    <3>2. CASE i = Len(q) + 1  BY <1>1, <3>1, <3>2
    <3>3. CASE i # Len(q) + 1
      <4>1. i \in 1..Len(q)  BY <1>1, <3>1, <3>3
      <4>2. x = q[i]  BY <1>1, <3>1, <4>1
      <4> QED  BY <1>1, <4>1, <4>2 DEF ToSet
    <3> QED  BY <3>2, <3>3
  <2>2. ASSUME NEW x \in ToSet(q) PROVE x \in ToSet(a)
    <3>1. PICK i \in 1..Len(q) : x = q[i]  BY <1>1, <2>2 DEF ToSet
    <3>2. i \in 1..(Len(q) + 1) /\ x = a[i]  BY <1>1, <3>1
    <3> QED  BY <1>1, <3>2 DEF ToSet
  <2>3. e \in ToSet(a)
    <3>1. Len(q) + 1 \in 1..(Len(q) + 1)  BY <1>1
    <3> QED  BY <1>1, <3>1 DEF ToSet
  <2> QED  BY <2>1, <2>2, <2>3
<1>3. ASSUME NoRepeat(q), e \notin ToSet(q) PROVE NoRepeat(a)
  <2> SUFFICES ASSUME NEW i \in 1..(Len(q) + 1), NEW k \in 1..(Len(q) + 1), a[i] = a[k]
               PROVE  i = k
    BY <1>1 DEF NoRepeat
  <2>1. \A n \in 1..Len(q) : a[n] # e  BY <1>1, <1>3 DEF ToSet
  <2>2. CASE i \in 1..Len(q) /\ k \in 1..Len(q)  BY <1>1, <1>3, <2>2 DEF NoRepeat
  <2>3. CASE i = Len(q) + 1 \/ k = Len(q) + 1
    <3>1. i \notin 1..Len(q) /\ k \notin 1..Len(q)  BY <1>1, <2>1, <2>3
    <3> QED  BY <1>1, <3>1
  <2> QED  BY <1>1, <2>2, <2>3
<1> QED  BY <1>1, <1>2, <1>3

\* LMOVE takes the oldest id; if the list repeats none, that id is gone.
LEMMA PopFacts ==
    ASSUME NEW S, NEW q \in Seq(S), q # <<>>
    PROVE  /\ Tail(q) \in Seq(S)
           /\ Head(q) \in S
           /\ Head(q) \in ToSet(q)
           /\ ToSet(Tail(q)) \subseteq ToSet(q)
           /\ NoRepeat(q) => NoRepeat(Tail(q)) /\ Head(q) \notin ToSet(Tail(q))
<1> DEFINE t == Tail(q)
<1>1. /\ t \in Seq(S) /\ DOMAIN q = 1..Len(q) /\ DOMAIN t = 1..(Len(q) - 1)
      /\ Len(q) \in Nat /\ Len(q) > 0 /\ Head(q) = q[1] /\ Head(q) \in S
      /\ \A i \in 1..(Len(q) - 1) : t[i] = q[i + 1]
  OBVIOUS
<1>2. Head(q) \in ToSet(q)
  <2>1. 1 \in 1..Len(q)  BY <1>1
  <2> QED  BY <1>1, <2>1 DEF ToSet
<1>3. ToSet(t) \subseteq ToSet(q)
  <2> SUFFICES ASSUME NEW x \in ToSet(t) PROVE x \in ToSet(q)
    OBVIOUS
  <2>1. PICK i \in 1..(Len(q) - 1) : x = t[i]  BY <1>1 DEF ToSet
  <2>2. i + 1 \in 1..Len(q) /\ x = q[i + 1]  BY <1>1, <2>1
  <2> QED  BY <1>1, <2>2 DEF ToSet
<1>4. ASSUME NoRepeat(q) PROVE NoRepeat(t)
  <2> SUFFICES ASSUME NEW i \in 1..(Len(q) - 1), NEW k \in 1..(Len(q) - 1), t[i] = t[k]
               PROVE  i = k
    BY <1>1 DEF NoRepeat
  <2>1. q[i + 1] = q[k + 1] /\ i + 1 \in 1..Len(q) /\ k + 1 \in 1..Len(q)  BY <1>1
  <2>2. i + 1 = k + 1  BY <1>1, <1>4, <2>1 DEF NoRepeat
  <2> QED  BY <2>2
<1>5. ASSUME NoRepeat(q), Head(q) \in ToSet(t) PROVE FALSE
  <2>1. PICK i \in 1..(Len(q) - 1) : t[i] = q[1]  BY <1>1, <1>5 DEF ToSet
  <2>2. q[i + 1] = q[1] /\ i + 1 \in 1..Len(q) /\ 1 \in 1..Len(q)  BY <1>1, <2>1
  <2>3. i + 1 = 1  BY <1>1, <1>5, <2>2 DEF NoRepeat
  <2> QED  BY <2>1, <2>3
<1> QED  BY <1>1, <1>2, <1>3, <1>4, <1>5

\* LMOVE takes the oldest id and no other.
LEMMA TailFacts ==
    ASSUME NEW S, NEW q \in Seq(S), q # <<>>
    PROVE  ToSet(q) \subseteq ToSet(Tail(q)) \cup {Head(q)}
<1> SUFFICES ASSUME NEW x \in ToSet(q), x # Head(q) PROVE x \in ToSet(Tail(q))
  OBVIOUS
<1>1. /\ DOMAIN q = 1..Len(q) /\ DOMAIN Tail(q) = 1..(Len(q) - 1)
      /\ Len(q) \in Nat /\ Head(q) = q[1]
      /\ \A i \in 1..(Len(q) - 1) : Tail(q)[i] = q[i + 1]
  OBVIOUS
<1>2. PICK i \in 1..Len(q) : x = q[i]  BY <1>1 DEF ToSet
<1>3. i - 1 \in 1..(Len(q) - 1) /\ x = Tail(q)[i - 1]  BY <1>1, <1>2
<1> QED  BY <1>1, <1>3 DEF ToSet

-----------------------------------------------------------------------------
(* Type correctness                                                        *)

\* The state Init describes has the types.
LEMMA InitTypeOK == Init => TypeOK
<1> SUFFICES ASSUME Init PROVE TypeOK
  OBVIOUS
<1>1. <<>> \in Seq(Jobs)
  OBVIOUS
<1> QED  BY <1>1 DEF Init, TypeOK, NoRecord, FreeSlot, NoRetry, Record, Slot, Retry,
                     Statuses, LoopPcs, GoroutinePcs

\* What TypeOK says of the slots.
SlotsOK ==
    /\ slot \in [Slots -> Slot]
    /\ \A s \in Slots : slot[s].pc # "free" => slot[s].job \in Jobs

\* A holder that moves on keeps its job; one that is released has none.
LEMMA SlotTypes ==
    ASSUME SlotsOK, NEW s \in Slots
    PROVE  /\ \A pc \in LoopPcs \cup GoroutinePcs :
                slot[s].pc # "free" /\ Goto(s, pc) => SlotsOK'
           /\ Release(s) => SlotsOK'
           /\ UNCHANGED slot => SlotsOK'
<1> USE DEF Slot, FreeSlot, SlotsOK
<1>1. ASSUME NEW pc \in LoopPcs \cup GoroutinePcs, slot[s].pc # "free", Goto(s, pc)
      PROVE SlotsOK'
  <2>1. slot' \in [Slots -> Slot]  BY <1>1 DEF Goto
  <2>2. \A t \in Slots : slot'[t].job = slot[t].job /\ (t # s => slot'[t] = slot[t])
    BY <1>1 DEF Goto
  <2> QED  BY <1>1, <2>1, <2>2
<1>2. ASSUME Release(s) PROVE SlotsOK'
  <2>1. slot' \in [Slots -> Slot]  BY <1>2 DEF Release
  <2>2. \A t \in Slots : slot'[t] = slot[t] \/ slot'[t] = FreeSlot
    BY <1>2 DEF Release
  <2> QED  BY <2>1, <2>2
<1> QED  BY <1>1, <1>2

\* saveJob writes a record, whatever the copy it is given.
LEMMA SaveJobType ==
    ASSUME record \in [Jobs -> Record], NEW j \in Jobs, NEW status \in Statuses,
           NEW attempts \in Nat, NEW delayed \in BOOLEAN,
           SaveJob(j, status, attempts, delayed)
    PROVE  record' \in [Jobs -> Record]
BY DEF SaveJob, Record

\* Every Redis command of the worker, whether it succeeds or not, keeps the types.
LEMMA WorkerTypeOK ==
    ASSUME TypeOK, NEW ok \in BOOLEAN, NEW s \in Slots,
           LoopStep(s, ok) \/ GoroutineStep(s, ok)
    PROVE  TypeOK'
<1> DEFINE c == slot[s]
<1>1. SlotsOK /\ record \in [Jobs -> Record]  BY DEF TypeOK, SlotsOK
<1>2. c.job \in Jobs \cup {NoJob} /\ c.attempts \in Nat /\ c.delayed \in BOOLEAN
  BY <1>1 DEF SlotsOK, Slot
<1>3. c.pc # "free" => c.job \in Jobs /\ Append(pending, c.job) \in Seq(Jobs)
  BY <1>1 DEF TypeOK, SlotsOK
<1>4. LoopStep(s, ok) \/ GoroutineStep(s, ok) => c.pc # "free"
  BY DEF LoopStep, Load, Mark, Claim, PutBackSave, PutBackPush, PutBackRemove,
         GoroutineStep, Succeed, FailRemove, FailSave, FailPush, FailBury
<1>5. c.pc # "free" /\ c.job \in Jobs /\ Append(pending, c.job) \in Seq(Jobs)
  BY <1>3, <1>4
<1> USE DEF LoopPcs, GoroutinePcs, Statuses
<1>6. CASE Load(s, ok)
  <2>1. SlotsOK'
    <3>1. CASE Release(s)  BY <1>1, <3>1, SlotTypes
    <3>2. CASE slot' = [slot EXCEPT ![s] =
                          [pc |-> "loaded", job |-> slot[s].job,
                           attempts |-> record[slot[s].job].attempts,
                           delayed |-> record[slot[s].job].delayed]]
      <4>1. record[c.job].attempts \in Nat /\ record[c.job].delayed \in BOOLEAN
        BY <1>1, <1>5 DEF Record
      <4>2. slot' \in [Slots -> Slot]  BY <1>1, <3>2, <4>1 DEF SlotsOK, Slot
      <4>3. \A t \in Slots : slot'[t].job = slot[t].job /\ (t # s => slot'[t] = slot[t])
        BY <1>1, <3>2 DEF SlotsOK, Slot
      <4> QED  BY <1>1, <1>5, <4>2, <4>3 DEF SlotsOK
    <3> QED  BY <1>6, <3>1, <3>2 DEF Load
  <2> QED  BY <1>6, <2>1 DEF Load, TypeOK, SlotsOK
<1>7. CASE Mark(s, ok)
  <2>1. SlotsOK'  BY <1>1, <1>5, <1>7, SlotTypes DEF Mark
  <2>2. record' \in [Jobs -> Record]  BY <1>1, <1>2, <1>5, <1>7, SaveJobType DEF Mark
  <2> QED  BY <1>7, <2>1, <2>2 DEF Mark, TypeOK, SlotsOK
<1>8. CASE Claim(s, ok)
  <2>1. SlotsOK'  BY <1>1, <1>5, <1>8, SlotTypes DEF Claim
  <2> QED  BY <1>5, <1>8, <2>1 DEF Claim, TypeOK, SlotsOK
<1>9. CASE PutBackSave(s, ok)
  <2>1. SlotsOK'  BY <1>1, <1>5, <1>9, SlotTypes DEF PutBackSave
  <2>2. record' \in [Jobs -> Record]
    BY <1>1, <1>2, <1>5, <1>9, SaveJobType DEF PutBackSave
  <2> QED  BY <1>9, <2>1, <2>2 DEF PutBackSave, TypeOK, SlotsOK
<1>10. CASE PutBackPush(s, ok)
  <2>1. SlotsOK'  BY <1>1, <1>5, <1>10, SlotTypes DEF PutBackPush
  <2> QED  BY <1>5, <1>10, <2>1 DEF PutBackPush, LPush, TypeOK, SlotsOK
<1>11. CASE PutBackRemove(s, ok)
  <2>1. SlotsOK'  BY <1>1, <1>11, SlotTypes DEF PutBackRemove
  <2> QED  BY <1>11, <2>1 DEF PutBackRemove, TypeOK, SlotsOK
<1>12. CASE Succeed(s, ok)
  <2>1. SlotsOK'  BY <1>1, <1>12, SlotTypes DEF Succeed
  <2>2. record' \in [Jobs -> Record]
    BY <1>1, <1>2, <1>5, <1>12, SaveJobType DEF Succeed
  <2> QED  BY <1>12, <2>1, <2>2 DEF Succeed, TypeOK, SlotsOK
<1>13. CASE FailRemove(s, ok)
  <2>1. slot' \in [Slots -> Slot]  BY <1>1, <1>13 DEF FailRemove, SlotsOK, Slot
  <2>2. \A t \in Slots : slot'[t].job = slot[t].job /\ (t # s => slot'[t] = slot[t])
    BY <1>1, <1>13 DEF FailRemove, SlotsOK, Slot
  <2>3. SlotsOK'  BY <1>1, <1>5, <2>1, <2>2 DEF SlotsOK
  <2> QED  BY <1>13, <2>3 DEF FailRemove, TypeOK, SlotsOK
<1>14. CASE FailSave(s, ok)
  <2>1. SlotsOK'  BY <1>1, <1>5, <1>14, SlotTypes DEF FailSave
  <2>2. record' \in [Jobs -> Record]
    BY <1>1, <1>2, <1>5, <1>14, SaveJobType DEF FailSave
  <2> QED  BY <1>14, <2>1, <2>2 DEF FailSave, TypeOK, SlotsOK
<1>15. CASE FailPush(s, ok)
  <2>1. SlotsOK'  BY <1>1, <1>15, SlotTypes DEF FailPush
  <2> QED  BY <1>5, <1>15, <2>1 DEF FailPush, LPush, TypeOK, SlotsOK
<1>16. CASE FailBury(s, ok)
  <2>1. SlotsOK'  BY <1>1, <1>16, SlotTypes DEF FailBury
  <2> QED  BY <1>5, <1>16, <2>1 DEF FailBury, TypeOK, SlotsOK
<1> QED
  BY <1>6, <1>7, <1>8, <1>9, <1>10, <1>11, <1>12, <1>13, <1>14, <1>15, <1>16
  DEF LoopStep, GoroutineStep

\* What TypeOK says of the retry requests.
RetriesOK ==
    /\ retry \in [Requeuers -> Retry]
    /\ \A r \in Requeuers : retry[r].pc # "idle" => retry[r].job \in Jobs

\* A request that moves to a well-typed state keeps them.
LEMMA RetryTypes ==
    ASSUME RetriesOK, NEW r \in Requeuers, NEW pc \in {"idle", "loaded", "saved"},
           NEW j \in Jobs \cup {NoJob}, NEW todo \in SUBSET Jobs,
           pc # "idle" => j \in Jobs,
           retry' = [retry EXCEPT ![r] = [pc |-> pc, job |-> j, todo |-> todo]]
    PROVE  RetriesOK'
<1>1. [pc |-> pc, job |-> j, todo |-> todo] \in Retry  BY DEF Retry
<1>2. retry' \in [Requeuers -> Retry]  BY <1>1 DEF RetriesOK
<1>3. \A q \in Requeuers : retry'[q] = retry[q]
                            \/ (retry'[q].pc = pc /\ retry'[q].job = j)
  BY DEF RetriesOK
<1> QED  BY <1>2, <1>3 DEF RetriesOK

\* And every Redis command of a retry request.
LEMMA RequeueTypeOK ==
    ASSUME TypeOK, NEW ok \in BOOLEAN, NEW r \in Requeuers, RequeueStep(r, ok)
    PROVE  TypeOK'
<1>1. RetriesOK  BY DEF TypeOK, RetriesOK
<1>2. retry[r].todo \in SUBSET Jobs  BY <1>1 DEF RetriesOK, Retry
<1>3. NextOf(r) => RetriesOK'  BY <1>1, <1>2, RetryTypes DEF NextOf
<1>4. CASE RequeueLoad(r, ok)
  <2>1. PICK j \in retry[r].todo :
          \/ retry' = [retry EXCEPT ![r] = [pc |-> "loaded", job |-> j,
                                            todo |-> retry[r].todo \ {j}]]
          \/ retry' = [retry EXCEPT ![r] = [pc |-> "idle", job |-> NoJob,
                                            todo |-> retry[r].todo \ {j}]]
    BY <1>4 DEF RequeueLoad
  <2>2. j \in Jobs /\ retry[r].todo \ {j} \in SUBSET Jobs  BY <1>2
  <2>3. RetriesOK'  BY <1>1, <2>1, <2>2, RetryTypes
  <2> QED  BY <1>4, <2>3 DEF TypeOK, RetriesOK, RequeueLoad
<1>5. CASE RequeueSave(r, ok)
  <2>1. retry[r].job \in Jobs  BY <1>1, <1>5 DEF RetriesOK, RequeueSave
  <2>2. record' \in [Jobs -> Record]
    BY <1>5, <2>1, SaveJobType DEF TypeOK, RequeueSave, Statuses
  <2>3. CASE retry' = [retry EXCEPT ![r] = [pc |-> "saved", job |-> retry[r].job,
                                            todo |-> retry[r].todo]]
    <3>1. RetriesOK'  BY <1>1, <1>2, <2>1, <2>3, RetryTypes
    <3> QED  BY <1>5, <2>2, <3>1 DEF TypeOK, RetriesOK, RequeueSave
  <2>4. CASE NextOf(r)
    BY <1>3, <1>5, <2>2, <2>4 DEF TypeOK, RetriesOK, RequeueSave
  <2> QED  BY <1>5, <2>3, <2>4 DEF RequeueSave
<1>6. CASE RequeuePush(r, ok)
  <2>1. retry[r].job \in Jobs  BY <1>1, <1>6 DEF RetriesOK, RequeuePush
  <2>2. Append(pending, retry[r].job) \in Seq(Jobs)  BY <2>1 DEF TypeOK
  <2> QED  BY <1>3, <1>6, <2>2 DEF TypeOK, RetriesOK, RequeuePush, LPush
<1> QED  BY <1>4, <1>5, <1>6 DEF RequeueStep

\* So do the steps of the producers, the loop, the clock and the listings.
LEMMA LocalStepTypeOK ==
    ASSUME TypeOK, LocalStep
    PROVE  TypeOK'
<1> USE DEF LoopPcs, GoroutinePcs, Statuses
<1>1. ASSUME NEW j \in Jobs, Enqueue(j) PROVE TypeOK'
  <2>1. Append(pending, j) \in Seq(Jobs) /\ Append(issued, j) \in Seq(Jobs)
    BY DEF TypeOK
  <2>2. record' \in [Jobs -> Record]  BY <1>1, SaveJobType DEF TypeOK, Enqueue
  <2> QED  BY <1>1, <2>1, <2>2 DEF TypeOK, Enqueue, LPush
<1>2. ASSUME NEW j \in Jobs, BackoffElapses(j) PROVE TypeOK'
  <2>1. record' \in [Jobs -> Record]  BY <1>2 DEF TypeOK, BackoffElapses, Record
  <2>2. slot' \in [Slots -> Slot]
    <3>1. \A s \in Slots : [slot[s] EXCEPT !.delayed = FALSE] \in Slot
      BY DEF TypeOK, Slot
    <3> QED  BY <1>2, <3>1 DEF TypeOK, BackoffElapses
  <2>3. \A s \in Slots : slot'[s].pc = slot[s].pc /\ slot'[s].job = slot[s].job
    BY <1>2 DEF TypeOK, BackoffElapses, Slot
  <2> QED  BY <1>2, <2>1, <2>2, <2>3 DEF TypeOK, BackoffElapses
<1>3. ASSUME NEW j \in Jobs, Expire(j) PROVE TypeOK'
  BY <1>3 DEF TypeOK, Expire, Record, NoRecord
<1>4. CASE IdleTick  BY <1>4 DEF TypeOK, IdleTick, vars
<1>5. CASE CleanStale  BY <1>5 DEF TypeOK, CleanStale
<1>6. ASSUME NEW s \in Slots, Pop(s) PROVE TypeOK'
  <2>1. pending # <<>> /\ Tail(pending) \in Seq(Jobs) /\ Head(pending) \in Jobs
    BY <1>6, PopFacts DEF TypeOK, Pop
  <2>2. slot' \in [Slots -> Slot]  BY <1>6, <2>1 DEF TypeOK, Pop, Slot, FreeSlot
  <2>3. \A t \in Slots : slot'[t].pc # "free" => slot'[t].job \in Jobs
    BY <1>6, <2>1 DEF TypeOK, Pop, Slot, FreeSlot
  <2> QED  BY <1>6, <2>1, <2>2, <2>3 DEF TypeOK, Pop
<1>7. ASSUME NEW s \in Slots, Start(s) PROVE TypeOK'
  <2>1. SlotsOK'  BY <1>7, SlotTypes DEF TypeOK, SlotsOK, Start
  <2> QED  BY <1>7, <2>1 DEF TypeOK, SlotsOK, Start
<1>8. ASSUME NEW r \in Requeuers, RetryRequest(r) PROVE TypeOK'
  <2>1. ToSet(issued) \subseteq Jobs  BY DEF TypeOK, ToSet
  <2>2. PICK ids \in SUBSET Jobs : retry' = [retry EXCEPT ![r].todo = ids]
    BY <1>8, <2>1 DEF TypeOK, RetryRequest
  <2> QED  BY <1>8, <2>2 DEF TypeOK, RetryRequest, Retry
<1> QED  BY <1>1, <1>2, <1>3, <1>4, <1>5, <1>6, <1>7, <1>8 DEF LocalStep

LEMMA NextTypeOK == TypeOK /\ [Next]_vars => TypeOK'
<1> SUFFICES ASSUME TypeOK, [Next]_vars PROVE TypeOK'
  OBVIOUS
<1>1. CASE LocalStep  BY <1>1, LocalStepTypeOK
<1>2. CASE RedisStep(TRUE)  BY <1>2, WorkerTypeOK, RequeueTypeOK DEF RedisStep
<1>3. CASE UNCHANGED vars  BY <1>3 DEF TypeOK, vars
<1> QED  BY <1>1, <1>2, <1>3 DEF Next

\* The lists, the sets, the hashes and the copies in memory keep their types in
\* every behaviour, and whatever is past the pop has a job in hand.
THEOREM TypeCorrect == Spec => []TypeOK
BY InitTypeOK, NextTypeOK, PTL DEF Spec

-----------------------------------------------------------------------------
(* One holder per job                                                      *)

\* SingleHolder is not inductive.  A retry puts a job back that AtRest says
\* nobody has; and an id that Enqueue hands out is new to everybody.
KnownIds ==
    /\ ToSet(pending) \subseteq ToSet(issued)
    /\ \A s \in Slots : slot[s].pc # "free" => slot[s].job \in ToSet(issued)
    /\ \A r \in Requeuers : retry[r].pc # "idle" => retry[r].job \in ToSet(issued)
    /\ \A j \in Jobs : record[j].status # "none" => j \in ToSet(issued)

SavedIsPending ==
    \A r \in Requeuers : retry[r].pc = "saved" =>
        record[retry[r].job].status \notin {"completed", "dead"}

HolderInv == TypeOK /\ SingleHolder /\ AtRest /\ KnownIds /\ SavedIsPending

LEMMA InitHolderInv == Init => HolderInv
<1> SUFFICES ASSUME Init PROVE HolderInv
  OBVIOUS
<1>1. TypeOK  BY InitTypeOK
<1>2. ToSet(pending) = {} /\ DOMAIN pending = {}  BY DEF Init, ToSet
<1>3. \A s \in Slots : slot[s].pc = "free"  BY DEF Init, FreeSlot
<1>4. \A r \in Requeuers : retry[r].pc = "idle"  BY DEF Init, NoRetry
<1>5. \A j \in Jobs : record[j].status = "none"  BY DEF Init, NoRecord
<1>6. SingleHolder
  BY <1>2, <1>3 DEF SingleHolder, QueuedOnce, HeldOnce, HeldNotQueued, Holds
<1>7. AtRest  BY <1>4, <1>5 DEF AtRest
<1>8. KnownIds  BY <1>2, <1>3, <1>4, <1>5 DEF KnownIds
<1>9. SavedIsPending  BY <1>4 DEF SavedIsPending
<1> QED  BY <1>1, <1>6, <1>7, <1>8, <1>9 DEF HolderInv

\* Whatever a holder does with its token without queueing its job: no job
\* gets a holder or a place in the queue that it did not have.
LEMMA HolderKeeps ==
    ASSUME HolderInv, TypeOK', NEW s \in Slots,
           UNCHANGED <<issued, pending, retry>>,
           \A t \in Slots : t # s => slot'[t] = slot[t],
           Holds(s)' => Holds(s) /\ slot'[s].job = slot[s].job,
           slot'[s].pc # "free" => slot'[s].job \in ToSet(issued),
           \A j \in Jobs :
               \/ record'[j].status = record[j].status
               \/ record'[j].status = "none"
               \/ /\ j = slot[s].job /\ Holds(s)
                  /\ record'[j].status \in {"completed", "dead"} => ~Holds(s)'
    PROVE  HolderInv'
<1>1. \A t \in Slots : Holds(t)' => Holds(t) /\ slot'[t].job = slot[t].job
  BY DEF Holds
<1>2. SingleHolder'
  BY <1>1 DEF HolderInv, SingleHolder, QueuedOnce, HeldOnce, HeldNotQueued
<1>3. \A j : Owned(j)' => Owned(j)  BY <1>1 DEF Owned
<1>4. AtRest'
  <2>1. ASSUME NEW j \in Jobs, record'[j].status \in {"completed", "dead"}
        PROVE ~Owned(j)'
    <3>1. CASE record'[j].status = record[j].status
      BY <1>3, <2>1, <3>1 DEF HolderInv, AtRest
    <3>2. CASE j = slot[s].job /\ Holds(s) /\ ~Holds(s)'
      <4>1. j \notin ToSet(pending)
        BY <3>2 DEF HolderInv, SingleHolder, HeldNotQueued
      <4>2. \A t \in Slots : Holds(t)' => slot'[t].job # j
        BY <1>1, <3>2 DEF HolderInv, SingleHolder, HeldOnce
      <4> QED  BY <4>1, <4>2 DEF Owned
    <3> QED  BY <2>1, <3>1, <3>2
  <2>2. ASSUME NEW r \in Requeuers, retry'[r].pc # "idle"
        PROVE ~Owned(retry[r].job)'
    <3>1. ~Owned(retry[r].job)  BY <2>2 DEF HolderInv, AtRest
    <3> QED  BY <1>1, <3>1 DEF Owned
  <2> QED  BY <2>1, <2>2 DEF AtRest
<1>5. KnownIds'
  <2>1. \A j \in Jobs : record'[j].status # "none" => j \in ToSet(issued)
    BY DEF HolderInv, KnownIds, Holds
  <2>2. \A t \in Slots : slot'[t].pc # "free" => slot'[t].job \in ToSet(issued)
    BY DEF HolderInv, KnownIds
  <2> QED  BY <2>1, <2>2 DEF HolderInv, KnownIds
<1>6. SavedIsPending'
  <2> SUFFICES ASSUME NEW r \in Requeuers, retry[r].pc = "saved"
               PROVE  record'[retry[r].job].status \notin {"completed", "dead"}
    BY DEF SavedIsPending
  <2>1. retry[r].job \in Jobs /\ ~Owned(retry[r].job)
        /\ record[retry[r].job].status \notin {"completed", "dead"}
    BY DEF HolderInv, TypeOK, AtRest, SavedIsPending
  <2>2. ~(retry[r].job = slot[s].job /\ Holds(s))  BY <2>1 DEF Owned
  <2> QED  BY <2>1, <2>2
<1> QED  BY <1>2, <1>4, <1>5, <1>6 DEF HolderInv

\* A holder that queues its job stops holding it in the same step.
LEMMA HolderQueues ==
    ASSUME HolderInv, TypeOK', NEW s \in Slots, Holds(s), ~Holds(s)',
           LPush(slot[s].job), UNCHANGED <<issued, record, retry>>,
           \A t \in Slots : t # s => slot'[t] = slot[t],
           slot'[s].pc # "free" => slot'[s].job = slot[s].job
    PROVE  HolderInv'
<1> DEFINE j == slot[s].job
<1>1. slot[s].pc # "free" /\ j \in Jobs /\ pending \in Seq(Jobs)
  BY DEF Holds, HolderInv, TypeOK
<1>2. j \notin ToSet(pending)  BY DEF HolderInv, SingleHolder, HeldNotQueued
<1>3. ToSet(pending') = ToSet(pending) \cup {j} /\ (NoRepeat(pending) => NoRepeat(pending'))
  BY <1>1, <1>2, AppendFacts DEF LPush
<1>4. \A t \in Slots : Holds(t)' => t # s /\ Holds(t) /\ slot'[t] = slot[t]
  BY DEF Holds
<1>5. QueuedOnce'
  BY <1>3 DEF HolderInv, SingleHolder, QueuedOnce, NoRepeat
<1>6. HeldOnce'  BY <1>4 DEF HolderInv, SingleHolder, HeldOnce
<1>7. HeldNotQueued'
  BY <1>3, <1>4 DEF HolderInv, SingleHolder, HeldNotQueued, HeldOnce
<1>8. \A k : Owned(k)' => Owned(k)  BY <1>3, <1>4 DEF Owned
<1>9. AtRest'  BY <1>8 DEF HolderInv, AtRest
<1>10. j \in ToSet(issued)  BY <1>1 DEF HolderInv, KnownIds
<1>11. KnownIds'  BY <1>3, <1>10 DEF HolderInv, KnownIds
<1>12. SavedIsPending'  BY DEF HolderInv, SavedIsPending
<1> QED  BY <1>5, <1>6, <1>7, <1>9, <1>11, <1>12 DEF HolderInv, SingleHolder

\* saveJob writes the status it is given and leaves the other jobs alone.
LEMMA SaveJobStatus ==
    ASSUME TypeOK, NEW j \in Jobs, NEW status, NEW attempts \in Nat,
           NEW delayed \in BOOLEAN, SaveJob(j, status, attempts, delayed)
    PROVE  \A k \in Jobs : record'[k].status = IF k = j THEN status ELSE record[k].status
BY DEF SaveJob, TypeOK

\* What a move of a holder and a release leave behind.
LEMMA Effects ==
    ASSUME TypeOK, NEW s \in Slots, slot[s].job \in Jobs
    PROVE  /\ \A pc : Goto(s, pc) =>
                /\ slot'[s].pc = pc /\ slot'[s].job = slot[s].job
                /\ \A t \in Slots : t # s => slot'[t] = slot[t]
           /\ Release(s) =>
                /\ slot'[s].pc = "free"
                /\ \A t \in Slots : t # s => slot'[t] = slot[t]
<1>1. slot \in [Slots -> Slot]  BY DEF TypeOK
<1>3. ASSUME NEW pc, Goto(s, pc)
      PROVE  /\ slot'[s].pc = pc /\ slot'[s].job = slot[s].job
             /\ \A t \in Slots : t # s => slot'[t] = slot[t]
  BY <1>1, <1>3 DEF Goto, Slot
<1>4. ASSUME Release(s)
      PROVE  /\ slot'[s].pc = "free"
             /\ \A t \in Slots : t # s => slot'[t] = slot[t]
  BY <1>1, <1>4 DEF Release, FreeSlot
<1> QED  BY <1>3, <1>4

\* The worker's Redis commands, answered or refused.
LEMMA WorkerHolderInv ==
    ASSUME HolderInv, NEW ok \in BOOLEAN, NEW s \in Slots,
           LoopStep(s, ok) \/ GoroutineStep(s, ok)
    PROVE  HolderInv'
<1>1. TypeOK /\ TypeOK'  BY WorkerTypeOK DEF HolderInv
<1>2. slot[s].pc # "free"
  BY DEF LoopStep, Load, Mark, Claim, PutBackSave, PutBackPush, PutBackRemove,
         GoroutineStep, Succeed, FailRemove, FailSave, FailPush, FailBury
<1>3. slot[s].job \in Jobs /\ slot[s].job \in ToSet(issued)
  BY <1>1, <1>2 DEF TypeOK, HolderInv, KnownIds
<1> DEFINE c == slot[s]
           Saved(status) == \A k \in Jobs : record'[k].status =
                                IF k = c.job THEN status ELSE record[k].status
<1>15. c.attempts \in Nat /\ c.delayed \in BOOLEAN  BY <1>1 DEF TypeOK, Slot
<1>4. CASE Load(s, ok)
  <2>1. CASE Release(s)
    BY <1>1, <1>3, <1>4, <2>1, Effects, HolderKeeps DEF Load, Holds
  <2>2. CASE slot' = [slot EXCEPT ![s] =
                        [pc |-> "loaded", job |-> slot[s].job,
                         attempts |-> record[slot[s].job].attempts,
                         delayed |-> record[slot[s].job].delayed]]
    <3>1. /\ slot'[s].pc = "loaded" /\ slot'[s].job = slot[s].job
          /\ \A t \in Slots : t # s => slot'[t] = slot[t]
      BY <1>1, <2>2 DEF TypeOK
    <3>2. Holds(s)  BY <1>4 DEF Load, Holds
    <3> QED  BY <1>1, <1>3, <1>4, <3>1, <3>2, HolderKeeps DEF Load
  <2> QED  BY <1>4, <2>1, <2>2 DEF Load
<1>5. CASE Mark(s, ok)
  <2>1. Saved("processing") \/ UNCHANGED record
    BY <1>1, <1>3, <1>15, <1>5, SaveJobStatus DEF Mark
  <2> QED  BY <1>1, <1>3, <1>5, <2>1, Effects, HolderKeeps DEF Mark, Holds
<1>6. CASE Claim(s, ok)
  BY <1>1, <1>3, <1>6, Effects, HolderKeeps DEF Claim, Holds
<1>7. CASE PutBackSave(s, ok)
  <2>1. Saved("pending") \/ UNCHANGED record
    BY <1>1, <1>3, <1>15, <1>7, SaveJobStatus DEF PutBackSave
  <2> QED  BY <1>1, <1>3, <1>7, <2>1, Effects, HolderKeeps DEF PutBackSave, Holds
<1>8. CASE PutBackPush(s, ok)
  <2>1. CASE ok
    BY <1>1, <1>3, <1>8, <2>1, Effects, HolderQueues DEF PutBackPush, Holds
  <2>2. CASE ~ok
    BY <1>1, <1>3, <1>8, <2>2, Effects, HolderKeeps DEF PutBackPush, Holds
  <2> QED  BY <2>1, <2>2
<1>9. CASE PutBackRemove(s, ok)
  BY <1>1, <1>3, <1>9, Effects, HolderKeeps DEF PutBackRemove, Holds
<1>10. CASE Succeed(s, ok)
  <2>1. Saved("completed") \/ UNCHANGED record
    BY <1>1, <1>3, <1>15, <1>10, SaveJobStatus DEF Succeed
  <2> QED  BY <1>1, <1>3, <1>10, <2>1, Effects, HolderKeeps DEF Succeed, Holds
<1>11. CASE FailRemove(s, ok)
  <2>1. /\ slot'[s].pc = "failing" /\ slot'[s].job = slot[s].job
        /\ \A t \in Slots : t # s => slot'[t] = slot[t]
    BY <1>1, <1>11 DEF FailRemove, TypeOK, Slot
  <2>2. Holds(s)  BY <1>11 DEF FailRemove, Holds
  <2> QED  BY <1>1, <1>3, <1>11, <2>1, <2>2, HolderKeeps DEF FailRemove
<1>12. CASE FailSave(s, ok)
  <2>1. Holds(s) /\ UNCHANGED <<issued, pending, retry>>
    BY <1>12 DEF FailSave, Holds
  <2>2. CASE SaveJob(slot[s].job, "dead", slot[s].attempts, FALSE) /\ Goto(s, "burying")
    <3>1. Saved("dead")  BY <1>1, <1>3, <1>15, <2>2, SaveJobStatus
    <3> QED  BY <1>1, <1>3, <2>1, <2>2, <3>1, Effects, HolderKeeps DEF Holds
  <2>3. CASE SaveJob(slot[s].job, "pending", slot[s].attempts, TRUE) /\ Goto(s, "retrying")
    <3>1. Saved("pending")  BY <1>1, <1>3, <1>15, <2>3, SaveJobStatus
    <3> QED  BY <1>1, <1>3, <2>1, <2>3, <3>1, Effects, HolderKeeps DEF Holds
  <2>4. CASE Release(s) /\ UNCHANGED record
    BY <1>1, <1>3, <2>1, <2>4, Effects, HolderKeeps DEF Holds
  <2> QED  BY <1>12, <2>2, <2>3, <2>4 DEF FailSave
<1>13. CASE FailPush(s, ok)
  <2>1. CASE ok
    BY <1>1, <1>3, <1>13, <2>1, Effects, HolderQueues DEF FailPush, Holds
  <2>2. CASE ~ok
    BY <1>1, <1>3, <1>13, <2>2, Effects, HolderKeeps DEF FailPush, Holds
  <2> QED  BY <2>1, <2>2
<1>14. CASE FailBury(s, ok)
  BY <1>1, <1>3, <1>14, Effects, HolderKeeps DEF FailBury, Holds
<1> QED
  BY <1>4, <1>5, <1>6, <1>7, <1>8, <1>9, <1>10, <1>11, <1>12, <1>13, <1>14
  DEF LoopStep, GoroutineStep

\* Retry requests come one at a time: with two of them, both may load a job as
\* dead before either has saved it, and both queue it.
OneRequeuer == \A q, r \in Requeuers : q = r

LEMMA RequeueHolderInv ==
    ASSUME OneRequeuer, HolderInv, NEW ok \in BOOLEAN, NEW r \in Requeuers,
           RequeueStep(r, ok)
    PROVE  HolderInv'
<1>1. TypeOK /\ TypeOK'  BY RequeueTypeOK DEF HolderInv
<1>2. retry \in [Requeuers -> Retry] /\ \A q \in Requeuers : q = r
  BY <1>1 DEF TypeOK, OneRequeuer
<1>3. CASE RequeueLoad(r, ok)
  <2>1. UNCHANGED <<issued, pending, record, slot>>  BY <1>3 DEF RequeueLoad
  <2>2. retry'[r].pc # "idle" => /\ retry'[r].job \in Jobs
                                 /\ record[retry'[r].job].status = "dead"
    BY <1>1, <1>2, <1>3 DEF RequeueLoad, TypeOK
  <2>3. SingleHolder'
    BY <2>1 DEF HolderInv, SingleHolder, QueuedOnce, HeldOnce, HeldNotQueued, Holds
  <2>4. \A j : Owned(j)' <=> Owned(j)  BY <2>1 DEF Owned, Holds
  <2>5. AtRest'
    <3>1. \A j \in Jobs : record'[j].status \in {"completed", "dead"} => ~Owned(j)'
      BY <2>1, <2>4 DEF HolderInv, AtRest
    <3>2. ASSUME retry'[r].pc # "idle" PROVE ~Owned(retry[r].job)'
      <4>1. ~Owned(retry'[r].job)  BY <2>2, <3>2 DEF HolderInv, AtRest
      <4> QED  BY <2>1, <4>1 DEF Owned, Holds
    <3> QED  BY <1>2, <3>1, <3>2 DEF AtRest
  <2>6. KnownIds'
    BY <1>2, <2>1, <2>2 DEF HolderInv, KnownIds
  <2>7. retry'[r].pc # "saved"  BY <1>2, <1>3 DEF RequeueLoad
  <2>8. SavedIsPending'  BY <1>2, <2>7 DEF SavedIsPending
  <2> QED  BY <1>1, <2>3, <2>5, <2>6, <2>8 DEF HolderInv
<1>4. CASE RequeueSave(r, ok)
  <2>1. retry[r].pc # "idle" /\ UNCHANGED <<issued, pending, slot>>
    BY <1>4 DEF RequeueSave
  <2>2. retry[r].job \in Jobs /\ retry[r].job \in ToSet(issued) /\ ~Owned(retry[r].job)
    BY <1>1, <2>1 DEF TypeOK, HolderInv, KnownIds, AtRest
  <2>3. retry'[r].pc # "idle" => retry'[r].job = retry[r].job
    <3>1. CASE retry' = [retry EXCEPT ![r] = [pc |-> "saved", job |-> retry[r].job,
                                              todo |-> retry[r].todo]]
      BY <1>2, <3>1
    <3>2. CASE NextOf(r)  BY <1>2, <3>2 DEF NextOf
    <3> QED  BY <1>4, <3>1, <3>2 DEF RequeueSave
  <2>4. \A j \in Jobs : record'[j].status = record[j].status
                         \/ (j = retry[r].job /\ record'[j].status = "pending")
    <3>1. CASE SaveJob(retry[r].job, "pending", 0, FALSE)
      BY <1>1, <2>2, <3>1, SaveJobStatus
    <3>2. CASE UNCHANGED record  BY <3>2
    <3> QED  BY <1>4, <3>1, <3>2 DEF RequeueSave
  <2>5. SingleHolder'
    BY <2>1 DEF HolderInv, SingleHolder, QueuedOnce, HeldOnce, HeldNotQueued, Holds
  <2>6. AtRest'
    <3>1. \A j \in Jobs : record'[j].status \in {"completed", "dead"} => ~Owned(j)'
      BY <2>1, <2>4 DEF HolderInv, AtRest, Owned, Holds
    <3>2. ASSUME retry'[r].pc # "idle" PROVE ~Owned(retry[r].job)'
      BY <2>1, <2>2, <2>3, <3>2 DEF Owned, Holds
    <3> QED  BY <1>2, <3>1, <3>2 DEF AtRest
  <2>7. KnownIds'
    BY <1>2, <2>1, <2>2, <2>3, <2>4 DEF HolderInv, KnownIds
  <2>8. SavedIsPending'
    <3>1. CASE SaveJob(retry[r].job, "pending", 0, FALSE)
      <4>1. record'[retry[r].job].status = "pending"
        BY <1>1, <2>2, <3>1, SaveJobStatus
      <4> QED  BY <1>2, <2>3, <4>1 DEF SavedIsPending
    <3>2. CASE NextOf(r)
      <4>1. retry'[r].pc = "idle"  BY <1>2, <3>2 DEF NextOf
      <4> QED  BY <1>2, <4>1 DEF SavedIsPending
    <3> QED  BY <1>4, <3>1, <3>2 DEF RequeueSave
  <2> QED  BY <1>1, <2>5, <2>6, <2>7, <2>8 DEF HolderInv
<1>5. CASE RequeuePush(r, ok)
  <2> DEFINE j == retry[r].job
  <2>1. retry[r].pc # "idle" /\ UNCHANGED <<issued, record, slot>>
    BY <1>5 DEF RequeuePush
  <2>2. j \in Jobs /\ j \in ToSet(issued) /\ ~Owned(j) /\ pending \in Seq(Jobs)
    BY <1>1, <2>1 DEF TypeOK, HolderInv, KnownIds, AtRest
  <2>3. \A q \in Requeuers : retry'[q].pc = "idle"
    BY <1>2, <1>5 DEF RequeuePush, NextOf
  <2>4. SavedIsPending'  BY <2>3 DEF SavedIsPending
  <2>5. CASE UNCHANGED pending
    <3>1. SingleHolder'
      BY <2>1, <2>5 DEF HolderInv, SingleHolder, QueuedOnce, HeldOnce, HeldNotQueued, Holds
    <3>2. AtRest'  BY <2>1, <2>3, <2>5 DEF HolderInv, AtRest, Owned, Holds
    <3>3. KnownIds'  BY <2>1, <2>3, <2>5 DEF HolderInv, KnownIds
    <3> QED  BY <1>1, <2>4, <3>1, <3>2, <3>3 DEF HolderInv
  <2>6. CASE LPush(j)
    <3>1. j \notin ToSet(pending) /\ \A s \in Slots : Holds(s) => slot[s].job # j
      BY <2>2 DEF Owned
    <3>2. ToSet(pending') = ToSet(pending) \cup {j}
          /\ (NoRepeat(pending) => NoRepeat(pending'))
      BY <2>2, <2>6, <3>1, AppendFacts DEF LPush
    <3>3. QueuedOnce'  BY <3>2 DEF HolderInv, SingleHolder, QueuedOnce, NoRepeat
    <3>4. HeldOnce' /\ HeldNotQueued'
      BY <2>1, <3>1, <3>2 DEF HolderInv, SingleHolder, HeldOnce, HeldNotQueued, Holds
    <3>5. record[j].status \notin {"completed", "dead"}
      BY <1>5 DEF HolderInv, SavedIsPending, RequeuePush
    <3>6. \A k : Owned(k)' => k = j \/ Owned(k)  BY <2>1, <3>2 DEF Owned, Holds
    <3>7. AtRest'  BY <2>1, <2>3, <3>5, <3>6 DEF HolderInv, AtRest
    <3>8. KnownIds'  BY <2>1, <2>2, <2>3, <3>2 DEF HolderInv, KnownIds
    <3> QED  BY <1>1, <2>4, <3>3, <3>4, <3>7, <3>8 DEF HolderInv, SingleHolder
  <2> QED  BY <1>5, <2>5, <2>6 DEF RequeuePush
<1> QED  BY <1>3, <1>4, <1>5 DEF RequeueStep

\* The producers, the loop, the clock and the listings.
LEMMA LocalHolderInv ==
    ASSUME OneRequeuer \/ NoRetries, HolderInv, LocalStep
    PROVE  HolderInv'
<1>1. TypeOK /\ TypeOK'  BY LocalStepTypeOK DEF HolderInv
<1>2. ASSUME NEW j \in Jobs, Enqueue(j) PROVE HolderInv'
  <2>1. /\ pending \in Seq(Jobs) /\ issued \in Seq(Jobs) /\ j \notin ToSet(issued)
        /\ UNCHANGED <<slot, retry>>
    BY <1>1, <1>2 DEF TypeOK, Enqueue
  <2>2. j \notin ToSet(pending) /\ \A s \in Slots : Holds(s) => slot[s].job # j
    BY <2>1 DEF HolderInv, KnownIds, Holds
  <2>3. ToSet(pending') = ToSet(pending) \cup {j}
        /\ (NoRepeat(pending) => NoRepeat(pending'))
    BY <1>2, <2>1, <2>2, AppendFacts DEF Enqueue, LPush
  <2>4. ToSet(issued') = ToSet(issued) \cup {j}
    BY <1>2, <2>1, AppendFacts DEF Enqueue
  <2>5. \A k \in Jobs : record'[k].status = IF k = j THEN "pending" ELSE record[k].status
    BY <1>1, <1>2, SaveJobStatus DEF Enqueue
  <2>6. QueuedOnce'  BY <2>3 DEF HolderInv, SingleHolder, QueuedOnce, NoRepeat
  <2>7. HeldOnce' /\ HeldNotQueued'
    BY <2>1, <2>2, <2>3 DEF HolderInv, SingleHolder, HeldOnce, HeldNotQueued, Holds
  <2>8. \A k : Owned(k)' => k = j \/ Owned(k)  BY <2>1, <2>3 DEF Owned, Holds
  <2>9. \A r \in Requeuers : retry[r].pc # "idle" => retry[r].job # j /\ retry[r].job \in Jobs
    BY <1>1, <2>1 DEF TypeOK, HolderInv, KnownIds
  <2>10. AtRest'
    <3>1. \A k \in Jobs : record'[k].status \in {"completed", "dead"} => ~Owned(k)'
      BY <2>5, <2>8 DEF HolderInv, AtRest
    <3>2. ASSUME NEW r \in Requeuers, retry'[r].pc # "idle" PROVE ~Owned(retry[r].job)'
      <4>1. ~Owned(retry[r].job) /\ retry[r].job # j
        BY <2>1, <2>9, <3>2 DEF HolderInv, AtRest
      <4> QED  BY <2>1, <2>3, <4>1 DEF Owned, Holds
    <3> QED  BY <3>1, <3>2 DEF AtRest
  <2>11. KnownIds'  BY <2>1, <2>3, <2>4, <2>5 DEF HolderInv, KnownIds
  <2>12. SavedIsPending'
    BY <2>1, <2>5, <2>9 DEF HolderInv, SavedIsPending
  <2> QED  BY <1>1, <2>6, <2>7, <2>10, <2>11, <2>12 DEF HolderInv, SingleHolder
<1>3. ASSUME NEW j \in Jobs, BackoffElapses(j) PROVE HolderInv'
  <2>1. UNCHANGED <<issued, pending, retry>>  BY <1>3 DEF BackoffElapses
  <2>2. \A k \in Jobs : record'[k].status = record[k].status
    BY <1>1, <1>3 DEF TypeOK, BackoffElapses, Record
  <2>3. \A s \in Slots : slot'[s].pc = slot[s].pc /\ slot'[s].job = slot[s].job
    BY <1>1, <1>3 DEF TypeOK, BackoffElapses, Slot
  <2>4. SingleHolder'
    BY <2>1, <2>3 DEF HolderInv, SingleHolder, QueuedOnce, HeldOnce, HeldNotQueued, Holds
  <2>5. AtRest'  BY <2>1, <2>2, <2>3 DEF HolderInv, AtRest, Owned, Holds
  <2>6. KnownIds'  BY <2>1, <2>2, <2>3 DEF HolderInv, KnownIds
  <2>7. SavedIsPending'  BY <1>1, <2>1, <2>2 DEF HolderInv, TypeOK, SavedIsPending
  <2> QED  BY <1>1, <2>4, <2>5, <2>6, <2>7 DEF HolderInv
<1>4. ASSUME NEW j \in Jobs, Expire(j) PROVE HolderInv'
  <2>1. UNCHANGED <<issued, pending, slot, retry>>  BY <1>4 DEF Expire
  <2>2. \A k \in Jobs : record'[k].status \in {record[k].status, "none"}
    BY <1>1, <1>4 DEF TypeOK, Expire, NoRecord
  <2>3. SingleHolder'
    BY <2>1 DEF HolderInv, SingleHolder, QueuedOnce, HeldOnce, HeldNotQueued, Holds
  <2>4. AtRest'  BY <2>1, <2>2 DEF HolderInv, AtRest, Owned, Holds
  <2>5. KnownIds'  BY <2>1, <2>2 DEF HolderInv, KnownIds
  <2>6. SavedIsPending'  BY <1>1, <2>1, <2>2 DEF HolderInv, TypeOK, SavedIsPending
  <2> QED  BY <1>1, <2>3, <2>4, <2>5, <2>6 DEF HolderInv
<1>5. CASE UNCHANGED <<issued, pending, record, slot, retry>>
  <2>1. SingleHolder'
    BY <1>5 DEF HolderInv, SingleHolder, QueuedOnce, HeldOnce, HeldNotQueued, Holds
  <2>2. AtRest'  BY <1>5 DEF HolderInv, AtRest, Owned, Holds
  <2>3. KnownIds' /\ SavedIsPending'  BY <1>5 DEF HolderInv, KnownIds, SavedIsPending
  <2> QED  BY <1>1, <2>1, <2>2, <2>3 DEF HolderInv
<1>6. ASSUME NEW s \in Slots, Pop(s) PROVE HolderInv'
  <2> DEFINE h == Head(pending)
  <2>1. /\ pending \in Seq(Jobs) /\ pending # <<>> /\ slot[s].pc = "free"
        /\ pending' = Tail(pending) /\ UNCHANGED <<issued, record, retry>>
    BY <1>1, <1>6 DEF TypeOK, Pop
  <2>2. h \in ToSet(pending) /\ ToSet(pending') \subseteq ToSet(pending)
        /\ NoRepeat(pending)
    BY <2>1, PopFacts DEF HolderInv, SingleHolder, QueuedOnce, NoRepeat
  <2>3. NoRepeat(pending') /\ h \notin ToSet(pending')
    BY <2>1, <2>2, PopFacts
  <2>4. /\ slot'[s].job = h /\ slot'[s].pc = "popped"
        /\ \A t \in Slots : t # s => slot'[t] = slot[t]
    BY <1>1, <1>6 DEF TypeOK, Pop, FreeSlot
  <2>5. \A t \in Slots : Holds(t) => slot[t].job # h
    BY <2>2 DEF HolderInv, SingleHolder, HeldNotQueued
  <2>6. QueuedOnce'  BY <2>3 DEF QueuedOnce, NoRepeat
  <2>7. HeldOnce'
    BY <2>4, <2>5 DEF HolderInv, SingleHolder, HeldOnce, Holds
  <2>8. HeldNotQueued'
    BY <2>2, <2>3, <2>4 DEF HolderInv, SingleHolder, HeldNotQueued, Holds
  <2>9. \A k : Owned(k)' => Owned(k)  BY <2>2, <2>4 DEF Owned, Holds
  <2>10. AtRest'  BY <2>1, <2>9 DEF HolderInv, AtRest
  <2>11. KnownIds'  BY <2>1, <2>2, <2>4 DEF HolderInv, KnownIds
  <2>12. SavedIsPending'  BY <2>1 DEF HolderInv, SavedIsPending
  <2> QED  BY <1>1, <2>6, <2>7, <2>8, <2>10, <2>11, <2>12 DEF HolderInv, SingleHolder
<1>7. ASSUME NEW s \in Slots, Start(s) PROVE HolderInv'
  <2>1. slot[s].job \in Jobs /\ slot[s].job \in ToSet(issued)
    BY <1>1, <1>7 DEF TypeOK, HolderInv, KnownIds, Start
  <2> QED  BY <1>1, <1>7, <2>1, Effects, HolderKeeps DEF Start, Holds
<1>8. ASSUME NEW r \in Requeuers, RetryRequest(r) PROVE HolderInv'
  <2>1. UNCHANGED <<issued, pending, record, slot>> /\ retry[r].pc = "idle"
    BY <1>8 DEF RetryRequest, NoRetry
  <2>2. PICK ids : retry' = [retry EXCEPT ![r].todo = ids]
    BY <1>8 DEF RetryRequest
  <2>3. \A q \in Requeuers : retry'[q].pc = "idle"
    BY <1>1, <2>1, <2>2 DEF TypeOK, Retry, OneRequeuer, NoRetries
  <2>4. SingleHolder'
    BY <2>1 DEF HolderInv, SingleHolder, QueuedOnce, HeldOnce, HeldNotQueued, Holds
  <2>5. AtRest'  BY <2>1, <2>3 DEF HolderInv, AtRest, Owned, Holds
  <2>6. KnownIds' /\ SavedIsPending'
    BY <2>1, <2>3 DEF HolderInv, KnownIds, SavedIsPending
  <2> QED  BY <1>1, <2>4, <2>5, <2>6 DEF HolderInv
<1> QED
  BY <1>2, <1>3, <1>4, <1>5, <1>6, <1>7, <1>8 DEF LocalStep, IdleTick, CleanStale, vars

LEMMA NextHolderInv ==
    ASSUME OneRequeuer
    PROVE  HolderInv /\ [Next]_vars => HolderInv'
<1> SUFFICES ASSUME HolderInv, [Next]_vars PROVE HolderInv'
  OBVIOUS
<1>1. CASE LocalStep  BY <1>1, LocalHolderInv
<1>2. CASE RedisStep(TRUE)
  BY <1>2, WorkerHolderInv, RequeueHolderInv DEF RedisStep
<1>3. CASE UNCHANGED vars
  <2>1. TypeOK'  BY <1>3, NextTypeOK DEF HolderInv
  <2>2. SingleHolder' /\ AtRest' /\ KnownIds' /\ SavedIsPending'
    BY <1>3 DEF vars, HolderInv, SingleHolder, QueuedOnce, HeldOnce, HeldNotQueued,
                Holds, AtRest, Owned, KnownIds, SavedIsPending
  <2> QED  BY <2>1, <2>2 DEF HolderInv
<1> QED  BY <1>1, <1>2, <1>3 DEF Next

\* A job is queued once or worked on by one goroutine, never both, in every
\* behaviour in which retry requests do not overlap: Dequeue, Fail, the put-back
\* and RequeueDead each pass it on without copying it.
THEOREM OneHolder ==
    ASSUME OneRequeuer
    PROVE  Spec => []SingleHolder
<1>1. HolderInv => SingleHolder  BY DEF HolderInv
<1> QED  BY <1>1, InitHolderInv, NextHolderInv, PTL DEF Spec

\* In the same behaviours nothing that is completed or dead, and nothing that
\* RequeueDead has loaded as dead, is queued or worked on.
THEOREM FinishedIsAtRest ==
    ASSUME OneRequeuer
    PROVE  Spec => []AtRest
<1>1. HolderInv => AtRest  BY DEF HolderInv
<1> QED  BY <1>1, InitHolderInv, NextHolderInv, PTL DEF Spec

-----------------------------------------------------------------------------
(* No hand-over loses a job while Redis answers.                           *)

\* Somebody will still run the job, or has yet to queue it.
WillBeRun(j) ==
    \/ j \in ToSet(pending)
    \/ \E s \in Slots : Holds(s) /\ slot[s].job = j
    \/ \E r \in Requeuers : retry[r].pc = "saved" /\ retry[r].job = j

Listed(j) == j \in dead \/ \E s \in Slots : slot[s].pc = "burying" /\ slot[s].job = j

\* What both properties say of one job.  RequeueDead takes the id off the
\* dead-letter set in its last step: a second request for the same job may by
\* then have seen it run and die again, so the list is kept for one request.
Accounted(j) ==
    /\ record[j].status \in {"pending", "processing"} => WillBeRun(j)
    /\ OneRequeuer /\ record[j].status = "dead" => Listed(j)

\* A token's holder disturbs nobody's job but its own.
LEMMA OnlyOwnJob ==
    ASSUME NEW s \in Slots, NEW j \in Jobs, Accounted(j), slot[s].job # j,
           record'[j].status = record[j].status,
           ToSet(pending) \subseteq ToSet(pending'), dead \subseteq dead', UNCHANGED retry,
           \A t \in Slots : t # s => slot'[t] = slot[t]
    PROVE  Accounted(j)'
<1>1. \A t \in Slots : slot[t].job = j => slot'[t] = slot[t]
  OBVIOUS
<1>2. WillBeRun(j) => WillBeRun(j)'  BY <1>1 DEF WillBeRun, Holds
<1>3. Listed(j) => Listed(j)'  BY <1>1 DEF Listed
<1> QED  BY <1>2, <1>3 DEF Accounted

\* A holder that keeps its job, whatever unfinished status it saves.
LEMMA HolderAccounts ==
    ASSUME NEW s \in Slots, NEW j \in Jobs, slot'[s].job = j, Holds(s)',
           record'[j].status # "dead"
    PROVE  Accounted(j)'
BY DEF Accounted, WillBeRun

\* A holder that leaves its job's hash as it was.
LEMMA RestAccounts ==
    ASSUME NEW s \in Slots, NEW j \in Jobs, Accounted(j), slot[s].job = j,
           slot[s].pc # "burying", UNCHANGED <<dead, retry>>,
           record'[j].status = record[j].status,
           ToSet(pending) \subseteq ToSet(pending'),
           \A t \in Slots : t # s => slot'[t] = slot[t],
           Holds(s) => (Holds(s)' /\ slot'[s].job = j) \/ j \in ToSet(pending')
                         \/ record[j].status \notin {"pending", "processing"}
    PROVE  Accounted(j)'
<1>1. Listed(j) => Listed(j)'
  BY DEF Listed
<1>2. record[j].status \in {"pending", "processing"} /\ WillBeRun(j) => WillBeRun(j)'
  <2> SUFFICES ASSUME record[j].status \in {"pending", "processing"}, WillBeRun(j)
               PROVE  WillBeRun(j)'
    OBVIOUS
  <2>1. CASE j \in ToSet(pending)  BY <2>1 DEF WillBeRun
  <2>2. ASSUME NEW t \in Slots, Holds(t), slot[t].job = j PROVE WillBeRun(j)'
    <3>1. CASE t = s  BY <2>2, <3>1 DEF WillBeRun
    <3>2. CASE t # s  BY <2>2, <3>2 DEF WillBeRun, Holds
    <3> QED  BY <3>1, <3>2
  <2>3. ASSUME NEW r \in Requeuers, retry[r].pc = "saved", retry[r].job = j
        PROVE  WillBeRun(j)'
    BY <2>3 DEF WillBeRun
  <2> QED  BY <2>1, <2>2, <2>3 DEF WillBeRun
<1> QED  BY <1>1, <1>2 DEF Accounted

\* The worker's Redis commands lose nobody's job while Redis answers.
LEMMA WorkerAccounts ==
    ASSUME TypeOK, \A j \in Jobs : Accounted(j), NEW s \in Slots,
           LoopStep(s, TRUE) \/ GoroutineStep(s, TRUE)
    PROVE  \A j \in Jobs : Accounted(j)'
<1>1. slot[s].pc # "free"
  BY DEF LoopStep, Load, Mark, Claim, PutBackSave, PutBackPush, PutBackRemove,
         GoroutineStep, Succeed, FailRemove, FailSave, FailPush, FailBury
<1>2. PICK k \in Jobs : slot[s].job = k
  BY <1>1 DEF TypeOK
<1>3. slot[s].attempts \in Nat /\ slot[s].delayed \in BOOLEAN /\ pending \in Seq(Jobs)
  BY DEF TypeOK, Slot
<1> DEFINE Saved(status) == \A j \in Jobs : record'[j].status =
                                IF j = k THEN status ELSE record[j].status
           Alone == \A t \in Slots : t # s => slot'[t] = slot[t]
<1>4. LPush(k) => ToSet(pending') = ToSet(pending) \cup {k}
  BY <1>3, AppendFacts DEF LPush
<1>5. ASSUME Alone, UNCHANGED retry, dead \subseteq dead',
             ToSet(pending) \subseteq ToSet(pending'),
             \A j \in Jobs : j # k => record'[j].status = record[j].status,
             Accounted(k)'
      PROVE  \A j \in Jobs : Accounted(j)'
  <2> SUFFICES ASSUME NEW j \in Jobs, j # k PROVE Accounted(j)'
    BY <1>5
  <2> QED  BY <1>2, <1>5, OnlyOwnJob
<1>6. Accounted(k)
  OBVIOUS
<1>7. CASE Load(s, TRUE)
  <2>1. slot[s].pc = "popped" /\ UNCHANGED <<pending, dead, record, retry>>
    BY <1>7 DEF Load
  <2>2. CASE Release(s) /\ record[k].status = "none"
    <3>1. Alone /\ Accounted(k)'
      BY <1>2, <2>1, <2>2, Effects DEF Accounted
    <3> QED  BY <1>5, <2>1, <3>1
  <2>3. CASE slot' = [slot EXCEPT ![s] =
                        [pc |-> "loaded", job |-> slot[s].job,
                         attempts |-> record[slot[s].job].attempts,
                         delayed |-> record[slot[s].job].delayed]]
    <3>1. slot'[s].pc = "loaded" /\ slot'[s].job = k /\ Alone
      BY <1>2, <2>3 DEF TypeOK
    <3>2. Accounted(k)'
      BY <1>2, <1>6, <2>1, <3>1, RestAccounts DEF Holds
    <3> QED  BY <1>5, <2>1, <3>1, <3>2
  <2> QED  BY <1>2, <1>7, <2>2, <2>3 DEF Load
<1>8. CASE Mark(s, TRUE)
  <2>1. UNCHANGED <<pending, dead, retry>> /\ Goto(s, "marked")
        /\ SaveJob(k, "processing", slot[s].attempts, slot[s].delayed)
    BY <1>2, <1>8 DEF Mark
  <2>2. Saved("processing")  BY <1>3, <2>1, SaveJobStatus
  <2>3. slot'[s].pc = "marked" /\ slot'[s].job = k /\ Alone
    BY <1>2, <2>1, Effects
  <2>4. Accounted(k)'  BY <2>2, <2>3, HolderAccounts DEF Holds
  <2> QED  BY <1>5, <2>1, <2>2, <2>3, <2>4
<1>9. CASE Claim(s, TRUE)
  <2>1. UNCHANGED <<pending, dead, record, retry>> /\ Goto(s, "claimed")
        /\ slot[s].pc = "marked"
    BY <1>9 DEF Claim
  <2>2. slot'[s].pc = "claimed" /\ slot'[s].job = k /\ Alone
    BY <1>2, <2>1, Effects
  <2>3. Accounted(k)'  BY <1>2, <1>6, <2>1, <2>2, RestAccounts DEF Holds
  <2> QED  BY <1>5, <2>1, <2>2, <2>3
<1>10. CASE PutBackSave(s, TRUE)
  <2>1. UNCHANGED <<pending, dead, retry>> /\ Goto(s, "returning")
        /\ SaveJob(k, "pending", slot[s].attempts, TRUE)
    BY <1>2, <1>10 DEF PutBackSave
  <2>2. Saved("pending")  BY <1>3, <2>1, SaveJobStatus
  <2>3. slot'[s].pc = "returning" /\ slot'[s].job = k /\ Alone
    BY <1>2, <2>1, Effects
  <2>4. Accounted(k)'  BY <2>2, <2>3, HolderAccounts DEF Holds
  <2> QED  BY <1>5, <2>1, <2>2, <2>3, <2>4
<1>11. CASE PutBackPush(s, TRUE)
  <2>1. UNCHANGED <<dead, record, retry>> /\ Goto(s, "returned") /\ LPush(k)
        /\ slot[s].pc = "returning"
    BY <1>2, <1>11 DEF PutBackPush
  <2>2. Alone  BY <1>2, <2>1, Effects
  <2>3. Accounted(k)'  BY <1>2, <1>4, <1>6, <2>1, <2>2, RestAccounts
  <2> QED  BY <1>4, <1>5, <2>1, <2>2, <2>3
<1>12. CASE PutBackRemove(s, TRUE)
  <2>1. UNCHANGED <<pending, dead, record, retry>> /\ Release(s)
        /\ slot[s].pc = "returned"
    BY <1>12 DEF PutBackRemove
  <2>2. Alone  BY <1>2, <2>1, Effects
  <2>3. Accounted(k)'  BY <1>2, <1>6, <2>1, <2>2, RestAccounts DEF Holds
  <2> QED  BY <1>5, <2>1, <2>2, <2>3
<1>13. CASE Succeed(s, TRUE)
  <2>1. UNCHANGED <<pending, dead, retry>> /\ Release(s)
        /\ SaveJob(k, "completed", slot[s].attempts, slot[s].delayed)
    BY <1>2, <1>13 DEF Succeed
  <2>2. Saved("completed")  BY <1>3, <2>1, SaveJobStatus
  <2>3. Alone  BY <1>2, <2>1, Effects
  <2>4. Accounted(k)'  BY <2>2 DEF Accounted
  <2> QED  BY <1>5, <2>1, <2>2, <2>3, <2>4
<1>14. CASE FailRemove(s, TRUE)
  <2>1. UNCHANGED <<pending, dead, record, retry>> /\ slot[s].pc = "running"
        /\ slot'[s].pc = "failing" /\ slot'[s].job = k /\ Alone
    BY <1>2, <1>14 DEF FailRemove, TypeOK, Slot
  <2>2. Accounted(k)'  BY <1>2, <1>6, <2>1, RestAccounts DEF Holds
  <2> QED  BY <1>5, <2>1, <2>2
<1>15. CASE FailSave(s, TRUE)
  <2>1. UNCHANGED <<pending, dead, retry>>  BY <1>15 DEF FailSave
  <2>2. CASE SaveJob(k, "dead", slot[s].attempts, FALSE) /\ Goto(s, "burying")
    <3>1. Saved("dead")  BY <1>3, <2>2, SaveJobStatus
    <3>2. slot'[s].pc = "burying" /\ slot'[s].job = k /\ Alone
      BY <1>2, <2>2, Effects
    <3>3. Accounted(k)'  BY <3>1, <3>2 DEF Accounted, Listed
    <3> QED  BY <1>5, <2>1, <3>1, <3>2, <3>3
  <2>3. CASE SaveJob(k, "pending", slot[s].attempts, TRUE) /\ Goto(s, "retrying")
    <3>1. Saved("pending")  BY <1>3, <2>3, SaveJobStatus
    <3>2. slot'[s].pc = "retrying" /\ slot'[s].job = k /\ Alone
      BY <1>2, <2>3, Effects
    <3>3. Accounted(k)'  BY <3>1, <3>2, HolderAccounts DEF Holds
    <3> QED  BY <1>5, <2>1, <3>1, <3>2, <3>3
  <2> QED  BY <1>2, <1>15, <2>2, <2>3 DEF FailSave
<1>16. CASE FailPush(s, TRUE)
  <2>1. UNCHANGED <<dead, record, retry>> /\ Release(s) /\ LPush(k)
        /\ slot[s].pc = "retrying"
    BY <1>2, <1>16 DEF FailPush
  <2>2. Alone  BY <1>2, <2>1, Effects
  <2>3. Accounted(k)'  BY <1>2, <1>4, <1>6, <2>1, <2>2, RestAccounts
  <2> QED  BY <1>4, <1>5, <2>1, <2>2, <2>3
<1>17. CASE FailBury(s, TRUE)
  <2>1. UNCHANGED <<pending, record, retry>> /\ Release(s) /\ dead' = dead \cup {k}
        /\ slot[s].pc = "burying"
    BY <1>2, <1>17 DEF FailBury
  <2>2. Alone  BY <1>2, <2>1, Effects
  <2>3. Listed(k)'  BY <2>1 DEF Listed
  <2>4. WillBeRun(k) => WillBeRun(k)'  BY <2>1, <2>2 DEF WillBeRun, Holds
  <2>5. Accounted(k)'  BY <1>6, <2>1, <2>3, <2>4 DEF Accounted
  <2> QED  BY <1>5, <2>1, <2>2, <2>5
<1> QED
  BY <1>7, <1>8, <1>9, <1>10, <1>11, <1>12, <1>13, <1>14, <1>15, <1>16, <1>17
  DEF LoopStep, GoroutineStep

\* A step that changes no status, queues or unlists nothing and leaves the
\* holders and the saved retries as they are.
LEMMA QuietAccounts ==
    ASSUME \A j \in Jobs : Accounted(j),
           \A j \in Jobs : record'[j].status = record[j].status,
           ToSet(pending) \subseteq ToSet(pending'), dead \subseteq dead',
           \A s \in Slots : slot'[s].pc = slot[s].pc /\ slot'[s].job = slot[s].job,
           \A r \in Requeuers : retry[r].pc = "saved" => retry'[r] = retry[r]
    PROVE  \A j \in Jobs : Accounted(j)'
<1> SUFFICES ASSUME NEW j \in Jobs PROVE Accounted(j)'
  OBVIOUS
<1>1. WillBeRun(j) => WillBeRun(j)'  BY DEF WillBeRun, Holds
<1>2. Listed(j) => Listed(j)'  BY DEF Listed
<1> QED  BY <1>1, <1>2 DEF Accounted

\* So do those of a retry request.
LEMMA RequeueAccounts ==
    ASSUME TypeOK, OneRequeuer => HolderInv, \A j \in Jobs : Accounted(j),
           NEW r \in Requeuers, RequeueStep(r, TRUE)
    PROVE  \A j \in Jobs : Accounted(j)'
<1>1. retry \in [Requeuers -> Retry] /\ pending \in Seq(Jobs)
  BY DEF TypeOK
<1>2. CASE RequeueLoad(r, TRUE)
  <2>1. /\ UNCHANGED <<pending, dead, record, slot>> /\ retry[r].pc = "idle"
        /\ \A q \in Requeuers : q # r => retry'[q] = retry[q]
    BY <1>1, <1>2 DEF RequeueLoad
  <2> QED  BY <2>1, QuietAccounts
<1>3. ASSUME retry[r].pc # "idle" PROVE retry[r].job \in Jobs
  BY <1>3 DEF TypeOK
<1>4. CASE RequeueSave(r, TRUE)
  <2>1. PICK k \in Jobs : retry[r].job = k
    BY <1>3, <1>4 DEF RequeueSave
  <2>2. SaveJob(k, "pending", 0, FALSE) /\ UNCHANGED <<pending, dead, slot>>
    BY <1>4, <2>1 DEF RequeueSave
  <2>3. \A j \in Jobs : record'[j].status = IF j = k THEN "pending" ELSE record[j].status
    BY <2>2, SaveJobStatus
  <2>4. /\ retry'[r].pc = "saved" /\ retry'[r].job = k
        /\ \A q \in Requeuers : q # r => retry'[q] = retry[q]
    BY <1>1, <1>4, <2>1 DEF RequeueSave
  <2>5. ASSUME NEW j \in Jobs PROVE Accounted(j)'
    <3>1. CASE j = k  BY <2>3, <2>4, <3>1 DEF Accounted, WillBeRun
    <3>2. CASE j # k
      <4>1. WillBeRun(j) => WillBeRun(j)'
        BY <2>1, <2>2, <2>4, <3>2 DEF WillBeRun, Holds
      <4>2. Listed(j) => Listed(j)'  BY <2>2 DEF Listed
      <4> QED  BY <2>3, <3>2, <4>1, <4>2 DEF Accounted
    <3> QED  BY <3>1, <3>2
  <2> QED  BY <2>5
<1>5. CASE RequeuePush(r, TRUE)
  <2>1. PICK k \in Jobs : retry[r].job = k
    BY <1>3, <1>5 DEF RequeuePush
  <2>2. /\ LPush(k) /\ dead' = dead \ {k} /\ UNCHANGED <<record, slot>>
        /\ retry[r].pc = "saved"
        /\ \A q \in Requeuers : q # r => retry'[q] = retry[q]
    BY <1>1, <1>5, <2>1 DEF RequeuePush, NextOf
  <2>3. ToSet(pending') = ToSet(pending) \cup {k}
    BY <1>1, <2>2, AppendFacts DEF LPush
  <2>4. ASSUME NEW j \in Jobs PROVE Accounted(j)'
    <3>1. WillBeRun(j) => WillBeRun(j)'
      BY <2>1, <2>2, <2>3 DEF WillBeRun, Holds
    <3>2. OneRequeuer => record[k].status # "dead"
      BY <2>1, <2>2 DEF HolderInv, SavedIsPending
    <3>3. j # k /\ Listed(j) => Listed(j)'  BY <2>2 DEF Listed
    <3> QED  BY <2>2, <3>1, <3>2, <3>3 DEF Accounted
  <2> QED  BY <2>4
<1> QED  BY <1>2, <1>4, <1>5 DEF RequeueStep

\* And the producers, the loop, the clock and the listings.
LEMMA LocalAccounts ==
    ASSUME TypeOK, \A j \in Jobs : Accounted(j), LocalStep
    PROVE  \A j \in Jobs : Accounted(j)'
<1>1. ASSUME NEW k \in Jobs, Enqueue(k) PROVE \A j \in Jobs : Accounted(j)'
  <2>1. ToSet(pending') = ToSet(pending) \cup {k} /\ UNCHANGED <<dead, slot, retry>>
    BY <1>1, AppendFacts DEF TypeOK, Enqueue, LPush
  <2>2. \A j \in Jobs : record'[j].status = IF j = k THEN "pending" ELSE record[j].status
    BY <1>1, SaveJobStatus DEF Enqueue
  <2>3. ASSUME NEW j \in Jobs PROVE Accounted(j)'
    <3>1. WillBeRun(j) => WillBeRun(j)'  BY <2>1 DEF WillBeRun, Holds
    <3>2. Listed(j) => Listed(j)'  BY <2>1 DEF Listed
    <3>3. WillBeRun(k)'  BY <2>1 DEF WillBeRun
    <3> QED  BY <2>2, <3>1, <3>2, <3>3 DEF Accounted
  <2> QED  BY <2>3
<1>2. ASSUME NEW k \in Jobs, BackoffElapses(k) PROVE \A j \in Jobs : Accounted(j)'
  <2>1. UNCHANGED <<pending, dead, retry>>  BY <1>2 DEF BackoffElapses
  <2>2. \A j \in Jobs : record'[j].status = record[j].status
    BY <1>2 DEF TypeOK, BackoffElapses, Record
  <2>3. \A s \in Slots : slot'[s].pc = slot[s].pc /\ slot'[s].job = slot[s].job
    BY <1>2 DEF TypeOK, BackoffElapses, Slot
  <2> QED  BY <2>1, <2>2, <2>3, QuietAccounts
<1>3. ASSUME NEW k \in Jobs, Expire(k) PROVE \A j \in Jobs : Accounted(j)'
  <2>1. UNCHANGED <<pending, dead, slot, retry>>  BY <1>3 DEF Expire
  <2>2. \A j \in Jobs : record'[j].status \in {record[j].status, "none"}
    BY <1>3 DEF TypeOK, Expire, NoRecord
  <2>3. ASSUME NEW j \in Jobs PROVE Accounted(j)'
    <3>1. WillBeRun(j) => WillBeRun(j)'  BY <2>1 DEF WillBeRun, Holds
    <3>2. Listed(j) => Listed(j)'  BY <2>1 DEF Listed
    <3> QED  BY <2>2, <3>1, <3>2 DEF Accounted
  <2> QED  BY <2>3
<1>4. CASE IdleTick
  BY <1>4, QuietAccounts DEF IdleTick, vars
<1>5. CASE CleanStale
  <2>1. UNCHANGED <<pending, record, slot, retry>>  BY <1>5 DEF CleanStale
  <2>2. ASSUME NEW j \in Jobs, record[j].status = "dead", j \in dead PROVE j \in dead'
    BY <1>5, <2>2 DEF CleanStale
  <2>3. ASSUME NEW j \in Jobs PROVE Accounted(j)'
    <3>1. WillBeRun(j) => WillBeRun(j)'  BY <2>1 DEF WillBeRun, Holds
    <3>2. record[j].status = "dead" /\ Listed(j) => Listed(j)'
      BY <2>1, <2>2 DEF Listed
    <3> QED  BY <2>1, <3>1, <3>2 DEF Accounted
  <2> QED  BY <2>3
<1>6. ASSUME NEW s \in Slots, Pop(s) PROVE \A j \in Jobs : Accounted(j)'
  <2>1. /\ UNCHANGED <<dead, record, retry>> /\ slot[s].pc = "free"
        /\ slot'[s].pc = "popped" /\ slot'[s].job = Head(pending)
        /\ \A t \in Slots : t # s => slot'[t] = slot[t]
    BY <1>6 DEF Pop, TypeOK, FreeSlot
  <2>2. ToSet(pending) \subseteq ToSet(pending') \cup {Head(pending)}
    BY <1>6, TailFacts DEF TypeOK, Pop
  <2>3. ASSUME NEW j \in Jobs PROVE Accounted(j)'
    <3>1. WillBeRun(j) => WillBeRun(j)'  BY <2>1, <2>2 DEF WillBeRun, Holds
    <3>2. Listed(j) => Listed(j)'  BY <2>1 DEF Listed
    <3> QED  BY <2>1, <3>1, <3>2 DEF Accounted
  <2> QED  BY <2>3
<1>7. ASSUME NEW s \in Slots, Start(s) PROVE \A j \in Jobs : Accounted(j)'
  <2>1. UNCHANGED <<pending, dead, record, retry>> /\ slot[s].pc = "claimed"
    BY <1>7 DEF Start
  <2>2. /\ slot'[s].pc = "running" /\ slot'[s].job = slot[s].job
        /\ \A t \in Slots : t # s => slot'[t] = slot[t]
    BY <1>7, <2>1, Effects DEF Start, TypeOK
  <2>3. ASSUME NEW j \in Jobs PROVE Accounted(j)'
    <3>1. WillBeRun(j) => WillBeRun(j)'  BY <2>1, <2>2 DEF WillBeRun, Holds
    <3>2. Listed(j) => Listed(j)'  BY <2>1, <2>2 DEF Listed
    <3> QED  BY <2>1, <3>1, <3>2 DEF Accounted
  <2> QED  BY <2>3
<1>8. ASSUME NEW r \in Requeuers, RetryRequest(r) PROVE \A j \in Jobs : Accounted(j)'
  <2>1. UNCHANGED <<pending, dead, record, slot>> /\ retry[r].pc = "idle"
    BY <1>8 DEF RetryRequest, NoRetry
  <2>2. \A q \in Requeuers : q # r => retry'[q] = retry[q]
    BY <1>8 DEF RetryRequest, TypeOK
  <2> QED  BY <2>1, <2>2, QuietAccounts
<1> QED  BY <1>1, <1>2, <1>3, <1>4, <1>5, <1>6, <1>7, <1>8 DEF LocalStep

-----------------------------------------------------------------------------
LossInv == TypeOK /\ (OneRequeuer => HolderInv) /\ \A j \in Jobs : Accounted(j)

LEMMA InitLossInv == Init => LossInv
<1> SUFFICES ASSUME Init PROVE LossInv
  OBVIOUS
<1>1. \A j \in Jobs : record[j].status = "none"  BY DEF Init, NoRecord
<1> QED  BY <1>1, InitTypeOK, InitHolderInv DEF LossInv, Accounted

LEMMA NextLossInv == LossInv /\ [Next]_vars => LossInv'
<1> SUFFICES ASSUME LossInv, [Next]_vars PROVE LossInv'
  OBVIOUS
<1>1. TypeOK'  BY NextTypeOK DEF LossInv
<1>2. (OneRequeuer => HolderInv)'  BY NextHolderInv DEF LossInv, OneRequeuer
<1>3. \A j \in Jobs : Accounted(j)'
  <2>1. CASE LocalStep  BY <2>1, LocalAccounts DEF LossInv
  <2>2. CASE RedisStep(TRUE)
    BY <2>2, WorkerAccounts, RequeueAccounts DEF LossInv, RedisStep
  <2>3. CASE UNCHANGED vars  BY <2>3, QuietAccounts DEF LossInv, vars
  <2> QED  BY <2>1, <2>2, <2>3 DEF Next
<1> QED  BY <1>1, <1>2, <1>3 DEF LossInv

\* While Redis answers, no hand-over of Dequeue, the put-back, Fail or
\* RequeueDead drops a job that has not finished: it is queued, or someone
\* holds it who has yet to queue or finish it, however many retry requests
\* overlap.
THEOREM NothingUnfinishedIsLost == Spec => []UnfinishedIsReachable
<1>1. LossInv => UnfinishedIsReachable
  BY DEF LossInv, Accounted, WillBeRun, UnfinishedIsReachable
<1> QED  BY <1>1, InitLossInv, NextLossInv, PTL DEF Spec

\* With one retry request at a time every job whose hash says dead is in the
\* dead-letter set, where bulk retries look for it, or Fail is about to add it.
THEOREM NoDeadJobIsLost ==
    ASSUME OneRequeuer
    PROVE  Spec => []DeadIsListed
<1>1. LossInv => DeadIsListed
  BY DEF LossInv, Accounted, Listed, DeadIsListed
<1> QED  BY <1>1, InitLossInv, NextLossInv, PTL DEF Spec

-----------------------------------------------------------------------------
(* The job hash implements JobContract.                                    *)

Active(j) == record[j].status \in {"pending", "processing"}

\* What a holder's copy has to do with the hash it will overwrite.
Agrees(s) ==
    LET c == slot[s]
        rec == record[c.job]
    IN  /\ c.pc \in {"popped", "loaded", "returning", "retrying"} => rec.status = "pending"
        /\ c.pc \in {"marked", "claimed", "running", "failing"} => rec.status = "processing"
        /\ c.pc \in {"loaded", "marked", "claimed", "returning", "running"} =>
             c.attempts = rec.attempts
        /\ c.pc = "failing" => c.attempts = rec.attempts + 1

\* No handler has a stale copy, and what is queued is pending.
CopyInv ==
    /\ \A j \in ToSet(pending) : record[j].status = "pending"
    /\ \A s \in Slots : Agrees(s)
    /\ \A j \in Jobs : Active(j) => record[j].attempts < MaxAttempts
    /\ \A j \in Jobs \ ToSet(issued) : record[j].attempts = 0
    /\ \A r \in Requeuers :
         /\ retry[r].pc = "loaded" => record[retry[r].job].status = "dead"
         /\ retry[r].pc = "saved" => record[retry[r].job].status = "pending"

-----------------------------------------------------------------------------
(* The copies stay current                                                 *)

\* A holder may overwrite its job's hash: nobody else has a copy of it.
LEMMA HolderWrites ==
    ASSUME HolderInv, CopyInv, NEW s \in Slots, NEW k \in Jobs, slot[s].job = k, Holds(s),
           UNCHANGED <<issued, retry>>, \A t \in Slots : t # s => slot'[t] = slot[t],
           ToSet(pending') \subseteq ToSet(pending) \cup {k},
           k \in ToSet(pending') => record'[k].status = "pending",
           \A j \in Jobs : j # k => record'[j] = record[j],
           Active(k)' => record'[k].attempts < MaxAttempts,
           Agrees(s)'
    PROVE  CopyInv'
<1>1. ToSet(pending) \subseteq Jobs  BY DEF HolderInv, TypeOK, ToSet
<1>2. \A j \in ToSet(pending') : record'[j].status = "pending"
  BY <1>1 DEF CopyInv
<1>3. ASSUME NEW t \in Slots, t # s PROVE Agrees(t)'
  <2>1. Holds(t) => slot[t].job \in Jobs /\ slot[t].job # k
    BY <1>3 DEF HolderInv, TypeOK, SingleHolder, HeldOnce, Holds
  <2>2. CASE Holds(t)
    <3>1. slot'[t] = slot[t] /\ record'[slot[t].job] = record[slot[t].job]
      BY <1>3, <2>1, <2>2
    <3> QED  BY <3>1 DEF CopyInv, Agrees
  <2>3. CASE ~Holds(t)  BY <1>3, <2>3 DEF Agrees, Holds
  <2> QED  BY <2>2, <2>3
<1>4. \A j \in Jobs : Active(j)' => record'[j].attempts < MaxAttempts
  BY DEF CopyInv, Active
<1>5. k \in ToSet(issued)  BY DEF HolderInv, KnownIds, Holds
<1>6. \A j \in Jobs \ ToSet(issued) : record'[j].attempts = 0
  BY <1>5 DEF CopyInv
<1>7. \A r \in Requeuers : retry[r].pc # "idle" => retry[r].job \in Jobs /\ retry[r].job # k
  BY DEF HolderInv, TypeOK, AtRest, Owned
<1>8. \A r \in Requeuers :
         /\ retry'[r].pc = "loaded" => record'[retry'[r].job].status = "dead"
         /\ retry'[r].pc = "saved" => record'[retry'[r].job].status = "pending"
  BY <1>7 DEF CopyInv
<1> QED  BY <1>2, <1>3, <1>4, <1>6, <1>8 DEF CopyInv

\* A step that overwrites no hash and takes no copy of one.
LEMMA CopiesKept ==
    ASSUME TypeOK, CopyInv, UNCHANGED <<issued, retry>>,
           ToSet(pending') \subseteq ToSet(pending),
           \A j \in Jobs : record'[j].status = record[j].status
                            /\ record'[j].attempts = record[j].attempts,
           \A t \in Slots :
              \/ slot'[t].pc \in {"free", "returned", "burying"}
              \/ slot'[t].pc = slot[t].pc /\ slot'[t].job = slot[t].job
                   /\ slot'[t].attempts = slot[t].attempts
    PROVE  CopyInv'
<1>1. ASSUME NEW t \in Slots PROVE Agrees(t)'
  <2>1. slot[t].pc # "free" => slot[t].job \in Jobs  BY DEF TypeOK
  <2> QED  BY <2>1 DEF CopyInv, Agrees
<1>2. ToSet(pending) \subseteq Jobs  BY DEF TypeOK, ToSet
<1>3. \A r \in Requeuers : retry[r].pc # "idle" => retry[r].job \in Jobs  BY DEF TypeOK
<1> QED  BY <1>1, <1>2, <1>3 DEF CopyInv, Active

\* What the worker's commands do to the copy in the slot and to the hash.
LEMMA WorkerCopies ==
    ASSUME HolderInv, CopyInv, NEW s \in Slots,
           LoopStep(s, TRUE) \/ GoroutineStep(s, TRUE)
    PROVE  CopyInv'
<1>1. slot[s].pc # "free"
  BY DEF LoopStep, Load, Mark, Claim, PutBackSave, PutBackPush, PutBackRemove,
         GoroutineStep, Succeed, FailRemove, FailSave, FailPush, FailBury
<1>2. TypeOK  BY DEF HolderInv
<1>3. PICK k \in Jobs : slot[s].job = k
  BY <1>1, <1>2 DEF TypeOK
<1>4. slot[s].attempts \in Nat /\ slot[s].delayed \in BOOLEAN /\ pending \in Seq(Jobs)
      /\ record \in [Jobs -> Record] /\ record[k].attempts \in Nat
  BY <1>2 DEF TypeOK, Slot, Record
<1>5. Agrees(s) /\ (Active(k) => record[k].attempts < MaxAttempts)
  BY DEF CopyInv
<1> DEFINE Alone == \A t \in Slots : t # s => slot'[t] = slot[t]
           Wrote(status, n) ==
               /\ record'[k].status = status /\ record'[k].attempts = n
               /\ \A j \in Jobs : j # k => record'[j] = record[j]
           At(pc, n) == slot'[s].pc = pc /\ slot'[s].job = k /\ slot'[s].attempts = n
<1>6. ASSUME NEW status, NEW n, NEW d, SaveJob(k, status, n, d) PROVE Wrote(status, n)
  BY <1>4, <1>6 DEF SaveJob
<1>7. ASSUME NEW pc, Goto(s, pc) PROVE At(pc, slot[s].attempts) /\ Alone
  BY <1>2, <1>3, <1>7 DEF Goto, TypeOK, Slot
<1>8. Release(s) => slot'[s].pc = "free" /\ Alone
  BY <1>2, <1>3, Effects
<1>9. LPush(k) => ToSet(pending') = ToSet(pending) \cup {k}
  BY <1>4, AppendFacts DEF LPush
<1>10. Holds(s) => k \notin ToSet(pending)
  BY <1>3 DEF HolderInv, SingleHolder, HeldNotQueued
<1>11. CASE Load(s, TRUE)
  <2>1. slot[s].pc = "popped" /\ UNCHANGED <<issued, pending, record, retry>>
    BY <1>11 DEF Load
  <2>2. Alone /\ At("loaded", record[k].attempts)
    BY <1>2, <1>3, <1>5, <1>11, <2>1 DEF Load, TypeOK, Agrees
  <2>3. Agrees(s)'  BY <1>3, <1>5, <2>1, <2>2 DEF Agrees
  <2> QED  BY <1>3, <1>5, <1>10, <2>1, <2>2, <2>3, HolderWrites DEF Holds, Active
<1>12. CASE Mark(s, TRUE)
  <2>1. /\ slot[s].pc = "loaded" /\ UNCHANGED <<issued, pending, retry>>
        /\ Goto(s, "marked") /\ SaveJob(k, "processing", slot[s].attempts, slot[s].delayed)
    BY <1>3, <1>12 DEF Mark
  <2>2. Wrote("processing", slot[s].attempts)  BY <1>6, <2>1
  <2>3. At("marked", slot[s].attempts) /\ Alone  BY <1>7, <2>1
  <2>4. Agrees(s)'  BY <2>2, <2>3 DEF Agrees
  <2>5. slot[s].attempts < MaxAttempts  BY <1>3, <1>5, <2>1 DEF Agrees, Active
  <2> QED
    BY <1>3, <1>10, <2>1, <2>2, <2>3, <2>4, <2>5, HolderWrites DEF Holds
<1>13. CASE Claim(s, TRUE)
  <2>1. /\ slot[s].pc = "marked" /\ UNCHANGED <<issued, pending, record, retry>>
        /\ Goto(s, "claimed")
    BY <1>13 DEF Claim
  <2>2. At("claimed", slot[s].attempts) /\ Alone  BY <1>7, <2>1
  <2>3. Agrees(s)'  BY <1>3, <1>5, <2>1, <2>2 DEF Agrees
  <2> QED  BY <1>3, <1>5, <1>10, <2>1, <2>2, <2>3, HolderWrites DEF Holds, Active
<1>14. CASE PutBackSave(s, TRUE)
  <2>1. /\ slot[s].pc = "claimed" /\ UNCHANGED <<issued, pending, retry>>
        /\ Goto(s, "returning") /\ SaveJob(k, "pending", slot[s].attempts, TRUE)
    BY <1>3, <1>14 DEF PutBackSave
  <2>2. Wrote("pending", slot[s].attempts)  BY <1>6, <2>1
  <2>3. At("returning", slot[s].attempts) /\ Alone  BY <1>7, <2>1
  <2>4. Agrees(s)'  BY <2>2, <2>3 DEF Agrees
  <2>5. slot[s].attempts < MaxAttempts  BY <1>3, <1>5, <2>1 DEF Agrees, Active
  <2> QED
    BY <1>3, <1>10, <2>1, <2>2, <2>3, <2>4, <2>5, HolderWrites DEF Holds
<1>15. CASE PutBackPush(s, TRUE)
  <2>1. /\ slot[s].pc = "returning" /\ UNCHANGED <<issued, record, retry>>
        /\ Goto(s, "returned") /\ LPush(k)
    BY <1>3, <1>15 DEF PutBackPush
  <2>2. At("returned", slot[s].attempts) /\ Alone  BY <1>7, <2>1
  <2>3. Agrees(s)'  BY <2>2 DEF Agrees
  <2>4. record[k].status = "pending"  BY <1>3, <1>5, <2>1 DEF Agrees
  <2> QED
    BY <1>3, <1>5, <1>9, <2>1, <2>2, <2>3, <2>4, HolderWrites DEF Holds, Active
<1>16. CASE PutBackRemove(s, TRUE)
  <2>1. UNCHANGED <<issued, pending, record, retry>> /\ Release(s)
    BY <1>16 DEF PutBackRemove
  <2> QED  BY <1>2, <1>8, <2>1, CopiesKept
<1>17. CASE Succeed(s, TRUE)
  <2>1. /\ slot[s].pc = "running" /\ UNCHANGED <<issued, pending, retry>>
        /\ Release(s) /\ SaveJob(k, "completed", slot[s].attempts, slot[s].delayed)
    BY <1>3, <1>17 DEF Succeed
  <2>2. Wrote("completed", slot[s].attempts)  BY <1>6, <2>1
  <2>3. slot'[s].pc = "free" /\ Alone  BY <1>8, <2>1
  <2>4. Agrees(s)'  BY <2>3 DEF Agrees
  <2> QED
    BY <1>3, <1>10, <2>1, <2>2, <2>3, <2>4, HolderWrites DEF Holds, Active
<1>18. CASE FailRemove(s, TRUE)
  <2>1. slot[s].pc = "running" /\ UNCHANGED <<issued, pending, record, retry>>
    BY <1>18 DEF FailRemove
  <2>2. At("failing", slot[s].attempts + 1) /\ Alone
    BY <1>2, <1>3, <1>18 DEF FailRemove, TypeOK, Slot
  <2>3. Agrees(s)'  BY <1>3, <1>5, <2>1, <2>2 DEF Agrees
  <2> QED  BY <1>3, <1>5, <1>10, <2>1, <2>2, <2>3, HolderWrites DEF Holds, Active
<1>19. CASE FailSave(s, TRUE)
  <2>1. slot[s].pc = "failing" /\ UNCHANGED <<issued, pending, retry>>
    BY <1>19 DEF FailSave
  <2>2. CASE SaveJob(k, "dead", slot[s].attempts, FALSE) /\ Goto(s, "burying")
    <3>1. Wrote("dead", slot[s].attempts)  BY <1>6, <2>2
    <3>2. At("burying", slot[s].attempts) /\ Alone  BY <1>7, <2>2
    <3>3. Agrees(s)'  BY <3>2 DEF Agrees
    <3> QED
      BY <1>3, <1>10, <2>1, <3>1, <3>2, <3>3, HolderWrites DEF Holds, Active
  <2>3. CASE /\ ~(slot[s].attempts >= MaxAttempts)
             /\ SaveJob(k, "pending", slot[s].attempts, TRUE) /\ Goto(s, "retrying")
    <3>1. Wrote("pending", slot[s].attempts)  BY <1>6, <2>3
    <3>2. At("retrying", slot[s].attempts) /\ Alone  BY <1>7, <2>3
    <3>3. Agrees(s)'  BY <3>1, <3>2 DEF Agrees
    <3>4. slot[s].attempts < MaxAttempts  BY <1>4, <2>3, ConstantsAssumption
    <3> QED
      BY <1>3, <1>10, <2>1, <3>1, <3>2, <3>3, <3>4, HolderWrites DEF Holds
  <2> QED  BY <1>3, <1>19, <2>2, <2>3 DEF FailSave
<1>20. CASE FailPush(s, TRUE)
  <2>1. /\ slot[s].pc = "retrying" /\ UNCHANGED <<issued, record, retry>>
        /\ Release(s) /\ LPush(k)
    BY <1>3, <1>20 DEF FailPush
  <2>2. slot'[s].pc = "free" /\ Alone  BY <1>8, <2>1
  <2>3. Agrees(s)'  BY <2>2 DEF Agrees
  <2>4. record[k].status = "pending"  BY <1>3, <1>5, <2>1 DEF Agrees
  <2> QED
    BY <1>3, <1>5, <1>9, <2>1, <2>2, <2>3, <2>4, HolderWrites DEF Holds, Active
<1>21. CASE FailBury(s, TRUE)
  <2>1. UNCHANGED <<issued, pending, record, retry>> /\ Release(s)
    BY <1>21 DEF FailBury
  <2> QED  BY <1>2, <1>8, <2>1, CopiesKept
<1> QED
  BY <1>11, <1>12, <1>13, <1>14, <1>15, <1>16, <1>17, <1>18, <1>19, <1>20, <1>21
  DEF LoopStep, GoroutineStep

\* A step that overwrites or drops the hash of a job nobody has in hand.
LEMMA FreeJobWritten ==
    ASSUME TypeOK, CopyInv, NEW k \in Jobs, UNCHANGED slot,
           \A s \in Slots : slot[s].job = k => ~Holds(s),
           \A j \in Jobs : j # k => record'[j] = record[j],
           ToSet(pending') \subseteq ToSet(pending) \cup {k},
           k \in ToSet(pending') => record'[k].status = "pending",
           Active(k)' => record'[k].attempts < MaxAttempts,
           ToSet(issued) \subseteq ToSet(issued'),
           k \in ToSet(issued') \/ record'[k].attempts = 0,
           \A r \in Requeuers :
              /\ retry'[r].pc = "loaded" => record'[retry'[r].job].status = "dead"
              /\ retry'[r].pc = "saved" => record'[retry'[r].job].status = "pending"
    PROVE  CopyInv'
<1>1. ToSet(pending) \subseteq Jobs  BY DEF TypeOK, ToSet
<1>2. \A j \in ToSet(pending') : record'[j].status = "pending"
  BY <1>1 DEF CopyInv
<1>3. ASSUME NEW s \in Slots PROVE Agrees(s)'
  <2>1. CASE Holds(s)
    <3>1. slot[s].job \in Jobs /\ slot[s].job # k  BY <2>1 DEF TypeOK, Holds
    <3>2. record'[slot[s].job] = record[slot[s].job]  BY <3>1
    <3> QED  BY <3>2 DEF CopyInv, Agrees
  <2>2. CASE ~Holds(s)  BY <2>2 DEF Agrees, Holds
  <2> QED  BY <2>1, <2>2
<1>4. \A j \in Jobs : Active(j)' => record'[j].attempts < MaxAttempts
  BY DEF CopyInv, Active
<1>5. \A j \in Jobs \ ToSet(issued') : record'[j].attempts = 0
  BY DEF CopyInv
<1> QED  BY <1>2, <1>3, <1>4, <1>5 DEF CopyInv

\* The commands of a retry request, the only one at work.
LEMMA RequeueCopies ==
    ASSUME OneRequeuer, HolderInv, CopyInv, NEW r \in Requeuers, RequeueStep(r, TRUE)
    PROVE  CopyInv'
<1>1. /\ TypeOK /\ retry \in [Requeuers -> Retry] /\ pending \in Seq(Jobs)
      /\ \A q \in Requeuers : q = r
  BY DEF HolderInv, TypeOK, OneRequeuer
<1>2. ASSUME retry[r].pc # "idle"
      PROVE  \E k \in Jobs : retry[r].job = k /\ k \in ToSet(issued) /\ ~Owned(k)
  BY <1>1, <1>2 DEF TypeOK, HolderInv, KnownIds, AtRest
<1>3. CASE RequeueLoad(r, TRUE)
  <2>1. UNCHANGED <<issued, pending, record, slot>>  BY <1>3 DEF RequeueLoad
  <2>2. /\ retry'[r].pc = "loaded" => record[retry'[r].job].status = "dead"
        /\ retry'[r].pc # "saved"
    BY <1>1, <1>3 DEF RequeueLoad
  <2> QED  BY <1>1, <2>1, <2>2 DEF CopyInv, Agrees, Active
<1>4. CASE RequeueSave(r, TRUE)
  <2>1. PICK k \in Jobs : retry[r].job = k /\ k \in ToSet(issued) /\ ~Owned(k)
    BY <1>2, <1>4 DEF RequeueSave
  <2>2. SaveJob(k, "pending", 0, FALSE) /\ UNCHANGED <<issued, pending, slot>>
    BY <1>4, <2>1 DEF RequeueSave
  <2>3. /\ record'[k].status = "pending" /\ record'[k].attempts = 0
        /\ \A j \in Jobs : j # k => record'[j] = record[j]
    BY <1>1, <2>2 DEF SaveJob, TypeOK
  <2>4. retry'[r].pc = "saved" /\ retry'[r].job = k
    BY <1>1, <1>4, <2>1 DEF RequeueSave
  <2>5. 0 < MaxAttempts  BY ConstantsAssumption
  <2> QED  BY <1>1, <2>1, <2>2, <2>3, <2>4, <2>5, FreeJobWritten DEF Owned
<1>5. CASE RequeuePush(r, TRUE)
  <2>1. PICK k \in Jobs : retry[r].job = k /\ k \in ToSet(issued) /\ ~Owned(k)
    BY <1>2, <1>5 DEF RequeuePush
  <2>2. LPush(k) /\ UNCHANGED <<issued, record, slot>> /\ retry'[r].pc = "idle"
    BY <1>1, <1>5, <2>1 DEF RequeuePush, NextOf
  <2>3. ToSet(pending') = ToSet(pending) \cup {k}  BY <1>1, <2>2, AppendFacts DEF LPush
  <2>4. record[k].status = "pending"  BY <1>5, <2>1 DEF CopyInv, RequeuePush
  <2>5. Active(k) => record[k].attempts < MaxAttempts  BY DEF CopyInv
  <2> QED
    BY <1>1, <2>1, <2>2, <2>3, <2>4, <2>5, FreeJobWritten DEF Owned, Active
<1> QED  BY <1>3, <1>4, <1>5 DEF RequeueStep

\* The producers, the loop, the clock and the listings.
LEMMA LocalCopies ==
    ASSUME OneRequeuer, HolderInv, CopyInv, LocalStep
    PROVE  CopyInv'
<1>1. TypeOK /\ pending \in Seq(Jobs) /\ issued \in Seq(Jobs)
  BY DEF HolderInv, TypeOK
<1>2. \A r \in Requeuers : retry[r].pc # "idle" => retry[r].job \in Jobs
  BY <1>1 DEF TypeOK
<1>3. ASSUME NEW k \in Jobs, Enqueue(k) PROVE CopyInv'
  <2>1. k \notin ToSet(issued) /\ UNCHANGED <<slot, retry>>  BY <1>3 DEF Enqueue
  <2>2. /\ record'[k].status = "pending" /\ record'[k].attempts = 0
        /\ \A j \in Jobs : j # k => record'[j] = record[j]
    BY <1>1, <1>3 DEF Enqueue, SaveJob, TypeOK
  <2>3. /\ ToSet(pending') = ToSet(pending) \cup {k}
        /\ ToSet(issued') = ToSet(issued) \cup {k}
    BY <1>1, <1>3, AppendFacts DEF Enqueue, LPush
  <2>4. /\ \A s \in Slots : slot[s].job = k => ~Holds(s)
        /\ \A r \in Requeuers : retry[r].pc # "idle" => retry[r].job # k
    BY <2>1 DEF HolderInv, KnownIds, Holds
  <2>5. \A r \in Requeuers :
          /\ retry'[r].pc = "loaded" => record'[retry'[r].job].status = "dead"
          /\ retry'[r].pc = "saved" => record'[retry'[r].job].status = "pending"
    BY <1>2, <2>1, <2>2, <2>4 DEF CopyInv
  <2>6. 0 < MaxAttempts  BY ConstantsAssumption
  <2> QED  BY <1>1, <2>1, <2>2, <2>3, <2>4, <2>5, <2>6, FreeJobWritten
<1>4. ASSUME NEW k \in Jobs, BackoffElapses(k) PROVE CopyInv'
  <2>1. UNCHANGED <<issued, pending, retry>>  BY <1>4 DEF BackoffElapses
  <2>2. \A j \in Jobs : record'[j].status = record[j].status
                         /\ record'[j].attempts = record[j].attempts
    BY <1>1, <1>4 DEF TypeOK, BackoffElapses, Record
  <2>3. \A s \in Slots : slot'[s].pc = slot[s].pc /\ slot'[s].job = slot[s].job
                          /\ slot'[s].attempts = slot[s].attempts
    BY <1>1, <1>4 DEF TypeOK, BackoffElapses, Slot
  <2> QED  BY <1>1, <2>1, <2>2, <2>3, CopiesKept
<1>5. ASSUME NEW k \in Jobs, Expire(k) PROVE CopyInv'
  <2>1. UNCHANGED <<issued, pending, slot, retry>> /\ ~InHand(k)  BY <1>5 DEF Expire
  <2>2. /\ record'[k].status = "none" /\ record'[k].attempts = 0
        /\ \A j \in Jobs : j # k => record'[j] = record[j]
    BY <1>1, <1>5 DEF TypeOK, Expire, NoRecord
  <2>3. k \notin ToSet(pending)  BY <1>5 DEF Expire, HolderInv, AtRest, Owned
  <2>4. \A r \in Requeuers :
          /\ retry'[r].pc = "loaded" => record'[retry'[r].job].status = "dead"
          /\ retry'[r].pc = "saved" => record'[retry'[r].job].status = "pending"
    BY <1>2, <2>1, <2>2 DEF CopyInv, InHand
  <2> QED
    BY <1>1, <2>1, <2>2, <2>3, <2>4, FreeJobWritten DEF InHand, Active
<1>6. CASE UNCHANGED <<issued, pending, record, slot, retry>>
  BY <1>6 DEF CopyInv, Agrees, Active
<1>7. ASSUME NEW s \in Slots, Pop(s) PROVE CopyInv'
  <2>1. /\ UNCHANGED <<issued, record, retry>> /\ pending # <<>> /\ pending' = Tail(pending)
        /\ slot'[s].pc = "popped" /\ slot'[s].job = Head(pending)
        /\ \A t \in Slots : t # s => slot'[t] = slot[t]
    BY <1>1, <1>7 DEF Pop, TypeOK, FreeSlot
  <2>2. ToSet(pending') \subseteq ToSet(pending) /\ Head(pending) \in ToSet(pending)
    BY <1>1, <2>1, PopFacts
  <2>3. Agrees(s)'  BY <2>1, <2>2 DEF CopyInv, Agrees
  <2>4. \A t \in Slots : Agrees(t)'  BY <2>1, <2>3 DEF CopyInv, Agrees
  <2> QED  BY <2>1, <2>2, <2>4 DEF CopyInv, Active
<1>8. ASSUME NEW s \in Slots, Start(s) PROVE CopyInv'
  <2>1. UNCHANGED <<issued, pending, record, retry>> /\ slot[s].pc = "claimed"
    BY <1>8 DEF Start
  <2>2. /\ slot'[s].pc = "running" /\ slot'[s].job = slot[s].job
        /\ slot'[s].attempts = slot[s].attempts
        /\ \A t \in Slots : t # s => slot'[t] = slot[t]
    BY <1>1, <1>8 DEF Start, Goto, TypeOK, Slot
  <2>3. Agrees(s)'  BY <2>1, <2>2 DEF CopyInv, Agrees
  <2>4. \A t \in Slots : Agrees(t)'  BY <2>1, <2>2, <2>3 DEF CopyInv, Agrees
  <2> QED  BY <2>1, <2>4 DEF CopyInv, Active
<1>9. ASSUME NEW r \in Requeuers, RetryRequest(r) PROVE CopyInv'
  <2>1. UNCHANGED <<issued, pending, record, slot>> /\ retry[r].pc = "idle"
    BY <1>9 DEF RetryRequest, NoRetry
  <2>2. \A q \in Requeuers : retry'[q].pc = "idle"
    BY <1>1, <1>9, <2>1 DEF RetryRequest, TypeOK, Retry, OneRequeuer
  <2> QED  BY <2>1, <2>2 DEF CopyInv, Agrees, Active
<1> QED
  BY <1>3, <1>4, <1>5, <1>6, <1>7, <1>8, <1>9 DEF LocalStep, IdleTick, CleanStale, vars

-----------------------------------------------------------------------------
(* Every step is one of the contract's, or none                            *)

LEMMA StateNames ==
    /\ StateName["none"] = "gone"
    /\ StateName["pending"] = "waiting"
    /\ StateName["processing"] = "running"
    /\ StateName["completed"] = "done"
    /\ StateName["dead"] = "dead"
BY DEF StateName

\* A step that hands out no id and changes no status and no count.
LEMMA Stutters ==
    ASSUME UNCHANGED issued,
           \A j \in Jobs : record'[j].status = record[j].status
                            /\ record'[j].attempts = record[j].attempts
    PROVE  UNCHANGED Contract!vars
<1>1. ContractState' = ContractState
  BY DEF ContractState
<1>2. ContractAttempts' = ContractAttempts
  BY DEF ContractAttempts
<1> QED  BY <1>1, <1>2 DEF Contract!vars

\* A step that overwrites one hash moves that job alone.
LEMMA MayMove ==
    ASSUME UNCHANGED issued, NEW k \in Jobs, k \in ToSet(issued), NEW status,
           \A j \in Jobs : record'[j].status = IF j = k THEN status ELSE record[j].status
    PROVE  /\ ContractState[k] = StateName[record[k].status]
           /\ ContractState' = [ContractState EXCEPT ![k] = StateName[status]]
<1>1. ContractState[k] = StateName[record[k].status]
  BY DEF ContractState
<1>2. ContractState' = [ContractState EXCEPT ![k] = StateName[status]]
  BY DEF ContractState
<1> QED  BY <1>1, <1>2

LEMMA InitImplements == Init => Contract!Init
<1> SUFFICES ASSUME Init PROVE Contract!Init
  OBVIOUS
<1>1. ToSet(issued) = {}  BY DEF Init, ToSet
<1>2. ContractState = [j \in Jobs |-> "absent"]  BY <1>1 DEF ContractState
<1>3. ContractAttempts = [j \in Jobs |-> 0]  BY DEF Init, NoRecord, ContractAttempts
<1> QED  BY <1>2, <1>3 DEF Contract!Init

\* The worker begins, postpones, finishes, tries again and gives up.
LEMMA WorkerImplements ==
    ASSUME HolderInv, CopyInv, NEW s \in Slots,
           LoopStep(s, TRUE) \/ GoroutineStep(s, TRUE)
    PROVE  Contract!Next \/ UNCHANGED Contract!vars
<1>1. slot[s].pc # "free"
  BY DEF LoopStep, Load, Mark, Claim, PutBackSave, PutBackPush, PutBackRemove,
         GoroutineStep, Succeed, FailRemove, FailSave, FailPush, FailBury
<1>2. TypeOK  BY DEF HolderInv
<1>3. PICK k \in Jobs : slot[s].job = k /\ k \in ToSet(issued)
  BY <1>1, <1>2 DEF TypeOK, HolderInv, KnownIds
<1>4. record[k].attempts \in Nat /\ slot[s].attempts \in Nat /\ slot[s].delayed \in BOOLEAN
  BY <1>2 DEF TypeOK, Record, Slot
<1>5. Agrees(s) /\ (Active(k) => record[k].attempts < MaxAttempts)
  BY DEF CopyInv
<1> USE DEF Contract!Move, Contract!CountTo
<1>6. CASE UNCHANGED <<issued, record>>  BY <1>6, Stutters
<1>7. CASE Mark(s, TRUE)
  <2>1. /\ slot[s].pc = "loaded" /\ UNCHANGED issued
        /\ SaveJob(k, "processing", slot[s].attempts, slot[s].delayed)
    BY <1>3, <1>7 DEF Mark
  <2>2. record[k].status = "pending" /\ slot[s].attempts = record[k].attempts
    BY <1>3, <1>5, <2>1 DEF Agrees
  <2>3. /\ \A j \in Jobs : record'[j].status = IF j = k THEN "processing" ELSE record[j].status
        /\ \A j \in Jobs : record'[j].attempts = IF j = k THEN slot[s].attempts ELSE record[j].attempts
    BY <1>2, <2>1 DEF SaveJob, TypeOK
  <2>4. UNCHANGED ContractAttempts  BY <2>2, <2>3 DEF ContractAttempts
  <2>5. Contract!Begin(k)
    BY <1>3, <2>1, <2>2, <2>3, <2>4, MayMove, StateNames DEF Contract!Begin
  <2> QED  BY <2>5 DEF Contract!Next
<1>8. CASE PutBackSave(s, TRUE)
  <2>1. /\ slot[s].pc = "claimed" /\ UNCHANGED issued
        /\ SaveJob(k, "pending", slot[s].attempts, TRUE)
    BY <1>3, <1>8 DEF PutBackSave
  <2>2. record[k].status = "processing" /\ slot[s].attempts = record[k].attempts
    BY <1>3, <1>5, <2>1 DEF Agrees
  <2>3. /\ \A j \in Jobs : record'[j].status = IF j = k THEN "pending" ELSE record[j].status
        /\ \A j \in Jobs : record'[j].attempts = IF j = k THEN slot[s].attempts ELSE record[j].attempts
    BY <1>2, <2>1 DEF SaveJob, TypeOK
  <2>4. UNCHANGED ContractAttempts  BY <2>2, <2>3 DEF ContractAttempts
  <2>5. Contract!Postpone(k)
    BY <1>3, <2>1, <2>2, <2>3, <2>4, MayMove, StateNames DEF Contract!Postpone
  <2> QED  BY <2>5 DEF Contract!Next
<1>9. CASE Succeed(s, TRUE)
  <2>1. /\ slot[s].pc = "running" /\ UNCHANGED issued
        /\ SaveJob(k, "completed", slot[s].attempts, slot[s].delayed)
    BY <1>3, <1>9 DEF Succeed
  <2>2. record[k].status = "processing" /\ slot[s].attempts = record[k].attempts
    BY <1>3, <1>5, <2>1 DEF Agrees
  <2>3. /\ \A j \in Jobs : record'[j].status = IF j = k THEN "completed" ELSE record[j].status
        /\ \A j \in Jobs : record'[j].attempts = IF j = k THEN slot[s].attempts ELSE record[j].attempts
    BY <1>2, <2>1 DEF SaveJob, TypeOK
  <2>4. UNCHANGED ContractAttempts  BY <2>2, <2>3 DEF ContractAttempts
  <2>5. Contract!Finish(k)
    BY <1>3, <2>1, <2>2, <2>3, <2>4, MayMove, StateNames DEF Contract!Finish
  <2> QED  BY <2>5 DEF Contract!Next
<1>10. CASE FailSave(s, TRUE)
  <2>1. slot[s].pc = "failing" /\ UNCHANGED issued  BY <1>10 DEF FailSave
  <2>2. /\ record[k].status = "processing" /\ slot[s].attempts = record[k].attempts + 1
        /\ record[k].attempts < MaxAttempts
    BY <1>3, <1>5, <2>1 DEF Agrees, Active
  <2>3. CASE slot[s].attempts >= MaxAttempts /\ SaveJob(k, "dead", slot[s].attempts, FALSE)
    <3>1. record[k].attempts + 1 = MaxAttempts /\ slot[s].attempts = MaxAttempts
      BY <1>4, <2>2, <2>3, ConstantsAssumption
    <3>2. /\ \A j \in Jobs : record'[j].status = IF j = k THEN "dead" ELSE record[j].status
          /\ \A j \in Jobs : record'[j].attempts = IF j = k THEN slot[s].attempts ELSE record[j].attempts
      BY <1>2, <2>3 DEF SaveJob, TypeOK
    <3>3. ContractAttempts[k] = record[k].attempts  BY DEF ContractAttempts
    <3>4. ContractAttempts' = [ContractAttempts EXCEPT ![k] = slot[s].attempts]
      BY <3>2 DEF ContractAttempts
    <3>5. Contract!GiveUp(k)
      BY <1>3, <2>1, <2>2, <3>1, <3>2, <3>3, <3>4, MayMove, StateNames DEF Contract!GiveUp
    <3> QED  BY <3>5 DEF Contract!Next
  <2>4. CASE /\ ~(slot[s].attempts >= MaxAttempts)
             /\ SaveJob(k, "pending", slot[s].attempts, TRUE)
    <3>1. record[k].attempts + 1 < MaxAttempts
      BY <1>4, <2>2, <2>4, ConstantsAssumption
    <3>2. /\ \A j \in Jobs : record'[j].status = IF j = k THEN "pending" ELSE record[j].status
          /\ \A j \in Jobs : record'[j].attempts = IF j = k THEN slot[s].attempts ELSE record[j].attempts
      BY <1>2, <2>4 DEF SaveJob, TypeOK
    <3>3. ContractAttempts[k] = record[k].attempts  BY DEF ContractAttempts
    <3>4. ContractAttempts' = [ContractAttempts EXCEPT ![k] = slot[s].attempts]
      BY <3>2 DEF ContractAttempts
    <3>5. Contract!TryAgain(k)
      BY <1>3, <2>1, <2>2, <3>1, <3>2, <3>3, <3>4, MayMove, StateNames DEF Contract!TryAgain
    <3> QED  BY <3>5 DEF Contract!Next
  <2>5. CASE UNCHANGED record  BY <2>1, <2>5, Stutters
  <2> QED  BY <1>3, <1>10, <2>3, <2>4, <2>5 DEF FailSave
<1> QED
  BY <1>6, <1>7, <1>8, <1>9, <1>10
  DEF LoopStep, Load, Claim, PutBackPush, PutBackRemove, GoroutineStep, FailRemove,
      FailPush, FailBury

\* A retry request revives a dead job.
LEMMA RequeueImplements ==
    ASSUME HolderInv, CopyInv, NEW r \in Requeuers, RequeueStep(r, TRUE)
    PROVE  Contract!Next \/ UNCHANGED Contract!vars
<1>1. CASE UNCHANGED <<issued, record>>  BY <1>1, Stutters
<1>2. CASE RequeueSave(r, TRUE)
  <2>1. TypeOK  BY DEF HolderInv
  <2>2. PICK k \in Jobs : retry[r].job = k /\ k \in ToSet(issued)
    BY <1>2, <2>1 DEF RequeueSave, TypeOK, HolderInv, KnownIds
  <2>3. UNCHANGED issued /\ SaveJob(k, "pending", 0, FALSE) /\ record[k].status = "dead"
    BY <1>2, <2>2 DEF RequeueSave, CopyInv
  <2>4. /\ \A j \in Jobs : record'[j].status = IF j = k THEN "pending" ELSE record[j].status
        /\ \A j \in Jobs : record'[j].attempts = IF j = k THEN 0 ELSE record[j].attempts
    BY <2>1, <2>3 DEF SaveJob, TypeOK
  <2>5. ContractAttempts' = [ContractAttempts EXCEPT ![k] = 0]
    BY <2>4 DEF ContractAttempts
  <2>6. Contract!Revive(k)
    BY <2>2, <2>3, <2>4, <2>5, MayMove, StateNames
    DEF Contract!Revive, Contract!Move, Contract!CountTo
  <2> QED  BY <2>6 DEF Contract!Next
<1> QED  BY <1>1, <1>2 DEF RequeueStep, RequeueLoad, RequeuePush

\* A producer submits, and the time to live forgets.
LEMMA LocalImplements ==
    ASSUME HolderInv, CopyInv, LocalStep
    PROVE  Contract!Next \/ UNCHANGED Contract!vars
<1>1. TypeOK /\ issued \in Seq(Jobs)  BY DEF HolderInv, TypeOK
<1>2. ASSUME NEW k \in Jobs, Enqueue(k) PROVE Contract!Next
  <2>1. k \notin ToSet(issued) /\ ToSet(issued') = ToSet(issued) \cup {k}
    BY <1>1, <1>2, AppendFacts DEF Enqueue
  <2>2. \A j \in Jobs : /\ record'[j].status = IF j = k THEN "pending" ELSE record[j].status
                       /\ record'[j].attempts = IF j = k THEN 0 ELSE record[j].attempts
    BY <1>1, <1>2 DEF Enqueue, SaveJob, TypeOK
  <2>3. record[k].attempts = 0  BY <2>1 DEF CopyInv
  <2>4. UNCHANGED ContractAttempts  BY <2>2, <2>3 DEF ContractAttempts
  <2>5. ContractState[k] = "absent"  BY <2>1 DEF ContractState
  <2>6. ContractState' = [ContractState EXCEPT ![k] = "waiting"]
    BY <2>1, <2>2, StateNames DEF ContractState
  <2>7. Contract!Submit(k)  BY <2>4, <2>5, <2>6 DEF Contract!Submit, Contract!Move
  <2> QED  BY <2>7 DEF Contract!Next
<1>3. ASSUME NEW k \in Jobs, BackoffElapses(k) PROVE UNCHANGED Contract!vars
  <2>1. UNCHANGED issued  BY <1>3 DEF BackoffElapses
  <2>2. \A j \in Jobs : record'[j].status = record[j].status
                         /\ record'[j].attempts = record[j].attempts
    BY <1>1, <1>3 DEF TypeOK, BackoffElapses, Record
  <2> QED  BY <2>1, <2>2, Stutters
<1>4. ASSUME NEW k \in Jobs, Expire(k) PROVE Contract!Next
  <2>1. UNCHANGED issued /\ record[k].status \in {"completed", "dead"}
    BY <1>4 DEF Expire
  <2>2. \A j \in Jobs : /\ record'[j].status = IF j = k THEN "none" ELSE record[j].status
                       /\ record'[j].attempts = IF j = k THEN 0 ELSE record[j].attempts
    BY <1>1, <1>4 DEF TypeOK, Expire, NoRecord
  <2>3. k \in ToSet(issued)  BY <2>1 DEF HolderInv, KnownIds
  <2>4. ContractAttempts' = [ContractAttempts EXCEPT ![k] = 0]
    BY <2>2 DEF ContractAttempts
  <2>5. Contract!Forget(k)
    BY <2>1, <2>2, <2>3, <2>4, MayMove, StateNames
    DEF Contract!Forget, Contract!Move, Contract!CountTo
  <2> QED  BY <2>5 DEF Contract!Next
<1>5. CASE UNCHANGED <<issued, record>>  BY <1>5, Stutters
<1> QED
  BY <1>2, <1>3, <1>4, <1>5
  DEF LocalStep, IdleTick, CleanStale, Pop, Start, RetryRequest, vars

-----------------------------------------------------------------------------
ContractInv == HolderInv /\ CopyInv

LEMMA InitContractInv == Init => ContractInv
<1> SUFFICES ASSUME Init PROVE ContractInv
  OBVIOUS
<1>1. ToSet(pending) = {}  BY DEF Init, ToSet
<1>2. \A s \in Slots : Agrees(s)  BY DEF Init, FreeSlot, Agrees
<1>3. \A j \in Jobs : record[j].status = "none" /\ record[j].attempts = 0
  BY DEF Init, NoRecord
<1>4. \A r \in Requeuers : retry[r].pc = "idle"  BY DEF Init, NoRetry
<1>5. CopyInv  BY <1>1, <1>2, <1>3, <1>4 DEF CopyInv, Active
<1> QED  BY <1>5, InitHolderInv DEF ContractInv

LEMMA NextContractInv ==
    ASSUME OneRequeuer
    PROVE  ContractInv /\ [Next]_vars => ContractInv'
<1> SUFFICES ASSUME ContractInv, [Next]_vars PROVE ContractInv'
  OBVIOUS
<1>1. HolderInv'  BY NextHolderInv DEF ContractInv
<1>2. CASE LocalStep  BY <1>1, <1>2, LocalCopies DEF ContractInv
<1>3. CASE RedisStep(TRUE)
  BY <1>1, <1>3, WorkerCopies, RequeueCopies DEF ContractInv, RedisStep
<1>4. CASE UNCHANGED vars
  <2>1. CopyInv'  BY <1>4 DEF ContractInv, vars, CopyInv, Agrees, Active
  <2> QED  BY <1>1, <2>1 DEF ContractInv
<1> QED  BY <1>2, <1>3, <1>4 DEF Next

LEMMA NextImplements ==
    ContractInv /\ [Next]_vars => [Contract!Next]_(Contract!vars)
<1> SUFFICES ASSUME ContractInv, [Next]_vars PROVE Contract!Next \/ UNCHANGED Contract!vars
  OBVIOUS
<1>1. CASE LocalStep  BY <1>1, LocalImplements DEF ContractInv
<1>2. CASE RedisStep(TRUE)
  BY <1>2, WorkerImplements, RequeueImplements DEF ContractInv, RedisStep
<1>3. CASE UNCHANGED vars  BY <1>3, Stutters DEF vars
<1> QED  BY <1>1, <1>2, <1>3 DEF Next

\* With one retry request at a time the record of every job behaves as the
\* contract's state machine: no stale copy of a job that Dequeue, Fail, the
\* put-back or RequeueDead still holds ever overwrites a newer record.
THEOREM QueueImplementsContract ==
    ASSUME OneRequeuer
    PROVE  Spec => ImplementsContract
BY InitContractInv, NextContractInv, InitImplements, NextImplements, PTL
DEF Spec, ImplementsContract, Contract!Spec

-----------------------------------------------------------------------------
(* Jobs that never failed run in the order they were enqueued.             *)

\* j is in the list q before m.
Precedes(q, j, m) == \E a, b \in DOMAIN q : a < b /\ q[a] = j /\ q[b] = m

\* A push leaves the order as it is, and what it pushes comes last.
LEMMA PushOrder ==
    ASSUME NEW S, NEW q \in Seq(S), NEW e \in S, NEW j
    PROVE  /\ \A m : Precedes(q, j, m) => Precedes(Append(q, e), j, m)
           /\ j \in ToSet(q) => Precedes(Append(q, e), j, e)
<1> DEFINE a == Append(q, e)
<1>1. /\ Len(q) \in Nat /\ DOMAIN q = 1..Len(q) /\ DOMAIN a = 1..(Len(q) + 1)
      /\ a[Len(q) + 1] = e /\ \A i \in 1..Len(q) : a[i] = q[i]
  OBVIOUS
<1> HIDE DEF a
<1>2. ASSUME NEW m, Precedes(q, j, m) PROVE Precedes(a, j, m)
  <2>1. PICK x \in 1..Len(q), y \in 1..Len(q) : x < y /\ q[x] = j /\ q[y] = m  BY <1>1, <1>2 DEF Precedes
  <2>2. x \in DOMAIN a /\ y \in DOMAIN a /\ a[x] = j /\ a[y] = m  BY <1>1, <2>1
  <2> QED  BY <2>1, <2>2 DEF Precedes
<1>3. ASSUME j \in ToSet(q) PROVE Precedes(a, j, e)
  <2>1. PICK x \in 1..Len(q) : q[x] = j  BY <1>1, <1>3 DEF ToSet
  <2>2. /\ x \in DOMAIN a /\ Len(q) + 1 \in DOMAIN a /\ x < Len(q) + 1
        /\ a[x] = j /\ a[Len(q) + 1] = e
    BY <1>1, <2>1
  <2> QED  BY <2>2 DEF Precedes
<1> QED  BY <1>2, <1>3 DEF a

\* A pop leaves the order of the others as it is.
LEMMA PopOrder ==
    ASSUME NEW S, NEW q \in Seq(S), q # <<>>, NoRepeat(q), NEW j \in ToSet(Tail(q)), NEW m, Precedes(q, j, m)
    PROVE  Precedes(Tail(q), j, m)
<1> DEFINE t == Tail(q)
<1>1. /\ Len(q) \in Nat /\ DOMAIN q = 1..Len(q) /\ DOMAIN t = 1..(Len(q) - 1)
      /\ Head(q) = q[1] /\ \A i \in 1..(Len(q) - 1) : t[i] = q[i + 1]
  OBVIOUS
<1>2. j # Head(q)  BY PopFacts
<1> HIDE DEF t
<1>3. PICK x \in 1..Len(q), y \in 1..Len(q) : x < y /\ q[x] = j /\ q[y] = m  BY <1>1 DEF Precedes
<1>4. x # 1  BY <1>1, <1>2, <1>3
<1>5. x - 1 \in 1..(Len(q) - 1) /\ y - 1 \in 1..(Len(q) - 1) /\ x - 1 < y - 1  BY <1>1, <1>3, <1>4
<1>6. t[x - 1] = q[x - 1 + 1] /\ t[y - 1] = q[y - 1 + 1]  BY <1>1, <1>5
<1>7. t[x - 1] = j /\ t[y - 1] = m  BY <1>1, <1>3, <1>6
<1> QED  BY <1>1, <1>5, <1>7 DEF Precedes, t

\* Whatever was enqueued after a job that has not failed and is still in the
\* list is behind it, even if it has failed: it has not been popped.
Ordered ==
    \A i, k \in DOMAIN issued :
        i < k /\ record[issued[i]].attempts = 0 /\ issued[i] \in ToSet(pending)
        => Precedes(pending, issued[i], issued[k])

\* What is pushed again, by the put-back or by Fail, has failed before.
Pushable ==
    /\ \A j \in Jobs : record[j].delayed => record[j].attempts > 0
    /\ \A s \in Slots : slot[s].delayed \/ slot[s].pc = "failing" => slot[s].attempts > 0
    /\ \A s \in Slots : slot[s].pc \in {"retrying", "returning"} => record[slot[s].job].attempts > 0

OrderInv == HolderInv /\ NoRepeat(issued) /\ Pushable /\ Ordered

LEMMA InitOrderInv == Init => OrderInv
<1> SUFFICES ASSUME Init PROVE OrderInv  OBVIOUS
<1>1. HolderInv  BY InitHolderInv
<1>2. issued = <<>> /\ DOMAIN issued = {}  BY DEF Init
<1>3. Pushable  BY <1>1 DEF Init, Pushable, NoRecord, FreeSlot, HolderInv, TypeOK
<1> QED  BY <1>1, <1>2, <1>3 DEF OrderInv, NoRepeat, Ordered

\* A step that pushes nothing that has not failed, and forgets no failure of
\* what is in the list.
LEMMA OrderKept ==
    ASSUME Ordered, UNCHANGED issued,
           \A j \in ToSet(pending') : record'[j].attempts = 0 =>
              /\ j \in ToSet(pending) /\ record[j].attempts = 0
              /\ \A m : Precedes(pending, j, m) => Precedes(pending', j, m)
    PROVE  Ordered'
BY DEF Ordered

\* A step in which the holder of s may overwrite the hash of its own job.
LEMMA PushableKept ==
    ASSUME HolderInv, Pushable, NEW s \in Slots, slot[s].pc # "free",
           \A t \in Slots : t # s => slot'[t] = slot[t],
           \A j \in Jobs : j # slot[s].job => record'[j] = record[j],
           Holds(s) \/ record' = record,
           record'[slot[s].job].delayed => record'[slot[s].job].attempts > 0,
           slot'[s].delayed \/ slot'[s].pc = "failing" => slot'[s].attempts > 0,
           slot'[s].pc \in {"retrying", "returning"} => record'[slot'[s].job].attempts > 0
    PROVE  Pushable'
<1>1. \A j \in Jobs : record'[j].delayed => record'[j].attempts > 0  BY DEF Pushable
<1>2. \A t \in Slots : slot'[t].delayed \/ slot'[t].pc = "failing" => slot'[t].attempts > 0  BY DEF Pushable
<1>3. ASSUME NEW t \in Slots, t # s, slot[t].pc \in {"retrying", "returning"}
      PROVE  record'[slot[t].job].attempts > 0
  <2>1. Holds(t) /\ slot[t].job \in Jobs  BY <1>3 DEF Holds, HolderInv, TypeOK
  <2>2. CASE Holds(s)
    <3>1. slot[t].job # slot[s].job  BY <1>3, <2>1, <2>2 DEF HolderInv, SingleHolder, HeldOnce
    <3> QED  BY <1>3, <2>1, <3>1 DEF Pushable
  <2>3. CASE record' = record  BY <1>3, <2>3 DEF Pushable
  <2> QED  BY <2>2, <2>3
<1> QED  BY <1>1, <1>2, <1>3 DEF Pushable

\* The worker's commands.
LEMMA WorkerOrder ==
    ASSUME OrderInv, NEW s \in Slots, LoopStep(s, TRUE) \/ GoroutineStep(s, TRUE)
    PROVE  Pushable' /\ Ordered' /\ UNCHANGED issued
<1> DEFINE k == slot[s].job
<1>1. /\ slot[s].pc # "free"
      /\ UNCHANGED issued
  BY DEF LoopStep, Load, Mark, Claim, PutBackSave, PutBackPush, PutBackRemove,
         GoroutineStep, Succeed, FailRemove, FailSave, FailPush, FailBury
<1>2. /\ HolderInv /\ Pushable /\ Ordered /\ TypeOK
      /\ k \in Jobs /\ slot[s] \in Slot /\ record[k] \in Record
      /\ slot \in [Slots -> Slot] /\ record \in [Jobs -> Record] /\ pending \in Seq(Jobs)
      /\ slot[s].attempts \in Nat
  BY <1>1 DEF OrderInv, HolderInv, TypeOK, Slot
<1>3. /\ slot[s].delayed \/ slot[s].pc = "failing" => slot[s].attempts > 0
      /\ slot[s].pc \in {"retrying", "returning"} => record[k].attempts > 0
      /\ record[k].delayed => record[k].attempts > 0
  BY <1>2 DEF Pushable
<1>4. /\ \A pc : Goto(s, pc) =>
           /\ slot'[s].pc = pc /\ slot'[s].job = k
           /\ slot'[s].attempts = slot[s].attempts /\ slot'[s].delayed = slot[s].delayed
           /\ \A t \in Slots : t # s => slot'[t] = slot[t]
      /\ Release(s) =>
           /\ slot'[s].pc = "free" /\ slot'[s].delayed = FALSE
           /\ \A t \in Slots : t # s => slot'[t] = slot[t]
  BY <1>2 DEF Goto, Release, FreeSlot, Slot
<1>5. \A st, at, de : SaveJob(k, st, at, de) =>
        /\ record'[k].attempts = at /\ (record'[k].delayed <=> de)
        /\ \A j \in Jobs : j # k => record'[j] = record[j]
  BY <1>2 DEF SaveJob
<1> HIDE DEF k
<1>6. ASSUME Holds(s) \/ record' = record, pending' = pending,
             \A j \in Jobs : j # k => record'[j] = record[j]
      PROVE  Ordered'
  <2>1. Holds(s) => k \notin ToSet(pending)  BY <1>2 DEF HolderInv, SingleHolder, HeldNotQueued, k
  <2>2. ToSet(pending) \subseteq Jobs  BY <1>2 DEF ToSet
  <2> QED  BY <1>1, <1>2, <1>6, <2>1, <2>2, OrderKept
<1>7. ASSUME slot[s].pc \in {"retrying", "returning"}, record' = record, pending' = Append(pending, k)
      PROVE  Ordered'
  <2>1. ToSet(pending') = ToSet(pending) \cup {k}  BY <1>2, <1>7, AppendFacts
  <2>2. record[k].attempts # 0  BY <1>2, <1>3, <1>7 DEF Record
  <2>3. \A j, m : Precedes(pending, j, m) => Precedes(pending', j, m)  BY <1>2, <1>7, PushOrder
  <2> QED  BY <1>1, <1>2, <1>7, <2>1, <2>2, <2>3, OrderKept
<1>8. CASE Load(s, TRUE)
  <2>1. record' = record /\ pending' = pending  BY <1>8 DEF Load
  <2>2. CASE Release(s)  BY <1>1, <1>2, <1>3, <1>4, <1>6, <2>1, <2>2, PushableKept DEF k
  <2>3. CASE slot' = [slot EXCEPT ![s] = [pc |-> "loaded", job |-> slot[s].job,
                                          attempts |-> record[k].attempts, delayed |-> record[k].delayed]]
    <3>1. /\ slot'[s].pc = "loaded" /\ slot'[s].attempts = record[k].attempts
          /\ (slot'[s].delayed <=> record[k].delayed)
          /\ \A t \in Slots : t # s => slot'[t] = slot[t]
      BY <1>2, <2>3
    <3> QED  BY <1>1, <1>2, <1>3, <1>6, <2>1, <3>1, PushableKept DEF k
  <2> QED  BY <1>8, <2>2, <2>3 DEF Load, k
<1>9. CASE Mark(s, TRUE)
  <2>1. /\ Holds(s) /\ pending' = pending /\ Goto(s, "marked")
        /\ SaveJob(k, "processing", slot[s].attempts, slot[s].delayed)
    BY <1>9 DEF Mark, Holds, k
  <2>2. /\ record'[k].attempts = slot[s].attempts
        /\ record'[k].delayed => slot[s].delayed
        /\ \A j \in Jobs : j # k => record'[j] = record[j]
    BY <1>5, <2>1
  <2>3. Ordered'  BY <1>6, <2>1, <2>2
  <2>4. Pushable'  BY <1>1, <1>2, <1>3, <1>4, <2>1, <2>2, PushableKept DEF k
  <2> QED  BY <1>1, <2>3, <2>4
<1>10. CASE Claim(s, TRUE)
  <2>1. record' = record /\ pending' = pending /\ Goto(s, "claimed")  BY <1>10 DEF Claim
  <2> QED  BY <1>1, <1>2, <1>3, <1>4, <1>6, <2>1, PushableKept DEF k
<1>11. CASE PutBackSave(s, TRUE)
  <2>1. /\ Holds(s) /\ pending' = pending /\ Goto(s, "returning") /\ slot[s].delayed
        /\ SaveJob(k, "pending", slot[s].attempts, TRUE)
    BY <1>11 DEF PutBackSave, Holds, k
  <2>2. /\ record'[k].attempts = slot[s].attempts
        /\ record'[k].delayed => slot[s].delayed
        /\ \A j \in Jobs : j # k => record'[j] = record[j]
    BY <1>5, <2>1
  <2>3. Ordered'  BY <1>6, <2>1, <2>2
  <2>4. Pushable'  BY <1>1, <1>2, <1>3, <1>4, <2>1, <2>2, PushableKept DEF k
  <2> QED  BY <1>1, <2>3, <2>4
<1>12. CASE PutBackPush(s, TRUE)
  <2>1. /\ record' = record /\ pending' = Append(pending, k) /\ Goto(s, "returned")
        /\ slot[s].pc = "returning"
    BY <1>12 DEF PutBackPush, LPush, k
  <2> QED  BY <1>1, <1>2, <1>3, <1>4, <1>7, <2>1, PushableKept DEF k
<1>13. CASE PutBackRemove(s, TRUE) \/ FailBury(s, TRUE)
  <2>1. record' = record /\ pending' = pending /\ Release(s)  BY <1>13 DEF PutBackRemove, FailBury
  <2> QED  BY <1>1, <1>2, <1>3, <1>4, <1>6, <2>1, PushableKept DEF k
<1>14. CASE Succeed(s, TRUE)
  <2>1. /\ Holds(s) /\ pending' = pending /\ Release(s)
        /\ SaveJob(k, "completed", slot[s].attempts, slot[s].delayed)
    BY <1>14 DEF Succeed, Holds, k
  <2>2. /\ record'[k].attempts = slot[s].attempts
        /\ record'[k].delayed => slot[s].delayed
        /\ \A j \in Jobs : j # k => record'[j] = record[j]
    BY <1>5, <2>1
  <2>3. Ordered'  BY <1>6, <2>1, <2>2
  <2>4. Pushable'  BY <1>1, <1>2, <1>3, <1>4, <2>1, <2>2, PushableKept DEF k
  <2> QED  BY <1>1, <2>3, <2>4
<1>15. CASE FailRemove(s, TRUE)
  <2>1. record' = record /\ pending' = pending  BY <1>15 DEF FailRemove
  <2>2. /\ slot'[s].pc = "failing" /\ slot'[s].attempts = slot[s].attempts + 1
        /\ \A t \in Slots : t # s => slot'[t] = slot[t]
    BY <1>2, <1>15 DEF FailRemove, Slot
  <2>3. slot'[s].attempts > 0  BY <1>2, <2>2
  <2> QED  BY <1>1, <1>2, <1>3, <1>6, <2>1, <2>2, <2>3, PushableKept DEF k
<1>16. CASE FailSave(s, TRUE)
  <2>1. Holds(s) /\ pending' = pending /\ slot[s].pc = "failing"  BY <1>16 DEF FailSave, Holds
  <2>2. ASSUME NEW st, NEW de \in BOOLEAN, NEW pc \in {"burying", "retrying"},
               SaveJob(k, st, slot[s].attempts, de), Goto(s, pc)
        PROVE  Pushable' /\ Ordered'
    <3>1. slot[s].attempts > 0  BY <1>3, <2>1
    <3>2. /\ record'[k].attempts = slot[s].attempts
          /\ \A j \in Jobs : j # k => record'[j] = record[j]
      BY <1>5, <2>2
    <3>3. /\ slot'[s].pc = pc /\ slot'[s].job = k /\ slot'[s].attempts = slot[s].attempts
          /\ \A t \in Slots : t # s => slot'[t] = slot[t]
      BY <1>4, <2>2
    <3>4. Ordered'  BY <1>6, <2>1, <3>2
    <3>5. Pushable'  BY <1>1, <1>2, <2>1, <3>1, <3>2, <3>3, PushableKept DEF k
    <3> QED  BY <3>4, <3>5
  <2> QED  BY <1>16, <2>2 DEF FailSave, k
<1>17. CASE FailPush(s, TRUE)
  <2>1. /\ record' = record /\ pending' = Append(pending, k) /\ Release(s)
        /\ slot[s].pc = "retrying"
    BY <1>17 DEF FailPush, LPush, k
  <2> QED  BY <1>1, <1>2, <1>3, <1>4, <1>7, <2>1, PushableKept DEF k
<1> QED
  BY <1>1, <1>8, <1>9, <1>10, <1>11, <1>12, <1>13, <1>14, <1>15, <1>16, <1>17 DEF LoopStep, GoroutineStep

\* The producers, the loop, the clock and the listings.
LEMMA LocalOrder ==
    ASSUME OrderInv, NoRetries, LocalStep
    PROVE  NoRepeat(issued)' /\ Pushable' /\ Ordered'
<1>1. /\ HolderInv /\ Pushable /\ Ordered /\ TypeOK /\ NoRepeat(issued)
      /\ slot \in [Slots -> Slot] /\ record \in [Jobs -> Record]
      /\ pending \in Seq(Jobs) /\ issued \in Seq(Jobs)
      /\ ToSet(pending) \subseteq Jobs /\ ToSet(issued) \subseteq Jobs
  BY DEF OrderInv, HolderInv, TypeOK, ToSet
<1>2. ASSUME NEW k \in Jobs, Enqueue(k) PROVE NoRepeat(issued)' /\ Pushable' /\ Ordered'
  <2>1. /\ k \notin ToSet(issued) /\ issued' = Append(issued, k) /\ pending' = Append(pending, k)
        /\ slot' = slot
        /\ record'[k].attempts = 0 /\ record'[k].delayed = FALSE
        /\ \A j \in Jobs : j # k => record'[j] = record[j]
    BY <1>1, <1>2 DEF Enqueue, SaveJob, LPush
  <2>2. NoRepeat(issued)'  BY <1>1, <2>1, AppendFacts DEF NoRepeat
  <2>3. \A s \in Slots : slot[s].pc # "free" => slot[s].job \in Jobs /\ slot[s].job # k
    BY <1>1, <2>1 DEF HolderInv, KnownIds
  <2>4. Pushable'
    <3>1. \A s \in Slots : slot[s].pc \in {"retrying", "returning"} => record'[slot[s].job].attempts > 0
      BY <1>1, <2>1, <2>3 DEF Pushable
    <3> QED  BY <1>1, <2>1, <3>1 DEF Pushable
  <2>5. ASSUME NEW a \in DOMAIN issued', NEW b \in DOMAIN issued', a < b,
               record'[issued'[a]].attempts = 0, issued'[a] \in ToSet(pending')
        PROVE  Precedes(pending', issued'[a], issued'[b])
    <3>1. /\ Len(issued) \in Nat /\ DOMAIN issued = 1..Len(issued) /\ DOMAIN issued' = 1..(Len(issued) + 1)
          /\ issued'[Len(issued) + 1] = k /\ \A i \in 1..Len(issued) : issued'[i] = issued[i]
      BY <1>1, <2>1
    <3>2. a \in DOMAIN issued /\ issued'[a] = issued[a]  BY <2>5, <3>1
    <3>3. issued[a] \in ToSet(issued)  BY <3>2 DEF ToSet
    <3>4. issued[a] # k /\ issued[a] \in Jobs  BY <1>1, <2>1, <3>3
    <3>5. record[issued[a]].attempts = 0 /\ issued[a] \in ToSet(pending)
      <4>1. ToSet(pending') = ToSet(pending) \cup {k}  BY <1>1, <2>1, AppendFacts
      <4> QED  BY <2>1, <2>5, <3>2, <3>4, <4>1
    <3>6. CASE b = Len(issued) + 1  BY <1>1, <2>1, <3>1, <3>2, <3>5, <3>6, PushOrder
    <3>7. CASE b # Len(issued) + 1
      <4>1. b \in DOMAIN issued /\ issued'[b] = issued[b]  BY <3>1, <3>7
      <4>2. Precedes(pending, issued[a], issued[b])  BY <1>1, <2>5, <3>2, <3>5, <4>1 DEF Ordered
      <4> QED  BY <1>1, <2>1, <3>2, <4>1, <4>2, PushOrder
    <3> QED  BY <3>6, <3>7
  <2> QED  BY <2>2, <2>4, <2>5 DEF Ordered
<1>3. ASSUME NEW k \in Jobs, BackoffElapses(k) PROVE NoRepeat(issued)' /\ Pushable' /\ Ordered'
  <2>1. UNCHANGED <<issued, pending>>  BY <1>3 DEF BackoffElapses
  <2>2. \A j \in Jobs : /\ record'[j].attempts = record[j].attempts
                        /\ record'[j].delayed => record[j].delayed
    BY <1>1, <1>3 DEF BackoffElapses, Record
  <2>3. \A s \in Slots : /\ slot'[s].pc = slot[s].pc /\ slot'[s].job = slot[s].job
                         /\ slot'[s].attempts = slot[s].attempts
                         /\ slot'[s].delayed => slot[s].delayed
    BY <1>1, <1>3 DEF BackoffElapses, Slot
  <2>4. \A s \in Slots : slot[s].pc # "free" => slot[s].job \in Jobs  BY <1>1 DEF TypeOK
  <2>5. Pushable'  BY <1>1, <2>2, <2>3, <2>4 DEF Pushable
  <2>6. Ordered'  BY <1>1, <2>1, <2>2, OrderKept
  <2> QED  BY <1>1, <2>1, <2>5, <2>6
<1>4. ASSUME NEW k \in Jobs, Expire(k) PROVE NoRepeat(issued)' /\ Pushable' /\ Ordered'
  <2>1. /\ UNCHANGED <<issued, pending, slot>> /\ ~InHand(k) /\ k \notin ToSet(pending)
    BY <1>1, <1>4 DEF Expire, HolderInv, AtRest, Owned
  <2>2. record'[k].delayed = FALSE /\ \A j \in Jobs : j # k => record'[j] = record[j]
    BY <1>1, <1>4 DEF Expire, NoRecord
  <2>3. \A s \in Slots : slot[s].pc # "free" => slot[s].job \in Jobs /\ slot[s].job # k
    BY <1>1, <2>1 DEF TypeOK, InHand
  <2>4. Pushable'
    <3>1. \A s \in Slots : slot[s].pc \in {"retrying", "returning"} => record'[slot[s].job].attempts > 0
      BY <1>1, <2>2, <2>3 DEF Pushable
    <3> QED  BY <1>1, <2>1, <2>2, <3>1 DEF Pushable
  <2>5. Ordered'  BY <1>1, <2>1, <2>2, OrderKept
  <2> QED  BY <1>1, <2>1, <2>4, <2>5
<1>5. CASE UNCHANGED <<issued, pending, record, slot>>
  BY <1>1, <1>5 DEF Pushable, Ordered
<1>6. ASSUME NEW s \in Slots, Pop(s) PROVE NoRepeat(issued)' /\ Pushable' /\ Ordered'
  <2>1. /\ UNCHANGED <<issued, record>> /\ pending # <<>> /\ pending' = Tail(pending)
        /\ slot'[s].pc = "popped" /\ slot'[s].delayed = FALSE
        /\ \A t \in Slots : t # s => slot'[t] = slot[t]
    BY <1>1, <1>6 DEF Pop, FreeSlot
  <2>2. Pushable'  BY <1>1, <2>1 DEF Pushable
  <2>3. NoRepeat(pending)  BY <1>1 DEF HolderInv, SingleHolder, QueuedOnce, NoRepeat
  <2>4. ASSUME NEW j \in ToSet(pending')
        PROVE  j \in ToSet(pending) /\ \A m : Precedes(pending, j, m) => Precedes(pending', j, m)
    BY <1>1, <2>1, <2>3, <2>4, PopFacts, PopOrder
  <2>5. Ordered'  BY <1>1, <2>1, <2>4, OrderKept
  <2> QED  BY <1>1, <2>1, <2>2, <2>5
<1>7. ASSUME NEW s \in Slots, Start(s) PROVE NoRepeat(issued)' /\ Pushable' /\ Ordered'
  <2>1. UNCHANGED <<issued, pending, record>>  BY <1>7 DEF Start
  <2>2. /\ slot'[s].pc = "running" /\ slot'[s].attempts = slot[s].attempts
        /\ (slot'[s].delayed <=> slot[s].delayed)
        /\ \A t \in Slots : t # s => slot'[t] = slot[t]
    BY <1>1, <1>7 DEF Start, Goto, Slot
  <2>3. Pushable'  BY <1>1, <2>1, <2>2 DEF Pushable
  <2> QED  BY <1>1, <2>1, <2>3 DEF Ordered
<1> QED
  BY <1>2, <1>3, <1>4, <1>5, <1>6, <1>7 DEF LocalStep, IdleTick, CleanStale, RetryRequest, vars

LEMMA NextOrderInv == OrderInv /\ NoRetries /\ NoRetries' /\ [Next]_vars => OrderInv'
<1> SUFFICES ASSUME OrderInv, NoRetries, NoRetries', [Next]_vars PROVE OrderInv'
  OBVIOUS
<1> USE DEF OrderInv
<1>1. CASE LocalStep  BY <1>1, LocalHolderInv, LocalOrder
<1>2. ASSUME NEW s \in Slots, LoopStep(s, TRUE) \/ GoroutineStep(s, TRUE) PROVE OrderInv'
  BY <1>2, WorkerHolderInv, WorkerOrder
<1>3. CASE UNCHANGED <<issued, pending, record, slot>> /\ TypeOK'
  <2>1. SingleHolder' /\ AtRest' /\ KnownIds' /\ SavedIsPending'
    BY <1>3 DEF NoRetries, HolderInv, SingleHolder, QueuedOnce, HeldOnce, HeldNotQueued,
                Holds, AtRest, Owned, KnownIds, SavedIsPending
  <2>2. Pushable' /\ Ordered' /\ NoRepeat(issued)'  BY <1>3 DEF Pushable, Ordered
  <2> QED  BY <1>3, <2>1, <2>2 DEF HolderInv
<1>4. ASSUME NEW r \in Requeuers, RequeueStep(r, TRUE) PROVE OrderInv'
  <2>1. TypeOK'  BY <1>4, RequeueTypeOK DEF HolderInv
  <2>2. retry[r].pc = "idle"  BY DEF NoRetries
  <2>3. UNCHANGED <<issued, pending, record, slot>>
    BY <1>4, <2>2 DEF RequeueStep, RequeueLoad, RequeueSave, RequeuePush
  <2> QED  BY <1>3, <2>1, <2>3
<1>5. CASE UNCHANGED vars
  <2>1. TypeOK'  BY <1>5, NextTypeOK DEF HolderInv
  <2> QED  BY <1>3, <1>5, <2>1 DEF vars
<1> QED  BY <1>1, <1>2, <1>4, <1>5 DEF Next, RedisStep

\* As long as no dead job is retried by hand, a job that has not failed is popped
\* before those that were enqueued after it: neither the put-back nor Fail, which
\* push at the end of the list, ever lets one overtake it, with any number of
\* goroutines.
THEOREM FirstRunsInTurn == Spec => FirstRunsAreFIFO
<1>1. OrderInv => FirstRunsInOrder
  BY DEF OrderInv, Ordered, Precedes, FirstRunsInOrder
<1>2. QED  BY <1>1, InitOrderInv, NextOrderInv, PTL DEF Spec, FirstRunsAreFIFO

=============================================================================
