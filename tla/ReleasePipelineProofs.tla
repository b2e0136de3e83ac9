------------------------ MODULE ReleasePipelineProofs ------------------------
(***************************************************************************)
(* Theorems about ReleasePipeline, for every number of versions, workers,  *)
(* requests, attempts and failures.                                        *)
(***************************************************************************)
EXTENDS ReleasePipeline, FiniteSetTheorems, WellFoundedInduction, TLAPS

-----------------------------------------------------------------------------
(* Numbers and lists                                                       *)

\* A set of numbers has a least member, and a greatest one if it is bounded.
LEMMA LeastIs ==
    ASSUME NEW S \in SUBSET Nat, S # {}
    PROVE  Least(S) \in S /\ \A y \in S : Least(S) <= y
<1> DEFINE R == OpToRel(<, Nat)
<1>1. IsWellFoundedOn(R, Nat)  BY NatLessThanWellFounded
<1>2. \A m, n \in Nat : m < n => <<m, n>> \in R  BY DEF OpToRel
<1> HIDE DEF R
<1>3. PICK x \in S : \A y \in S : <<y, x>> \notin R  BY <1>1, WFMin
<1>4. \A y \in S : ~(y < x)  BY <1>2, <1>3
<1>5. \A y \in S : x <= y  BY <1>4
<1> QED  BY <1>5 DEF Least

LEMMA GreatestIs ==
    ASSUME NEW n \in Nat, NEW S \in SUBSET (0 .. n), S # {}
    PROVE  Greatest(S) \in S /\ \A y \in S : Greatest(S) >= y
<1> DEFINE T == {x \in 0 .. n : n - x \in S}
           m == n - Least(T)
<1>1. T \in SUBSET Nat  OBVIOUS
<1>2. T # {}
  <2>1. PICK x \in S : TRUE  OBVIOUS
  <2>2. n - x \in 0 .. n /\ n - (n - x) = x  BY <2>1
  <2> QED  BY <2>1, <2>2
<1>3. Least(T) \in T /\ \A y \in T : Least(T) <= y  BY <1>1, <1>2, LeastIs
<1>4. m \in S  BY <1>3
<1>5. ASSUME NEW y \in S PROVE m >= y
  <2>1. n - y \in 0 .. n /\ n - (n - y) = y  OBVIOUS
  <2>2. n - y \in T  BY <2>1
  <2>3. Least(T) <= n - y /\ Least(T) \in 0 .. n  BY <1>3, <2>2
  <2> QED  BY <2>3
<1> HIDE DEF m
<1> QED  BY <1>4, <1>5 DEF Greatest

-----------------------------------------------------------------------------
(* Types and references                                                    *)

Job == [kind : Kinds, ref : Nat, state : JobStates, attempts : Nat]
DiffPcs == {"begin", "previous", "baseline", "fetch", "marking", "store", "stored", "handoff"}
AnalyzePcs == {"judge", "alert", "complete"}

Task == [pc : WorkerPcs, job : Nat, made : Nat, expired : BOOLEAN]
Call == [pc : {"idle", "loaded", "marked", "all"}, version : Nat, diff : Nat, todo : SUBSET Nat]

Types ==
    /\ published \in 0 .. LastVersion
    /\ status \in [Versions -> Statuses]
    /\ diffs \in Seq([release : Versions, previous : Versions])
    /\ analyses \in Seq([diff : Nat, flagged : BOOLEAN])
    /\ jobs \in Seq(Job)
    /\ queue \in [Kinds -> Seq(Nat)]
    /\ poller \in [pc : {"idle", "create", "enqueue"}, todo : SUBSET Versions]
    /\ worker \in [Slots -> Task]
    /\ admin \in [Admins -> Call]
    /\ startup \in [pc : {"up", "jobs", "releases", "enqueue"}, todo : SUBSET Versions,
                    version : Nat]

\* Every row, and every job, refers to a row.
RowsRefer ==
    /\ \A d \in DOMAIN diffs : diffs[d].release \in Known /\ diffs[d].previous \in Known
    /\ \A a \in DOMAIN analyses : analyses[a].diff \in DOMAIN diffs
    /\ alerts \subseteq DOMAIN analyses
    /\ \A j \in DOMAIN jobs :
          jobs[j].ref \in IF jobs[j].kind = "diff" THEN Known ELSE DOMAIN diffs

\* What waits in a list is a job of its type that waits, and is there once.
QueuesHold ==
    \A k \in Kinds :
        /\ \A i \in DOMAIN queue[k] :
              /\ queue[k][i] \in DOMAIN jobs
              /\ jobs[queue[k][i]].kind = k /\ jobs[queue[k][i]].state = "waiting"
        /\ \A i, h \in DOMAIN queue[k] : queue[k][i] = queue[k][h] => i = h

\* A worker has a running job of its type, and what it has made belongs to that job.
WorkerRefers(s) ==
    /\ worker[s].pc # "idle" =>
          /\ worker[s].job \in DOMAIN jobs
          /\ jobs[worker[s].job].state = "running" /\ jobs[worker[s].job].kind = KindOf(s)
    /\ worker[s].pc = "idle" => worker[s].job = 0
    /\ worker[s].pc \in DiffPcs => s \in DiffSlots
    /\ worker[s].pc \in AnalyzePcs => s \in AnalyzeSlots
    /\ worker[s].pc \in {"fetch", "store"} => worker[s].made \in Known
    /\ worker[s].pc \in {"stored", "handoff"} =>
          worker[s].made \in DOMAIN diffs /\ diffs[worker[s].made].release = Ref(s)
    /\ worker[s].pc \in {"alert", "complete"} =>
          worker[s].made \in DOMAIN analyses /\ analyses[worker[s].made].diff = Ref(s)

OneWorker ==
    \A s, t \in Slots :
        worker[s].pc # "idle" /\ worker[t].pc # "idle" /\ worker[s].job = worker[t].job => s = t

PollerRefers ==
    /\ poller.pc # "idle" => poller.todo # {}
    /\ poller.pc = "enqueue" => Least(poller.todo) \in Known

AdminRefers(a) ==
    /\ admin[a].version \in {0} \cup Known
    /\ admin[a].pc \in {"loaded", "marked"} => admin[a].version \in Known
    /\ admin[a].diff \in {0} \cup DOMAIN diffs
    /\ admin[a].diff # 0 => diffs[admin[a].diff].release = admin[a].version
    /\ admin[a].todo \subseteq DOMAIN diffs

StartupRefers ==
    /\ startup.todo \subseteq Known
    /\ startup.version \in {0} \cup Known
    /\ startup.pc = "enqueue" => startup.version \in Known

Refers ==
    /\ Types
    /\ RowsRefer
    /\ QueuesHold
    /\ \A s \in Slots : WorkerRefers(s)
    /\ OneWorker
    /\ PollerRefers
    /\ \A a \in Admins : AdminRefers(a)
    /\ StartupRefers

-----------------------------------------------------------------------------
(* What a step does to the tables                                          *)

\* A list with one entry more.
LEMMA Longer ==
    ASSUME NEW S, NEW q \in Seq(S), NEW e \in S
    PROVE  /\ Append(q, e) \in Seq(S)
           /\ DOMAIN q = 1 .. Len(q) /\ Len(q) \in Nat
           /\ DOMAIN Append(q, e) = DOMAIN q \cup {Len(q) + 1}
           /\ Append(q, e)[Len(q) + 1] = e
           /\ \A i \in DOMAIN q : Append(q, e)[i] = q[i]
OBVIOUS

\* A list without its i-th entry: the others close up.
LEMMA Shorter ==
    ASSUME NEW S, NEW q \in Seq(S), NEW i \in DOMAIN q
    PROVE  /\ RemoveAt(q, i) \in Seq(S)
           /\ DOMAIN RemoveAt(q, i) = 1 .. Len(q) - 1
           /\ \A h \in 1 .. Len(q) - 1 :
                 RemoveAt(q, i)[h] = q[IF h < i THEN h ELSE h + 1]
<1> DEFINE a == SubSeq(q, 1, i - 1)
           b == SubSeq(q, i + 1, Len(q))
<1>1. i \in 1 .. Len(q) /\ Len(q) \in Nat  OBVIOUS
<1>2. a \in Seq(S) /\ Len(a) = i - 1 /\ \A h \in 1 .. i - 1 : a[h] = q[h]
  BY <1>1
<1>3. b \in Seq(S) /\ Len(b) = Len(q) - i /\ \A h \in 1 .. Len(q) - i : b[h] = q[i + h]
  BY <1>1
<1>4. RemoveAt(q, i) = a \o b  BY DEF RemoveAt
<1> HIDE DEF a, b
<1>5. a \o b \in Seq(S) /\ Len(a \o b) = Len(q) - 1  BY <1>1, <1>2, <1>3
<1>6. DOMAIN (a \o b) = 1 .. Len(q) - 1  BY <1>5
<1>7. ASSUME NEW h \in 1 .. Len(q) - 1 PROVE (a \o b)[h] = q[IF h < i THEN h ELSE h + 1]
  <2>1. CASE h < i
    <3>1. h \in 1 .. i - 1 /\ h \in 1 .. Len(a)  BY <1>1, <1>2, <2>1
    <3>2. (a \o b)[h] = a[h]  BY <1>2, <1>3, <3>1
    <3> QED  BY <1>2, <2>1, <3>1, <3>2
  <2>2. CASE ~(h < i)
    <3>1. h - (i - 1) \in 1 .. Len(q) - i /\ i + (h - (i - 1)) = h + 1
      BY <1>1, <2>2
    <3>2. (a \o b)[h] = b[h - (i - 1)]
      <4>1. h \in Len(a) + 1 .. Len(a) + Len(b)  BY <1>1, <1>2, <1>3, <2>2
      <4>2. a \in Seq(S) /\ b \in Seq(S)  BY <1>2, <1>3
      <4>3. (a \o b)[h] = b[h - Len(a)]  BY <4>1, <4>2
      <4> QED  BY <1>2, <4>3
    <3>3. b[h - (i - 1)] = q[h + 1]  BY <1>3, <3>1
    <3> QED  BY <2>2, <3>2, <3>3
  <2> QED  BY <2>1, <2>2
<1> QED  BY <1>4, <1>5, <1>6, <1>7

LEMMA Entries ==
    ASSUME NEW S, NEW q \in Seq(S)
    PROVE  \A i \in DOMAIN q : q[i] \in S
OBVIOUS

LEMMA ListOf ==
    ASSUME NEW S, NEW n \in Nat, NEW f \in [1 .. n -> S]
    PROVE  f \in Seq(S)
OBVIOUS

LEMMA Numbers ==
    /\ LastVersion \in Nat /\ LastVersion > 0 /\ MaxAttempts \in Nat /\ MaxAttempts > 0
    /\ Versions = 1 .. LastVersion /\ Versions \subseteq Nat /\ Versions \subseteq 0 .. LastVersion
    /\ 0 \notin Versions
    /\ Known \subseteq Versions
BY PipelineAssumption DEF Versions, Known

Extends(q, r) == \A i \in DOMAIN q : i \in DOMAIN r /\ r[i] = q[i]

\* Queue.Enqueue adds one job that waits, to the end of its list, or nothing.
LEMMA Submitted ==
    ASSUME Types, QueuesHold, NEW kind \in Kinds, NEW ref \in Nat, NEW ok,
           Enqueue(kind, ref, ok)
    PROVE  /\ jobs' \in Seq(Job) /\ queue' \in [Kinds -> Seq(Nat)]
           /\ QueuesHold'
           /\ Extends(jobs, jobs')
           /\ \A j \in DOMAIN jobs' : j \notin DOMAIN jobs =>
                 /\ jobs'[j].kind = kind /\ jobs'[j].ref = ref
                 /\ jobs'[j].state = "waiting" /\ jobs'[j].attempts = 0
           /\ ok => \E j \in DOMAIN jobs' : j \notin DOMAIN jobs
<1>1. jobs \in Seq(Job) /\ queue \in [Kinds -> Seq(Nat)] /\ Len(jobs) \in Nat
      /\ DOMAIN jobs = 1 .. Len(jobs)
  BY DEF Types
<1>2. CASE ~ok
  BY <1>1, <1>2 DEF Enqueue, redis, Extends, QueuesHold
<1>3. CASE ok
  <2> DEFINE new == [kind |-> kind, ref |-> ref, state |-> "waiting", attempts |-> 0]
             n == Len(jobs) + 1
  <2>1. jobs' = Append(jobs, new) /\ new \in Job
    BY <1>3 DEF Enqueue, Job, JobStates
  <2>2. /\ jobs' \in Seq(Job) /\ DOMAIN jobs' = DOMAIN jobs \cup {n}
        /\ jobs'[n] = new /\ \A i \in DOMAIN jobs : jobs'[i] = jobs[i]
    BY <1>1, <2>1, Longer
  <2>3. n \in Nat /\ n \notin DOMAIN jobs  BY <1>1
  <2>4. /\ queue'[kind] = Append(queue[kind], n)
        /\ \A k \in Kinds : k # kind => queue'[k] = queue[k]
        /\ queue' \in [Kinds -> Seq(Nat)]
    <3>1. queue' = [queue EXCEPT ![kind] = Append(@, n)]  BY <1>3 DEF Enqueue
    <3>2. Append(queue[kind], n) \in Seq(Nat)  BY <1>1, <2>3
    <3> QED  BY <1>1, <3>1, <3>2
  <2> HIDE DEF n, new
  <2>5. /\ DOMAIN queue'[kind] = DOMAIN queue[kind] \cup {Len(queue[kind]) + 1}
        /\ queue'[kind][Len(queue[kind]) + 1] = n
        /\ \A i \in DOMAIN queue[kind] : queue'[kind][i] = queue[kind][i]
    <3>1. queue[kind] \in Seq(Nat)  BY <1>1
    <3> QED  BY <2>3, <2>4, <3>1, Longer
  <2>6. QueuesHold'
    <3> SUFFICES ASSUME NEW k \in Kinds
                 PROVE  /\ \A i \in DOMAIN queue'[k] :
                              /\ queue'[k][i] \in DOMAIN jobs'
                              /\ jobs'[queue'[k][i]].kind = k
                              /\ jobs'[queue'[k][i]].state = "waiting"
                        /\ \A i, h \in DOMAIN queue'[k] :
                              queue'[k][i] = queue'[k][h] => i = h
      BY DEF QueuesHold
    <3>1. CASE k # kind
      <4>1. queue'[k] = queue[k]  BY <2>4, <3>1
      <4> QED  BY <2>2, <4>1 DEF QueuesHold
    <3>2. CASE k = kind
      <4>1. \A i \in DOMAIN queue'[k] :
               /\ queue'[k][i] \in DOMAIN jobs' /\ jobs'[queue'[k][i]].kind = k
               /\ jobs'[queue'[k][i]].state = "waiting"
        BY <2>2, <2>5, <3>2 DEF QueuesHold, new
      <4>2. \A i, h \in DOMAIN queue'[k] : queue'[k][i] = queue'[k][h] => i = h
        BY <2>3, <2>5, <3>2 DEF QueuesHold
      <4> QED  BY <4>1, <4>2
    <3> QED  BY <3>1, <3>2
  <2>7. Extends(jobs, jobs') /\ n \in DOMAIN jobs'  BY <2>2 DEF Extends
  <2>8. \A j \in DOMAIN jobs' : j \notin DOMAIN jobs => jobs'[j] = new  BY <2>2
  <2>9. /\ new.kind = kind /\ new.ref = ref /\ new.state = "waiting" /\ new.attempts = 0
    BY DEF new
  <2> QED  BY <2>2, <2>3, <2>4, <2>6, <2>7, <2>8, <2>9
<1> QED  BY <1>2, <1>3

\* What MoveJob does to the table of jobs, whatever their queue holds.
Moved(j, state, n) ==
    /\ DOMAIN jobs' = DOMAIN jobs
    /\ \A i \in DOMAIN jobs : i # j => jobs'[i] = jobs[i]
    /\ jobs'[j].kind = jobs[j].kind /\ jobs'[j].ref = jobs[j].ref
    /\ jobs'[j].state = state /\ jobs'[j].attempts = n

\* A job that does not wait yet moves on; it is in its list afterwards if it waits.
LEMMA MovedOn ==
    ASSUME Types, QueuesHold, NEW j \in DOMAIN jobs, jobs[j].state # "waiting",
           NEW state \in JobStates, NEW n \in Nat, MoveJob(j, state, n)
    PROVE  /\ jobs' \in Seq(Job) /\ queue' \in [Kinds -> Seq(Nat)]
           /\ QueuesHold'
           /\ Moved(j, state, n)
<1>1. jobs \in Seq(Job) /\ queue \in [Kinds -> Seq(Nat)] /\ Len(jobs) \in Nat
      /\ DOMAIN jobs = 1 .. Len(jobs) /\ jobs[j] \in Job /\ j \in Nat
  BY DEF Types
<1>2. jobs' = [jobs EXCEPT ![j].state = state, ![j].attempts = n]  BY DEF MoveJob
<1>3. Moved(j, state, n)  BY <1>1, <1>2 DEF Moved, Job
<1>4. jobs'[j] \in Job  BY <1>1, <1>2 DEF Job
<1>5. jobs' \in Seq(Job)
  <2>1. DOMAIN jobs' = 1 .. Len(jobs)  BY <1>1, <1>2
  <2>2. \A i \in 1 .. Len(jobs) : jobs'[i] \in Job  BY <1>1, <1>2, <1>4
  <2>3. jobs' = [i \in 1 .. Len(jobs) |-> jobs'[i]]  BY <1>1, <1>2
  <2>4. jobs' \in [1 .. Len(jobs) -> Job]  BY <2>2, <2>3
  <2> QED  BY <1>1, <2>4
<1>6. CASE state # "waiting"
  <2>1. queue' = queue  BY <1>6 DEF MoveJob
  <2>2. \A k \in Kinds : \A i \in DOMAIN queue[k] : queue[k][i] # j  BY DEF QueuesHold
  <2>3. QueuesHold'  BY <1>3, <2>1, <2>2 DEF QueuesHold, Moved
  <2> QED  BY <1>1, <1>3, <1>5, <2>1, <2>3
<1>7. CASE state = "waiting"
  <2>1. PICK kind \in Kinds : kind = jobs[j].kind  BY <1>1 DEF Job
  <2>2. /\ queue'[kind] = Append(queue[kind], j)
        /\ \A k \in Kinds : k # kind => queue'[k] = queue[k]
        /\ queue' \in [Kinds -> Seq(Nat)]
    BY <1>1, <1>7, <2>1 DEF MoveJob
  <2>3. /\ DOMAIN queue'[kind] = DOMAIN queue[kind] \cup {Len(queue[kind]) + 1}
        /\ queue'[kind][Len(queue[kind]) + 1] = j
        /\ \A i \in DOMAIN queue[kind] : queue'[kind][i] = queue[kind][i]
    <3>1. queue[kind] \in Seq(Nat)  BY <1>1
    <3> QED  BY <1>1, <2>2, <3>1, Longer
  <2>4. \A k \in Kinds : \A i \in DOMAIN queue[k] : queue[k][i] # j  BY DEF QueuesHold
  <2>5. ASSUME NEW k \in Kinds
        PROVE  /\ \A i \in DOMAIN queue'[k] :
                     /\ queue'[k][i] \in DOMAIN jobs' /\ jobs'[queue'[k][i]].kind = k
                     /\ jobs'[queue'[k][i]].state = "waiting"
               /\ \A i, h \in DOMAIN queue'[k] : queue'[k][i] = queue'[k][h] => i = h
    <3>1. CASE k # kind  BY <1>3, <2>2, <2>4, <3>1 DEF QueuesHold, Moved
    <3>2. CASE k = kind
      <4>1. \A i \in DOMAIN queue'[k] :
               /\ queue'[k][i] \in DOMAIN jobs' /\ jobs'[queue'[k][i]].kind = k
               /\ jobs'[queue'[k][i]].state = "waiting"
        BY <1>3, <1>7, <2>1, <2>3, <2>4, <3>2 DEF QueuesHold, Moved
      <4>2. \A i, h \in DOMAIN queue'[k] : queue'[k][i] = queue'[k][h] => i = h
        BY <2>3, <2>4, <3>2 DEF QueuesHold
      <4> QED  BY <4>1, <4>2
    <3> QED  BY <3>1, <3>2
  <2> QED  BY <1>3, <1>5, <2>2, <2>5 DEF QueuesHold
<1> QED  BY <1>6, <1>7

\* A worker takes a job from its list: what is left there stays in order.
Taken(s, j) ==
    /\ Moved(j, "running", jobs[j].attempts)
    /\ j \in DOMAIN jobs /\ jobs[j].kind = KindOf(s) /\ jobs[j].state = "waiting"
    /\ worker'[s].job = j /\ ~worker'[s].expired /\ worker'[s].made = 0
    /\ worker'[s].pc = IF KindOf(s) = "diff" THEN "begin" ELSE "judge"
    /\ worker[s].pc = "idle"
    /\ \A t \in Slots : t # s => worker'[t] = worker[t]

LEMMA TakenFrom ==
    ASSUME Types, QueuesHold, NEW s \in Slots, Take(s)
    PROVE  /\ jobs' \in Seq(Job) /\ queue' \in [Kinds -> Seq(Nat)]
           /\ QueuesHold'
           /\ \E j \in DOMAIN jobs : Taken(s, j)
           /\ worker' \in [Slots -> Task]
<1>1. jobs \in Seq(Job) /\ queue \in [Kinds -> Seq(Nat)] /\ Len(jobs) \in Nat
      /\ DOMAIN jobs = 1 .. Len(jobs)
      /\ worker \in [Slots -> Task]
  BY DEF Types
<1>2. PICK kind \in Kinds : kind = KindOf(s)  BY DEF KindOf, Kinds
<1>3. PICK i \in DOMAIN queue[kind] :
         LET j == queue[kind][i] IN
         /\ worker' = [worker EXCEPT ![s] =
                [IdleWorker EXCEPT !.job = j, !.pc = IF kind = "diff" THEN "begin" ELSE "judge"]]
         /\ jobs' = [jobs EXCEPT ![j].state = "running"]
         /\ queue' = [queue EXCEPT ![kind] = RemoveAt(@, i)]
  BY <1>2 DEF Take
<1>4. worker[s].pc = "idle"  BY DEF Take
<1>5. PICK j \in DOMAIN jobs : j = queue[kind][i]  BY <1>2 DEF QueuesHold
<1>6. jobs[j] \in Job /\ jobs[j].kind = kind /\ jobs[j].state = "waiting" /\ j \in Nat
  BY <1>1, <1>2, <1>5 DEF QueuesHold
<1>7. jobs' = [jobs EXCEPT ![j].state = "running"]
      /\ queue' = [queue EXCEPT ![kind] = RemoveAt(queue[kind], i)]
  BY <1>3, <1>5
<1>8. Moved(j, "running", jobs[j].attempts)  BY <1>1, <1>6, <1>7 DEF Moved, Job
<1>9. jobs' \in Seq(Job)
  <2>1. DOMAIN jobs' = 1 .. Len(jobs)  BY <1>1, <1>7
  <2>2. jobs'[j] \in Job  BY <1>1, <1>6, <1>7 DEF Job, JobStates
  <2>3. \A g \in 1 .. Len(jobs) : jobs'[g] \in Job  BY <1>1, <1>7, <2>2
  <2>4. jobs' = [g \in 1 .. Len(jobs) |-> jobs'[g]]  BY <1>1, <1>7
  <2>5. jobs' \in [1 .. Len(jobs) -> Job]  BY <2>3, <2>4
  <2> QED  BY <1>1, <2>5, ListOf
<1>10. PICK pc \in {"begin", "judge"} :
          /\ pc = IF kind = "diff" THEN "begin" ELSE "judge"
          /\ worker' = [worker EXCEPT ![s] = [IdleWorker EXCEPT !.job = j, !.pc = pc]]
  BY <1>3, <1>5
<1> DEFINE task == [IdleWorker EXCEPT !.job = j, !.pc = pc]
<1>11. worker' \in [Slots -> Task] /\ Taken(s, j)
  <2>1. /\ task.job = j /\ task.pc = pc /\ task.made = 0 /\ task.expired = FALSE
        /\ task \in Task
    BY <1>6 DEF IdleWorker, Task, WorkerPcs
  <2> HIDE DEF task
  <2>2. worker'[s] = task /\ \A t \in Slots : t # s => worker'[t] = worker[t]
    BY <1>1, <1>10 DEF task
  <2>3. worker' \in [Slots -> Task]  BY <1>1, <1>10, <2>1 DEF task
  <2> QED  BY <1>2, <1>4, <1>6, <1>8, <1>10, <2>1, <2>2, <2>3 DEF Taken
<1> DEFINE q == queue[kind]
           old(h) == IF h < i THEN h ELSE h + 1
<1>13. q \in Seq(Nat) /\ Len(q) \in Nat /\ DOMAIN q = 1 .. Len(q) /\ i \in 1 .. Len(q)
  BY <1>1
<1>14. /\ queue' \in [Kinds -> Seq(Nat)]
       /\ \A k \in Kinds : k # kind => queue'[k] = queue[k]
       /\ DOMAIN queue'[kind] = 1 .. Len(q) - 1
       /\ \A h \in 1 .. Len(q) - 1 : queue'[kind][h] = q[old(h)]
  <2>1. /\ RemoveAt(q, i) \in Seq(Nat)
        /\ DOMAIN RemoveAt(q, i) = 1 .. Len(q) - 1
        /\ \A h \in 1 .. Len(q) - 1 : RemoveAt(q, i)[h] = q[old(h)]
    BY <1>13, Shorter
  <2> QED  BY <1>1, <1>7, <2>1
<1>15. \A h \in 1 .. Len(q) - 1 : old(h) \in DOMAIN q /\ old(h) # i
  BY <1>13
<1>16. \A g, h \in 1 .. Len(q) - 1 : old(g) = old(h) => g = h
  BY <1>13
<1> HIDE DEF old
<1>17. QueuesHold'
  <2> SUFFICES ASSUME NEW k \in Kinds
               PROVE  /\ \A h \in DOMAIN queue'[k] :
                            /\ queue'[k][h] \in DOMAIN jobs'
                            /\ jobs'[queue'[k][h]].kind = k
                            /\ jobs'[queue'[k][h]].state = "waiting"
                      /\ \A g, h \in DOMAIN queue'[k] :
                            queue'[k][g] = queue'[k][h] => g = h
    BY DEF QueuesHold
  <2>1. CASE k # kind
    <3>1. queue'[k] = queue[k]  BY <1>14, <2>1
    <3>2. \A h \in DOMAIN queue[k] : queue[k][h] # j
      BY <1>6, <2>1 DEF QueuesHold
    <3> QED  BY <1>8, <3>1, <3>2 DEF QueuesHold, Moved
  <2>2. CASE k = kind
    <3>1. \A h \in DOMAIN q : h # i => q[h] # j  BY <1>5 DEF QueuesHold
    <3>2. \A h \in DOMAIN q : q[h] \in DOMAIN jobs /\ jobs[q[h]].kind = k
                               /\ jobs[q[h]].state = "waiting"
      BY <2>2 DEF QueuesHold
    <3>3. \A g, h \in DOMAIN q : q[g] = q[h] => g = h  BY <2>2 DEF QueuesHold
    <3> HIDE DEF q
    <3>4. \A h \in 1 .. Len(q) - 1 : q[old(h)] # j /\ q[old(h)] \in DOMAIN jobs
                                      /\ jobs[q[old(h)]].kind = k
                                      /\ jobs[q[old(h)]].state = "waiting"
      BY <1>15, <3>1, <3>2
    <3>5. \A h \in DOMAIN queue'[k] : queue'[k][h] = q[old(h)] /\ h \in 1 .. Len(q) - 1
      BY <1>14, <2>2
    <3>6. \A h \in DOMAIN queue'[k] :
             /\ queue'[k][h] \in DOMAIN jobs' /\ jobs'[queue'[k][h]].kind = k
             /\ jobs'[queue'[k][h]].state = "waiting"
      BY <1>8, <3>4, <3>5 DEF Moved
    <3>7. \A g, h \in DOMAIN queue'[k] : queue'[k][g] = queue'[k][h] => g = h
      BY <1>15, <1>16, <3>3, <3>5
    <3> QED  BY <3>6, <3>7
  <2> QED  BY <2>1, <2>2
<1> QED  BY <1>9, <1>11, <1>14, <1>17

\* A crash leaves the jobs that were running stuck, and the rest as they were.
LEMMA CrashJobs ==
    ASSUME Types, QueuesHold, Crash
    PROVE  /\ jobs' \in Seq(Job) /\ queue' \in [Kinds -> Seq(Nat)]
           /\ QueuesHold'
           /\ DOMAIN jobs' = DOMAIN jobs
           /\ \A j \in DOMAIN jobs :
                 /\ jobs'[j].kind = jobs[j].kind /\ jobs'[j].ref = jobs[j].ref
                 /\ jobs'[j].attempts = jobs[j].attempts
                 /\ jobs'[j].state = IF jobs[j].state = "running" THEN "stuck" ELSE jobs[j].state
<1>1. /\ jobs \in Seq(Job) /\ Len(jobs) \in Nat /\ DOMAIN jobs = 1 .. Len(jobs)
      /\ \A j \in 1 .. Len(jobs) : jobs[j] \in Job
      /\ queue' = queue /\ queue \in [Kinds -> Seq(Nat)]
  BY DEF Types, Crash
<1>2. jobs' = [j \in 1 .. Len(jobs) |->
                  IF jobs[j].state = "running" THEN [jobs[j] EXCEPT !.state = "stuck"]
                  ELSE jobs[j]]
  BY <1>1 DEF Crash
<1>3. jobs' \in [1 .. Len(jobs) -> Job]  BY <1>1, <1>2 DEF Job, JobStates
<1>4. /\ DOMAIN jobs' = DOMAIN jobs
      /\ \A j \in DOMAIN jobs :
            /\ jobs'[j].kind = jobs[j].kind /\ jobs'[j].ref = jobs[j].ref
            /\ jobs'[j].attempts = jobs[j].attempts
            /\ jobs'[j].state = IF jobs[j].state = "running" THEN "stuck" ELSE jobs[j].state
  BY <1>1, <1>2 DEF Job
<1>5. \A k \in Kinds : \A i \in DOMAIN queue[k] :
         /\ queue[k][i] \in DOMAIN jobs' /\ jobs'[queue[k][i]].kind = k
         /\ jobs'[queue[k][i]].state = "waiting"
  BY <1>4 DEF QueuesHold
<1>6. UNCHANGED queue  BY <1>1
<1>7. QueuesHold'  BY <1>5, <1>6 DEF QueuesHold
<1>8. jobs' \in Seq(Job)  BY <1>1, <1>3, ListOf
<1>9. queue' \in [Kinds -> Seq(Nat)]  BY <1>1
<1> QED  BY <1>4, <1>7, <1>8, <1>9

-----------------------------------------------------------------------------
(* Rows are only added, and jobs keep their type and their row             *)

Grows ==
    /\ Known \subseteq Known'
    /\ Extends(diffs, diffs')
    /\ Extends(analyses, analyses')
    /\ \A j \in DOMAIN jobs :
          j \in DOMAIN jobs' /\ jobs'[j].kind = jobs[j].kind /\ jobs'[j].ref = jobs[j].ref

LEMMA NothingWritten ==
    ASSUME UNCHANGED <<status, diffs, analyses, jobs>>
    PROVE  Grows
BY DEF Grows, Known, Extends

\* An UPDATE of the status of a known release, or the INSERT of one.
LEMMA StatusSet ==
    ASSUME Types, NEW v \in Versions, NEW new \in Statuses \ {"unknown"}, NEW ok,
           SetStatus(v, new, ok)
    PROVE  /\ status' \in [Versions -> Statuses]
           /\ Known \subseteq Known'
           /\ \A u \in Versions : u # v => status'[u] = status[u]
           /\ ok => v \in Known' /\ status'[v] = new
           /\ ~ok => UNCHANGED status
<1>1. CASE ok
  <2>1. status' = [status EXCEPT ![v] = new]  BY <1>1 DEF SetStatus
  <2>2. /\ status' \in [Versions -> Statuses] /\ status'[v] = new
        /\ \A u \in Versions : u # v => status'[u] = status[u]
    BY <2>1 DEF Types
  <2> QED  BY <1>1, <2>2 DEF Known
<1>2. CASE ~ok  BY <1>2 DEF SetStatus, Types, Known
<1> QED  BY <1>1, <1>2

\* A handler goes on to its next call, with what it has made or without.
LEMMA WentTo ==
    ASSUME Types, NEW s \in Slots, NEW pc \in WorkerPcs, NEW made \in Nat,
           (Goto(s, pc) /\ made = worker[s].made) \/ GotoMade(s, pc, made)
    PROVE  /\ worker' \in [Slots -> Task]
           /\ worker'[s].pc = pc /\ worker'[s].made = made
           /\ worker'[s].job = worker[s].job /\ worker'[s].expired = worker[s].expired
           /\ \A t \in Slots : t # s => worker'[t] = worker[t]
<1>1. worker \in [Slots -> Task]  BY DEF Types
<1>2. CASE Goto(s, pc) /\ made = worker[s].made  BY <1>1, <1>2 DEF Goto, Task
<1>3. CASE GotoMade(s, pc, made)  BY <1>1, <1>3 DEF GotoMade, Task
<1> QED  BY <1>2, <1>3

\* Whoever is not concerned by a step still refers to what exists.
LEMMA OthersRefer ==
    ASSUME Refers, Grows
    PROVE  /\ \A t \in Slots :
                 (/\ worker'[t] = worker[t]
                  /\ worker[t].pc # "idle" => jobs'[worker[t].job].state = "running")
                 => WorkerRefers(t)'
           /\ UNCHANGED poller => PollerRefers'
           /\ \A a \in Admins : admin'[a] = admin[a] => AdminRefers(a)'
           /\ UNCHANGED startup => StartupRefers'
<1>1. ASSUME NEW t \in Slots, worker'[t] = worker[t],
             worker[t].pc # "idle" => jobs'[worker[t].job].state = "running"
      PROVE  WorkerRefers(t)'
  <2>1. WorkerRefers(t)  BY DEF Refers
  <2>2. worker[t].pc # "idle" => Ref(t)' = Ref(t)
    BY <1>1, <2>1 DEF WorkerRefers, Grows, Ref
  <2>3. worker[t].pc # "idle" =>
          /\ worker'[t].job \in DOMAIN jobs'
          /\ jobs'[worker'[t].job].state = "running" /\ jobs'[worker'[t].job].kind = KindOf(t)
    BY <1>1, <2>1 DEF WorkerRefers, Grows
  <2>4. worker[t].pc \in {"fetch", "store"} => worker'[t].made \in Known'
    BY <1>1, <2>1 DEF WorkerRefers, Grows
  <2>5. worker[t].pc \in {"stored", "handoff"} =>
          worker'[t].made \in DOMAIN diffs' /\ diffs'[worker'[t].made].release = Ref(t)'
    BY <1>1, <2>1, <2>2 DEF WorkerRefers, Grows, Extends
  <2>6. worker[t].pc \in {"alert", "complete"} =>
          worker'[t].made \in DOMAIN analyses' /\ analyses'[worker'[t].made].diff = Ref(t)'
    BY <1>1, <2>1, <2>2 DEF WorkerRefers, Grows, Extends
  <2> QED  BY <1>1, <2>1, <2>3, <2>4, <2>5, <2>6 DEF WorkerRefers
<1>2. ASSUME UNCHANGED poller PROVE PollerRefers'
  BY <1>2 DEF Refers, PollerRefers, Grows
<1>3. ASSUME NEW a \in Admins, admin'[a] = admin[a] PROVE AdminRefers(a)'
  <2>1. AdminRefers(a)  BY DEF Refers
  <2> QED  BY <1>3, <2>1 DEF AdminRefers, Grows, Extends
<1>4. ASSUME UNCHANGED startup PROVE StartupRefers'
  BY <1>4 DEF Refers, StartupRefers, Grows
<1> QED  BY <1>1, <1>2, <1>3, <1>4

\* The rows refer to rows if the new ones do.
LEMMA RowsStillRefer ==
    ASSUME Refers, Grows,
           \A d \in DOMAIN diffs' : d \notin DOMAIN diffs =>
               diffs'[d].release \in Known' /\ diffs'[d].previous \in Known',
           \A a \in DOMAIN analyses' : a \notin DOMAIN analyses =>
               analyses'[a].diff \in DOMAIN diffs',
           alerts' \subseteq alerts \cup DOMAIN analyses',
           \A j \in DOMAIN jobs' : j \notin DOMAIN jobs =>
               jobs'[j].ref \in IF jobs'[j].kind = "diff" THEN Known' ELSE DOMAIN diffs'
    PROVE  RowsRefer'
<1>1. RowsRefer  BY DEF Refers
<1>2. \A d \in DOMAIN diffs' : diffs'[d].release \in Known' /\ diffs'[d].previous \in Known'
  BY <1>1 DEF RowsRefer, Grows, Extends
<1>3. \A a \in DOMAIN analyses' : analyses'[a].diff \in DOMAIN diffs'
  BY <1>1 DEF RowsRefer, Grows, Extends
<1>4. alerts' \subseteq DOMAIN analyses'  BY <1>1 DEF RowsRefer, Grows, Extends
<1>5. ASSUME NEW j \in DOMAIN jobs'
      PROVE  jobs'[j].ref \in IF jobs'[j].kind = "diff" THEN Known' ELSE DOMAIN diffs'
  BY <1>1, <1>5 DEF RowsRefer, Grows, Extends
<1> QED  BY <1>2, <1>3, <1>4, <1>5 DEF RowsRefer

-----------------------------------------------------------------------------
(* What a step writes, and what that leaves true                           *)

Tables ==
    /\ status \in [Versions -> Statuses]
    /\ diffs \in Seq([release : Versions, previous : Versions])
    /\ analyses \in Seq([diff : Nat, flagged : BOOLEAN])
    /\ jobs \in Seq(Job)
    /\ queue \in [Kinds -> Seq(Nat)]

Memory ==
    /\ published \in 0 .. LastVersion
    /\ poller \in [pc : {"idle", "create", "enqueue"}, todo : SUBSET Versions]
    /\ worker \in [Slots -> Task]
    /\ admin \in [Admins -> Call]
    /\ startup \in [pc : {"up", "jobs", "releases", "enqueue"}, todo : SUBSET Versions,
                    version : Nat]

LEMMA TypesAre == Types <=> Tables /\ Memory
BY DEF Types, Tables, Memory

\* The tables are sound after a step, which took nothing away.
Written == Tables' /\ RowsRefer' /\ QueuesHold' /\ Grows

LEMMA NoneWritten ==
    ASSUME Refers, UNCHANGED <<database, redis>>
    PROVE  Written /\ Extends(jobs, jobs')
<1>1. UNCHANGED <<status, diffs, analyses, alerts, jobs, queue>>  BY DEF database, redis
<1>2. Grows  BY <1>1, NothingWritten
<1>3. Tables'  BY <1>1 DEF Refers, Types, Tables
<1>4. RowsRefer'  BY <1>1 DEF Refers, RowsRefer, Known
<1>5. QueuesHold'  BY <1>1 DEF Refers, QueuesHold
<1> QED  BY <1>1, <1>2, <1>3, <1>4, <1>5 DEF Written, Extends

LEMMA StatusWritten ==
    ASSUME Refers, NEW v \in Versions, NEW new \in Statuses \ {"unknown"}, NEW ok,
           SetStatus(v, new, ok), UNCHANGED <<diffs, analyses, alerts, redis>>
    PROVE  Written /\ Extends(jobs, jobs')
<1>1. UNCHANGED <<diffs, analyses, alerts, jobs, queue>> /\ Types  BY DEF redis, Refers
<1>2. status' \in [Versions -> Statuses] /\ Known \subseteq Known'  BY <1>1, StatusSet
<1>3. Grows  BY <1>1, <1>2 DEF Grows, Extends
<1>4. Tables'  BY <1>1, <1>2 DEF Types, Tables
<1>5. RowsRefer'  BY <1>1, <1>2 DEF Refers, RowsRefer
<1>6. QueuesHold'  BY <1>1 DEF Refers, QueuesHold
<1> QED  BY <1>1, <1>3, <1>4, <1>5, <1>6 DEF Written, Extends

LEMMA JobWritten ==
    ASSUME Refers, NEW kind \in Kinds, NEW ref \in Nat, NEW ok,
           ref \in IF kind = "diff" THEN Known ELSE DOMAIN diffs,
           Enqueue(kind, ref, ok), UNCHANGED database
    PROVE  Written /\ Extends(jobs, jobs')
<1>1. UNCHANGED <<status, diffs, analyses, alerts>> /\ Types /\ QueuesHold
  BY DEF database, Refers
<1>2. /\ jobs' \in Seq(Job) /\ queue' \in [Kinds -> Seq(Nat)]
      /\ QueuesHold'
      /\ Extends(jobs, jobs')
      /\ \A j \in DOMAIN jobs' : j \notin DOMAIN jobs =>
            jobs'[j].kind = kind /\ jobs'[j].ref = ref
  BY <1>1, Submitted
<1>3. Grows  BY <1>1, <1>2 DEF Grows, Known, Extends
<1>4. Tables'  BY <1>1, <1>2 DEF Types, Tables
<1>5. Known' = Known /\ DOMAIN diffs' = DOMAIN diffs  BY <1>1 DEF Known
<1>6. RowsRefer'
  <2>1. \A j \in DOMAIN jobs' : j \notin DOMAIN jobs =>
           jobs'[j].ref \in IF jobs'[j].kind = "diff" THEN Known' ELSE DOMAIN diffs'
    BY <1>2, <1>5
  <2> QED  BY <1>1, <1>3, <2>1, RowsStillRefer
<1> QED  BY <1>2, <1>3, <1>4, <1>6 DEF Written

LEMMA JobMoved ==
    ASSUME Refers, NEW j \in DOMAIN jobs, jobs[j].state # "waiting",
           NEW state \in JobStates, NEW n \in Nat, MoveJob(j, state, n), UNCHANGED database
    PROVE  Written /\ Moved(j, state, n)
<1>1. UNCHANGED <<status, diffs, analyses, alerts>> /\ Types /\ QueuesHold
  BY DEF database, Refers
<1>2. /\ jobs' \in Seq(Job) /\ queue' \in [Kinds -> Seq(Nat)]
      /\ QueuesHold'
      /\ Moved(j, state, n)
  BY <1>1, MovedOn
<1>3. Grows  BY <1>1, <1>2 DEF Grows, Known, Extends, Moved
<1>4. Tables'  BY <1>1, <1>2 DEF Types, Tables
<1>5. RowsRefer'
  <2>1. DOMAIN jobs' = DOMAIN jobs  BY <1>2 DEF Moved
  <2> QED  BY <1>1, <1>3, <2>1, RowsStillRefer
<1> QED  BY <1>2, <1>3, <1>4, <1>5 DEF Written

\* A handler's step keeps everything sound when what it has made fits the
\* call it makes next.
LEMMA HandlerKeeps ==
    ASSUME Refers, NEW s \in Slots, worker[s].pc # "idle",
           NEW pc \in WorkerPcs \ {"idle"}, NEW made \in Nat,
           (Goto(s, pc) /\ made = worker[s].made) \/ GotoMade(s, pc, made),
           UNCHANGED <<published, poller, admin, startup>>,
           Written, Extends(jobs, jobs'),
           pc \in DiffPcs => s \in DiffSlots,
           pc \in AnalyzePcs => s \in AnalyzeSlots,
           pc \in {"fetch", "store"} => made \in Known',
           pc \in {"stored", "handoff"} =>
               made \in DOMAIN diffs' /\ diffs'[made].release = Ref(s),
           pc \in {"alert", "complete"} =>
               made \in DOMAIN analyses' /\ analyses'[made].diff = Ref(s)
    PROVE  Refers' /\ Grows
<1>1. /\ worker' \in [Slots -> Task]
      /\ worker'[s].pc = pc /\ worker'[s].made = made
      /\ worker'[s].job = worker[s].job
      /\ \A t \in Slots : t # s => worker'[t] = worker[t]
  BY WentTo DEF Refers
<1>2. Types'  BY <1>1, TypesAre DEF Refers, Types, Written, Tables
<1>3. Grows  BY DEF Written
<1>4. /\ worker[s].job \in DOMAIN jobs /\ worker[s].job \in DOMAIN jobs'
      /\ jobs'[worker[s].job] = jobs[worker[s].job]
      /\ jobs[worker[s].job].state = "running" /\ jobs[worker[s].job].kind = KindOf(s)
  BY DEF Refers, WorkerRefers, Extends
<1>5. Ref(s)' = Ref(s)  BY <1>1, <1>4 DEF Ref
<1>6. WorkerRefers(s)'  BY <1>1, <1>4, <1>5 DEF WorkerRefers
<1>7. \A t \in Slots : t # s => WorkerRefers(t)'
  <2> SUFFICES ASSUME NEW t \in Slots, t # s PROVE WorkerRefers(t)'  OBVIOUS
  <2>1. worker'[t] = worker[t]  BY <1>1
  <2>2. worker[t].pc # "idle" => jobs'[worker[t].job].state = "running"
    BY DEF Refers, WorkerRefers, Extends
  <2> QED  BY <1>3, <2>1, <2>2, OthersRefer
<1>8. OneWorker'  BY <1>1 DEF Refers, OneWorker
<1>9. PollerRefers' /\ StartupRefers' /\ \A a \in Admins : AdminRefers(a)'
  BY <1>3, OthersRefer
<1> QED  BY <1>2, <1>6, <1>7, <1>8, <1>9 DEF Refers, Written

\* What a worker knows while it handles a job: the release of the job, or its diff.
LEMMA Handling ==
    ASSUME Refers, NEW s \in Slots, worker[s].pc # "idle"
    PROVE  /\ worker[s].job \in DOMAIN jobs /\ worker[s].made \in Nat
           /\ worker[s].pc \in DiffPcs => s \in DiffSlots
           /\ worker[s].pc \in AnalyzePcs => s \in AnalyzeSlots
           /\ s \in DiffSlots => Ref(s) \in Known /\ KindOf(s) = "diff"
           /\ s \in AnalyzeSlots =>
                 /\ Ref(s) \in DOMAIN diffs /\ KindOf(s) = "analyze"
                 /\ ReleaseOf(s) \in Known
<1>1. /\ worker[s].job \in DOMAIN jobs /\ jobs[worker[s].job].kind = KindOf(s)
      /\ worker[s].pc \in DiffPcs => s \in DiffSlots
      /\ worker[s].pc \in AnalyzePcs => s \in AnalyzeSlots
  BY DEF Refers, WorkerRefers
<1>2. worker[s].made \in Nat  BY DEF Refers, Types, Task
<1>3. s \in AnalyzeSlots => s \notin DiffSlots  BY PipelineAssumption
<1>4. s \in DiffSlots => Ref(s) \in Known /\ KindOf(s) = "diff"
  BY <1>1 DEF Refers, RowsRefer, Ref, KindOf
<1>5. s \in AnalyzeSlots => Ref(s) \in DOMAIN diffs /\ KindOf(s) = "analyze"
  BY <1>1, <1>3 DEF Refers, RowsRefer, Ref, KindOf
<1>6. s \in AnalyzeSlots => ReleaseOf(s) \in Known
  BY <1>5 DEF Refers, RowsRefer, ReleaseOf
<1> QED  BY <1>1, <1>2, <1>4, <1>5, <1>6

LEMMA StatusSkipped ==
    ASSUME UNCHANGED status, NEW v, NEW new
    PROVE  SetStatus(v, new, FALSE)
BY DEF SetStatus

\* The differ's calls.
LEMMA DifferKeeps ==
    ASSUME Refers, NEW s \in Slots, NEW ok, DiffStep(s, ok),
           UNCHANGED <<published, poller, admin, startup>>
    PROVE  Refers' /\ Grows
<1> USE DEF DiffPcs, AnalyzePcs, WorkerPcs, Statuses
<1>0. Versions \subseteq Nat /\ Known \subseteq Versions /\ Known \subseteq 0 .. LastVersion
      /\ LastVersion \in Nat
  BY Numbers
<1>h. ASSUME worker[s].pc \in DiffPcs
      PROVE  /\ s \in DiffSlots /\ Ref(s) \in Known /\ Ref(s) \in Versions
             /\ worker[s].made \in Nat /\ worker[s].pc # "idle"
  BY <1>0, <1>h, Handling
<1>1. CASE DiffBegin(s, ok)
  <2>1. worker[s].pc \in DiffPcs /\ UNCHANGED <<diffs, analyses, alerts, redis>>
    BY <1>1 DEF DiffBegin
  <2>2. CASE SetStatus(Ref(s), "diffing", ok) /\ Goto(s, "previous")
    <3>1. Written /\ Extends(jobs, jobs')  BY <1>h, <2>1, <2>2, StatusWritten
    <3> QED  BY <1>h, <2>1, <2>2, <3>1, HandlerKeeps
  <2>3. CASE UNCHANGED status /\ Goto(s, "failed")
    <3>1. Written /\ Extends(jobs, jobs')  BY <2>1, <2>3, NoneWritten DEF database
    <3> QED  BY <1>h, <2>1, <2>3, <3>1, HandlerKeeps
  <2> QED  BY <1>1, <2>2, <2>3 DEF DiffBegin
<1>2. CASE DiffPrevious(s, ok)
  <2> DEFINE older == {u \in Versions : u < Ref(s) /\ status[u] = "completed"}
  <2>1. worker[s].pc \in DiffPcs /\ UNCHANGED <<database, redis>>
        /\ ((older # {} /\ GotoMade(s, "fetch", Greatest(older))) \/ Goto(s, "baseline"))
    BY <1>2 DEF DiffPrevious
  <2>2. Written /\ Extends(jobs, jobs')  BY <2>1, NoneWritten
  <2>3. CASE Goto(s, "baseline")  BY <1>h, <2>1, <2>2, <2>3, HandlerKeeps
  <2>4. CASE older # {} /\ GotoMade(s, "fetch", Greatest(older))
    <3>1. older \subseteq Known  BY DEF Known
    <3>2. Greatest(older) \in older  BY <1>0, <2>4, <3>1, GreatestIs
    <3>3. Greatest(older) \in Known /\ Greatest(older) \in Nat  BY <1>0, <3>1, <3>2
    <3>4. Greatest(older) \in Known'  BY <2>2, <3>3 DEF Written, Grows
    <3> QED  BY <1>h, <2>1, <2>2, <2>4, <3>3, <3>4, HandlerKeeps
  <2> QED  BY <2>1, <2>3, <2>4
<1>3. CASE DiffBaseline(s, ok)
  <2>1. worker[s].pc \in DiffPcs /\ UNCHANGED <<diffs, analyses, alerts, redis>>
        /\ SetStatus(Ref(s), "completed", ok) /\ Goto(s, "succeeded")
    BY <1>3 DEF DiffBaseline
  <2>2. Written /\ Extends(jobs, jobs')  BY <1>h, <2>1, StatusWritten
  <2> QED  BY <1>h, <2>1, <2>2, HandlerKeeps
<1>4. CASE DiffFetch(s, ok)
  <2>1. worker[s].pc = "fetch" /\ UNCHANGED <<database, redis>>
        /\ (Goto(s, "store") \/ Goto(s, "marking"))
    BY <1>4 DEF DiffFetch
  <2>2. Written /\ Extends(jobs, jobs')  BY <2>1, NoneWritten
  <2>3. worker[s].made \in Known'
    BY <2>1, <2>2 DEF Refers, WorkerRefers, Written, Grows
  <2> QED  BY <1>h, <2>1, <2>2, <2>3, HandlerKeeps
<1>5. CASE DiffMarkError(s, ok)
  <2>1. worker[s].pc \in DiffPcs /\ UNCHANGED <<diffs, analyses, alerts, redis>>
        /\ SetStatus(Ref(s), "error", ok) /\ Goto(s, "failed")
    BY <1>5 DEF DiffMarkError
  <2>2. Written /\ Extends(jobs, jobs')  BY <1>h, <2>1, StatusWritten
  <2> QED  BY <1>h, <2>1, <2>2, HandlerKeeps
<1>6. CASE DiffStore(s, ok)
  <2>1. worker[s].pc = "store" /\ UNCHANGED <<status, analyses, alerts, redis>>
    BY <1>6 DEF DiffStore
  <2>2. CASE UNCHANGED diffs /\ Goto(s, "marking")
    <3>1. Written /\ Extends(jobs, jobs')  BY <2>1, <2>2, NoneWritten DEF database
    <3> QED  BY <1>h, <2>1, <2>2, <3>1, HandlerKeeps
  <2>3. CASE /\ diffs' = Append(diffs, [release |-> Ref(s), previous |-> worker[s].made])
             /\ GotoMade(s, "stored", Len(diffs) + 1)
    <3> DEFINE row == [release |-> Ref(s), previous |-> worker[s].made]
               n == Len(diffs) + 1
    <3>1. worker[s].made \in Known  BY <2>1 DEF Refers, WorkerRefers
    <3>2. row \in [release : Versions, previous : Versions]
          /\ row.release = Ref(s) /\ row.previous = worker[s].made
      BY <1>0, <1>h, <2>1, <3>1
    <3> HIDE DEF row
    <3>3. diffs' = Append(diffs, row)  BY <2>3 DEF row
    <3>4. /\ diffs' \in Seq([release : Versions, previous : Versions])
          /\ n \in Nat
          /\ DOMAIN diffs' = DOMAIN diffs \cup {n}
          /\ diffs'[n] = row
          /\ \A i \in DOMAIN diffs : diffs'[i] = diffs[i]
      BY <3>2, <3>3, Longer DEF Refers, Types
    <3> HIDE DEF n
    <3>5. UNCHANGED <<jobs, queue>>  BY <2>1 DEF redis
    <3>6. Grows /\ Known' = Known  BY <2>1, <3>4, <3>5 DEF Grows, Known, Extends
    <3>7. Tables'  BY <2>1, <3>4, <3>5 DEF Refers, Types, Tables
    <3>8. RowsRefer'
      <4>1. \A d \in DOMAIN diffs' : d \notin DOMAIN diffs =>
               diffs'[d].release \in Known' /\ diffs'[d].previous \in Known'
        BY <1>h, <2>1, <3>1, <3>2, <3>4, <3>6
      <4> QED  BY <2>1, <3>5, <3>6, <4>1, RowsStillRefer
    <3>9. QueuesHold'  BY <3>5 DEF Refers, QueuesHold
    <3>10. Written /\ Extends(jobs, jobs')
      BY <3>5, <3>6, <3>7, <3>8, <3>9 DEF Written, Extends
    <3>11. GotoMade(s, "stored", n)  BY <2>3 DEF n
    <3>12. n \in DOMAIN diffs' /\ diffs'[n].release = Ref(s)  BY <3>2, <3>4
    <3> QED  BY <1>h, <2>1, <3>4, <3>10, <3>11, <3>12, HandlerKeeps
  <2> QED  BY <1>6, <2>2, <2>3 DEF DiffStore
<1>7. CASE DiffAnalyzing(s, ok)
  <2>1. worker[s].pc = "stored" /\ UNCHANGED <<diffs, analyses, alerts, redis>>
        /\ SetStatus(Ref(s), "analyzing", ok) /\ Goto(s, "handoff")
    BY <1>7 DEF DiffAnalyzing
  <2>2. Written /\ Extends(jobs, jobs')  BY <1>h, <2>1, StatusWritten
  <2>3. worker[s].made \in DOMAIN diffs' /\ diffs'[worker[s].made].release = Ref(s)
    BY <2>1 DEF Refers, WorkerRefers
  <2> QED  BY <1>h, <2>1, <2>2, <2>3, HandlerKeeps
<1>8. CASE DiffHandOff(s, ok)
  <2>1. worker[s].pc = "handoff" /\ UNCHANGED database
        /\ Enqueue("analyze", worker[s].made, ok) /\ (Goto(s, "succeeded") \/ Goto(s, "failed"))
    BY <1>8 DEF DiffHandOff
  <2>2. worker[s].made \in DOMAIN diffs  BY <2>1 DEF Refers, WorkerRefers
  <2>3. Written /\ Extends(jobs, jobs')  BY <1>h, <2>1, <2>2, JobWritten DEF Kinds
  <2> QED  BY <1>h, <2>1, <2>3, HandlerKeeps
<1> QED  BY <1>1, <1>2, <1>3, <1>4, <1>5, <1>6, <1>7, <1>8 DEF DiffStep

\* The analyzer's calls.
LEMMA AnalyzerKeeps ==
    ASSUME Refers, NEW s \in Slots, NEW ok, AnalyzeStep(s, ok),
           UNCHANGED <<published, poller, admin, startup>>
    PROVE  Refers' /\ Grows
<1> USE DEF DiffPcs, AnalyzePcs, WorkerPcs, Statuses
<1>0. Versions \subseteq Nat /\ Known \subseteq Versions  BY Numbers
<1>h. ASSUME worker[s].pc \in AnalyzePcs
      PROVE  /\ s \in AnalyzeSlots /\ Ref(s) \in DOMAIN diffs /\ ReleaseOf(s) \in Versions
             /\ worker[s].made \in Nat /\ worker[s].pc # "idle"
  BY <1>0, <1>h, Handling
<1>1. CASE Judge(s, ok)
  <2>1. worker[s].pc = "judge" /\ UNCHANGED <<status, diffs, alerts, redis>>
    BY <1>1 DEF Judge
  <2>2. CASE UNCHANGED analyses /\ Goto(s, "failed")
    <3>1. Written /\ Extends(jobs, jobs')  BY <2>1, <2>2, NoneWritten DEF database
    <3> QED  BY <1>h, <2>1, <2>2, <3>1, HandlerKeeps
  <2>3. ASSUME NEW flagged \in BOOLEAN,
               analyses' = Append(analyses, [diff |-> Ref(s), flagged |-> flagged]),
               NEW pc \in {"alert", "complete"}, GotoMade(s, pc, Len(analyses) + 1)
        PROVE  Refers' /\ Grows
    <3> DEFINE row == [diff |-> Ref(s), flagged |-> flagged]
               n == Len(analyses) + 1
    <3>1. DOMAIN diffs \subseteq Nat  BY DEF Refers, Types
    <3>2. row \in [diff : Nat, flagged : BOOLEAN] /\ row.diff = Ref(s)
      BY <1>h, <2>1, <3>1
    <3> HIDE DEF row
    <3>3. analyses' = Append(analyses, row)  BY <2>3 DEF row
    <3>4. /\ analyses' \in Seq([diff : Nat, flagged : BOOLEAN])
          /\ n \in Nat
          /\ DOMAIN analyses' = DOMAIN analyses \cup {n}
          /\ analyses'[n] = row
          /\ \A i \in DOMAIN analyses : analyses'[i] = analyses[i]
      BY <3>2, <3>3, Longer DEF Refers, Types
    <3> HIDE DEF n
    <3>5. UNCHANGED <<jobs, queue>>  BY <2>1 DEF redis
    <3>6. Grows  BY <2>1, <3>4, <3>5 DEF Grows, Known, Extends
    <3>7. Tables'  BY <2>1, <3>4, <3>5 DEF Refers, Types, Tables
    <3>8. RowsRefer'
      <4>1. \A a \in DOMAIN analyses' : a \notin DOMAIN analyses =>
               analyses'[a].diff \in DOMAIN diffs'
        BY <1>h, <2>1, <3>2, <3>4
      <4> QED  BY <2>1, <3>5, <3>6, <4>1, RowsStillRefer
    <3>9. QueuesHold'  BY <3>5 DEF Refers, QueuesHold
    <3>10. Written /\ Extends(jobs, jobs')
      BY <3>5, <3>6, <3>7, <3>8, <3>9 DEF Written, Extends
    <3>11. GotoMade(s, pc, n)  BY <2>3 DEF n
    <3>12. n \in DOMAIN analyses' /\ analyses'[n].diff = Ref(s)  BY <3>2, <3>4
    <3> QED  BY <1>h, <2>1, <3>4, <3>10, <3>11, <3>12, HandlerKeeps
  <2>4. CASE ok
    <3>1. PICK flagged \in BOOLEAN :
             /\ analyses' = Append(analyses, [diff |-> Ref(s), flagged |-> flagged])
             /\ GotoMade(s, IF flagged THEN "alert" ELSE "complete", Len(analyses) + 1)
      BY <1>1, <2>4 DEF Judge
    <3>2. PICK pc \in {"alert", "complete"} : pc = IF flagged THEN "alert" ELSE "complete"
      OBVIOUS
    <3>3. GotoMade(s, pc, Len(analyses) + 1)  BY <3>1, <3>2
    <3> QED  BY <2>3, <3>1, <3>3
  <2> QED  BY <1>1, <2>2, <2>4 DEF Judge
<1>2. CASE RaiseAlert(s, ok)
  <2>1. worker[s].pc = "alert" /\ UNCHANGED <<status, diffs, analyses, redis>>
        /\ Goto(s, "complete") /\ alerts' \subseteq alerts \cup {worker[s].made}
    BY <1>2 DEF RaiseAlert
  <2>2. worker[s].made \in DOMAIN analyses /\ analyses[worker[s].made].diff = Ref(s)
    BY <2>1 DEF Refers, WorkerRefers
  <2>3. UNCHANGED <<jobs, queue>>  BY <2>1 DEF redis
  <2>4. Grows  BY <2>1, <2>3 DEF Grows, Known, Extends
  <2>5. Tables'  BY <2>1, <2>3 DEF Refers, Types, Tables
  <2>6. RowsRefer'  BY <2>1, <2>2, <2>3, <2>4, RowsStillRefer
  <2>7. QueuesHold'  BY <2>3 DEF Refers, QueuesHold
  <2>8. Written /\ Extends(jobs, jobs')
    BY <2>3, <2>4, <2>5, <2>6, <2>7 DEF Written, Extends
  <2> QED  BY <1>h, <2>1, <2>2, <2>8, HandlerKeeps
<1>3. CASE AnalyzeComplete(s, ok)
  <2>1. worker[s].pc \in AnalyzePcs /\ UNCHANGED <<diffs, analyses, alerts, redis>>
        /\ SetStatus(ReleaseOf(s), "completed", ok) /\ Goto(s, "succeeded")
    BY <1>3 DEF AnalyzeComplete
  <2>2. Written /\ Extends(jobs, jobs')  BY <1>h, <2>1, StatusWritten
  <2> QED  BY <1>h, <2>1, <2>2, HandlerKeeps
<1> QED  BY <1>1, <1>2, <1>3 DEF AnalyzeStep

LEMMA HandlersKeep ==
    ASSUME Refers, NEW s \in Slots, NEW ok, HandlerStep(s, ok)
    PROVE  Refers' /\ Grows
BY DifferKeeps, AnalyzerKeeps DEF HandlerStep

\* A step that is no worker's: what it writes is sound, the jobs that run go
\* on running, and the goroutines that moved refer to rows.
LEMMA OutsideKeeps ==
    ASSUME Refers, Memory', Written, UNCHANGED worker,
           \A j \in DOMAIN jobs : jobs[j].state = "running" => jobs'[j].state = "running",
           PollerRefers', \A a \in Admins : AdminRefers(a)', StartupRefers'
    PROVE  Refers' /\ Grows
<1>1. Types'  BY TypesAre DEF Types, Written, Tables, Memory
<1>2. \A t \in Slots : WorkerRefers(t)'
  <2> SUFFICES ASSUME NEW t \in Slots PROVE WorkerRefers(t)'  OBVIOUS
  <2>1. worker'[t] = worker[t] /\ Grows  BY DEF Written
  <2>2. worker[t].pc # "idle" => jobs'[worker[t].job].state = "running"
    BY DEF Refers, WorkerRefers
  <2> QED  BY <2>1, <2>2, OthersRefer
<1>3. OneWorker'  BY DEF Refers, OneWorker
<1> QED  BY <1>1, <1>2, <1>3 DEF Refers, Written

LEMMA StillRunning ==
    ASSUME Extends(jobs, jobs')
    PROVE  \A j \in DOMAIN jobs : jobs[j].state = "running" => jobs'[j].state = "running"
BY DEF Extends

\* The rest of the versions is not empty unless this was the only one.
LEMMA PollGoesOn ==
    ASSUME Types, poller.todo # {}, PollNext
    PROVE  /\ poller' \in [pc : {"idle", "create", "enqueue"}, todo : SUBSET Versions]
           /\ poller'.pc \in {"idle", "create"}
           /\ poller'.pc = "create" => poller'.todo # {}
           /\ poller'.pc = "create" => poller'.todo = poller.todo \ {Least(poller.todo)}
           /\ poller'.pc = "idle" => poller' = IdlePoller /\ poller.todo = {Least(poller.todo)}
<1>1. poller.todo \in SUBSET Versions /\ Versions \subseteq Nat  BY Numbers DEF Types
<1>2. Least(poller.todo) \in poller.todo  BY <1>1, LeastIs
<1>3. IsFiniteSet(poller.todo)
  <2>1. IsFiniteSet(1 .. LastVersion)  BY FS_Interval, Numbers
  <2> QED  BY <1>1, <2>1, FS_Subset, Numbers
<1>4. CASE Cardinality(poller.todo) = 1
  <2>1. PICK x : poller.todo = {x}  BY <1>3, <1>4, FS_Singleton
  <2>2. poller' = IdlePoller  BY <1>4 DEF PollNext
  <2> QED  BY <1>2, <2>1, <2>2 DEF IdlePoller
<1>5. CASE Cardinality(poller.todo) # 1
  <2>1. poller' = [pc |-> "create", todo |-> poller.todo \ {Least(poller.todo)}]
    BY <1>5 DEF PollNext
  <2>2. poller.todo # {Least(poller.todo)}  BY <1>2, <1>3, <1>5, FS_Singleton
  <2> QED  BY <1>1, <1>2, <2>1, <2>2
<1> QED  BY <1>4, <1>5

\* The poller's calls.
LEMMA PollerKeeps ==
    ASSUME Refers, NEW ok \in BOOLEAN, PollStep(ok)
    PROVE  Refers' /\ Grows
<1>0. /\ Types /\ PollerRefers /\ Versions \subseteq Nat /\ Known \subseteq Versions
      /\ Known \subseteq 0 .. LastVersion /\ LastVersion \in Nat
      /\ poller.todo \in SUBSET Versions
      /\ UNCHANGED <<published, worker, admin, startup>>
  BY Numbers DEF Refers, Types, PollStep, PollStart, PollCreate, PollEnqueue
<1>m. ASSUME poller' \in [pc : {"idle", "create", "enqueue"}, todo : SUBSET Versions]
      PROVE  Memory'
  BY <1>0, <1>m DEF Types, Memory
<1>o. ASSUME Grows
      PROVE  StartupRefers' /\ \A a \in Admins : AdminRefers(a)'
  BY <1>0, <1>o, OthersRefer
<1>1. CASE PollStart(ok)
  <2>1. UNCHANGED <<database, redis>>  BY <1>1 DEF PollStart
  <2>2. Written /\ Extends(jobs, jobs') /\ Grows  BY <2>1, NoneWritten DEF Written
  <2>3. PICK new : /\ new \in SUBSET Versions
                   /\ poller' = IF new = {} THEN poller ELSE [pc |-> "create", todo |-> new]
    <3> DEFINE new == IF ok /\ Known # {} THEN {v \in 1 .. published : v > Greatest(Known)}
                      ELSE NewestTwo \ Known
    <3>1. new \subseteq 1 .. published  BY DEF NewestTwo
    <3>2. 1 .. published \subseteq Versions  BY <1>0 DEF Types, Versions
    <3>3. poller' = IF new = {} THEN poller ELSE [pc |-> "create", todo |-> new]
      BY <1>1 DEF PollStart
    <3> HIDE DEF new
    <3> QED  BY <3>1, <3>2, <3>3
  <2>4. poller' \in [pc : {"idle", "create", "enqueue"}, todo : SUBSET Versions]
    BY <1>0, <2>3 DEF Types
  <2>5. PollerRefers'
    <3>1. CASE new = {}  BY <1>0, <2>2, <2>3, <3>1, OthersRefer
    <3>2. CASE new # {}  BY <2>3, <3>2 DEF PollerRefers
    <3> QED  BY <3>1, <3>2
  <2> QED  BY <1>0, <1>m, <1>o, <2>2, <2>4, <2>5, StillRunning, OutsideKeeps
<1>2. CASE PollCreate(ok)
  <2> DEFINE v == Least(poller.todo)
  <2>1. /\ poller.pc = "create" /\ UNCHANGED <<diffs, analyses, alerts, redis>>
        /\ SetStatus(v, "pending", ok)
        /\ IF ok THEN poller' = [poller EXCEPT !.pc = "enqueue"] ELSE PollNext
    BY <1>2 DEF PollCreate
  <2>2. poller.todo # {}  BY <1>0, <2>1 DEF PollerRefers
  <2>3. v \in poller.todo /\ v \in Versions  BY <1>0, <2>2, LeastIs
  <2>4. Written /\ Extends(jobs, jobs') /\ Grows
    BY <2>1, <2>3, StatusWritten DEF Statuses, Written
  <2> HIDE DEF v
  <2>5. ok => v \in Known'
    <3>1. "pending" \in Statuses /\ "pending" # "none"  BY DEF Statuses
    <3> QED  BY <1>0, <2>1, <2>3, <3>1, StatusSet
  <2>6. CASE ok
    <3>1. poller' = [poller EXCEPT !.pc = "enqueue"]  BY <2>1, <2>6
    <3>2. poller' \in [pc : {"idle", "create", "enqueue"}, todo : SUBSET Versions]
          /\ poller'.todo = poller.todo
      BY <1>0, <3>1 DEF Types
    <3>3. PollerRefers'  BY <2>2, <2>5, <2>6, <3>2 DEF PollerRefers, v
    <3> QED  BY <1>0, <1>m, <1>o, <2>4, <3>2, <3>3, StillRunning, OutsideKeeps
  <2>7. CASE ~ok
    <3>1. PollNext  BY <2>1, <2>7
    <3>2. /\ poller' \in [pc : {"idle", "create", "enqueue"}, todo : SUBSET Versions]
          /\ poller'.pc \in {"idle", "create"}
          /\ poller'.pc = "create" => poller'.todo # {}
      BY <1>0, <2>2, <3>1, PollGoesOn
    <3>3. PollerRefers'  BY <3>2 DEF PollerRefers
    <3> QED  BY <1>0, <1>m, <1>o, <2>4, <3>2, <3>3, StillRunning, OutsideKeeps
  <2> QED  BY <2>6, <2>7
<1>3. CASE PollEnqueue(ok)
  <2> DEFINE v == Least(poller.todo)
  <2>1. /\ poller.pc = "enqueue" /\ UNCHANGED database
        /\ Enqueue("diff", v, ok) /\ PollNext
    BY <1>3 DEF PollEnqueue
  <2>2. poller.todo # {} /\ v \in Known /\ v \in Nat  BY <1>0, <2>1 DEF PollerRefers
  <2>3. Written /\ Extends(jobs, jobs') /\ Grows
    BY <2>1, <2>2, JobWritten DEF Kinds, Written
  <2>4. /\ poller' \in [pc : {"idle", "create", "enqueue"}, todo : SUBSET Versions]
        /\ poller'.pc \in {"idle", "create"}
        /\ poller'.pc = "create" => poller'.todo # {}
    BY <1>0, <2>1, <2>2, PollGoesOn
  <2>5. PollerRefers'  BY <2>4 DEF PollerRefers
  <2> QED  BY <1>0, <1>m, <1>o, <2>3, <2>4, <2>5, StillRunning, OutsideKeeps
<1> QED  BY <1>1, <1>2, <1>3 DEF PollStep

\* The steps of a request.
LEMMA AdminSet ==
    ASSUME Refers, Grows, NEW a \in Admins, NEW new \in Call, SetAdmin(a, new),
           UNCHANGED <<published, poller, worker, startup>>,
           new.version \in {0} \cup Known', new.pc \in {"loaded", "marked"} => new.version \in Known',
           new.diff \in {0} \cup DOMAIN diffs',
           new.diff # 0 => diffs'[new.diff].release = new.version,
           new.todo \subseteq DOMAIN diffs'
    PROVE  Memory' /\ PollerRefers' /\ StartupRefers' /\ \A b \in Admins : AdminRefers(b)'
<1>1. admin \in [Admins -> Call]  BY DEF Refers, Types
<1>2. admin' \in [Admins -> Call] /\ admin'[a] = new
      /\ \A b \in Admins : b # a => admin'[b] = admin[b]
  BY <1>1 DEF SetAdmin
<1>3. Memory'  BY <1>2 DEF Refers, Types, Memory
<1>4. AdminRefers(a)'  BY <1>2 DEF AdminRefers
<1>5. PollerRefers' /\ StartupRefers' /\ \A b \in Admins : b # a => AdminRefers(b)'
  BY <1>2, OthersRefer
<1> QED  BY <1>3, <1>4, <1>5

LEMMA IdleCall ==
    /\ IdleAdmin \in Call /\ IdleAdmin.pc = "idle" /\ IdleAdmin.version = 0
    /\ IdleAdmin.diff = 0 /\ IdleAdmin.todo = {}
BY DEF IdleAdmin, Call

LEMMA AdminsKeep ==
    ASSUME Refers, NEW a \in Admins, NEW ok \in BOOLEAN, AdminStep(a, ok)
    PROVE  Refers' /\ Grows
<1>0. /\ Types /\ AdminRefers(a) /\ admin[a] \in Call /\ Known \subseteq Versions
      /\ Versions \subseteq Nat /\ 0 \notin Versions /\ DOMAIN diffs \subseteq Nat
      /\ UNCHANGED <<published, poller, worker, startup>>
  BY Numbers DEF Refers, Types, AdminStep, ReanalyzeStatus, ReanalyzeEnqueue, ReanalyzeAllEnqueue
<1>i. ASSUME Written, Extends(jobs, jobs'), SetAdmin(a, IdleAdmin)
      PROVE  Refers' /\ Grows
  <2>1. Grows  BY <1>i DEF Written
  <2>2. Memory' /\ PollerRefers' /\ StartupRefers' /\ \A b \in Admins : AdminRefers(b)'
    BY <1>0, <1>i, <2>1, IdleCall, AdminSet
  <2> QED  BY <1>0, <1>i, <2>2, StillRunning, OutsideKeeps
<1>1. CASE ReanalyzeStatus(a, ok)
  <2>1. admin[a].pc = "loaded" /\ UNCHANGED <<diffs, analyses, alerts, redis>>
    BY <1>1 DEF ReanalyzeStatus
  <2>2. PICK new \in Statuses \ {"unknown"} : SetStatus(admin[a].version, new, ok)
    <3>1. PICK new \in {"pending", "analyzing"} :
             new = IF admin[a].diff = 0 THEN "pending" ELSE "analyzing"
      OBVIOUS
    <3>2. SetStatus(admin[a].version, new, ok)  BY <1>1, <3>1 DEF ReanalyzeStatus
    <3> QED  BY <3>2 DEF Statuses
  <2>3. admin[a].version \in Known  BY <1>0, <2>1 DEF AdminRefers
  <2>4. Written /\ Extends(jobs, jobs') /\ Grows
    BY <1>0, <2>1, <2>2, <2>3, StatusWritten DEF Written
  <2>5. CASE ~ok
    <3>1. SetAdmin(a, IdleAdmin)  BY <1>1, <2>5 DEF ReanalyzeStatus
    <3> QED  BY <1>i, <2>4, <3>1
  <2>6. CASE ok
    <3> DEFINE new1 == [admin[a] EXCEPT !.pc = "marked"]
    <3>1. SetAdmin(a, new1)  BY <1>1, <2>6 DEF ReanalyzeStatus
    <3>2. /\ new1 \in Call /\ new1.pc = "marked" /\ new1.version = admin[a].version
          /\ new1.diff = admin[a].diff /\ new1.todo = admin[a].todo
      BY <1>0 DEF Call
    <3> HIDE DEF new1
    <3>3. /\ admin[a].version \in Known'
          /\ admin[a].diff \in {0} \cup DOMAIN diffs'
          /\ admin[a].diff # 0 => diffs'[admin[a].diff].release = admin[a].version
          /\ admin[a].todo \subseteq DOMAIN diffs'
      BY <1>0, <2>1, <2>3, <2>4 DEF AdminRefers, Grows
    <3>4. Memory' /\ PollerRefers' /\ StartupRefers' /\ \A b \in Admins : AdminRefers(b)'
      BY <1>0, <2>4, <3>1, <3>2, <3>3, AdminSet
    <3> QED  BY <1>0, <2>4, <3>4, StillRunning, OutsideKeeps
  <2> QED  BY <2>5, <2>6
<1>2. CASE ReanalyzeEnqueue(a, ok)
  <2>1. admin[a].pc = "marked" /\ UNCHANGED database /\ SetAdmin(a, IdleAdmin)
    BY <1>2 DEF ReanalyzeEnqueue
  <2>2. CASE admin[a].diff = 0
    <3>1. Enqueue("diff", admin[a].version, ok)  BY <1>2, <2>2 DEF ReanalyzeEnqueue
    <3>2. admin[a].version \in Known /\ admin[a].version \in Nat
      BY <1>0, <2>1 DEF AdminRefers
    <3>3. Written /\ Extends(jobs, jobs')  BY <2>1, <3>1, <3>2, JobWritten DEF Kinds
    <3> QED  BY <1>i, <2>1, <3>3
  <2>3. CASE admin[a].diff # 0
    <3>1. Enqueue("analyze", admin[a].diff, ok)  BY <1>2, <2>3 DEF ReanalyzeEnqueue
    <3>2. admin[a].diff \in DOMAIN diffs /\ admin[a].diff \in Nat
      BY <1>0, <2>3 DEF AdminRefers
    <3>3. Written /\ Extends(jobs, jobs')  BY <2>1, <3>1, <3>2, JobWritten DEF Kinds
    <3> QED  BY <1>i, <2>1, <3>3
  <2> QED  BY <2>2, <2>3
<1>3. CASE ReanalyzeAllEnqueue(a, ok)
  <2>1. UNCHANGED database  BY <1>3 DEF ReanalyzeAllEnqueue
  <2>2. PICK d \in admin[a].todo :
           /\ Enqueue("analyze", d, ok)
           /\ SetAdmin(a, IF ok /\ admin[a].todo # {d}
                          THEN [admin[a] EXCEPT !.todo = @ \ {d}] ELSE IdleAdmin)
    BY <1>3 DEF ReanalyzeAllEnqueue
  <2>3. d \in DOMAIN diffs /\ d \in Nat  BY <1>0 DEF AdminRefers
  <2>4. Written /\ Extends(jobs, jobs') /\ Grows
    BY <2>1, <2>2, <2>3, JobWritten DEF Kinds, Written
  <2>5. CASE SetAdmin(a, IdleAdmin)  BY <1>i, <2>4, <2>5
  <2>6. CASE SetAdmin(a, [admin[a] EXCEPT !.todo = admin[a].todo \ {d}])
    <3> DEFINE new == [admin[a] EXCEPT !.todo = admin[a].todo \ {d}]
    <3>1. /\ new \in Call /\ new.pc = admin[a].pc /\ new.version = admin[a].version
          /\ new.diff = admin[a].diff /\ new.todo = admin[a].todo \ {d}
      BY <1>0 DEF Call
    <3>2. SetAdmin(a, new)  BY <2>6
    <3> HIDE DEF new
    <3>3. UNCHANGED diffs  BY <2>1 DEF database
    <3>4. /\ new.version \in {0} \cup Known'
          /\ new.pc \in {"loaded", "marked"} => new.version \in Known'
          /\ new.diff \in {0} \cup DOMAIN diffs'
          /\ new.diff # 0 => diffs'[new.diff].release = new.version
          /\ new.todo \subseteq DOMAIN diffs'
      BY <1>0, <2>4, <3>1, <3>3 DEF AdminRefers, Grows
    <3>5. Memory' /\ PollerRefers' /\ StartupRefers' /\ \A b \in Admins : AdminRefers(b)'
      BY <1>0, <2>4, <3>1, <3>2, <3>4, AdminSet
    <3> QED  BY <1>0, <2>4, <3>5, StillRunning, OutsideKeeps
  <2> QED  BY <2>2, <2>5, <2>6
<1> QED  BY <1>1, <1>2, <1>3 DEF AdminStep

LEMMA LoadsKeep ==
    ASSUME Refers, NEW a \in Admins,
           ReanalyzeAllLoad(a) \/ \E v \in Versions, ok \in BOOLEAN : ReanalyzeLoad(a, v, ok)
    PROVE  Refers' /\ Grows
<1>0. /\ Types /\ Known \subseteq Versions /\ Versions \subseteq Nat /\ 0 \notin Versions
      /\ DOMAIN diffs \subseteq Nat
      /\ UNCHANGED <<published, database, redis, poller, worker, startup>>
  <2>1. UNCHANGED <<published, database, redis, poller, worker, startup>>
    BY DEF ReanalyzeLoad, ReanalyzeAllLoad
  <2> QED  BY <2>1, Numbers DEF Refers, Types
<1>1. Written /\ Extends(jobs, jobs') /\ Grows  BY <1>0, NoneWritten DEF Written
<1>2. UNCHANGED diffs /\ Known' = Known  BY <1>0 DEF database, Known
<1>3. CASE ReanalyzeAllLoad(a)
  <2> DEFINE missing == {d \in DOMAIN diffs : AnalysesOf(d) = {}}
             new == [IdleAdmin EXCEPT !.pc = "all", !.todo = missing]
  <2>1. missing \subseteq DOMAIN diffs  OBVIOUS
  <2>2. SetAdmin(a, new)  BY <1>3 DEF ReanalyzeAllLoad
  <2> HIDE DEF missing
  <2>3. new \in Call /\ new.pc = "all" /\ new.version = 0 /\ new.diff = 0 /\ new.todo = missing
    BY <1>0, <2>1 DEF Call, IdleAdmin
  <2> HIDE DEF new
  <2>4. Memory' /\ PollerRefers' /\ StartupRefers' /\ \A b \in Admins : AdminRefers(b)'
    BY <1>0, <1>1, <1>2, <2>1, <2>2, <2>3, AdminSet
  <2> QED  BY <1>0, <1>1, <2>4, StillRunning, OutsideKeeps
<1>4. ASSUME NEW v \in Versions, NEW ok \in BOOLEAN, ReanalyzeLoad(a, v, ok) PROVE Refers' /\ Grows
  <2>1. v \in Known  BY <1>4 DEF ReanalyzeLoad
  <2>2. PICK d \in {0} \cup DiffsOf(v) :
           d = IF ok /\ DiffsOf(v) # {} THEN Least(DiffsOf(v)) ELSE 0
    <3>1. DiffsOf(v) # {} => Least(DiffsOf(v)) \in DiffsOf(v)
      <4>1. DiffsOf(v) \in SUBSET Nat  BY <1>0 DEF DiffsOf
      <4> QED  BY <4>1, LeastIs
    <3> QED  BY <3>1
  <2>3. d \in {0} \cup DOMAIN diffs /\ d \in Nat  BY <1>0 DEF DiffsOf
  <2>4. d # 0 => diffs[d].release = v  BY DEF DiffsOf
  <2> DEFINE new == [IdleAdmin EXCEPT !.pc = "loaded", !.version = v, !.diff = d]
  <2>5. SetAdmin(a, new)  BY <1>4, <2>2 DEF ReanalyzeLoad
  <2>6. new \in Call /\ new.pc = "loaded" /\ new.version = v /\ new.diff = d /\ new.todo = {}
    BY <1>0, <2>3 DEF Call, IdleAdmin
  <2> HIDE DEF new
  <2>7. Memory' /\ PollerRefers' /\ StartupRefers' /\ \A b \in Admins : AdminRefers(b)'
    BY <1>0, <1>1, <1>2, <2>1, <2>3, <2>4, <2>5, <2>6, AdminSet
  <2> QED  BY <1>0, <1>1, <2>7, StillRunning, OutsideKeeps
<1> QED  BY <1>3, <1>4

\* A job that neither waits nor runs is pushed again: a retry, or a restart.
LEMMA PushesKeep ==
    ASSUME Refers, NEW j \in DOMAIN jobs, RetryDead(j) \/ RecoverJob(j)
    PROVE  Refers' /\ Grows
<1>0. Types /\ UNCHANGED <<published, database, poller, worker, admin, startup>>
  BY DEF Refers, RetryDead, RecoverJob, memory
<1>1. jobs[j].state \in {"dead", "stuck"} /\ jobs[j].attempts \in Nat
  <2>1. jobs[j] \in Job  BY <1>0 DEF Types
  <2> QED  BY <2>1 DEF RetryDead, RecoverJob, Job
<1>2. PICK n \in Nat : MoveJob(j, "waiting", n)
  BY <1>1 DEF RetryDead, RecoverJob
<1>3. Written /\ Moved(j, "waiting", n)  BY <1>0, <1>1, <1>2, JobMoved DEF JobStates
<1>4. \A i \in DOMAIN jobs : jobs[i].state = "running" => jobs'[i].state = "running"
  BY <1>1, <1>3 DEF Moved
<1>5. Memory'  BY <1>0 DEF Types, Memory
<1>6. PollerRefers' /\ StartupRefers' /\ \A b \in Admins : AdminRefers(b)'
  BY <1>0, <1>3, OthersRefer DEF Written
<1> QED  BY <1>0, <1>3, <1>4, <1>5, <1>6, OutsideKeeps

\* The recovery of a restart goes on with the releases that are left.
LEMMA GoesUp ==
    ASSUME Refers, Grows, NEW todo \in SUBSET Known', todo \subseteq Versions, StartUp(todo),
           UNCHANGED <<published, poller, worker, admin>>
    PROVE  Memory' /\ StartupRefers' /\ PollerRefers' /\ \A b \in Admins : AdminRefers(b)'
<1>1. /\ startup' \in [pc : {"up", "jobs", "releases", "enqueue"}, todo : SUBSET Versions,
                       version : Nat]
      /\ startup'.todo \subseteq Known' /\ startup'.version = 0
      /\ startup'.pc \in {"up", "releases"}
  <2>1. CASE todo = {}  BY <2>1 DEF StartUp, Up
  <2>2. CASE todo # {}  BY <2>2 DEF StartUp
  <2> QED  BY <2>1, <2>2
<1>2. Memory'  BY <1>1 DEF Refers, Types, Memory
<1>3. StartupRefers'  BY <1>1 DEF StartupRefers
<1>4. PollerRefers' /\ \A b \in Admins : AdminRefers(b)'  BY OthersRefer
<1> QED  BY <1>2, <1>3, <1>4

LEMMA RecoveryKeeps ==
    ASSUME Refers, NEW ok \in BOOLEAN, RecoverStep(ok)
    PROVE  Refers' /\ Grows
<1>0. /\ Types /\ StartupRefers /\ Known \subseteq Versions /\ Versions \subseteq Nat
      /\ DOMAIN diffs \subseteq Nat
      /\ UNCHANGED <<published, poller, worker, admin>>
  BY Numbers DEF Refers, Types, RecoverStep, RecoverScan, RecoverRelease, RecoverEnqueue
<1>1. CASE RecoverScan(ok)
  <2>1. UNCHANGED <<database, redis>>  BY <1>1 DEF RecoverScan
  <2>2. Written /\ Extends(jobs, jobs') /\ Grows  BY <2>1, NoneWritten DEF Written
  <2>3. PICK todo \in SUBSET Versions : StartUp(todo) /\ todo \subseteq Known
    <3>1. InFlight \subseteq Known /\ InFlight \subseteq Versions
      BY DEF InFlight, Known
    <3>2. StartUp(InFlight) \/ StartUp({})
      BY <1>1 DEF RecoverScan
    <3> QED  BY <3>1, <3>2
  <2>4. Memory' /\ StartupRefers' /\ PollerRefers' /\ \A b \in Admins : AdminRefers(b)'
    BY <1>0, <2>2, <2>3, GoesUp DEF Grows
  <2> QED  BY <1>0, <2>2, <2>4, StillRunning, OutsideKeeps
<1>2. CASE RecoverRelease(ok)
  <2>0. UNCHANGED <<diffs, analyses, alerts>>  BY <1>2 DEF RecoverRelease
  <2>1. PICK v \in startup.todo : RecoverPending(v, ok) \/ RecoverAnalyzing(v, ok)
    BY <1>2 DEF RecoverRelease
  <2>2. v \in Known /\ v \in Versions /\ v \in Nat  BY <1>0 DEF StartupRefers
  <2>3. CASE RecoverPending(v, ok)
    <3>1. PICK o \in BOOLEAN : SetStatus(v, "pending", o)  BY <2>3 DEF RecoverPending
    <3>2. UNCHANGED redis /\ startup' = [startup EXCEPT !.pc = "enqueue", !.version = v]
      BY <2>3 DEF RecoverPending
    <3>3. Written /\ Extends(jobs, jobs') /\ Grows
      BY <2>0, <2>2, <3>1, <3>2, StatusWritten DEF Statuses, Written
    <3>4. /\ startup' \in [pc : {"up", "jobs", "releases", "enqueue"},
                           todo : SUBSET Versions, version : Nat]
          /\ startup'.todo = startup.todo /\ startup'.version = v /\ startup'.pc = "enqueue"
      BY <1>0, <2>2, <3>2 DEF Types
    <3>5. Memory'  BY <1>0, <3>4 DEF Types, Memory
    <3>6. StartupRefers'  BY <1>0, <2>2, <3>3, <3>4 DEF StartupRefers, Grows
    <3>7. PollerRefers' /\ \A b \in Admins : AdminRefers(b)'  BY <1>0, <3>3, OthersRefer
    <3> QED  BY <1>0, <3>3, <3>5, <3>6, <3>7, StillRunning, OutsideKeeps
  <2>4. CASE RecoverAnalyzing(v, ok)
    <3>1. PICK d \in DiffsOf(v) :
             \/ \E o \in BOOLEAN : Enqueue("analyze", d, o) /\ UNCHANGED status
             \/ SetStatus(v, "completed", ok) /\ UNCHANGED redis
      BY <2>4 DEF RecoverAnalyzing
    <3>2. d \in DOMAIN diffs /\ d \in Nat  BY <1>0 DEF DiffsOf
    <3>3. Written /\ Extends(jobs, jobs') /\ Grows
      <4>1. CASE \E o \in BOOLEAN : Enqueue("analyze", d, o) /\ UNCHANGED status
        <5>1. UNCHANGED database  BY <2>0, <4>1 DEF database
        <5> QED  BY <3>2, <4>1, <5>1, JobWritten DEF Kinds, Written
      <4>2. CASE SetStatus(v, "completed", ok) /\ UNCHANGED redis
        BY <2>0, <2>2, <4>2, StatusWritten DEF Statuses, Written
      <4> QED  BY <3>1, <4>1, <4>2
    <3>4. StartUp(startup.todo \ {v})  BY <2>4 DEF RecoverAnalyzing
    <3>5. startup.todo \ {v} \subseteq Known' /\ startup.todo \ {v} \subseteq Versions
      BY <1>0, <3>3 DEF StartupRefers, Grows
    <3>6. Memory' /\ StartupRefers' /\ PollerRefers' /\ \A b \in Admins : AdminRefers(b)'
      BY <1>0, <3>3, <3>4, <3>5, GoesUp
    <3> QED  BY <1>0, <3>3, <3>6, StillRunning, OutsideKeeps
  <2> QED  BY <2>1, <2>3, <2>4
<1>3. CASE RecoverEnqueue(ok)
  <2>1. /\ startup.pc = "enqueue" /\ UNCHANGED database
        /\ Enqueue("diff", startup.version, ok)
        /\ StartUp(startup.todo \ {startup.version})
    BY <1>3 DEF RecoverEnqueue
  <2>2. startup.version \in Known /\ startup.version \in Nat
    BY <1>0, <2>1 DEF StartupRefers
  <2>3. Written /\ Extends(jobs, jobs') /\ Grows
    BY <2>1, <2>2, JobWritten DEF Kinds, Written
  <2>4. startup.todo \ {startup.version} \subseteq Known'
        /\ startup.todo \ {startup.version} \subseteq Versions
    BY <1>0, <2>3 DEF StartupRefers, Grows
  <2>5. Memory' /\ StartupRefers' /\ PollerRefers' /\ \A b \in Admins : AdminRefers(b)'
    BY <1>0, <2>1, <2>3, <2>4, GoesUp
  <2> QED  BY <1>0, <2>3, <2>5, StillRunning, OutsideKeeps
<1> QED  BY <1>1, <1>2, <1>3 DEF RecoverStep

\* A worker takes a job: nobody else has it, for it was waiting.
LEMMA TakesKeep ==
    ASSUME Refers, NEW s \in Slots, Take(s)
    PROVE  Refers' /\ Grows
<1>0. Types /\ QueuesHold /\ OneWorker /\ \A t \in Slots : WorkerRefers(t)
  BY DEF Refers
<1>1. UNCHANGED <<published, status, diffs, analyses, alerts, poller, admin, startup>>
  BY DEF Take, database
<1>2. /\ jobs' \in Seq(Job) /\ queue' \in [Kinds -> Seq(Nat)] /\ QueuesHold'
      /\ worker' \in [Slots -> Task]
  BY <1>0, TakenFrom
<1>3. PICK j \in DOMAIN jobs : Taken(s, j)  BY <1>0, TakenFrom
<1>4. Moved(j, "running", jobs[j].attempts)  BY <1>3 DEF Taken
<1>5. Grows  BY <1>1, <1>4 DEF Grows, Known, Extends, Moved
<1>6. Types'  BY <1>0, <1>1, <1>2 DEF Types
<1>7. RowsRefer'
  <2>1. DOMAIN jobs' = DOMAIN jobs  BY <1>4 DEF Moved
  <2> QED  BY <1>1, <1>5, <2>1, RowsStillRefer
<1>8. WorkerRefers(s)'
  <2>1. s \in DiffSlots \/ s \in AnalyzeSlots  BY DEF Slots
  <2>2. PICK pc \in {"begin", "judge"} : /\ worker'[s].pc = pc
                                         /\ pc = "begin" => s \in DiffSlots
                                         /\ pc = "judge" => s \in AnalyzeSlots
    BY <1>3, <2>1 DEF Taken, KindOf
  <2>3. /\ worker'[s].job = j /\ j \in DOMAIN jobs' /\ jobs'[j].state = "running"
        /\ jobs'[j].kind = KindOf(s)
    BY <1>3, <1>4 DEF Taken, Moved
  <2> QED  BY <2>2, <2>3 DEF WorkerRefers, DiffPcs, AnalyzePcs
<1>9. \A t \in Slots : t # s => WorkerRefers(t)'
  <2> SUFFICES ASSUME NEW t \in Slots, t # s PROVE WorkerRefers(t)'  OBVIOUS
  <2>1. worker'[t] = worker[t]  BY <1>3 DEF Taken
  <2>2. worker[t].pc # "idle" => jobs'[worker[t].job].state = "running"
    BY <1>0, <1>4 DEF WorkerRefers, Moved
  <2> QED  BY <1>5, <2>1, <2>2, OthersRefer
<1>10. OneWorker'
  <2>1. \A t \in Slots : t # s /\ worker[t].pc # "idle" => worker[t].job # j
    BY <1>0, <1>3 DEF WorkerRefers, Taken
  <2>2. \A t \in Slots : t # s => worker'[t] = worker[t]  BY <1>3 DEF Taken
  <2>3. worker'[s].job = j  BY <1>3 DEF Taken
  <2> QED  BY <1>0, <2>1, <2>2, <2>3 DEF OneWorker
<1>11. PollerRefers' /\ StartupRefers' /\ \A b \in Admins : AdminRefers(b)'
  BY <1>1, <1>5, OthersRefer
<1> QED  BY <1>2, <1>5, <1>6, <1>7, <1>8, <1>9, <1>10, <1>11 DEF Refers

\* A worker reports how its job ended and is idle again.
LEMMA ReportsKeep ==
    ASSUME Refers, NEW s \in Slots, Succeed(s) \/ FailJob(s)
    PROVE  Refers' /\ Grows
<1>0. Types /\ QueuesHold /\ OneWorker /\ \A t \in Slots : WorkerRefers(t)
  BY DEF Refers
<1>1. /\ UNCHANGED <<published, database, poller, admin, startup>>
      /\ worker' = [worker EXCEPT ![s] = IdleWorker] /\ worker[s].pc # "idle"
  BY DEF Succeed, FailJob
<1>2. PICK j \in DOMAIN jobs : j = worker[s].job /\ jobs[j].state = "running"
  BY <1>0, <1>1 DEF WorkerRefers
<1>3. jobs[j].attempts \in Nat
  <2>1. jobs[j] \in Job  BY <1>0 DEF Types
  <2> QED  BY <2>1 DEF Job
<1>4. PICK state \in JobStates \ {"running"}, n \in Nat : MoveJob(j, state, n)
  <2>1. CASE Succeed(s)  BY <1>2, <1>3, <2>1 DEF Succeed, JobStates
  <2>2. CASE FailJob(s)
    <3> DEFINE n == jobs[j].attempts + 1
    <3>1. PICK state \in {"dead", "waiting"} :
             state = IF n >= MaxAttempts THEN "dead" ELSE "waiting"
      OBVIOUS
    <3>2. MoveJob(j, state, n)  BY <1>2, <2>2, <3>1 DEF FailJob
    <3> QED  BY <1>3, <3>2 DEF JobStates
  <2> QED  BY <2>1, <2>2
<1>5. Written /\ Moved(j, state, n)
  BY <1>1, <1>2, <1>4, JobMoved
<1>6. worker' \in [Slots -> Task] /\ worker'[s] = IdleWorker
      /\ \A t \in Slots : t # s => worker'[t] = worker[t]
  BY <1>0, <1>1 DEF Types, Task, IdleWorker, WorkerPcs
<1>7. Types'  BY <1>0, <1>1, <1>5, <1>6 DEF Types, Written, Tables
<1>8. WorkerRefers(s)'  BY <1>6 DEF WorkerRefers, IdleWorker, DiffPcs, AnalyzePcs
<1>9. \A t \in Slots : t # s => WorkerRefers(t)'
  <2> SUFFICES ASSUME NEW t \in Slots, t # s PROVE WorkerRefers(t)'  OBVIOUS
  <2>1. worker[t].pc # "idle" => worker[t].job # j
    BY <1>0, <1>1, <1>2 DEF OneWorker
  <2>2. worker[t].pc # "idle" => jobs'[worker[t].job].state = "running"
    BY <1>0, <1>5, <2>1 DEF WorkerRefers, Moved
  <2> QED  BY <1>5, <1>6, <2>2, OthersRefer DEF Written
<1>10. OneWorker'  BY <1>0, <1>6 DEF OneWorker, IdleWorker
<1>11. PollerRefers' /\ StartupRefers' /\ \A b \in Admins : AdminRefers(b)'
  BY <1>1, <1>5, OthersRefer DEF Written
<1> QED  BY <1>5, <1>7, <1>8, <1>9, <1>10, <1>11 DEF Refers, Written

\* A deadline passes.
LEMMA ExpiresKeep ==
    ASSUME Refers, NEW s \in Slots, Expire(s)
    PROVE  Refers' /\ Grows
<1>1. /\ UNCHANGED <<published, database, redis, poller, admin, startup>>
      /\ worker' = [worker EXCEPT ![s].expired = TRUE] /\ worker \in [Slots -> Task]
  BY DEF Expire, Refers, Types
<1>2. worker' \in [Slots -> Task]
      /\ \A t \in Slots : worker'[t].pc = worker[t].pc /\ worker'[t].job = worker[t].job
                          /\ worker'[t].made = worker[t].made
  BY <1>1 DEF Task
<1>3. Written /\ Extends(jobs, jobs')  BY <1>1, NoneWritten
<1>4. UNCHANGED <<status, diffs, analyses, jobs>>  BY <1>1 DEF database, redis
<1>5. Types'  BY <1>1, <1>2, <1>3, <1>4 DEF Refers, Types, Written, Tables
<1>6. ASSUME NEW t \in Slots PROVE WorkerRefers(t)'
  <2>1. WorkerRefers(t)  BY DEF Refers
  <2> QED  BY <1>2, <1>4, <2>1 DEF WorkerRefers, Ref, Known
<1>7. OneWorker'  BY <1>2 DEF Refers, OneWorker
<1>8. PollerRefers' /\ StartupRefers' /\ \A b \in Admins : AdminRefers(b)'
  BY <1>1, <1>3, OthersRefer DEF Written
<1> QED  BY <1>3, <1>5, <1>6, <1>7, <1>8 DEF Refers, Written

\* A crash: nobody does anything any more.
LEMMA CrashKeeps ==
    ASSUME Refers, Crash
    PROVE  Refers' /\ Grows
<1>0. Types /\ QueuesHold  BY DEF Refers
<1>1. /\ UNCHANGED <<published, status, diffs, analyses, alerts>>
      /\ poller' = IdlePoller /\ worker' = [s \in Slots |-> IdleWorker]
      /\ admin' = [a \in Admins |-> IdleAdmin]
      /\ startup' = [pc |-> "jobs", todo |-> {}, version |-> 0]
  BY DEF Crash, database
<1>2. /\ jobs' \in Seq(Job) /\ queue' \in [Kinds -> Seq(Nat)] /\ QueuesHold'
      /\ DOMAIN jobs' = DOMAIN jobs
      /\ \A j \in DOMAIN jobs : jobs'[j].kind = jobs[j].kind /\ jobs'[j].ref = jobs[j].ref
  BY <1>0, CrashJobs
<1>3. Grows  BY <1>1, <1>2 DEF Grows, Known, Extends
<1>4. Types'
  <2>1. IdleWorker \in Task  BY DEF IdleWorker, Task, WorkerPcs
  <2>2. poller' \in [pc : {"idle", "create", "enqueue"}, todo : SUBSET Versions]
    BY <1>1 DEF IdlePoller
  <2>3. worker' \in [Slots -> Task] /\ admin' \in [Admins -> Call]
    BY <1>1, <2>1, IdleCall
  <2>4. startup' \in [pc : {"up", "jobs", "releases", "enqueue"}, todo : SUBSET Versions,
                      version : Nat]
    BY <1>1
  <2> QED  BY <1>0, <1>1, <1>2, <2>2, <2>3, <2>4 DEF Types
<1>5. RowsRefer'  BY <1>1, <1>2, <1>3, RowsStillRefer
<1>6. \A s \in Slots : WorkerRefers(s)'
  BY <1>1 DEF WorkerRefers, IdleWorker, DiffPcs, AnalyzePcs
<1>7. OneWorker'  BY <1>1 DEF OneWorker, IdleWorker
<1>8. PollerRefers' /\ StartupRefers'
  BY <1>1 DEF PollerRefers, StartupRefers, IdlePoller
<1>9. \A a \in Admins : AdminRefers(a)'  BY <1>1, IdleCall DEF AdminRefers
<1> QED  BY <1>2, <1>3, <1>4, <1>5, <1>6, <1>7, <1>8, <1>9 DEF Refers

LEMMA RefersInit == Init => Refers
<1> SUFFICES ASSUME Init PROVE Refers  OBVIOUS
<1>1. Types
  <2>1. IdleWorker \in Task  BY DEF IdleWorker, Task, WorkerPcs
  <2>2. startup \in [pc : {"up", "jobs", "releases", "enqueue"}, todo : SUBSET Versions,
                     version : Nat]
    BY DEF Init, Up
  <2>3. poller \in [pc : {"idle", "create", "enqueue"}, todo : SUBSET Versions]
    BY DEF Init, IdlePoller
  <2>4. worker \in [Slots -> Task] /\ admin \in [Admins -> Call]
    BY <2>1, IdleCall DEF Init
  <2>5. published \in 0 .. LastVersion /\ status \in [Versions -> Statuses]
    BY Numbers DEF Init, Statuses
  <2>6. /\ diffs \in Seq([release : Versions, previous : Versions])
        /\ analyses \in Seq([diff : Nat, flagged : BOOLEAN])
        /\ jobs \in Seq(Job) /\ queue \in [Kinds -> Seq(Nat)]
    BY DEF Init
  <2> QED  BY <2>2, <2>3, <2>4, <2>5, <2>6 DEF Types
<1>2. DOMAIN diffs = {} /\ DOMAIN analyses = {} /\ DOMAIN jobs = {} /\ alerts = {}
      /\ \A k \in Kinds : DOMAIN queue[k] = {}
  BY DEF Init
<1>3. RowsRefer /\ QueuesHold  BY <1>2 DEF RowsRefer, QueuesHold
<1>4. \A s \in Slots : WorkerRefers(s)
  BY DEF Init, WorkerRefers, IdleWorker, DiffPcs, AnalyzePcs
<1>5. OneWorker  BY DEF Init, OneWorker, IdleWorker
<1>6. PollerRefers /\ StartupRefers
  BY DEF Init, PollerRefers, StartupRefers, IdlePoller, Up
<1>7. \A a \in Admins : AdminRefers(a)  BY IdleCall DEF Init, AdminRefers
<1> QED  BY <1>1, <1>3, <1>4, <1>5, <1>6, <1>7 DEF Refers

LEMMA RefersNext == Refers /\ [Next]_vars => Refers' /\ Grows
<1> SUFFICES ASSUME Refers, [Next]_vars PROVE Refers' /\ Grows  OBVIOUS
<1>1. CASE Publish
  <2>1. UNCHANGED <<database, redis, poller, worker, admin, startup>>
        /\ published' \in 0 .. LastVersion
    BY <1>1, Numbers DEF Publish, memory, Refers, Types
  <2>2. Written /\ Extends(jobs, jobs') /\ Grows  BY <2>1, NoneWritten DEF Written
  <2>3. Memory'  BY <2>1 DEF Refers, Types, Memory
  <2>4. PollerRefers' /\ StartupRefers' /\ \A b \in Admins : AdminRefers(b)'
    BY <2>1, <2>2, OthersRefer
  <2> QED  BY <2>1, <2>2, <2>3, <2>4, StillRunning, OutsideKeeps
<1>2. CASE CallStep
  BY <1>2, PollerKeeps, HandlersKeep, AdminsKeep, RecoveryKeeps DEF CallStep
<1>3. CASE JobStep  BY <1>3, TakesKeep, ReportsKeep DEF JobStep
<1>4. CASE Request  BY <1>4, LoadsKeep, PushesKeep DEF Request
<1>5. CASE Restart  BY <1>5, PushesKeep DEF Restart
<1>6. CASE Crash  BY <1>6, CrashKeeps
<1>7. CASE Fault
  BY <1>7, PollerKeeps, HandlersKeep, AdminsKeep, RecoveryKeeps DEF Fault
<1>8. CASE \E s \in Slots : Outage(s) \/ Expire(s)
  BY <1>8, HandlersKeep, ExpiresKeep DEF Outage
<1>9. CASE UNCHANGED vars
  <2>1. UNCHANGED <<published, database, redis, poller, worker, admin, startup>>
    BY <1>9 DEF vars, memory
  <2>2. Written /\ Extends(jobs, jobs') /\ Grows  BY <2>1, NoneWritten DEF Written
  <2>3. Memory'  BY <2>1 DEF Refers, Types, Memory
  <2>4. PollerRefers' /\ StartupRefers' /\ \A b \in Admins : AdminRefers(b)'
    BY <2>1, <2>2, OthersRefer
  <2> QED  BY <2>1, <2>2, <2>3, <2>4, StillRunning, OutsideKeeps
<1> QED  BY <1>1, <1>2, <1>3, <1>4, <1>5, <1>6, <1>7, <1>8, <1>9 DEF Next

\* A worker has a running job of its own, and every row, job and goroutine
\* refers to rows that exist.
THEOREM PipelineRefers == Spec => []Refers
BY RefersInit, RefersNext, PTL DEF Spec

LEMMA RefersTypes == Refers => TypeOK
<1> SUFFICES ASSUME Refers PROVE TypeOK  OBVIOUS
<1>1. Types /\ RowsRefer /\ QueuesHold  BY DEF Refers
<1>r. /\ diffs \in Seq([release : Versions, previous : Versions])
      /\ analyses \in Seq([diff : Nat, flagged : BOOLEAN])
  BY <1>1 DEF Types
<1>2. \A d \in DOMAIN diffs : diffs[d] \in [release : Known, previous : Known]
  <2>1. \A d \in DOMAIN diffs : diffs[d] \in [release : Versions, previous : Versions]
    BY <1>r, Entries
  <2> QED  BY <1>1, <2>1 DEF RowsRefer
<1>3. \A a \in DOMAIN analyses : analyses[a] \in [diff : DOMAIN diffs, flagged : BOOLEAN]
  <2>1. \A a \in DOMAIN analyses : analyses[a] \in [diff : Nat, flagged : BOOLEAN]
    BY <1>r, Entries
  <2> QED  BY <1>1, <2>1 DEF RowsRefer
<1>4. \A j \in DOMAIN jobs :
         /\ jobs[j] \in [kind : Kinds, ref : Nat \ {0}, state : JobStates, attempts : Nat]
         /\ jobs[j].ref \in IF jobs[j].kind = "diff" THEN Known ELSE DOMAIN diffs
  <2>1. 0 \notin Known /\ 0 \notin DOMAIN diffs
    BY <1>1, Numbers DEF Types
  <2>2. \A j \in DOMAIN jobs : jobs[j] \in Job  BY <1>1 DEF Types
  <2> QED  BY <1>1, <2>1, <2>2 DEF RowsRefer, Job
<1>5. \A k \in Kinds : ToSet(queue[k]) \subseteq DOMAIN jobs
  BY <1>1 DEF QueuesHold, ToSet
<1>6. ASSUME NEW s \in Slots
      PROVE  /\ worker[s] \in [pc : WorkerPcs, job : Nat, made : Nat, expired : BOOLEAN]
             /\ worker[s].job \in {0} \cup DOMAIN jobs
  BY <1>1 DEF Types, Task, Refers, WorkerRefers
<1>7. ASSUME NEW a \in Admins
      PROVE  admin[a] \in [pc : {"idle", "loaded", "marked", "all"},
                           version : {0} \cup Known, diff : {0} \cup DOMAIN diffs,
                           todo : SUBSET DOMAIN diffs]
  BY <1>1 DEF Types, Call, Refers, AdminRefers
<1>8. startup \in [pc : {"up", "jobs", "releases", "enqueue"},
                   todo : SUBSET Versions, version : {0} \cup Known]
  BY <1>1 DEF Types, Refers, StartupRefers
<1>9. alerts \subseteq DOMAIN analyses  BY <1>1 DEF RowsRefer
<1> QED  BY <1>1, <1>2, <1>3, <1>4, <1>5, <1>6, <1>7, <1>8, <1>9 DEF TypeOK, Types

\* Rows, jobs and goroutines keep their shape and refer to rows that exist,
\* whatever fails and however often the server starts again.
THEOREM PipelineTypeCorrect == Spec => []TypeOK
BY PipelineRefers, RefersTypes, PTL

-----------------------------------------------------------------------------
(* The jobs follow the contract of the queue                               *)

Move(j, from, to, n) == jobs[j].state = from /\ Moved(j, to, n)

\* What a step may do to a job that was submitted before.
JobMoves(j) ==
    \/ Move(j, "waiting", "running", jobs[j].attempts)
    \/ Move(j, "running", "done", jobs[j].attempts)
    \/ jobs[j].attempts + 1 < MaxAttempts /\ Move(j, "running", "waiting", jobs[j].attempts + 1)
    \/ jobs[j].attempts + 1 >= MaxAttempts /\ Move(j, "running", "dead", jobs[j].attempts + 1)
    \/ Move(j, "dead", "waiting", 0)
    \/ Move(j, "stuck", "waiting", jobs[j].attempts)

\* A new job is the next one of the table.
Submits ==
    \E n \in Nat :
        /\ n \notin DOMAIN jobs /\ DOMAIN jobs' = DOMAIN jobs \cup {n}
        /\ jobs'[n].state = "waiting" /\ jobs'[n].attempts = 0
        /\ \A j \in DOMAIN jobs : jobs'[j] = jobs[j]

Stops ==
    /\ DOMAIN jobs' = DOMAIN jobs
    /\ \A j \in DOMAIN jobs :
          /\ jobs'[j].attempts = jobs[j].attempts
          /\ jobs'[j].state = IF jobs[j].state = "running" THEN "stuck" ELSE jobs[j].state

TableStep == UNCHANGED jobs \/ Submits \/ (\E j \in DOMAIN jobs : JobMoves(j)) \/ Stops

LEMMA EnqueueSubmits ==
    ASSUME Types, NEW kind, NEW ref, NEW ok, Enqueue(kind, ref, ok)
    PROVE  TableStep
<1>1. jobs \in Seq(Job)  BY DEF Types
<1> DEFINE job == [kind |-> kind, ref |-> ref, state |-> "waiting", attempts |-> 0]
<1>2. UNCHANGED jobs \/ jobs' = Append(jobs, job)  BY DEF Enqueue, redis
<1>3. job.state = "waiting" /\ job.attempts = 0  OBVIOUS
<1> HIDE DEF job
<1>4. PICK n \in Nat : n = Len(jobs) + 1  BY <1>1
<1>5. n \notin DOMAIN jobs  BY <1>1, <1>4
<1>6. DOMAIN Append(jobs, job) = DOMAIN jobs \cup {n} /\ Append(jobs, job)[n] = job
  BY <1>1, <1>4
<1>7. \A j \in DOMAIN jobs : Append(jobs, job)[j] = jobs[j]  BY <1>1
<1> QED  BY <1>2, <1>3, <1>5, <1>6, <1>7 DEF TableStep, Submits

LEMMA TableSteps ==
    ASSUME Refers, [Next]_vars
    PROVE  TableStep
<1>0. Types /\ QueuesHold  BY DEF Refers
<1>1. \A j \in DOMAIN jobs : jobs[j].attempts \in Nat
  <2> SUFFICES ASSUME NEW j \in DOMAIN jobs PROVE jobs[j].attempts \in Nat  OBVIOUS
  <2>1. jobs[j] \in Job  BY <1>0 DEF Types
  <2> QED  BY <2>1 DEF Job
<1>2. ASSUME NEW s \in Slots, NEW ok, HandlerStep(s, ok) PROVE TableStep
  <2>1. UNCHANGED redis \/ Enqueue("analyze", worker[s].made, ok)
    BY <1>2 DEF HandlerStep, DiffStep, AnalyzeStep, DiffBegin, DiffPrevious, DiffBaseline,
       DiffFetch, DiffMarkError, DiffStore, DiffAnalyzing, DiffHandOff, Judge, RaiseAlert,
       AnalyzeComplete
  <2> QED  BY <1>0, <2>1, EnqueueSubmits DEF redis, TableStep
<1>3. ASSUME NEW ok, PollStep(ok) PROVE TableStep
  <2>1. UNCHANGED redis \/ \E v : Enqueue("diff", v, ok)
    BY <1>3 DEF PollStep, PollStart, PollCreate, PollEnqueue
  <2> QED  BY <1>0, <2>1, EnqueueSubmits DEF redis, TableStep
<1>4. ASSUME NEW a \in Admins, NEW ok, AdminStep(a, ok) PROVE TableStep
  <2>1. UNCHANGED redis \/ \E kind, v : Enqueue(kind, v, ok)
    BY <1>4 DEF AdminStep, ReanalyzeStatus, ReanalyzeEnqueue, ReanalyzeAllEnqueue
  <2> QED  BY <1>0, <2>1, EnqueueSubmits DEF redis, TableStep
<1>5. ASSUME NEW ok, RecoverStep(ok) PROVE TableStep
  <2>1. UNCHANGED redis \/ \E kind, v, how : Enqueue(kind, v, how)
    BY <1>5 DEF RecoverStep, RecoverScan, RecoverRelease, RecoverPending, RecoverAnalyzing,
                RecoverEnqueue
  <2> QED  BY <1>0, <2>1, EnqueueSubmits DEF redis, TableStep
<1>6. ASSUME NEW j \in DOMAIN jobs, jobs[j].state # "waiting", NEW state \in JobStates,
             NEW n \in Nat, MoveJob(j, state, n)
      PROVE  Moved(j, state, n)
  BY <1>0, <1>6, MovedOn
<1>7. ASSUME NEW s \in Slots, Take(s) \/ Succeed(s) \/ FailJob(s) PROVE TableStep
  <2>1. CASE Take(s)
    <3>1. PICK j \in DOMAIN jobs : Taken(s, j)  BY <1>0, <2>1, TakenFrom
    <3> QED  BY <3>1 DEF Taken, TableStep, JobMoves, Move
  <2>2. ASSUME worker[s].pc # "idle"
        PROVE  worker[s].job \in DOMAIN jobs /\ jobs[worker[s].job].state = "running"
    BY <2>2 DEF Refers, WorkerRefers
  <2>3. CASE Succeed(s)
    <3>1. PICK j \in DOMAIN jobs : j = worker[s].job /\ jobs[j].state = "running"
      BY <2>2, <2>3 DEF Succeed
    <3>2. Moved(j, "done", jobs[j].attempts)
      BY <1>1, <1>6, <2>3, <3>1 DEF Succeed, JobStates
    <3> QED  BY <3>1, <3>2 DEF TableStep, JobMoves, Move
  <2>4. CASE FailJob(s)
    <3>1. PICK j \in DOMAIN jobs : j = worker[s].job /\ jobs[j].state = "running"
      BY <2>2, <2>4 DEF FailJob
    <3>2. PICK n \in Nat : n = jobs[j].attempts + 1  BY <1>1
    <3>3. MoveJob(j, IF n >= MaxAttempts THEN "dead" ELSE "waiting", n)
      BY <2>4, <3>1, <3>2 DEF FailJob
    <3>4. CASE n >= MaxAttempts
      <4>1. Moved(j, "dead", n)  BY <1>6, <3>1, <3>3, <3>4 DEF JobStates
      <4> QED  BY <3>1, <3>2, <3>4, <4>1 DEF TableStep, JobMoves, Move
    <3>5. CASE n < MaxAttempts
      <4>1. ~(n >= MaxAttempts)  BY <3>5, Numbers
      <4>2. Moved(j, "waiting", n)  BY <1>6, <3>1, <3>3, <4>1 DEF JobStates
      <4> QED  BY <3>1, <3>2, <3>5, <4>2 DEF TableStep, JobMoves, Move
    <3> QED  BY <3>4, <3>5, Numbers
  <2> QED  BY <1>7, <2>1, <2>3, <2>4
<1>8. ASSUME NEW j \in DOMAIN jobs, RetryDead(j) \/ RecoverJob(j) PROVE TableStep
  <2>1. CASE RetryDead(j)
    <3>1. jobs[j].state = "dead" /\ MoveJob(j, "waiting", 0)  BY <2>1 DEF RetryDead
    <3>2. Moved(j, "waiting", 0)  BY <1>6, <3>1 DEF JobStates
    <3> QED  BY <3>1, <3>2 DEF TableStep, JobMoves, Move
  <2>2. CASE RecoverJob(j)
    <3>1. jobs[j].state = "stuck" /\ MoveJob(j, "waiting", jobs[j].attempts)
      BY <2>2 DEF RecoverJob
    <3>2. Moved(j, "waiting", jobs[j].attempts)  BY <1>1, <1>6, <3>1 DEF JobStates
    <3> QED  BY <3>1, <3>2 DEF TableStep, JobMoves, Move
  <2> QED  BY <1>8, <2>1, <2>2
<1>9. CASE Crash  BY <1>0, <1>9, CrashJobs DEF TableStep, Stops
<1>10. CASE UNCHANGED vars \/ Publish  BY <1>10 DEF vars, Publish, redis, TableStep
<1>11. ASSUME NEW a \in Admins,
              ReanalyzeAllLoad(a) \/ \E v \in Versions, ok \in BOOLEAN : ReanalyzeLoad(a, v, ok)
       PROVE  TableStep
  BY <1>11 DEF ReanalyzeAllLoad, ReanalyzeLoad, redis, TableStep
<1>12. ASSUME NEW s \in Slots, Outage(s) \/ Expire(s) PROVE TableStep
  BY <1>2, <1>12 DEF Outage, Expire, redis, TableStep
<1>13. CASE CallStep  BY <1>2, <1>3, <1>4, <1>5, <1>13 DEF CallStep
<1>14. CASE Fault  BY <1>2, <1>3, <1>4, <1>5, <1>14 DEF Fault
<1>15. CASE Request  BY <1>8, <1>11, <1>15 DEF Request
<1> QED
  BY <1>7, <1>8, <1>9, <1>10, <1>12, <1>13, <1>14, <1>15 DEF Next, JobStep, Restart

\* A job that is not finished may still be tried.
AttemptsLeft ==
    \A j \in DOMAIN jobs :
        jobs[j].state \notin {"done", "dead"} => jobs[j].attempts < MaxAttempts

LEMMA AttemptsNext ==
    ASSUME Refers, AttemptsLeft, [Next]_vars
    PROVE  AttemptsLeft'
<1>1. TableStep  BY TableSteps
<1>2. 0 < MaxAttempts  BY Numbers
<1>3. CASE UNCHANGED jobs  BY <1>3 DEF AttemptsLeft
<1>4. CASE Submits  BY <1>2, <1>4 DEF Submits, AttemptsLeft
<1>5. CASE Stops  BY <1>5 DEF Stops, AttemptsLeft
<1>6. ASSUME NEW j \in DOMAIN jobs, JobMoves(j) PROVE AttemptsLeft'
  <2>1. DOMAIN jobs' = DOMAIN jobs /\ \A i \in DOMAIN jobs : i # j => jobs'[i] = jobs[i]
    BY <1>6 DEF JobMoves, Move, Moved
  <2>2. jobs[j].state \notin {"done", "dead"} => jobs[j].attempts < MaxAttempts
    BY DEF AttemptsLeft
  <2>3. jobs'[j].state \notin {"done", "dead"} => jobs'[j].attempts < MaxAttempts
    BY <1>2, <1>6, <2>2 DEF JobMoves, Move, Moved
  <2> QED  BY <2>1, <2>3 DEF AttemptsLeft
<1> QED  BY <1>1, <1>3, <1>4, <1>5, <1>6 DEF TableStep

LEMMA AttemptsInvariant == Spec => []AttemptsLeft
<1>1. Init => AttemptsLeft  BY DEF Init, AttemptsLeft
<1>2. Refers /\ AttemptsLeft /\ [Next]_vars => AttemptsLeft'  BY AttemptsNext
<1> QED  BY <1>1, <1>2, PipelineRefers, PTL DEF Spec

LEMMA JobEffects ==
    ASSUME NEW j, NEW from, NEW to, NEW n, Move(j, from, to, n)
    PROVE  /\ jobs[j].state = from /\ DOMAIN jobs' = DOMAIN jobs
           /\ jobs'[j].state = to /\ jobs'[j].attempts = n
           /\ \A i \in DOMAIN jobs : i # j => jobs'[i] = jobs[i]
BY DEF Move, Moved

\* A job beyond the bound moves without the contract, one within it moves alone.
LEMMA ContractSees ==
    ASSUME NEW j \in DOMAIN jobs, NEW from, NEW to, NEW n, Move(j, from, to, n),
           to # "stuck"
    PROVE  \/ UNCHANGED <<ContractState, ContractAttempts>>
           \/ /\ j \in 1 .. MaxJobs
              /\ ContractState[j] = IF from = "stuck" THEN "running" ELSE from
              /\ ContractState' = [ContractState EXCEPT ![j] = to]
              /\ ContractAttempts[j] = jobs[j].attempts
              /\ ContractAttempts' = [ContractAttempts EXCEPT ![j] = n]
<1>0. /\ jobs[j].state = from /\ DOMAIN jobs' = DOMAIN jobs
      /\ jobs'[j].state = to /\ jobs'[j].attempts = n
      /\ \A i \in DOMAIN jobs : i # j => jobs'[i] = jobs[i]
  BY JobEffects
<1>1. CASE j \notin 1 .. MaxJobs
  <2>1. ContractState' = ContractState  BY <1>0, <1>1 DEF ContractState
  <2>2. ContractAttempts' = ContractAttempts  BY <1>0, <1>1 DEF ContractAttempts
  <2> QED  BY <2>1, <2>2
<1>2. CASE j \in 1 .. MaxJobs
  <2>1. /\ ContractState[j] = IF from = "stuck" THEN "running" ELSE from
        /\ ContractState' = [ContractState EXCEPT ![j] = to]
    BY <1>0, <1>2 DEF ContractState
  <2>2. /\ ContractAttempts[j] = jobs[j].attempts
        /\ ContractAttempts' = [ContractAttempts EXCEPT ![j] = n]
    BY <1>0, <1>2 DEF ContractAttempts
  <2> QED  BY <1>2, <2>1, <2>2
<1> QED  BY <1>1, <1>2

LEMMA ContractInit == Init => Contract!Init
<1> SUFFICES ASSUME Init PROVE Contract!Init  OBVIOUS
<1>1. DOMAIN jobs = {}  BY DEF Init
<1> QED  BY <1>1 DEF Contract!Init, ContractState, ContractAttempts

LEMMA ContractNext ==
    Refers /\ AttemptsLeft /\ [Next]_vars => [Contract!Next]_(Contract!vars)
<1> SUFFICES ASSUME Refers, AttemptsLeft, [Next]_vars
             PROVE  Contract!Next \/ UNCHANGED Contract!vars
  OBVIOUS
<1>1. TableStep  BY TableSteps
<1>2. CASE UNCHANGED jobs \/ Stops
  <2>1. /\ DOMAIN jobs' = DOMAIN jobs
        /\ \A j \in DOMAIN jobs : jobs'[j].attempts = jobs[j].attempts
        /\ \A j \in DOMAIN jobs :
              (IF jobs'[j].state = "stuck" THEN "running" ELSE jobs'[j].state)
              = IF jobs[j].state = "stuck" THEN "running" ELSE jobs[j].state
    BY <1>2 DEF Stops
  <2>2. ContractState' = ContractState  BY <2>1 DEF ContractState
  <2>3. ContractAttempts' = ContractAttempts  BY <2>1 DEF ContractAttempts
  <2> QED  BY <2>2, <2>3 DEF Contract!vars
<1>3. CASE Submits
  <2>1. PICK n \in Nat :
           /\ n \notin DOMAIN jobs /\ DOMAIN jobs' = DOMAIN jobs \cup {n}
           /\ jobs'[n].state = "waiting" /\ jobs'[n].attempts = 0
           /\ \A j \in DOMAIN jobs : jobs'[j] = jobs[j]
    BY <1>3 DEF Submits
  <2>2. ContractAttempts' = ContractAttempts  BY <2>1 DEF ContractAttempts
  <2>3. CASE n \in 1 .. MaxJobs
    <3>1. /\ ContractState[n] = "absent"
          /\ ContractState' = [ContractState EXCEPT ![n] = "waiting"]
      BY <2>1, <2>3 DEF ContractState
    <3>2. Contract!Submit(n)  BY <2>2, <3>1 DEF Contract!Submit, Contract!Move
    <3> QED  BY <2>3, <3>2 DEF Contract!Next
  <2>4. CASE n \notin 1 .. MaxJobs
    <3>1. ContractState' = ContractState  BY <2>1, <2>4 DEF ContractState
    <3> QED  BY <2>2, <3>1 DEF Contract!vars
  <2> QED  BY <2>3, <2>4
<1>4. ASSUME NEW j \in DOMAIN jobs, JobMoves(j)
      PROVE  Contract!Next \/ UNCHANGED Contract!vars
  <2>0. jobs[j].attempts \in Nat /\ MaxAttempts \in Nat
    <3>1. jobs[j] \in Job  BY DEF Refers, Types
    <3> QED  BY <3>1, Numbers DEF Job
  <2>1. ASSUME NEW from, NEW to, NEW n, Move(j, from, to, n), to # "stuck",
               (/\ j \in 1 .. MaxJobs
                /\ ContractState[j] = IF from = "stuck" THEN "running" ELSE from
                /\ ContractState' = [ContractState EXCEPT ![j] = to]
                /\ ContractAttempts[j] = jobs[j].attempts
                /\ ContractAttempts' = [ContractAttempts EXCEPT ![j] = n])
               => Contract!Next
        PROVE  Contract!Next \/ UNCHANGED Contract!vars
    BY <2>1, ContractSees DEF Contract!vars
  <2>2. ASSUME j \in 1 .. MaxJobs, ContractAttempts[j] = jobs[j].attempts,
               ContractAttempts' = [ContractAttempts EXCEPT ![j] = jobs[j].attempts]
        PROVE  UNCHANGED ContractAttempts
    BY <2>2 DEF ContractAttempts
  <2>3. CASE Move(j, "waiting", "running", jobs[j].attempts)
    BY <2>1, <2>2, <2>3 DEF Contract!Next, Contract!Begin, Contract!Move
  <2>4. CASE Move(j, "running", "done", jobs[j].attempts)
    BY <2>1, <2>2, <2>4 DEF Contract!Next, Contract!Finish, Contract!Move
  <2>5. CASE /\ jobs[j].attempts + 1 < MaxAttempts
             /\ Move(j, "running", "waiting", jobs[j].attempts + 1)
    BY <2>1, <2>5 DEF Contract!Next, Contract!TryAgain, Contract!Move, Contract!CountTo
  <2>6. CASE /\ jobs[j].attempts + 1 >= MaxAttempts
             /\ Move(j, "running", "dead", jobs[j].attempts + 1)
    <3>1. jobs[j].attempts < MaxAttempts  BY <2>6 DEF AttemptsLeft, Move
    <3>2. jobs[j].attempts + 1 = MaxAttempts  BY <2>0, <2>6, <3>1
    <3>3. Move(j, "running", "dead", MaxAttempts)  BY <2>6, <3>2
    <3> QED
      BY <2>1, <3>2, <3>3 DEF Contract!Next, Contract!GiveUp, Contract!Move, Contract!CountTo
  <2>7. CASE Move(j, "dead", "waiting", 0)
    BY <2>1, <2>7 DEF Contract!Next, Contract!Revive, Contract!Move, Contract!CountTo
  <2>8. CASE Move(j, "stuck", "waiting", jobs[j].attempts)
    BY <2>1, <2>2, <2>8 DEF Contract!Next, Contract!Postpone, Contract!Move
  <2> QED  BY <1>4, <2>3, <2>4, <2>5, <2>6, <2>7, <2>8 DEF JobMoves
<1> QED  BY <1>1, <1>2, <1>3, <1>4 DEF TableStep

\* The jobs of the pipeline follow the contract of the queue, through failed
\* calls, retries, crashes and recoveries, for every number of jobs.
THEOREM PipelineFollowsContract == Spec => FollowsContract
BY ContractInit, ContractNext, AttemptsInvariant, PipelineRefers, PTL
DEF Spec, FollowsContract, Contract!Spec

=============================================================================
