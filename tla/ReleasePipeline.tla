-------------------------- MODULE ReleasePipeline --------------------------
(***************************************************************************)
(* The life of the releases of one package: the poller creates them, the   *)
(* differ compares each with its predecessor, the analyzer has a language  *)
(* model judge the diff and raises alerts, an administrator may ask for    *)
(* another analysis, and a restart picks up what was left in flight.       *)
(*                                                                         *)
(* The releases, diffs, analyses and alerts are rows in Postgres, the jobs *)
(* are in Redis, and no transaction spans the two.  Every action makes at  *)
(* most one change to one of them and takes ok: FALSE when that call       *)
(* fails.  The queue is used through its contract (JobContract, which      *)
(* JobQueue implements): a job is taken, and then completed or failed.     *)
(***************************************************************************)
EXTENDS Naturals, FiniteSets, Sequences, SequencesExt

CONSTANTS
    LastVersion,     \* versions are 1 .. LastVersion, in order of publication
    MaxAttempts,     \* Queue.maxAttempts
    DiffSlots, AnalyzeSlots,  \* DIFF_ and ANALYZE_WORKER_CONCURRENCY goroutines
    Admins,          \* concurrent reanalysis requests
    Budgets,         \* bounds on what may go wrong or be asked for: a behaviour has one
    MaxJobs          \* bound on the jobs the contract is checked for

ASSUME PipelineAssumption ==
    /\ LastVersion \in Nat \ {0}
    /\ MaxAttempts \in Nat \ {0}
    /\ DiffSlots \cap AnalyzeSlots = {}
    /\ Budgets \subseteq [calls: Nat, expiries: Nat, faults: Nat, outages: Nat, crashes: Nat]
    /\ MaxJobs \in Nat

VARIABLES
    published,  \* how many versions the registry lists
    status,     \* releases.status of each version, "unknown" without a row
    diffs,      \* the diffs rows, in the order of created_at
    analyses,   \* the analyses rows, in the order of created_at
    alerts,     \* the analyses an alerts row refers to
    jobs,       \* every job issued, in the order of their ids
    queue,      \* the pending list of each job type, without its rotations
    poller,     \* the goroutine that checks this package
    worker,     \* what each worker goroutine is doing
    admin,      \* what each reanalysis request is doing
    startup,    \* what BuildDependencies is recovering, or "up"
    left        \* what may still go wrong or be asked for

database == <<status, diffs, analyses, alerts>>
redis == <<jobs, queue>>
memory == <<poller, worker, admin, startup>>
vars == <<published, database, redis, memory, left>>

Versions == 1 .. LastVersion
Slots == DiffSlots \cup AnalyzeSlots
Kinds == {"diff", "analyze"}
Statuses == {"unknown", "pending", "diffing", "analyzing", "completed", "error"}
JobStates == {"waiting", "running", "stuck", "done", "dead"}
WorkerPcs == {"idle", "begin", "previous", "baseline", "fetch", "marking",
              "store", "stored", "handoff", "judge", "alert", "complete",
              "succeeded", "failed"}

IdleWorker  == [pc |-> "idle", job |-> 0, made |-> 0, expired |-> FALSE]
IdleAdmin   == [pc |-> "idle", version |-> 0, diff |-> 0, todo |-> {}]
IdlePoller  == [pc |-> "idle", todo |-> {}]
Up          == [pc |-> "up", todo |-> {}, version |-> 0]

Init ==
    /\ published = 0
    /\ status = [v \in Versions |-> "unknown"]
    /\ diffs = <<>>
    /\ analyses = <<>>
    /\ alerts = {}
    /\ jobs = <<>>
    /\ queue = [k \in Kinds |-> <<>>]
    /\ poller = IdlePoller
    /\ worker = [s \in Slots |-> IdleWorker]
    /\ admin = [a \in Admins |-> IdleAdmin]
    /\ startup = Up
    /\ \E b \in Budgets :
          left = [calls |-> b.calls, expiries |-> b.expiries, faults |-> b.faults,
                  outages |-> b.outages, crashes |-> b.crashes, first |-> b]

-----------------------------------------------------------------------------
(* Reading and writing the rows and the jobs                               *)

Known == {v \in Versions : status[v] # "unknown"}
DiffsOf(v) == {d \in DOMAIN diffs : diffs[d].release = v}
AnalysesOf(d) == {a \in DOMAIN analyses : analyses[a].diff = d}

Least(S) == CHOOSE x \in S : \A y \in S : x <= y
Greatest(S) == CHOOSE x \in S : \A y \in S : x >= y

\* An UPDATE of releases.status whose error the caller ignores when ok is FALSE.
SetStatus(v, new, ok) ==
    status' = IF ok THEN [status EXCEPT ![v] = new] ELSE status

\* Queue.Enqueue.
Enqueue(kind, ref, ok) ==
    IF ok
    THEN /\ jobs' = Append(jobs, [kind |-> kind, ref |-> ref,
                                  state |-> "waiting", attempts |-> 0])
         /\ queue' = [queue EXCEPT ![kind] = Append(@, Len(jobs) + 1)]
    ELSE UNCHANGED redis

\* Mutant: a job that waits again is not pushed.
MoveJob_NotPushed(j, state, attempts) ==
    /\ jobs' = [jobs EXCEPT ![j].state = state, ![j].attempts = attempts]
    /\ queue' = queue

\* The job leaves the processing set; it is pushed again when it waits.
MoveJob(j, state, attempts) ==
    /\ jobs' = [jobs EXCEPT ![j].state = state, ![j].attempts = attempts]
    /\ queue' = IF state = "waiting"
                THEN [queue EXCEPT ![jobs[j].kind] = Append(@, j)]
                ELSE queue

Spend(what) == left[what] > 0 /\ left' = [left EXCEPT ![what] = @ - 1]

-----------------------------------------------------------------------------
(* The registry and the poller                                             *)

Publish ==
    /\ published < LastVersion
    /\ published' = published + 1
    /\ UNCHANGED <<database, redis, memory, left>>

\* The two newest versions, when there is no known release to start from.
NewestTwo == {v \in 1 .. published : v + 2 > published}

\* Mutant: only the latest version is looked at.
PollStart_LatestOnly(ok) ==
    /\ startup.pc = "up" /\ poller.pc = "idle"
    /\ LET new == {v \in 1 .. published : v = published} \ Known
       IN  poller' = IF new = {} THEN poller ELSE [pc |-> "create", todo |-> new]
    /\ UNCHANGED <<published, database, redis, worker, admin, startup>>

\* checkPackageForNewReleases: what is newer than the newest release.  An
\* error of that lookup is dropped and looks like a package never seen.
PollStart(ok) ==
    /\ startup.pc = "up" /\ poller.pc = "idle"
    /\ LET new == IF ok /\ Known # {}
                  THEN {v \in 1 .. published : v > Greatest(Known)}
                  ELSE NewestTwo \ Known
       IN  poller' = IF new = {} THEN poller ELSE [pc |-> "create", todo |-> new]
    /\ UNCHANGED <<published, database, redis, worker, admin, startup>>

\* On to the next version of the list, whether this one worked or not.
PollNext == poller' = IF Cardinality(poller.todo) = 1
                      THEN IdlePoller
                      ELSE [pc |-> "create", todo |-> poller.todo \ {Least(poller.todo)}]

\* Mutant: the versions are taken as the registry lists them, newest first.
PollCreate_NewestFirst(ok) ==
    /\ poller.pc = "create"
    /\ LET v == Greatest(poller.todo) IN
       /\ SetStatus(v, "pending", ok)
       /\ Enqueue("diff", v, ok)
       /\ poller' = IF Cardinality(poller.todo) = 1 THEN IdlePoller
                    ELSE [pc |-> "create", todo |-> poller.todo \ {v}]
    /\ UNCHANGED <<published, diffs, analyses, alerts, worker, admin, startup>>

\* CreateRelease, oldest version first.
PollCreate(ok) ==
    /\ poller.pc = "create"
    /\ SetStatus(Least(poller.todo), "pending", ok)
    /\ IF ok THEN poller' = [poller EXCEPT !.pc = "enqueue"] ELSE PollNext
    /\ UNCHANGED <<published, diffs, analyses, alerts, redis, worker, admin, startup>>

\* The diff job of the release just created; an error is only logged.
PollEnqueue(ok) ==
    /\ poller.pc = "enqueue"
    /\ Enqueue("diff", Least(poller.todo), ok)
    /\ PollNext
    /\ UNCHANGED <<published, database, worker, admin, startup>>

PollStep(ok) == PollStart(ok) \/ PollCreate(ok) \/ PollEnqueue(ok)

-----------------------------------------------------------------------------
(* The workers take jobs and report how they ended                         *)

KindOf(s) == IF s \in DiffSlots THEN "diff" ELSE "analyze"

\* A job that never failed leaves in the order it was pushed; one that waits
\* for its backoff is put back until it may run, so it may be taken any time.
Ready(kind, i) ==
    LET Failed(h) == jobs[queue[kind][h]].attempts > 0
    IN  Failed(i) \/ \A h \in 1 .. i - 1 : Failed(h)

Take(s) ==
    /\ startup.pc = "up" /\ worker[s].pc = "idle"
    /\ \E i \in DOMAIN queue[KindOf(s)] :
          LET j == queue[KindOf(s)][i] IN
          /\ Ready(KindOf(s), i)
          /\ worker' = [worker EXCEPT ![s] =
                [IdleWorker EXCEPT !.job = j,
                    !.pc = IF KindOf(s) = "diff" THEN "begin" ELSE "judge"]]
          /\ jobs' = [jobs EXCEPT ![j].state = "running"]
          /\ queue' = [queue EXCEPT ![KindOf(s)] = RemoveAt(@, i)]
    /\ UNCHANGED <<published, database, poller, admin, startup, left>>

\* processJob: Complete after a nil error.
Succeed(s) ==
    /\ worker[s].pc = "succeeded"
    /\ MoveJob(worker[s].job, "done", jobs[worker[s].job].attempts)
    /\ worker' = [worker EXCEPT ![s] = IdleWorker]
    /\ UNCHANGED <<published, database, poller, admin, startup, left>>

\* processJob: Fail, which retries the job or buries it.
FailJob(s) ==
    /\ worker[s].pc = "failed"
    /\ LET j == worker[s].job
           n == jobs[j].attempts + 1
       IN  MoveJob(j, IF n >= MaxAttempts THEN "dead" ELSE "waiting", n)
    /\ worker' = [worker EXCEPT ![s] = IdleWorker]
    /\ UNCHANGED <<published, database, poller, admin, startup, left>>

Goto(s, pc) == worker' = [worker EXCEPT ![s].pc = pc]
GotoMade(s, pc, made) == worker' = [worker EXCEPT ![s].pc = pc, ![s].made = made]
Ref(s) == jobs[worker[s].job].ref

\* The job's deadline passes: every later call of its handler fails.
Expire(s) ==
    /\ worker[s].pc \notin {"idle", "succeeded", "failed"}
    /\ ~worker[s].expired
    /\ worker' = [worker EXCEPT ![s].expired = TRUE]
    /\ Spend("expiries")
    /\ UNCHANGED <<published, database, redis, poller, admin, startup>>

-----------------------------------------------------------------------------
(* Differ.ProcessRelease                                                   *)

\* The row is loaded, an error fails the job; then it is set to diffing and
\* an error of that is ignored.
DiffBegin(s, ok) ==
    /\ worker[s].pc = "begin"
    /\ \/ SetStatus(Ref(s), "diffing", ok) /\ Goto(s, "previous")
       \/ ~ok /\ UNCHANGED status /\ Goto(s, "failed")
    /\ UNCHANGED <<diffs, analyses, alerts, redis>>

\* FindPreviousCompletedRelease; an error reads as "no previous release".
DiffPrevious(s, ok) ==
    /\ worker[s].pc = "previous"
    /\ LET older == {u \in Versions : u < Ref(s) /\ status[u] = "completed"} IN
       IF ok /\ older # {} THEN GotoMade(s, "fetch", Greatest(older)) ELSE Goto(s, "baseline")
    /\ UNCHANGED <<database, redis>>

\* Without a previous release there is nothing to compare.
DiffBaseline(s, ok) ==
    /\ worker[s].pc = "baseline"
    /\ SetStatus(Ref(s), "completed", ok)
    /\ Goto(s, "succeeded")
    /\ UNCHANGED <<diffs, analyses, alerts, redis>>

\* Both tarballs are downloaded, extracted and compared.
DiffFetch(s, ok) ==
    /\ worker[s].pc = "fetch"
    /\ Goto(s, IF ok THEN "store" ELSE "marking")
    /\ UNCHANGED <<database, redis>>

\* markError, whose own error is ignored; the job fails.
DiffMarkError(s, ok) ==
    /\ worker[s].pc = "marking"
    /\ SetStatus(Ref(s), "error", ok)
    /\ Goto(s, "failed")
    /\ UNCHANGED <<diffs, analyses, alerts, redis>>

\* CreateDiff.
DiffStore(s, ok) ==
    /\ worker[s].pc = "store"
    /\ IF ok
       THEN /\ diffs' = Append(diffs, [release |-> Ref(s), previous |-> worker[s].made])
            /\ GotoMade(s, "stored", Len(diffs) + 1)
       ELSE UNCHANGED diffs /\ Goto(s, "marking")
    /\ UNCHANGED <<status, analyses, alerts, redis>>

\* The status says analyzing before the analysis is queued.
DiffAnalyzing(s, ok) ==
    /\ worker[s].pc = "stored"
    /\ SetStatus(Ref(s), "analyzing", ok)
    /\ Goto(s, "handoff")
    /\ UNCHANGED <<diffs, analyses, alerts, redis>>

\* Mutant: a job that was handed on is reported as failed.
DiffHandOff_Fails(s, ok) ==
    /\ worker[s].pc = "handoff"
    /\ Enqueue("analyze", worker[s].made, ok)
    /\ Goto(s, "failed")
    /\ UNCHANGED database

\* Mutant: the job refers to the release instead of the diff.
DiffHandOff_WrongId(s, ok) ==
    /\ worker[s].pc = "handoff"
    /\ Enqueue("analyze", Ref(s), ok)
    /\ Goto(s, IF ok THEN "succeeded" ELSE "failed")
    /\ UNCHANGED database

\* The analysis is queued; an error fails the diff job.
DiffHandOff(s, ok) ==
    /\ worker[s].pc = "handoff"
    /\ Enqueue("analyze", worker[s].made, ok)
    /\ Goto(s, IF ok THEN "succeeded" ELSE "failed")
    /\ UNCHANGED database

DiffStep(s, ok) ==
    \/ DiffBegin(s, ok) \/ DiffPrevious(s, ok) \/ DiffBaseline(s, ok)
    \/ DiffFetch(s, ok) \/ DiffMarkError(s, ok) \/ DiffStore(s, ok)
    \/ DiffAnalyzing(s, ok) \/ DiffHandOff(s, ok)

-----------------------------------------------------------------------------
(* Pipeline.ProcessDiff, with the one provider BuildDependencies gives it  *)

ReleaseOf(s) == diffs[Ref(s)].release

\* Mutant: no verdict is worth an alert.
Judge_NoAlert(s, ok) ==
    /\ worker[s].pc = "judge"
    /\ IF ok
       THEN \E flagged \in BOOLEAN :
              /\ analyses' = Append(analyses, [diff |-> Ref(s), flagged |-> flagged])
              /\ GotoMade(s, "complete", Len(analyses) + 1)
       ELSE UNCHANGED analyses /\ Goto(s, "failed")
    /\ UNCHANGED <<status, diffs, alerts, redis>>

\* The provider judges the diff and the verdict is stored; an error of either
\* fails the job.
Judge(s, ok) ==
    /\ worker[s].pc = "judge"
    /\ IF ok
       THEN \E flagged \in BOOLEAN :
              /\ analyses' = Append(analyses, [diff |-> Ref(s), flagged |-> flagged])
              /\ GotoMade(s, IF flagged THEN "alert" ELSE "complete", Len(analyses) + 1)
       ELSE UNCHANGED analyses /\ Goto(s, "failed")
    /\ UNCHANGED <<status, diffs, alerts, redis>>

\* CreateAlert for a suspicious or malicious verdict; an error is only logged.
RaiseAlert(s, ok) ==
    /\ worker[s].pc = "alert"
    /\ alerts' = IF ok THEN alerts \cup {worker[s].made} ELSE alerts
    /\ Goto(s, "complete")
    /\ UNCHANGED <<status, diffs, analyses, redis>>

\* The release is completed; an error is only logged.
AnalyzeComplete(s, ok) ==
    /\ worker[s].pc = "complete"
    /\ SetStatus(ReleaseOf(s), "completed", ok)
    /\ Goto(s, "succeeded")
    /\ UNCHANGED <<diffs, analyses, alerts, redis>>

AnalyzeStep(s, ok) == Judge(s, ok) \/ RaiseAlert(s, ok) \/ AnalyzeComplete(s, ok)

HandlerStep(s, ok) ==
    /\ DiffStep(s, ok) \/ AnalyzeStep(s, ok)
    /\ UNCHANGED <<published, poller, admin, startup>>

\* The registry or the provider is down; nothing else is.
Outage(s) ==
    /\ worker[s].pc \in {"fetch", "judge"}
    /\ HandlerStep(s, FALSE)
    /\ Spend("outages")

-----------------------------------------------------------------------------
(* Requests: ReanalyzeRelease, ReanalyzeAll and the retry of a dead job    *)

SetAdmin(a, new) == admin' = [admin EXCEPT ![a] = new]

\* ReanalyzeRelease: the first diff of the release is looked up, and an error
\* of that reads as "no diff yet".
ReanalyzeLoad(a, v, ok) ==
    /\ startup.pc = "up" /\ admin[a].pc = "idle" /\ v \in Known
    /\ SetAdmin(a, [IdleAdmin EXCEPT !.pc = "loaded", !.version = v,
                       !.diff = IF ok /\ DiffsOf(v) # {} THEN Least(DiffsOf(v)) ELSE 0])
    /\ IF ok THEN Spend("calls")
       ELSE /\ left.calls > 0 /\ left.faults > 0
            /\ left' = [left EXCEPT !.calls = @ - 1, !.faults = @ - 1]
    /\ UNCHANGED <<published, database, redis, poller, worker, startup>>

\* ReanalyzeRelease: the status is set; an error ends the request.
ReanalyzeStatus(a, ok) ==
    /\ admin[a].pc = "loaded"
    /\ SetStatus(admin[a].version, IF admin[a].diff = 0 THEN "pending" ELSE "analyzing", ok)
    /\ SetAdmin(a, IF ok THEN [admin[a] EXCEPT !.pc = "marked"] ELSE IdleAdmin)
    /\ UNCHANGED <<published, diffs, analyses, alerts, redis, poller, worker, startup>>

\* Mutant: the second step of the request is left out.
ReanalyzeEnqueue_Forgets(a, ok) ==
    /\ admin[a].pc = "marked"
    /\ SetAdmin(a, IdleAdmin)
    /\ UNCHANGED <<published, database, redis, poller, worker, startup>>

\* ReanalyzeRelease: the job is queued, and the request ends either way.
ReanalyzeEnqueue(a, ok) ==
    /\ admin[a].pc = "marked"
    /\ IF admin[a].diff = 0
       THEN Enqueue("diff", admin[a].version, ok)
       ELSE Enqueue("analyze", admin[a].diff, ok)
    /\ SetAdmin(a, IdleAdmin)
    /\ UNCHANGED <<published, database, poller, worker, startup>>

\* ReanalyzeAll: the diffs without an analysis are listed.
ReanalyzeAllLoad(a) ==
    /\ startup.pc = "up" /\ admin[a].pc = "idle"
    /\ LET missing == {d \in DOMAIN diffs : AnalysesOf(d) = {}} IN
       /\ missing # {}
       /\ SetAdmin(a, [IdleAdmin EXCEPT !.pc = "all", !.todo = missing])
    /\ Spend("calls")
    /\ UNCHANGED <<published, database, redis, poller, worker, startup>>

\* ReanalyzeAll: a job for each of them, until one cannot be queued.
ReanalyzeAllEnqueue(a, ok) ==
    /\ admin[a].pc = "all"
    /\ \E d \in admin[a].todo :
          /\ Enqueue("analyze", d, ok)
          /\ SetAdmin(a, IF ok /\ admin[a].todo # {d}
                         THEN [admin[a] EXCEPT !.todo = @ \ {d}] ELSE IdleAdmin)
    /\ UNCHANGED <<published, database, poller, worker, startup>>

AdminStep(a, ok) ==
    ReanalyzeStatus(a, ok) \/ ReanalyzeEnqueue(a, ok) \/ ReanalyzeAllEnqueue(a, ok)

\* Mutant: the attempts are kept.
RetryDead_KeepsAttempts(j) ==
    /\ startup.pc = "up" /\ jobs[j].state = "dead"
    /\ MoveJob(j, "waiting", jobs[j].attempts)
    /\ Spend("calls")
    /\ UNCHANGED <<published, database, memory>>

\* RequeueDead, by its contract.
RetryDead(j) ==
    /\ startup.pc = "up" /\ jobs[j].state = "dead"
    /\ MoveJob(j, "waiting", 0)
    /\ Spend("calls")
    /\ UNCHANGED <<published, database, memory>>

-----------------------------------------------------------------------------
(* Crash and restart                                                       *)

\* The process ends.  What its goroutines knew is lost; a running job stays
\* where the crash left it.
Crash ==
    /\ Spend("crashes")
    /\ jobs' = [j \in DOMAIN jobs |->
                  IF jobs[j].state = "running" THEN [jobs[j] EXCEPT !.state = "stuck"]
                  ELSE jobs[j]]
    /\ poller' = IdlePoller
    /\ worker' = [s \in Slots |-> IdleWorker]
    /\ admin' = [a \in Admins |-> IdleAdmin]
    /\ startup' = [pc |-> "jobs", todo |-> {}, version |-> 0]
    /\ UNCHANGED <<published, database, queue>>

\* RecoverStuckJobs takes up the stuck jobs it finds and whose lock is old
\* enough; the others stay stuck.
RecoverJob(j) ==
    /\ startup.pc = "jobs" /\ jobs[j].state = "stuck"
    /\ MoveJob(j, "waiting", jobs[j].attempts)
    /\ UNCHANGED <<published, database, memory, left>>

InFlight == {v \in Versions : status[v] \in {"diffing", "analyzing"}}

StartUp(todo) == startup' = IF todo = {} THEN Up
                            ELSE [pc |-> "releases", todo |-> todo, version |-> 0]

\* Mutant: only the releases that are diffing are looked for.
RecoverScan_DiffingOnly(ok) ==
    /\ startup.pc = "jobs"
    /\ StartUp({v \in Versions : ok /\ status[v] = "diffing"})
    /\ UNCHANGED <<published, database, redis, poller, worker, admin>>

\* recoverStuckReleases: the rows in flight are read; after an error there are
\* none.
RecoverScan(ok) ==
    /\ startup.pc = "jobs"
    /\ StartUp(IF ok THEN InFlight ELSE {})
    /\ UNCHANGED <<published, database, redis, poller, worker, admin>>

\* A release without a diff, or whose diff could not be read, starts again as
\* pending.
RecoverPending(v, ok) ==
    /\ \/ (status[v] = "diffing" \/ DiffsOf(v) = {}) /\ SetStatus(v, "pending", ok)
       \/ ~ok /\ status[v] = "analyzing" /\ SetStatus(v, "pending", TRUE)
    /\ startup' = [startup EXCEPT !.pc = "enqueue", !.version = v]
    /\ UNCHANGED redis

\* One of its diffs, in no order: with an analysis the release is completed,
\* without one, or when the count of them fails, the analysis is queued.
RecoverAnalyzing(v, ok) ==
    /\ status[v] = "analyzing"
    /\ \E d \in DiffsOf(v) :
          \/ AnalysesOf(d) = {} /\ Enqueue("analyze", d, ok) /\ UNCHANGED status
          \/ AnalysesOf(d) # {} /\ SetStatus(v, "completed", ok) /\ UNCHANGED redis
          \/ ~ok /\ AnalysesOf(d) # {} /\ Enqueue("analyze", d, TRUE) /\ UNCHANGED status
    /\ StartUp(startup.todo \ {v})

RecoverRelease(ok) ==
    /\ startup.pc = "releases"
    /\ \E v \in startup.todo : RecoverPending(v, ok) \/ RecoverAnalyzing(v, ok)
    /\ UNCHANGED <<published, diffs, analyses, alerts, poller, worker, admin>>

\* The diff job of a release that starts again.
RecoverEnqueue(ok) ==
    /\ startup.pc = "enqueue"
    /\ Enqueue("diff", startup.version, ok)
    /\ StartUp(startup.todo \ {startup.version})
    /\ UNCHANGED <<published, database, poller, worker, admin>>

RecoverStep(ok) == RecoverScan(ok) \/ RecoverRelease(ok) \/ RecoverEnqueue(ok)

-----------------------------------------------------------------------------
(* Specification                                                           *)

\* A call of a goroutine that works as long as its deadline has not passed.
CallStep ==
    /\ \/ PollStep(TRUE)
       \/ \E s \in Slots : HandlerStep(s, ~worker[s].expired)
       \/ \E a \in Admins : AdminStep(a, TRUE)
       \/ RecoverStep(TRUE)
    /\ UNCHANGED left

\* Postgres, Redis or the network fails one call.
Fault ==
    /\ \/ PollStep(FALSE)
       \/ \E s \in Slots : HandlerStep(s, FALSE)
       \/ \E a \in Admins : AdminStep(a, FALSE)
       \/ RecoverStep(FALSE)
    /\ Spend("faults")

JobStep == \E s \in Slots : Take(s) \/ Succeed(s) \/ FailJob(s)

Request ==
    \/ \E a \in Admins : ReanalyzeAllLoad(a)
    \/ \E a \in Admins, v \in Versions, ok \in BOOLEAN : ReanalyzeLoad(a, v, ok)
    \/ \E j \in DOMAIN jobs : RetryDead(j)

Restart == \E j \in DOMAIN jobs : RecoverJob(j)

Next ==
    \/ Publish \/ CallStep \/ JobStep \/ Request \/ Restart
    \/ Crash \/ Fault \/ \E s \in Slots : Outage(s) \/ Expire(s)

Spec == Init /\ [][Next]_vars

\* The registry may stop publishing and nobody has to send requests; the
\* goroutines and the requests under way are scheduled.
FairSpec ==
    /\ Spec
    /\ WF_vars(PollStep(TRUE) /\ UNCHANGED left)
    /\ \A s \in Slots :
          /\ WF_vars(Take(s) \/ Succeed(s) \/ FailJob(s))
          /\ WF_vars(HandlerStep(s, ~worker[s].expired) /\ UNCHANGED left)
    /\ \A a \in Admins : WF_vars(AdminStep(a, TRUE) /\ UNCHANGED left)
    /\ WF_vars(RecoverStep(TRUE) /\ UNCHANGED left)

-----------------------------------------------------------------------------
(* Properties                                                              *)

\* The rows, the jobs and the goroutines keep their shape, and what they
\* refer to exists.
TypeOK ==
    /\ published \in 0 .. LastVersion
    /\ status \in [Versions -> Statuses]
    /\ \A d \in DOMAIN diffs : diffs[d] \in [release : Known, previous : Known]
    /\ \A a \in DOMAIN analyses : analyses[a] \in [diff : DOMAIN diffs, flagged : BOOLEAN]
    /\ alerts \subseteq DOMAIN analyses
    /\ \A j \in DOMAIN jobs :
          /\ jobs[j] \in [kind : Kinds, ref : Nat \ {0}, state : JobStates, attempts : Nat]
          /\ jobs[j].ref \in IF jobs[j].kind = "diff" THEN Known ELSE DOMAIN diffs
    /\ \A k \in Kinds : ToSet(queue[k]) \subseteq DOMAIN jobs
    /\ poller \in [pc : {"idle", "create", "enqueue"}, todo : SUBSET Versions]
    /\ \A s \in Slots :
          /\ worker[s] \in [pc : WorkerPcs, job : Nat, made : Nat, expired : BOOLEAN]
          /\ worker[s].job \in {0} \cup DOMAIN jobs
    /\ \A a \in Admins :
          admin[a] \in [pc : {"idle", "loaded", "marked", "all"},
                        version : {0} \cup Known, diff : {0} \cup DOMAIN diffs,
                        todo : SUBSET DOMAIN diffs]
    /\ startup \in [pc : {"up", "jobs", "releases", "enqueue"},
                    todo : SUBSET Versions, version : {0} \cup Known]

JobOf(j, v) == IF jobs[j].kind = "diff" THEN jobs[j].ref = v
               ELSE diffs[jobs[j].ref].release = v

\* A job for the release waits, runs or is in the dead-letter set, or someone
\* is about to queue one.
Carried(v) ==
    \/ \E j \in DOMAIN jobs : jobs[j].state \in {"waiting", "running", "dead"} /\ JobOf(j, v)
    \/ poller.pc = "enqueue" /\ v = Least(poller.todo)
    \/ \E a \in Admins : admin[a].pc = "marked" /\ admin[a].version = v

\* No call of Postgres or Redis has failed and no deadline has passed.
EveryCallWorked == left.faults = left.first.faults /\ left.expiries = left.first.expiries

\* Postgres and Redis agree while the server is up and its calls work, after
\* crashes too: a release that shows as diffing or analyzing has a job behind
\* it, in Redis or about to be.  The status and the job are written one after
\* the other by the differ, the reanalysis request and the recovery.
InFlightIsCarried ==
    startup.pc = "up" /\ EveryCallWorked => \A v \in InFlight : Carried(v)

\* A release that shows as pending ("awaiting processing") has a job behind it.
PendingIsCarried ==
    startup.pc = "up" => \A v \in Versions : status[v] = "pending" => Carried(v)

\* A release is completed because one of its diffs was analysed or because it
\* is the oldest one known ("first tracked version").
CompletedWasExamined ==
    \A v \in Versions : status[v] = "completed" =>
        \/ \E d \in DiffsOf(v) : AnalysesOf(d) # {}
        \/ \A u \in Known : v <= u

\* The analyzer's goroutine that made the analysis still has to raise its alert.
AlertDue(a) == \E s \in AnalyzeSlots : worker[s].pc = "alert" /\ worker[s].made = a

\* A completed release with a suspicious or malicious verdict has its alert, or
\* the analyzer is about to create it.
FlaggedHasAlert ==
    \A a \in DOMAIN analyses :
        analyses[a].flagged /\ status[diffs[analyses[a].diff].release] = "completed"
            => a \in alerts \/ AlertDue(a)

\* Nothing known is left between two versions that are known: the poller
\* creates a release for every version published after the last known one.
NoVersionSkipped ==
    poller.pc = "idle" => \A v \in Versions :
        (\E u, w \in Known : u < v /\ v < w) => v \in Known

\* A release that was fully processed is not processed again by what retries
\* its jobs, as long as no administrator asked for it and no restart took up a
\* job that had done its work.
CompletedStays ==
    [][left.calls = left.first.calls /\ left.crashes = left.first.crashes =>
         \A v \in Versions : status[v] = "completed" => status'[v] = "completed"]_vars

\* What the contract sees of the jobs: one whose goroutine died is still running.
ContractState ==
    [j \in 1 .. MaxJobs |->
        IF j \notin DOMAIN jobs THEN "absent"
        ELSE IF jobs[j].state = "stuck" THEN "running" ELSE jobs[j].state]

ContractAttempts ==
    [j \in 1 .. MaxJobs |-> IF j \in DOMAIN jobs THEN jobs[j].attempts ELSE 0]

Contract == INSTANCE JobContract WITH Jobs <- 1 .. MaxJobs,
                                      state <- ContractState, attempts <- ContractAttempts

\* The jobs of the pipeline follow the contract of the queue, through crashes
\* too.
FollowsContract == Contract!Spec

\* Every release is in the end completed or failed, or a job of it is dead and
\* shown to the administrator.
EveryReleaseSettles ==
    \A v \in Versions : status[v] # "unknown" ~>
        \/ status[v] \in {"completed", "error"}
        \/ \E j \in DOMAIN jobs : jobs[j].state = "dead" /\ JobOf(j, v)
=============================================================================
