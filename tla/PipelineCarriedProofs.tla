------------------------- MODULE PipelineCarriedProofs -------------------------
(***************************************************************************)
(* Theorems about what becomes of the releases in ReleasePipeline, for     *)
(* every number of versions, workers, requests, attempts and failures.     *)
(* They rest on Refers, the invariant of ReleasePipelineProofs.            *)
(***************************************************************************)
EXTENDS ReleasePipelineProofs

-----------------------------------------------------------------------------
(* What has gone wrong so far                                              *)

Bounds == [calls : Nat, expiries : Nat, faults : Nat, outages : Nat, crashes : Nat]
Mishaps == {"calls", "expiries", "faults", "outages", "crashes"}

LeftOK ==
    /\ left \in [calls : Nat, expiries : Nat, faults : Nat, outages : Nat, crashes : Nat,
                 first : Bounds]
    /\ left.calls <= left.first.calls /\ left.expiries <= left.first.expiries
    /\ left.faults <= left.first.faults /\ left.outages <= left.first.outages
    /\ left.crashes <= left.first.crashes

\* The bounds stay, and nothing that was spent comes back.
Spent ==
    /\ LeftOK'
    /\ left'.first = left.first
    /\ left'.calls <= left.calls /\ left'.expiries <= left.expiries
    /\ left'.faults <= left.faults /\ left'.crashes <= left.crashes

LEMMA Spending ==
    ASSUME LeftOK, NEW what \in Mishaps, Spend(what)
    PROVE  Spent /\ left'[what] < left.first[what]
<1>1. left' = [left EXCEPT ![what] = left[what] - 1] /\ left[what] > 0  BY DEF Spend
<1>2. CASE what = "calls"  BY <1>1, <1>2 DEF LeftOK, Spent, Bounds
<1>3. CASE what = "expiries"  BY <1>1, <1>3 DEF LeftOK, Spent, Bounds
<1>4. CASE what = "faults"  BY <1>1, <1>4 DEF LeftOK, Spent, Bounds
<1>5. CASE what = "outages"  BY <1>1, <1>5 DEF LeftOK, Spent, Bounds
<1>6. CASE what = "crashes"  BY <1>1, <1>6 DEF LeftOK, Spent, Bounds
<1> QED  BY <1>2, <1>3, <1>4, <1>5, <1>6 DEF Mishaps

\* The steps in which no call of Postgres or Redis fails.
WorkingStep ==
    \/ Publish \/ CallStep \/ JobStep \/ Restart \/ Crash
    \/ \E a \in Admins : ReanalyzeAllLoad(a)
    \/ \E a \in Admins, v \in Versions : ReanalyzeLoad(a, v, TRUE)
    \/ \E j \in DOMAIN jobs : RetryDead(j)
    \/ \E s \in Slots : Outage(s) \/ Expire(s)

LEMMA SpentNext ==
    ASSUME LeftOK, [Next]_vars
    PROVE  /\ Spent
           /\ WorkingStep \/ UNCHANGED vars \/ left'.faults # left'.first.faults
<1> USE DEF Mishaps
<1>1. ASSUME UNCHANGED left PROVE Spent  BY <1>1 DEF Spent, LeftOK, Bounds
<1>2. CASE Publish \/ CallStep \/ JobStep \/ Restart
  <2>1. UNCHANGED left
    BY <1>2 DEF Publish, CallStep, JobStep, Restart, Take, Succeed, FailJob, RecoverJob
  <2> QED  BY <1>1, <1>2, <2>1 DEF WorkingStep
<1>3. CASE Crash
  <2>1. Spent  BY <1>3, Spending DEF Crash
  <2> QED  BY <1>3, <2>1 DEF WorkingStep
<1>4. CASE \E a \in Admins : ReanalyzeAllLoad(a)
  <2>1. Spent  BY <1>4, Spending DEF ReanalyzeAllLoad
  <2> QED  BY <1>4, <2>1 DEF WorkingStep
<1>5. ASSUME NEW a \in Admins, NEW v \in Versions, NEW ok \in BOOLEAN, ReanalyzeLoad(a, v, ok)
      PROVE  Spent /\ (WorkingStep \/ left'.faults # left'.first.faults)
  <2>1. CASE ok
    <3>1. Spend("calls") /\ ReanalyzeLoad(a, v, TRUE)  BY <1>5, <2>1 DEF ReanalyzeLoad
    <3>2. Spent  BY <3>1, Spending
    <3> QED  BY <3>1, <3>2 DEF WorkingStep
  <2>2. CASE ~ok
    <3>1. /\ left.calls > 0 /\ left.faults > 0
          /\ left' = [left EXCEPT !.calls = @ - 1, !.faults = @ - 1]
      BY <1>5, <2>2 DEF ReanalyzeLoad
    <3>2. /\ left'.calls = left.calls - 1 /\ left'.faults = left.faults - 1
          /\ left'.expiries = left.expiries /\ left'.outages = left.outages
          /\ left'.crashes = left.crashes /\ left'.first = left.first
      BY <3>1 DEF LeftOK
    <3>3. left' \in [calls : Nat, expiries : Nat, faults : Nat, outages : Nat, crashes : Nat,
                     first : Bounds]
      <4> DEFINE c == left.calls - 1
                 f == left.faults - 1
      <4>1. c \in Nat /\ f \in Nat  BY <3>1 DEF LeftOK
      <4>2. left' = [left EXCEPT !.calls = c, !.faults = f]  BY <3>1
      <4> HIDE DEF c, f
      <4> QED  BY <4>1, <4>2 DEF LeftOK
    <3>4. Spent /\ left'.faults < left.first.faults
      BY <3>2, <3>3 DEF LeftOK, Spent, Bounds
    <3> QED  BY <3>2, <3>3, <3>4 DEF LeftOK, Bounds
  <2> QED  BY <2>1, <2>2
<1>6. CASE \E j \in DOMAIN jobs : RetryDead(j)
  <2>1. Spent  BY <1>6, Spending DEF RetryDead
  <2> QED  BY <1>6, <2>1 DEF WorkingStep
<1>7. CASE Fault
  <2>1. Spend("faults")  BY <1>7 DEF Fault
  <2>2. Spent /\ left'.faults < left.first.faults  BY <2>1, Spending
  <2> QED  BY <2>2 DEF LeftOK, Spent, Bounds
<1>8. CASE \E s \in Slots : Outage(s) \/ Expire(s)
  <2>1. Spent  BY <1>8, Spending DEF Outage, Expire
  <2> QED  BY <1>8, <2>1 DEF WorkingStep
<1>9. CASE UNCHANGED vars  BY <1>1, <1>9 DEF vars
<1> QED
  BY <1>2, <1>3, <1>4, <1>5, <1>6, <1>7, <1>8, <1>9 DEF Next, Request

LEMMA LeftInit == Init => LeftOK
<1> SUFFICES ASSUME Init PROVE LeftOK  OBVIOUS
<1>1. PICK b \in Budgets :
         left = [calls |-> b.calls, expiries |-> b.expiries, faults |-> b.faults,
                 outages |-> b.outages, crashes |-> b.crashes, first |-> b]
  BY DEF Init
<1>2. b \in Bounds  BY PipelineAssumption DEF Bounds
<1> QED  BY <1>1, <1>2 DEF LeftOK, Bounds

LEMMA LeftInvariant == Spec => []LeftOK
<1>1. LeftOK /\ [Next]_vars => LeftOK'  BY SpentNext DEF Spent
<1> QED  BY <1>1, LeftInit, PTL DEF Spec

-----------------------------------------------------------------------------
(* The versions the poller creates                                         *)

LEMMA KnownKept ==
    ASSUME Types, NEW v \in Known, NEW new \in Statuses \ {"unknown"}, NEW ok,
           SetStatus(v, new, ok)
    PROVE  Known' = Known
<1>1. v \in Versions  BY DEF Known
<1>2. CASE ok
  <2>1. status' = [status EXCEPT ![v] = new]  BY <1>2 DEF SetStatus
  <2> QED  BY <1>1, <2>1 DEF Known, Types
<1>3. CASE ~ok  BY <1>3 DEF SetStatus, Known
<1> QED  BY <1>2, <1>3

LEMMA HandlersCreateNone ==
    ASSUME Refers, NEW s \in Slots, NEW ok, HandlerStep(s, ok)
    PROVE  Known' = Known
<1>0. Types  BY DEF Refers
<1>1. ASSUME UNCHANGED status PROVE Known' = Known  BY <1>1 DEF Known
<1>2. ASSUME worker[s].pc \in DiffPcs PROVE Ref(s) \in Known
  BY <1>2, Handling DEF DiffPcs
<1>3. ASSUME worker[s].pc \in AnalyzePcs PROVE ReleaseOf(s) \in Known
  BY <1>3, Handling DEF AnalyzePcs
<1>4. CASE DiffBegin(s, ok)
  <2>1. worker[s].pc \in DiffPcs /\ (SetStatus(Ref(s), "diffing", ok) \/ UNCHANGED status)
    BY <1>4 DEF DiffBegin, DiffPcs
  <2> QED  BY <1>0, <1>1, <1>2, <2>1, KnownKept DEF Statuses
<1>5. CASE DiffBaseline(s, ok)
  <2>1. worker[s].pc \in DiffPcs /\ SetStatus(Ref(s), "completed", ok)
    BY <1>5 DEF DiffBaseline, DiffPcs
  <2> QED  BY <1>0, <1>2, <2>1, KnownKept DEF Statuses
<1>6. CASE DiffMarkError(s, ok)
  <2>1. worker[s].pc \in DiffPcs /\ SetStatus(Ref(s), "error", ok)
    BY <1>6 DEF DiffMarkError, DiffPcs
  <2> QED  BY <1>0, <1>2, <2>1, KnownKept DEF Statuses
<1>7. CASE DiffAnalyzing(s, ok)
  <2>1. worker[s].pc \in DiffPcs /\ SetStatus(Ref(s), "analyzing", ok)
    BY <1>7 DEF DiffAnalyzing, DiffPcs
  <2> QED  BY <1>0, <1>2, <2>1, KnownKept DEF Statuses
<1>8. CASE AnalyzeComplete(s, ok)
  <2>1. worker[s].pc \in AnalyzePcs /\ SetStatus(ReleaseOf(s), "completed", ok)
    BY <1>8 DEF AnalyzeComplete, AnalyzePcs
  <2> QED  BY <1>0, <1>3, <2>1, KnownKept DEF Statuses
<1>9. CASE DiffPrevious(s, ok) \/ DiffFetch(s, ok) \/ DiffStore(s, ok) \/ DiffHandOff(s, ok)
           \/ Judge(s, ok) \/ RaiseAlert(s, ok)
  <2>1. UNCHANGED status
    BY <1>9 DEF DiffPrevious, DiffFetch, DiffStore, DiffHandOff, Judge, RaiseAlert, database
  <2> QED  BY <1>1, <2>1
<1> QED
  BY <1>4, <1>5, <1>6, <1>7, <1>8, <1>9 DEF HandlerStep, DiffStep, AnalyzeStep

LEMMA OthersCreateNone ==
    ASSUME Refers, NEW ok, RecoverStep(ok) \/ \E a \in Admins : AdminStep(a, ok)
    PROVE  Known' = Known
<1>0. Types /\ StartupRefers /\ \A a \in Admins : AdminRefers(a)  BY DEF Refers
<1>1. ASSUME UNCHANGED status PROVE Known' = Known  BY <1>1 DEF Known
<1>2. CASE RecoverScan(ok) \/ RecoverEnqueue(ok)
  <2>1. UNCHANGED status  BY <1>2 DEF RecoverScan, RecoverEnqueue, database
  <2> QED  BY <1>1, <2>1
<1>3. CASE RecoverRelease(ok)
  <2>1. PICK v \in startup.todo : RecoverPending(v, ok) \/ RecoverAnalyzing(v, ok)
    BY <1>3 DEF RecoverRelease
  <2>2. v \in Known  BY <1>0 DEF StartupRefers
  <2>3. UNCHANGED status \/ SetStatus(v, "pending", ok) \/ SetStatus(v, "pending", TRUE)
        \/ SetStatus(v, "completed", ok)
    BY <2>1 DEF RecoverPending, RecoverAnalyzing
  <2> QED  BY <1>0, <1>1, <2>2, <2>3, KnownKept DEF Statuses
<1>4. ASSUME NEW a \in Admins, AdminStep(a, ok) PROVE Known' = Known
  <2>1. CASE ReanalyzeStatus(a, ok)
    <3>1. admin[a].version \in Known  BY <1>0, <2>1 DEF ReanalyzeStatus, AdminRefers
    <3>2. PICK new \in {"pending", "analyzing"} :
             new = IF admin[a].diff = 0 THEN "pending" ELSE "analyzing"
      OBVIOUS
    <3>3. SetStatus(admin[a].version, new, ok)  BY <2>1, <3>2 DEF ReanalyzeStatus
    <3> QED  BY <1>0, <3>1, <3>3, KnownKept DEF Statuses
  <2>2. CASE ReanalyzeEnqueue(a, ok) \/ ReanalyzeAllEnqueue(a, ok)
    <3>1. UNCHANGED status  BY <2>2 DEF ReanalyzeEnqueue, ReanalyzeAllEnqueue, database
    <3> QED  BY <1>1, <3>1
  <2> QED  BY <1>4, <2>1, <2>2 DEF AdminStep
<1> QED  BY <1>2, <1>3, <1>4 DEF RecoverStep

\* Only the poller creates releases, and nobody else decides what it does.
LEMMA OnlyPollerCreates ==
    ASSUME Refers, [Next]_vars
    PROVE  \/ \E ok \in BOOLEAN : PollStep(ok) /\ (ok \/ Fault)
           \/ Known' = Known /\ (UNCHANGED poller \/ poller' = IdlePoller)
<1>1. ASSUME UNCHANGED status PROVE Known' = Known  BY <1>1 DEF Known
<1>2. CASE CallStep
  <2>1. ASSUME NEW s \in Slots, HandlerStep(s, ~worker[s].expired)
        PROVE  Known' = Known /\ UNCHANGED poller
    BY <2>1, HandlersCreateNone DEF HandlerStep
  <2>2. CASE RecoverStep(TRUE) \/ \E a \in Admins : AdminStep(a, TRUE)
    <3>1. UNCHANGED poller
      BY <2>2 DEF RecoverStep, RecoverScan, RecoverRelease, RecoverEnqueue, AdminStep,
                  ReanalyzeStatus, ReanalyzeEnqueue, ReanalyzeAllEnqueue
    <3> QED  BY <2>2, <3>1, OthersCreateNone
  <2> QED  BY <1>2, <2>1, <2>2 DEF CallStep
<1>3. CASE Fault
  <2>1. ASSUME NEW s \in Slots, HandlerStep(s, FALSE)
        PROVE  Known' = Known /\ UNCHANGED poller
    BY <2>1, HandlersCreateNone DEF HandlerStep
  <2>2. CASE RecoverStep(FALSE) \/ \E a \in Admins : AdminStep(a, FALSE)
    <3>1. UNCHANGED poller
      BY <2>2 DEF RecoverStep, RecoverScan, RecoverRelease, RecoverEnqueue, AdminStep,
                  ReanalyzeStatus, ReanalyzeEnqueue, ReanalyzeAllEnqueue
    <3> QED  BY <2>2, <3>1, OthersCreateNone
  <2> QED  BY <1>3, <2>1, <2>2 DEF Fault
<1>4. CASE \E s \in Slots : Outage(s) \/ Expire(s)
  <2>1. ASSUME NEW s \in Slots, Outage(s) PROVE Known' = Known /\ UNCHANGED poller
    BY <2>1, HandlersCreateNone DEF Outage, HandlerStep
  <2>2. ASSUME NEW s \in Slots, Expire(s) PROVE Known' = Known /\ UNCHANGED poller
    BY <1>1, <2>2 DEF Expire, database
  <2> QED  BY <1>4, <2>1, <2>2
<1>5. CASE Crash  BY <1>1, <1>5 DEF Crash, database
<1>6. CASE Publish \/ JobStep \/ Request \/ Restart \/ UNCHANGED vars
  <2>1. UNCHANGED status /\ UNCHANGED poller
    BY <1>6 DEF Publish, JobStep, Take, Succeed, FailJob, Request, ReanalyzeAllLoad,
                ReanalyzeLoad, RetryDead, Restart, RecoverJob, vars, database, memory
  <2> QED  BY <1>1, <2>1
<1> QED  BY <1>2, <1>3, <1>4, <1>5, <1>6 DEF Next

\* What the poller will still create.
Rest == IF poller.pc = "create" THEN poller.todo
        ELSE IF poller.pc = "enqueue" THEN poller.todo \ {Least(poller.todo)} ELSE {}

InARow(S) == \A u, w \in S : \A v \in Versions : u < v /\ v < w => v \in S

CreatedInOrder ==
    /\ InARow(Known \cup Rest)
    /\ \A u \in Known, v \in Rest : u < v

LEMMA PollsInOrder ==
    ASSUME Refers, CreatedInOrder, PollStep(TRUE)
    PROVE  CreatedInOrder'
<1>0. /\ Types /\ PollerRefers /\ Versions \subseteq Nat /\ Known \subseteq Versions
      /\ Known \subseteq 0 .. LastVersion /\ LastVersion \in Nat
      /\ poller.todo \in SUBSET Versions /\ published \in 0 .. LastVersion
  BY Numbers DEF Refers, Types
<1>1. CASE PollStart(TRUE)
  <2>1. Known' = Known  BY <1>1 DEF PollStart, database, Known
  <2>2. PICK new : /\ new = IF Known # {} THEN {v \in 1 .. published : v > Greatest(Known)}
                            ELSE NewestTwo \ Known
                   /\ poller' = IF new = {} THEN poller ELSE [pc |-> "create", todo |-> new]
                   /\ poller.pc = "idle"
    BY <1>1 DEF PollStart
  <2>3. Rest = {} /\ Rest' = new  BY <2>2 DEF Rest
  <2>4. CASE Known # {}
    <3>1. Greatest(Known) \in Known /\ \A u \in Known : Greatest(Known) >= u
      BY <1>0, <2>4, GreatestIs
    <3> DEFINE g == Greatest(Known)
    <3> HIDE DEF g
    <3>2. new = {v \in 1 .. published : v > g} /\ g \in Known /\ \A u \in Known : g >= u
      BY <2>2, <2>4, <3>1 DEF g
    <3>3. \A u \in Known, v \in new : u < v  BY <1>0, <3>2
    <3>4. InARow(Known)  BY <2>3 DEF CreatedInOrder
    <3>5. ASSUME NEW u \in Known \cup new, NEW w \in Known \cup new, NEW v \in Versions,
                 u < v, v < w
          PROVE  v \in Known \cup new
      <4>1. u \in Nat /\ v \in Nat /\ w \in Nat /\ g \in Nat /\ published \in Nat
        BY <1>0, <3>2
      <4>2. CASE w \in Known
        <5>1. u \in Known  BY <1>0, <3>2, <3>3, <3>5, <4>1, <4>2
        <5> QED  BY <3>4, <3>5, <4>2, <5>1 DEF InARow
      <4>3. CASE w \in new /\ v > g
        <5>1. v \in 1 .. published  BY <3>2, <3>5, <4>1, <4>3
        <5> QED  BY <3>2, <4>3, <5>1
      <4>4. CASE v < g
        <5>1. u \in Known  BY <3>2, <3>5, <4>1, <4>4
        <5> QED  BY <3>2, <3>4, <3>5, <4>4, <5>1 DEF InARow
      <4> QED  BY <3>2, <4>1, <4>2, <4>3, <4>4
    <3> QED  BY <2>1, <2>3, <3>3, <3>5 DEF CreatedInOrder, InARow
  <2>5. CASE Known = {}
    <3>1. new = {v \in 1 .. published : v + 2 > published}
      BY <2>2, <2>5 DEF NewestTwo
    <3>2. ASSUME NEW u \in new, NEW w \in new, NEW v \in Versions, u < v, v < w
          PROVE  v \in new
      BY <1>0, <3>1, <3>2
    <3> QED  BY <2>1, <2>3, <2>5, <3>2 DEF CreatedInOrder, InARow
  <2> QED  BY <2>4, <2>5
<1>2. CASE PollCreate(TRUE)
  <2> DEFINE v == Least(poller.todo)
  <2>1. /\ poller.pc = "create" /\ status' = [status EXCEPT ![v] = "pending"]
        /\ poller' = [poller EXCEPT !.pc = "enqueue"]
    BY <1>2 DEF PollCreate, SetStatus
  <2>2. v \in poller.todo /\ v \in Versions /\ \A w \in poller.todo : v <= w
    BY <1>0, <2>1, LeastIs DEF PollerRefers
  <2> HIDE DEF v
  <2>3. Known' = Known \cup {v}  BY <1>0, <2>1, <2>2 DEF Known, Types
  <2>4. poller'.pc = "enqueue" /\ poller'.todo = poller.todo
    BY <1>0, <2>1 DEF Types
  <2>5. Rest' = poller.todo \ {v} /\ Rest = poller.todo
    BY <2>1, <2>4 DEF Rest, v
  <2>6. Known' \cup Rest' = Known \cup Rest  BY <2>2, <2>3, <2>5
  <2>7. ASSUME NEW u \in Known', NEW w \in Rest' PROVE u < w
    <3>1. w \in poller.todo /\ w # v /\ w \in Nat /\ v \in Nat  BY <1>0, <2>2, <2>5
    <3>2. CASE u = v  BY <2>2, <3>1, <3>2
    <3>3. CASE u \in Known  BY <2>5, <3>1, <3>3 DEF CreatedInOrder
    <3> QED  BY <2>3, <3>2, <3>3
  <2> QED  BY <2>6, <2>7 DEF CreatedInOrder, InARow
<1>3. CASE PollEnqueue(TRUE)
  <2>1. poller.pc = "enqueue" /\ UNCHANGED database /\ PollNext
    BY <1>3 DEF PollEnqueue
  <2>2. Known' = Known  BY <2>1 DEF database, Known
  <2>3. /\ poller'.pc \in {"idle", "create"}
        /\ poller'.pc = "create" => poller'.todo = poller.todo \ {Least(poller.todo)}
        /\ poller'.pc = "idle" => poller.todo = {Least(poller.todo)}
    BY <1>0, <2>1, PollGoesOn DEF PollerRefers
  <2>4. Rest' = Rest  BY <2>1, <2>3 DEF Rest
  <2> QED  BY <2>2, <2>4 DEF CreatedInOrder, InARow
<1> QED  BY <1>1, <1>2, <1>3 DEF PollStep

LEMMA CreatedNext ==
    ASSUME Refers, LeftOK, left.faults = left.first.faults => CreatedInOrder, [Next]_vars
    PROVE  (left.faults = left.first.faults => CreatedInOrder)'
<1> SUFFICES ASSUME left'.faults = left'.first.faults PROVE CreatedInOrder'
  OBVIOUS
<1>1. Spent  BY SpentNext
<1>2. left.faults = left.first.faults  BY <1>1 DEF Spent, LeftOK, Bounds
<1>3. ~Fault
  <2>1. SUFFICES ASSUME Fault PROVE FALSE  OBVIOUS
  <2>2. Spend("faults")  BY <2>1 DEF Fault
  <2>3. left'.faults < left.first.faults  BY <2>2, Spending DEF Mishaps
  <2> QED  BY <1>1, <2>3 DEF Spent, LeftOK, Bounds
<1>4. CASE PollStep(TRUE)  BY <1>2, <1>4, PollsInOrder
<1>5. CASE Known' = Known /\ UNCHANGED poller
  <2>1. Rest' = Rest  BY <1>5 DEF Rest
  <2> QED  BY <1>2, <1>5, <2>1 DEF CreatedInOrder, InARow
<1>6. CASE Known' = Known /\ poller' = IdlePoller
  <2>1. Rest' = {}  BY <1>6 DEF Rest, IdlePoller
  <2>2. Known \subseteq Nat /\ Rest \subseteq Nat
    BY Numbers DEF Refers, Types, Rest
  <2>3. InARow(Known)
    BY <1>2, <2>2, Numbers DEF CreatedInOrder, InARow
  <2> QED  BY <1>6, <2>1, <2>3 DEF CreatedInOrder, InARow
<1> QED  BY <1>3, <1>4, <1>5, <1>6, OnlyPollerCreates

LEMMA CreatedInvariant == Spec => [](left.faults = left.first.faults => CreatedInOrder)
<1>1. Init => CreatedInOrder
  BY DEF Init, CreatedInOrder, InARow, Known, Rest, IdlePoller
<1>2. (Refers /\ LeftOK) /\ (left.faults = left.first.faults => CreatedInOrder) /\ [Next]_vars
        => (left.faults = left.first.faults => CreatedInOrder)'
  BY CreatedNext
<1> QED  BY <1>1, <1>2, LeftInvariant, PipelineRefers, PTL DEF Spec

\* As long as no call fails, and whatever crashes, the releases known are those
\* of a range of versions: none in between is ever left out.
THEOREM NothingSkipped ==
    Spec => [](left.faults = left.first.faults => NoVersionSkipped)
<1>1. CreatedInOrder => NoVersionSkipped
  <2> SUFFICES ASSUME CreatedInOrder, poller.pc = "idle" PROVE NoVersionSkipped
    BY DEF NoVersionSkipped
  <2>1. Rest = {}  BY DEF Rest
  <2> QED  BY <2>1 DEF CreatedInOrder, InARow, NoVersionSkipped
<1> QED  BY <1>1, CreatedInvariant, PTL

-----------------------------------------------------------------------------
(* Who carries a release that is not settled                               *)

Busy(s) == worker[s].pc \notin {"idle", "succeeded"}

\* The job will still be handled, or an administrator sees it in the
\* dead-letter set.  A job whose handler has succeeded does nothing any more.
Works(j) ==
    \/ jobs[j].state \in {"waiting", "dead"}
    \/ \E s \in Slots : worker[s].job = j /\ Busy(s)

ByJob(v) == \E j \in DOMAIN jobs : Works(j) /\ JobOf(j, v)
ByPoller(v) == poller.pc = "enqueue" /\ v = Least(poller.todo)
ByAdmin(v) == \E a \in Admins : admin[a].pc = "marked" /\ admin[a].version = v
ByStartup(v) ==
    \/ startup.pc \in {"releases", "enqueue"} /\ v \in startup.todo
    \/ startup.pc = "enqueue" /\ v = startup.version

Held(v) == ByJob(v) \/ ByPoller(v) \/ ByAdmin(v) \/ ByStartup(v)

Unsettled == {v \in Versions : status[v] \in {"pending", "diffing", "analyzing"}}

\* Every call has worked, no deadline has passed.
NoneExpired == \A s \in Slots : ~worker[s].expired

HeldInFlight ==
    EveryCallWorked => startup.pc = "jobs" \/ \A v \in InFlight : Held(v)

HeldUnsettled ==
    EveryCallWorked /\ left.crashes = left.first.crashes => \A v \in Unsettled : Held(v)

\* A step lets go of no release, unless the release is settled afterwards.
HoldsOn ==
    \A v \in Unsettled' : status'[v] # status[v] \/ Held(v) => Held(v)'

LEMMA JobOfKept ==
    ASSUME Refers, Grows, NEW j \in DOMAIN jobs, NEW v
    PROVE  JobOf(j, v)' <=> JobOf(j, v)
<1>1. jobs[j].kind # "diff" => jobs[j].ref \in DOMAIN diffs
  BY DEF Refers, RowsRefer
<1> QED  BY <1>1 DEF JobOf, Grows, Extends

\* Whoever is not a worker lets go of nothing when what he carried is carried
\* afterwards and no job that waits is lost.
LEMMA OutsideHolds ==
    ASSUME Refers, Grows, UNCHANGED worker,
           \A j \in DOMAIN jobs :
               jobs[j].state \in {"waiting", "dead"} => jobs'[j].state \in {"waiting", "dead"},
           \A v \in Unsettled' :
               status'[v] # status[v] \/ ByPoller(v) \/ ByAdmin(v) \/ ByStartup(v) => Held(v)'
    PROVE  HoldsOn
<1> SUFFICES ASSUME NEW v \in Unsettled', ByJob(v) PROVE Held(v)'
  BY DEF HoldsOn, Held
<1>1. PICK j \in DOMAIN jobs : Works(j) /\ JobOf(j, v)  BY DEF ByJob
<1>2. j \in DOMAIN jobs' /\ JobOf(j, v)'  BY <1>1, JobOfKept DEF Grows
<1>3. Works(j)'  BY <1>1 DEF Works, Busy
<1> QED  BY <1>2, <1>3 DEF Held, ByJob

LEMMA SameCarriers ==
    ASSUME NEW v, UNCHANGED <<poller, admin, startup>>
    PROVE  /\ ByPoller(v) => ByPoller(v)'
           /\ ByAdmin(v) => ByAdmin(v)'
           /\ ByStartup(v) => ByStartup(v)'
BY DEF ByPoller, ByAdmin, ByStartup

\* A job just submitted carries its release.
LEMMA JobHolds ==
    ASSUME Refers, UNCHANGED diffs, NEW kind \in Kinds, NEW ref \in Nat, Enqueue(kind, ref, TRUE),
           NEW v, v = IF kind = "diff" THEN ref ELSE diffs[ref].release
    PROVE  ByJob(v)'
<1>1. Types /\ QueuesHold  BY DEF Refers
<1>2. /\ \E j \in DOMAIN jobs' : j \notin DOMAIN jobs
      /\ \A j \in DOMAIN jobs' : j \notin DOMAIN jobs =>
            jobs'[j].kind = kind /\ jobs'[j].ref = ref /\ jobs'[j].state = "waiting"
  BY <1>1, Submitted
<1> QED  BY <1>2 DEF ByJob, Works, JobOf

LEMMA JobsKept ==
    ASSUME Extends(jobs, jobs')
    PROVE  \A j \in DOMAIN jobs :
               jobs[j].state \in {"waiting", "dead"} => jobs'[j].state \in {"waiting", "dead"}
BY DEF Extends

LEMMA EnqueueExtends ==
    ASSUME Refers, NEW kind \in Kinds, NEW ref \in Nat, NEW ok, Enqueue(kind, ref, ok)
    PROVE  Extends(jobs, jobs')
BY Submitted DEF Refers

\* A handler goes on: its release is carried by its job until it succeeds.
LEMMA HandlerHolds ==
    ASSUME Refers, Grows, NEW s \in Slots, Busy(s), Extends(jobs, jobs'),
           NEW pc \in WorkerPcs \ {"idle"}, NEW made \in Nat,
           (Goto(s, pc) /\ made = worker[s].made) \/ GotoMade(s, pc, made),
           UNCHANGED <<poller, admin, startup>>,
           NEW r, JobOf(worker[s].job, r),
           \A v \in Versions : v # r => status'[v] = status[v],
           pc = "succeeded" => r \notin Unsettled' \/ Held(r)'
    PROVE  HoldsOn
<1> SUFFICES ASSUME NEW v \in Unsettled', status'[v] # status[v] \/ Held(v) PROVE Held(v)'
  BY DEF HoldsOn
<1>1. /\ worker'[s].pc = pc /\ worker'[s].job = worker[s].job
      /\ \A t \in Slots : t # s => worker'[t] = worker[t]
  BY WentTo DEF Refers
<1>2. PICK g \in DOMAIN jobs : g = worker[s].job  BY DEF Refers, WorkerRefers, Busy
<1>3. CASE v = r /\ pc # "succeeded"
  <2>1. g \in DOMAIN jobs' /\ JobOf(g, r)'  BY <1>2, JobOfKept DEF Grows
  <2>2. Works(g)'  BY <1>1, <1>2, <1>3 DEF Works, Busy
  <2> QED  BY <1>3, <2>1, <2>2 DEF Held, ByJob
<1>4. CASE v = r /\ pc = "succeeded"  BY <1>4
<1>5. CASE v # r
  <2>1. Held(v)  BY <1>5 DEF Unsettled
  <2>2. ASSUME NEW j \in DOMAIN jobs, Works(j), JobOf(j, v) PROVE Held(v)'
    <3>1. j # worker[s].job  BY <1>5, <2>2 DEF JobOf
    <3>2. Works(j)'
      <4>1. CASE jobs[j].state \in {"waiting", "dead"}  BY <4>1 DEF Extends, Works
      <4>2. CASE \E t \in Slots : worker[t].job = j /\ Busy(t)
        BY <1>1, <3>1, <4>2 DEF Works, Busy
      <4> QED  BY <2>2, <4>1, <4>2 DEF Works
    <3>3. j \in DOMAIN jobs' /\ JobOf(j, v)'  BY <2>2, JobOfKept DEF Grows
    <3> QED  BY <3>2, <3>3 DEF Held, ByJob
  <2> QED  BY <2>1, <2>2, SameCarriers DEF Held, ByJob
<1> QED  BY <1>3, <1>4, <1>5

LEMMA HandlerGoesOn ==
    ASSUME Refers, Grows, NEW s \in Slots, Busy(s), UNCHANGED redis,
           NEW pc \in WorkerPcs \ {"idle", "succeeded"},
           Goto(s, pc) \/ \E made \in Nat : GotoMade(s, pc, made),
           UNCHANGED <<poller, admin, startup>>,
           NEW r, JobOf(worker[s].job, r),
           \A v \in Versions : v # r => status'[v] = status[v]
    PROVE  HoldsOn
<1>1. Extends(jobs, jobs')  BY DEF redis, Extends
<1>2. worker[s].made \in Nat  BY DEF Refers, Types, Task
<1>3. CASE Goto(s, pc)  BY <1>1, <1>2, <1>3, HandlerHolds
<1>4. ASSUME NEW made \in Nat, GotoMade(s, pc, made) PROVE HoldsOn
  BY <1>1, <1>4, HandlerHolds
<1> QED  BY <1>3, <1>4

LEMMA OneSet ==
    ASSUME Types, NEW v \in Versions, NEW new, NEW ok, SetStatus(v, new, ok)
    PROVE  /\ \A u \in Versions : u # v => status'[u] = status[u]
           /\ ok => status'[v] = new
<1>1. CASE ok
  <2>1. status' = [status EXCEPT ![v] = new]  BY <1>1 DEF SetStatus
  <2> QED  BY <1>1, <2>1 DEF Types
<1>2. CASE ~ok  BY <1>2 DEF SetStatus
<1> QED  BY <1>1, <1>2

LEMMA HandlersHold ==
    ASSUME Refers, Grows, NEW s \in Slots, NEW ok \in BOOLEAN, HandlerStep(s, ok),
           ok \/ worker[s].pc \in {"fetch", "judge"}
    PROVE  HoldsOn
<1> USE DEF DiffPcs, AnalyzePcs, WorkerPcs
<1>0. Types /\ UNCHANGED <<poller, admin, startup>> /\ Known \subseteq Versions
      /\ worker[s].made \in Nat /\ Len(diffs) + 1 \in Nat /\ Len(analyses) + 1 \in Nat
      /\ Versions \subseteq Nat
  BY Numbers DEF Refers, HandlerStep, Types, Task
<1>d. ASSUME worker[s].pc \in DiffPcs
      PROVE  \E r \in Versions : r = Ref(s) /\ JobOf(worker[s].job, r) /\ Busy(s)
  <2>1. s \in DiffSlots /\ worker[s].pc # "idle"  BY <1>d, Handling
  <2>2. Ref(s) \in Known /\ KindOf(s) = "diff"  BY <2>1, Handling
  <2>3. jobs[worker[s].job].kind = "diff"  BY <2>1, <2>2 DEF Refers, WorkerRefers
  <2> QED  BY <1>0, <1>d, <2>2, <2>3 DEF JobOf, Ref, Busy
<1>a. ASSUME worker[s].pc \in AnalyzePcs
      PROVE  \E r \in Versions : r = ReleaseOf(s) /\ JobOf(worker[s].job, r) /\ Busy(s)
  <2>1. s \in AnalyzeSlots /\ worker[s].pc # "idle"  BY <1>a, Handling
  <2>2. ReleaseOf(s) \in Known /\ KindOf(s) = "analyze"  BY <2>1, Handling
  <2>3. jobs[worker[s].job].kind = "analyze"  BY <2>1, <2>2 DEF Refers, WorkerRefers
  <2> QED  BY <1>0, <1>a, <2>2, <2>3 DEF JobOf, Ref, ReleaseOf, Busy
<1>r. ASSUME UNCHANGED redis PROVE Extends(jobs, jobs')  BY <1>r DEF redis, Extends
<1>1. CASE DiffBegin(s, ok)
  <2>1. /\ worker[s].pc \in DiffPcs /\ UNCHANGED redis
        /\ SetStatus(Ref(s), "diffing", ok) \/ UNCHANGED status
        /\ Goto(s, "previous") \/ Goto(s, "failed")
    BY <1>1 DEF DiffBegin
  <2>2. PICK r \in Versions : r = Ref(s) /\ JobOf(worker[s].job, r) /\ Busy(s)  BY <1>d, <2>1
  <2>3. \A v \in Versions : v # r => status'[v] = status[v]
    BY <1>0, <2>1, <2>2, OneSet
  <2> QED  BY <1>0, <2>1, <2>2, <2>3, HandlerGoesOn
<1>2. CASE DiffPrevious(s, ok)
  <2> DEFINE older == {u \in Versions : u < Ref(s) /\ status[u] = "completed"}
  <2>1. /\ worker[s].pc \in DiffPcs /\ UNCHANGED redis /\ UNCHANGED status
        /\ (older # {} /\ GotoMade(s, "fetch", Greatest(older))) \/ Goto(s, "baseline")
    BY <1>2 DEF DiffPrevious, database
  <2>2. PICK r \in Versions : r = Ref(s) /\ JobOf(worker[s].job, r) /\ Busy(s)  BY <1>d, <2>1
  <2>3. CASE Goto(s, "baseline")  BY <1>0, <2>1, <2>2, <2>3, HandlerGoesOn
  <2>4. CASE older # {} /\ GotoMade(s, "fetch", Greatest(older))
    <3>1. Greatest(older) \in older
      <4>1. older \in SUBSET (0 .. LastVersion) /\ LastVersion \in Nat  BY Numbers
      <4> QED  BY <2>4, <4>1, GreatestIs
    <3>2. Greatest(older) \in Nat  BY <1>0, <3>1
    <3>3. \E made \in Nat : GotoMade(s, "fetch", made)  BY <2>4, <3>2
    <3>4. UNCHANGED status /\ UNCHANGED redis  BY <2>1
    <3> HIDE DEF older
    <3> QED  BY <1>0, <2>2, <3>3, <3>4, HandlerGoesOn
  <2> QED  BY <2>1, <2>3, <2>4
<1>3. CASE DiffBaseline(s, ok)
  <2>1. /\ worker[s].pc \in DiffPcs /\ UNCHANGED redis /\ ok
        /\ SetStatus(Ref(s), "completed", ok) /\ Goto(s, "succeeded")
    BY <1>3 DEF DiffBaseline
  <2>2. PICK r \in Versions : r = Ref(s) /\ JobOf(worker[s].job, r) /\ Busy(s)  BY <1>d, <2>1
  <2>3. /\ \A v \in Versions : v # r => status'[v] = status[v]
        /\ status'[r] = "completed"
    BY <1>0, <2>1, <2>2, OneSet
  <2>4. r \notin Unsettled'  BY <2>3 DEF Unsettled
  <2> QED  BY <1>0, <1>r, <2>1, <2>2, <2>3, <2>4, HandlerHolds
<1>4. CASE DiffFetch(s, ok)
  <2>1. /\ worker[s].pc \in DiffPcs /\ UNCHANGED redis /\ UNCHANGED status
        /\ Goto(s, "store") \/ Goto(s, "marking")
    BY <1>4 DEF DiffFetch, database
  <2>2. PICK r \in Versions : r = Ref(s) /\ JobOf(worker[s].job, r) /\ Busy(s)  BY <1>d, <2>1
  <2> QED  BY <1>0, <2>1, <2>2, HandlerGoesOn
<1>5. CASE DiffMarkError(s, ok)
  <2>1. /\ worker[s].pc \in DiffPcs /\ UNCHANGED redis
        /\ SetStatus(Ref(s), "error", ok) /\ Goto(s, "failed")
    BY <1>5 DEF DiffMarkError
  <2>2. PICK r \in Versions : r = Ref(s) /\ JobOf(worker[s].job, r) /\ Busy(s)  BY <1>d, <2>1
  <2>3. \A v \in Versions : v # r => status'[v] = status[v]
    BY <1>0, <2>1, <2>2, OneSet
  <2> QED  BY <1>0, <2>1, <2>2, <2>3, HandlerGoesOn
<1>6. CASE DiffStore(s, ok)
  <2>1. /\ worker[s].pc \in DiffPcs /\ UNCHANGED redis /\ UNCHANGED status
        /\ GotoMade(s, "stored", Len(diffs) + 1) \/ Goto(s, "marking")
    BY <1>6 DEF DiffStore
  <2>2. PICK r \in Versions : r = Ref(s) /\ JobOf(worker[s].job, r) /\ Busy(s)  BY <1>d, <2>1
  <2> QED  BY <1>0, <2>1, <2>2, HandlerGoesOn
<1>7. CASE DiffAnalyzing(s, ok)
  <2>1. /\ worker[s].pc \in DiffPcs /\ UNCHANGED redis
        /\ SetStatus(Ref(s), "analyzing", ok) /\ Goto(s, "handoff")
    BY <1>7 DEF DiffAnalyzing
  <2>2. PICK r \in Versions : r = Ref(s) /\ JobOf(worker[s].job, r) /\ Busy(s)  BY <1>d, <2>1
  <2>3. \A v \in Versions : v # r => status'[v] = status[v]
    BY <1>0, <2>1, <2>2, OneSet
  <2> QED  BY <1>0, <2>1, <2>2, <2>3, HandlerGoesOn
<1>8. CASE DiffHandOff(s, ok)
  <2>1. /\ worker[s].pc = "handoff" /\ UNCHANGED status /\ UNCHANGED diffs /\ ok = TRUE
        /\ Enqueue("analyze", worker[s].made, ok) /\ Goto(s, "succeeded")
    BY <1>8 DEF DiffHandOff, database
  <2>2. PICK r \in Versions : r = Ref(s) /\ JobOf(worker[s].job, r) /\ Busy(s)  BY <1>d, <2>1
  <2>3. PICK d \in Nat : d = worker[s].made /\ diffs[d].release = r
    BY <1>0, <2>1, <2>2 DEF Refers, WorkerRefers
  <2>4. Held(r)'
    <3>1. ByJob(r)'  BY <2>1, <2>3, JobHolds DEF Kinds
    <3> QED  BY <3>1 DEF Held
  <2>5. Extends(jobs, jobs')  BY <2>1, <2>3, EnqueueExtends DEF Kinds
  <2> QED  BY <1>0, <2>1, <2>2, <2>4, <2>5, HandlerHolds
<1>9. CASE Judge(s, ok)
  <2>1. /\ worker[s].pc \in AnalyzePcs /\ UNCHANGED redis /\ UNCHANGED status
        /\ \/ GotoMade(s, "alert", Len(analyses) + 1)
           \/ GotoMade(s, "complete", Len(analyses) + 1)
           \/ Goto(s, "failed")
    <3>1. CASE ok
      <4>1. PICK flagged \in BOOLEAN :
               GotoMade(s, IF flagged THEN "alert" ELSE "complete", Len(analyses) + 1)
        BY <1>9, <3>1 DEF Judge
      <4> QED  BY <1>9, <4>1 DEF Judge
    <3>2. CASE ~ok  BY <1>9, <3>2 DEF Judge
    <3> QED  BY <3>1, <3>2
  <2>2. PICK r \in Versions : r = ReleaseOf(s) /\ JobOf(worker[s].job, r) /\ Busy(s)
    BY <1>a, <2>1
  <2> QED  BY <1>0, <2>1, <2>2, HandlerGoesOn
<1>10. CASE RaiseAlert(s, ok)
  <2>1. /\ worker[s].pc \in AnalyzePcs /\ UNCHANGED redis /\ UNCHANGED status
        /\ Goto(s, "complete")
    BY <1>10 DEF RaiseAlert
  <2>2. PICK r \in Versions : r = ReleaseOf(s) /\ JobOf(worker[s].job, r) /\ Busy(s)
    BY <1>a, <2>1
  <2> QED  BY <1>0, <2>1, <2>2, HandlerGoesOn
<1>11. CASE AnalyzeComplete(s, ok)
  <2>1. /\ worker[s].pc \in AnalyzePcs /\ UNCHANGED redis /\ ok
        /\ SetStatus(ReleaseOf(s), "completed", ok) /\ Goto(s, "succeeded")
    BY <1>11 DEF AnalyzeComplete
  <2>2. PICK r \in Versions : r = ReleaseOf(s) /\ JobOf(worker[s].job, r) /\ Busy(s)
    BY <1>a, <2>1
  <2>3. /\ \A v \in Versions : v # r => status'[v] = status[v]
        /\ status'[r] = "completed"
    BY <1>0, <2>1, <2>2, OneSet
  <2>4. r \notin Unsettled'  BY <2>3 DEF Unsettled
  <2> QED  BY <1>0, <1>r, <2>1, <2>2, <2>3, <2>4, HandlerHolds
<1> QED
  BY <1>1, <1>2, <1>3, <1>4, <1>5, <1>6, <1>7, <1>8, <1>9, <1>10, <1>11
  DEF HandlerStep, DiffStep, AnalyzeStep

LEMMA PollerHolds ==
    ASSUME Refers, Grows, PollStep(TRUE)
    PROVE  HoldsOn
<1>0. /\ Types /\ PollerRefers /\ UNCHANGED <<worker, admin, startup>> /\ Known \subseteq Versions
      /\ Versions \subseteq Nat /\ poller.todo \in SUBSET Versions
  BY Numbers DEF Refers, Types, PollStep, PollStart, PollCreate, PollEnqueue
<1>1. \A v : (ByAdmin(v) => ByAdmin(v)') /\ (ByStartup(v) => ByStartup(v)')
  BY <1>0 DEF ByAdmin, ByStartup
<1>2. CASE PollStart(TRUE)
  <2>1. poller.pc = "idle" /\ UNCHANGED status /\ UNCHANGED jobs
    BY <1>2 DEF PollStart, database, redis
  <2>2. \A v : ~ByPoller(v)  BY <2>1 DEF ByPoller
  <2>3. \A v \in Unsettled' :
           status'[v] # status[v] \/ ByPoller(v) \/ ByAdmin(v) \/ ByStartup(v) => Held(v)'
    BY <1>1, <2>1, <2>2 DEF Held
  <2> QED  BY <1>0, <2>1, <2>3, OutsideHolds
<1>3. CASE PollCreate(TRUE)
  <2>1. /\ poller.pc = "create" /\ UNCHANGED jobs
        /\ SetStatus(Least(poller.todo), "pending", TRUE)
        /\ poller' = [poller EXCEPT !.pc = "enqueue"]
    BY <1>3 DEF PollCreate, redis
  <2>2. PICK w \in Versions : w = Least(poller.todo)
    <3>1. Least(poller.todo) \in poller.todo  BY <1>0, <2>1, LeastIs DEF PollerRefers
    <3> QED  BY <1>0, <3>1
  <2>3. \A v \in Versions : v # w => status'[v] = status[v]  BY <1>0, <2>1, <2>2, OneSet
  <2>4. ByPoller(w)'  BY <1>0, <2>1, <2>2 DEF ByPoller, Types
  <2>5. \A v : ~ByPoller(v)  BY <2>1 DEF ByPoller
  <2>6. \A v \in Unsettled' :
           status'[v] # status[v] \/ ByPoller(v) \/ ByAdmin(v) \/ ByStartup(v) => Held(v)'
    BY <1>1, <2>3, <2>4, <2>5 DEF Held, Unsettled
  <2> QED  BY <1>0, <2>1, <2>6, OutsideHolds
<1>4. CASE PollEnqueue(TRUE)
  <2>1. /\ poller.pc = "enqueue" /\ UNCHANGED status /\ UNCHANGED diffs
        /\ Enqueue("diff", Least(poller.todo), TRUE)
    BY <1>4 DEF PollEnqueue, database
  <2>2. PICK w \in Nat : w = Least(poller.todo)
    BY <1>0, <2>1 DEF PollerRefers
  <2>3. ByJob(w)'  BY <2>1, <2>2, JobHolds DEF Kinds
  <2>4. \A v : ByPoller(v) => v = w  BY <2>2 DEF ByPoller
  <2>5. \A v \in Unsettled' :
           status'[v] # status[v] \/ ByPoller(v) \/ ByAdmin(v) \/ ByStartup(v) => Held(v)'
    BY <1>1, <2>1, <2>3, <2>4 DEF Held
  <2>6. Extends(jobs, jobs')  BY <2>1, <2>2, EnqueueExtends DEF Kinds
  <2> QED  BY <1>0, <2>5, <2>6, JobsKept, OutsideHolds
<1> QED  BY <1>2, <1>3, <1>4 DEF PollStep

LEMMA AdminsHold ==
    ASSUME Refers, Grows, NEW a \in Admins, AdminStep(a, TRUE)
    PROVE  HoldsOn
<1>0. /\ Types /\ AdminRefers(a) /\ UNCHANGED <<worker, poller, startup>>
      /\ Known \subseteq Versions /\ Versions \subseteq Nat /\ 0 \notin Versions
      /\ DOMAIN diffs \subseteq Nat /\ admin \in [Admins -> Call] /\ admin[a] \in Call
  <2>1. UNCHANGED <<worker, poller, startup>>
    BY DEF AdminStep, ReanalyzeStatus, ReanalyzeEnqueue, ReanalyzeAllEnqueue
  <2> QED  BY <2>1, Numbers DEF Refers, Types
<1>1. \A v : (ByPoller(v) => ByPoller(v)') /\ (ByStartup(v) => ByStartup(v)')
  BY <1>0 DEF ByPoller, ByStartup
<1>2. CASE ReanalyzeStatus(a, TRUE)
  <2>1. /\ admin[a].pc = "loaded" /\ UNCHANGED jobs
        /\ \E new : SetStatus(admin[a].version, new, TRUE)
        /\ admin' = [admin EXCEPT ![a] = [admin[a] EXCEPT !.pc = "marked"]]
    BY <1>2 DEF ReanalyzeStatus, redis, SetAdmin
  <2>2. PICK w \in Versions : w = admin[a].version  BY <1>0, <2>1 DEF AdminRefers
  <2>3. \A v \in Versions : v # w => status'[v] = status[v]  BY <1>0, <2>1, <2>2, OneSet
  <2>4. ByAdmin(w)'  BY <1>0, <2>1, <2>2 DEF ByAdmin, Call
  <2>5. \A v : ByAdmin(v) => ByAdmin(v)'  BY <1>0, <2>1 DEF ByAdmin
  <2>6. \A v \in Unsettled' :
           status'[v] # status[v] \/ ByPoller(v) \/ ByAdmin(v) \/ ByStartup(v) => Held(v)'
    BY <1>1, <2>3, <2>4, <2>5 DEF Held, Unsettled
  <2> QED  BY <1>0, <2>1, <2>6, OutsideHolds
<1>3. CASE ReanalyzeEnqueue(a, TRUE)
  <2>1. /\ admin[a].pc = "marked" /\ UNCHANGED status /\ UNCHANGED diffs
        /\ admin' = [admin EXCEPT ![a] = IdleAdmin]
    BY <1>3 DEF ReanalyzeEnqueue, database, SetAdmin
  <2>2. PICK w \in Versions : w = admin[a].version  BY <1>0, <2>1 DEF AdminRefers
  <2>3. PICK d \in Nat : d = admin[a].diff  BY <1>0 DEF Call
  <2>4. ByJob(w)' /\ Extends(jobs, jobs')
    <3>1. CASE d = 0
      <4>1. Enqueue("diff", w, TRUE) /\ w \in Nat  BY <1>0, <1>3, <2>2, <2>3, <3>1 DEF ReanalyzeEnqueue
      <4> QED  BY <2>1, <4>1, JobHolds, EnqueueExtends DEF Kinds
    <3>2. CASE d # 0
      <4>1. Enqueue("analyze", d, TRUE)  BY <1>3, <2>3, <3>2 DEF ReanalyzeEnqueue
      <4>2. w = diffs[d].release  BY <1>0, <2>2, <2>3, <3>2 DEF AdminRefers
      <4> QED  BY <2>1, <4>1, <4>2, JobHolds, EnqueueExtends DEF Kinds
    <3> QED  BY <3>1, <3>2
  <2>5. \A v : ByAdmin(v) => ByAdmin(v)' \/ v = w  BY <1>0, <2>1, <2>2 DEF ByAdmin
  <2>6. \A v \in Unsettled' :
           status'[v] # status[v] \/ ByPoller(v) \/ ByAdmin(v) \/ ByStartup(v) => Held(v)'
    BY <1>1, <2>1, <2>4, <2>5 DEF Held
  <2> QED  BY <1>0, <2>4, <2>6, JobsKept, OutsideHolds
<1>4. CASE ReanalyzeAllEnqueue(a, TRUE)
  <2>1. admin[a].pc = "all" /\ UNCHANGED status
    BY <1>4 DEF ReanalyzeAllEnqueue, database
  <2>2. PICK d \in admin[a].todo :
           Enqueue("analyze", d, TRUE) /\ \E new : admin' = [admin EXCEPT ![a] = new]
    BY <1>4 DEF ReanalyzeAllEnqueue, SetAdmin
  <2>3. d \in Nat  BY <1>0 DEF AdminRefers
  <2>4. \A v : ByAdmin(v) => ByAdmin(v)'
    <3> SUFFICES ASSUME NEW v, NEW b \in Admins, admin[b].pc = "marked", admin[b].version = v
                 PROVE  ByAdmin(v)'
      BY DEF ByAdmin
    <3>1. admin'[b] = admin[b]  BY <1>0, <2>1, <2>2
    <3> QED  BY <3>1 DEF ByAdmin
  <2>5. \A v \in Unsettled' :
           status'[v] # status[v] \/ ByPoller(v) \/ ByAdmin(v) \/ ByStartup(v) => Held(v)'
    BY <1>1, <2>1, <2>4 DEF Held
  <2>6. Extends(jobs, jobs')  BY <2>2, <2>3, EnqueueExtends DEF Kinds
  <2> QED  BY <1>0, <2>5, <2>6, JobsKept, OutsideHolds
<1> QED  BY <1>2, <1>3, <1>4 DEF AdminStep

LEMMA LoadsHold ==
    ASSUME Refers, Grows, NEW a \in Admins,
           ReanalyzeAllLoad(a) \/ \E v \in Versions : ReanalyzeLoad(a, v, TRUE)
    PROVE  HoldsOn
<1>1. UNCHANGED <<database, redis, poller, worker, startup>> /\ admin[a].pc = "idle"
      /\ \E new : admin' = [admin EXCEPT ![a] = new]
  BY DEF ReanalyzeAllLoad, ReanalyzeLoad, SetAdmin
<1>2. UNCHANGED <<status, jobs>> /\ admin \in [Admins -> Call]
  BY <1>1 DEF database, redis, Refers, Types
<1>3. \A v : ByAdmin(v) => ByAdmin(v)'
  <2> SUFFICES ASSUME NEW v, NEW b \in Admins, admin[b].pc = "marked", admin[b].version = v
               PROVE  ByAdmin(v)'
    BY DEF ByAdmin
  <2>1. admin'[b] = admin[b]  BY <1>1, <1>2
  <2> QED  BY <2>1 DEF ByAdmin
<1>4. \A v : (ByPoller(v) => ByPoller(v)') /\ (ByStartup(v) => ByStartup(v)')
  BY <1>1 DEF ByPoller, ByStartup
<1>5. \A v \in Unsettled' :
         status'[v] # status[v] \/ ByPoller(v) \/ ByAdmin(v) \/ ByStartup(v) => Held(v)'
  BY <1>2, <1>3, <1>4 DEF Held
<1> QED  BY <1>1, <1>2, <1>5, OutsideHolds

LEMMA PushesHold ==
    ASSUME Refers, Grows, NEW j \in DOMAIN jobs, RetryDead(j) \/ RecoverJob(j)
    PROVE  HoldsOn
<1>1. UNCHANGED <<database, poller, worker, admin, startup>>
      /\ jobs[j].state \in {"dead", "stuck"}
  BY DEF RetryDead, RecoverJob, memory
<1>2. jobs \in Seq(Job) /\ jobs[j].attempts \in Nat /\ Types /\ QueuesHold
  <2>1. jobs[j] \in Job  BY DEF Refers, Types
  <2> QED  BY <2>1 DEF Job, Refers, Types
<1>3. PICK n \in Nat : MoveJob(j, "waiting", n)  BY <1>2 DEF RetryDead, RecoverJob
<1>4. Moved(j, "waiting", n)  BY <1>1, <1>2, <1>3, MovedOn DEF JobStates
<1>5. \A i \in DOMAIN jobs :
         jobs[i].state \in {"waiting", "dead"} => jobs'[i].state \in {"waiting", "dead"}
  BY <1>4 DEF Moved
<1>6. UNCHANGED status  BY <1>1 DEF database
<1>7. \A v \in Unsettled' :
         status'[v] # status[v] \/ ByPoller(v) \/ ByAdmin(v) \/ ByStartup(v) => Held(v)'
  BY <1>1, <1>6, SameCarriers DEF Held
<1> QED  BY <1>1, <1>5, <1>7, OutsideHolds

\* The release stays in the hands of its job, in the list or with a worker.
LEMMA TakesHold ==
    ASSUME Refers, Grows, NEW s \in Slots, Take(s)
    PROVE  HoldsOn
<1>1. UNCHANGED <<status, poller, admin, startup>>  BY DEF Take, database
<1>2. PICK j \in DOMAIN jobs : Taken(s, j)  BY TakenFrom DEF Refers
<1>3. /\ worker'[s].job = j /\ Busy(s)' /\ worker[s].pc = "idle"
      /\ \A t \in Slots : t # s => worker'[t] = worker[t]
      /\ \A i \in DOMAIN jobs : i # j => jobs'[i] = jobs[i]
  BY <1>2 DEF Taken, Moved, Busy
<1>4. \A i \in DOMAIN jobs : Works(i) => Works(i)'
  BY <1>3 DEF Works, Busy
<1> SUFFICES ASSUME NEW v \in Unsettled', ByJob(v) PROVE ByJob(v)'
  BY <1>1, SameCarriers DEF HoldsOn, Held
<1> QED  BY <1>4, JobOfKept DEF ByJob, Grows

\* A job that ends has settled its release, or waits again, or is dead.
LEMMA ReportsHold ==
    ASSUME Refers, Grows, NEW s \in Slots, Succeed(s) \/ FailJob(s)
    PROVE  HoldsOn
<1>1. UNCHANGED <<status, poller, admin, startup>>  BY DEF Succeed, FailJob, database
<1>2. /\ Types /\ QueuesHold /\ OneWorker /\ worker[s].pc \in {"succeeded", "failed"}
      /\ worker' = [worker EXCEPT ![s] = IdleWorker] /\ worker \in [Slots -> Task]
  BY DEF Refers, Types, Succeed, FailJob
<1>3. PICK j \in DOMAIN jobs : j = worker[s].job /\ jobs[j].state = "running"
  BY <1>2 DEF Refers, WorkerRefers
<1>4. jobs[j].attempts \in Nat
  <2>1. jobs[j] \in Job  BY <1>2 DEF Types
  <2> QED  BY <2>1 DEF Job
<1>5. PICK state \in {"done", "waiting", "dead"}, n \in Nat :
         MoveJob(j, state, n) /\ (FailJob(s) => state # "done")
  <2>1. CASE Succeed(s)
    <3>1. ~FailJob(s)  BY <2>1 DEF Succeed, FailJob
    <3> QED  BY <1>3, <1>4, <2>1, <3>1 DEF Succeed
  <2>2. CASE FailJob(s)
    <3> DEFINE n == jobs[j].attempts + 1
    <3>1. PICK state \in {"dead", "waiting"} :
             state = IF n >= MaxAttempts THEN "dead" ELSE "waiting"
      OBVIOUS
    <3>2. MoveJob(j, state, n)  BY <1>3, <2>2, <3>1 DEF FailJob
    <3> QED  BY <1>4, <3>2
  <2> QED  BY <2>1, <2>2
<1>6. Moved(j, state, n)  BY <1>2, <1>3, <1>5, MovedOn DEF JobStates
<1>7. \A t \in Slots : t # s => worker'[t] = worker[t]  BY <1>2
<1>8. ASSUME NEW i \in DOMAIN jobs, Works(i) PROVE Works(i)'
  <2>1. CASE i = j
    <3>1. \A t \in Slots : worker[t].job = j /\ Busy(t) => t = s
      BY <1>2, <1>3 DEF OneWorker, Busy
    <3>2. Busy(s)  BY <1>3, <1>8, <2>1, <3>1 DEF Works
    <3>3. FailJob(s)  BY <3>2 DEF Busy, Succeed
    <3>4. state \in {"waiting", "dead"}  BY <1>5, <3>3
    <3> QED  BY <1>6, <2>1, <3>4 DEF Works, Moved
  <2>2. CASE i # j
    <3>1. CASE jobs[i].state \in {"waiting", "dead"}
      BY <1>6, <2>2, <3>1 DEF Works, Moved
    <3>2. CASE \E t \in Slots : worker[t].job = i /\ Busy(t)
      BY <1>3, <1>7, <2>2, <3>2 DEF Works, Busy
    <3> QED  BY <1>8, <3>1, <3>2 DEF Works
  <2> QED  BY <2>1, <2>2
<1> SUFFICES ASSUME NEW v \in Unsettled', ByJob(v) PROVE ByJob(v)'
  BY <1>1, SameCarriers DEF HoldsOn, Held
<1> QED  BY <1>8, JobOfKept DEF ByJob, Grows

LEMMA RecoveryHolds ==
    ASSUME Refers, Grows, RecoverStep(TRUE)
    PROVE  /\ HoldsOn
           /\ startup.pc = "jobs" => \A v \in InFlight' : Held(v)'
<1>0. /\ Types /\ StartupRefers /\ UNCHANGED <<worker, poller, admin>> /\ Known \subseteq Versions
      /\ Versions \subseteq Nat /\ DOMAIN diffs \subseteq Nat
  <2>1. UNCHANGED <<worker, poller, admin>>
    BY DEF RecoverStep, RecoverScan, RecoverRelease, RecoverEnqueue
  <2> QED  BY <2>1, Numbers DEF Refers, Types
<1>1. \A v : (ByPoller(v) => ByPoller(v)') /\ (ByAdmin(v) => ByAdmin(v)')
  BY <1>0 DEF ByPoller, ByAdmin
<1>2. CASE RecoverScan(TRUE)
  <2>1. startup.pc = "jobs" /\ UNCHANGED <<status, jobs>> /\ StartUp(InFlight)
    BY <1>2 DEF RecoverScan, database, redis
  <2>2. \A v : ~ByStartup(v)  BY <2>1 DEF ByStartup
  <2>3. \A v \in Unsettled' :
           status'[v] # status[v] \/ ByPoller(v) \/ ByAdmin(v) \/ ByStartup(v) => Held(v)'
    BY <1>1, <2>1, <2>2 DEF Held
  <2>4. HoldsOn  BY <1>0, <2>1, <2>3, OutsideHolds
  <2>5. InFlight' = InFlight  BY <2>1 DEF InFlight
  <2>6. \A v \in InFlight' : ByStartup(v)'  BY <2>1, <2>5 DEF StartUp, ByStartup
  <2> QED  BY <2>4, <2>6 DEF Held
\* The rest of the list is carried on, and what was taken from it is w.
<1>r. ASSUME NEW w, StartUp(startup.todo \ {w})
      PROVE  \A v : v \in startup.todo => ByStartup(v)' \/ v = w
  BY <1>r DEF StartUp, ByStartup
<1>3. CASE RecoverRelease(TRUE)
  <2>1. startup.pc = "releases" /\ UNCHANGED diffs  BY <1>3 DEF RecoverRelease
  <2>2. PICK w \in startup.todo : RecoverPending(w, TRUE) \/ RecoverAnalyzing(w, TRUE)
    BY <1>3 DEF RecoverRelease
  <2>3. w \in Versions  BY <1>0 DEF StartupRefers
  <2>4. CASE RecoverPending(w, TRUE)
    <3>1. /\ SetStatus(w, "pending", TRUE) /\ UNCHANGED jobs
          /\ startup' = [startup EXCEPT !.pc = "enqueue", !.version = w]
      BY <2>4 DEF RecoverPending, redis
    <3>2. \A v \in Versions : v # w => status'[v] = status[v]
      BY <1>0, <2>3, <3>1, OneSet
    <3>3. startup'.pc = "enqueue" /\ startup'.todo = startup.todo /\ startup'.version = w
      BY <1>0, <3>1 DEF Types
    <3>4. ByStartup(w)' /\ \A v : ByStartup(v) => ByStartup(v)'
      BY <2>1, <3>3 DEF ByStartup
    <3>5. \A v \in Unsettled' :
             status'[v] # status[v] \/ ByPoller(v) \/ ByAdmin(v) \/ ByStartup(v) => Held(v)'
      BY <1>1, <3>2, <3>4 DEF Held, Unsettled
    <3> QED  BY <1>0, <2>1, <3>1, <3>5, OutsideHolds
  <2>5. CASE RecoverAnalyzing(w, TRUE)
    <3>1. PICK d \in DiffsOf(w) :
             \/ Enqueue("analyze", d, TRUE) /\ UNCHANGED status
             \/ SetStatus(w, "completed", TRUE) /\ UNCHANGED redis
      BY <2>5 DEF RecoverAnalyzing
    <3>2. StartUp(startup.todo \ {w})  BY <2>5 DEF RecoverAnalyzing
    <3>3. \A v : ByStartup(v) => ByStartup(v)' \/ v = w
      BY <1>r, <2>1, <3>2 DEF ByStartup
    <3>4. CASE Enqueue("analyze", d, TRUE) /\ UNCHANGED status
      <4>1. d \in Nat /\ diffs[d].release = w  BY <1>0 DEF DiffsOf
      <4>2. ByJob(w)' /\ Extends(jobs, jobs')
        BY <2>1, <3>4, <4>1, JobHolds, EnqueueExtends DEF Kinds
      <4>3. \A v \in Unsettled' :
               status'[v] # status[v] \/ ByPoller(v) \/ ByAdmin(v) \/ ByStartup(v) => Held(v)'
        BY <1>1, <3>3, <3>4, <4>2 DEF Held
      <4> QED  BY <1>0, <2>1, <4>2, <4>3, JobsKept, OutsideHolds
    <3>5. CASE SetStatus(w, "completed", TRUE) /\ UNCHANGED redis
      <4>1. /\ \A v \in Versions : v # w => status'[v] = status[v]
            /\ status'[w] = "completed"
        BY <1>0, <2>3, <3>5, OneSet
      <4>2. \A v \in Unsettled' :
               status'[v] # status[v] \/ ByPoller(v) \/ ByAdmin(v) \/ ByStartup(v) => Held(v)'
        BY <1>1, <3>3, <4>1 DEF Held, Unsettled
      <4>3. UNCHANGED jobs  BY <3>5 DEF redis
      <4> QED  BY <1>0, <2>1, <4>2, <4>3, OutsideHolds
    <3> QED  BY <3>1, <3>4, <3>5
  <2> QED  BY <2>2, <2>4, <2>5
<1>4. CASE RecoverEnqueue(TRUE)
  <2>1. /\ startup.pc = "enqueue" /\ UNCHANGED <<status, diffs>>
        /\ Enqueue("diff", startup.version, TRUE)
        /\ StartUp(startup.todo \ {startup.version})
    BY <1>4 DEF RecoverEnqueue, database
  <2>2. PICK w \in Nat : w = startup.version  BY <1>0, <2>1 DEF StartupRefers
  <2>3. ByJob(w)' /\ Extends(jobs, jobs')
    BY <2>1, <2>2, JobHolds, EnqueueExtends DEF Kinds
  <2>4. \A v : ByStartup(v) => ByStartup(v)' \/ v = w
    BY <1>r, <2>1, <2>2 DEF ByStartup
  <2>5. \A v \in Unsettled' :
           status'[v] # status[v] \/ ByPoller(v) \/ ByAdmin(v) \/ ByStartup(v) => Held(v)'
    BY <1>1, <2>1, <2>3, <2>4 DEF Held
  <2> QED  BY <1>0, <2>1, <2>3, <2>5, JobsKept, OutsideHolds
<1> QED  BY <1>2, <1>3, <1>4 DEF RecoverStep

-----------------------------------------------------------------------------
(* While every call works                                                  *)

LEMMA HandlerGoes ==
    ASSUME NEW s \in Slots, NEW ok, HandlerStep(s, ok)
    PROVE  \E pc, made : Goto(s, pc) \/ GotoMade(s, pc, made)
<1>1. ASSUME DiffStep(s, ok) PROVE \E pc, made : Goto(s, pc) \/ GotoMade(s, pc, made)
  BY <1>1 DEF DiffStep, DiffBegin, DiffPrevious, DiffBaseline, DiffFetch, DiffMarkError,
              DiffStore, DiffAnalyzing, DiffHandOff
<1>2. ASSUME AnalyzeStep(s, ok) PROVE \E pc, made : Goto(s, pc) \/ GotoMade(s, pc, made)
  BY <1>2 DEF AnalyzeStep, Judge, RaiseAlert, AnalyzeComplete
<1> QED  BY <1>1, <1>2 DEF HandlerStep

\* A deadline passes in no other way than by passing.
LEMMA DeadlinesKept ==
    ASSUME Types, NoneExpired, [Next]_vars
    PROVE  NoneExpired' \/ \E s \in Slots : Expire(s)
<1>0. worker \in [Slots -> Task]  BY DEF Types
<1>1. ASSUME NEW s \in Slots, NEW ok, HandlerStep(s, ok) PROVE NoneExpired'
  <2>1. PICK pc, made : Goto(s, pc) \/ GotoMade(s, pc, made)  BY <1>1, HandlerGoes
  <2>2. CASE Goto(s, pc)  BY <1>0, <2>2 DEF Goto, NoneExpired, Task
  <2>3. CASE GotoMade(s, pc, made)  BY <1>0, <2>3 DEF GotoMade, NoneExpired, Task
  <2> QED  BY <2>1, <2>2, <2>3
<1>2. ASSUME UNCHANGED worker PROVE NoneExpired'  BY <1>2 DEF NoneExpired
<1>3. ASSUME NEW ok, PollStep(ok) \/ RecoverStep(ok) \/ \E a \in Admins : AdminStep(a, ok)
      PROVE  NoneExpired'
  <2>1. UNCHANGED worker
    BY <1>3 DEF PollStep, PollStart, PollCreate, PollEnqueue, RecoverStep, RecoverScan,
                RecoverRelease, RecoverEnqueue, AdminStep, ReanalyzeStatus, ReanalyzeEnqueue,
                ReanalyzeAllEnqueue
  <2> QED  BY <1>2, <2>1
<1>4. CASE CallStep \/ Fault  BY <1>1, <1>3, <1>4 DEF CallStep, Fault
<1>5. CASE JobStep
  <2>1. PICK s \in Slots : Take(s) \/ Succeed(s) \/ FailJob(s)  BY <1>5 DEF JobStep
  <2>2. PICK task : worker' = [worker EXCEPT ![s] = task] /\ task.expired = FALSE
    <3>1. CASE Take(s)
      <4>1. PICK j, pc : worker' = [worker EXCEPT ![s] =
                                      [IdleWorker EXCEPT !.job = j, !.pc = pc]]
        BY <3>1 DEF Take
      <4>2. [IdleWorker EXCEPT !.job = j, !.pc = pc].expired = FALSE  BY DEF IdleWorker
      <4> QED  BY <4>1, <4>2
    <3>2. CASE Succeed(s) \/ FailJob(s)
      <4>1. worker' = [worker EXCEPT ![s] = IdleWorker]  BY <3>2 DEF Succeed, FailJob
      <4>2. IdleWorker.expired = FALSE  BY DEF IdleWorker
      <4> QED  BY <4>1, <4>2
    <3> QED  BY <2>1, <3>1, <3>2
  <2> QED  BY <1>0, <2>2 DEF NoneExpired
<1>6. CASE Crash  BY <1>6 DEF Crash, NoneExpired, IdleWorker
<1>7. CASE Publish \/ Request \/ Restart \/ UNCHANGED vars
  <2>1. UNCHANGED worker
    BY <1>7 DEF Publish, Request, ReanalyzeAllLoad, ReanalyzeLoad, RetryDead, Restart,
                RecoverJob, vars, memory
  <2> QED  BY <1>2, <2>1
<1>8. CASE \E s \in Slots : Outage(s) \/ Expire(s)
  BY <1>1, <1>8 DEF Outage
<1> QED  BY <1>4, <1>5, <1>6, <1>7, <1>8 DEF Next

\* A step in which every call works lets go of no release, unless it is a crash.
LEMMA WorkingHolds ==
    ASSUME Refers, Grows, NoneExpired, WorkingStep
    PROVE  Crash \/ (HoldsOn /\ (startup.pc = "jobs" =>
                         startup'.pc = "jobs" \/ \A v \in InFlight' : Held(v)'))
<1>1. CASE CallStep
  <2>1. CASE PollStep(TRUE)
    <3>1. UNCHANGED startup  BY <2>1 DEF PollStep, PollStart, PollCreate, PollEnqueue
    <3> QED  BY <2>1, <3>1, PollerHolds
  <2>2. CASE \E s \in Slots : HandlerStep(s, ~worker[s].expired)
    <3>1. PICK s \in Slots : HandlerStep(s, TRUE)  BY <2>2 DEF NoneExpired
    <3>2. UNCHANGED startup  BY <3>1 DEF HandlerStep
    <3> QED  BY <3>1, <3>2, HandlersHold
  <2>3. CASE \E a \in Admins : AdminStep(a, TRUE)
    <3>1. UNCHANGED startup
      BY <2>3 DEF AdminStep, ReanalyzeStatus, ReanalyzeEnqueue, ReanalyzeAllEnqueue
    <3> QED  BY <2>3, <3>1, AdminsHold
  <2>4. CASE RecoverStep(TRUE)  BY <2>4, RecoveryHolds
  <2> QED  BY <1>1, <2>1, <2>2, <2>3, <2>4 DEF CallStep
<1>2. CASE JobStep
  <2>1. UNCHANGED startup  BY <1>2 DEF JobStep, Take, Succeed, FailJob
  <2> QED  BY <1>2, <2>1, TakesHold, ReportsHold DEF JobStep
<1>3. CASE Restart \/ \E j \in DOMAIN jobs : RetryDead(j)
  <2>1. UNCHANGED startup  BY <1>3 DEF Restart, RetryDead, RecoverJob, memory
  <2> QED  BY <1>3, <2>1, PushesHold DEF Restart
<1>4. CASE \E a \in Admins :
              ReanalyzeAllLoad(a) \/ \E v \in Versions : ReanalyzeLoad(a, v, TRUE)
  <2>1. UNCHANGED startup  BY <1>4 DEF ReanalyzeAllLoad, ReanalyzeLoad
  <2> QED  BY <1>4, <2>1, LoadsHold
<1>5. CASE \E s \in Slots : Outage(s)
  <2>1. PICK s \in Slots : HandlerStep(s, FALSE) /\ worker[s].pc \in {"fetch", "judge"}
    BY <1>5 DEF Outage
  <2>2. UNCHANGED startup  BY <2>1 DEF HandlerStep
  <2> QED  BY <2>1, <2>2, HandlersHold
<1>6. ASSUME UNCHANGED <<status, jobs, diffs, poller, admin, startup>>,
             \A s \in Slots : worker'[s].job = worker[s].job /\ worker'[s].pc = worker[s].pc
      PROVE  HoldsOn
  <2> SUFFICES ASSUME NEW v \in Unsettled', Held(v) PROVE Held(v)'
    BY <1>6 DEF HoldsOn
  <2>1. ASSUME NEW j \in DOMAIN jobs, Works(j), JobOf(j, v) PROVE Works(j)' /\ JobOf(j, v)'
    BY <1>6, <2>1 DEF Works, JobOf, Busy
  <2>2. ByJob(v) => ByJob(v)'  BY <1>6, <2>1 DEF ByJob
  <2> QED  BY <1>6, <2>2, SameCarriers DEF Held
<1>7. CASE Publish
  <2>1. UNCHANGED <<status, jobs, diffs, poller, admin, startup, worker>>
    BY <1>7 DEF Publish, database, redis, memory
  <2> QED  BY <1>6, <2>1
<1>8. CASE \E s \in Slots : Expire(s)
  <2>1. PICK s \in Slots : worker' = [worker EXCEPT ![s].expired = TRUE]
    BY <1>8 DEF Expire
  <2>2. UNCHANGED <<status, jobs, diffs, poller, admin, startup>>
    BY <1>8 DEF Expire, database, redis
  <2>3. \A t \in Slots : worker'[t].job = worker[t].job /\ worker'[t].pc = worker[t].pc
    BY <2>1 DEF Refers, Types, Task
  <2> QED  BY <1>6, <2>2, <2>3
<1> QED  BY <1>1, <1>2, <1>3, <1>4, <1>5, <1>7, <1>8 DEF WorkingStep

\* While calls work the deadlines hold, what is in flight is in someone's
\* hands, and so is what is pending as long as nothing has crashed.
HeldOK == EveryCallWorked => NoneExpired /\ HeldInFlight /\ HeldUnsettled

LEMMA HeldNext ==
    ASSUME Refers, LeftOK, HeldOK, [Next]_vars
    PROVE  HeldOK'
<1> SUFFICES ASSUME EveryCallWorked' PROVE (NoneExpired /\ HeldInFlight /\ HeldUnsettled)'
  BY DEF HeldOK
<1>1. Spent /\ (WorkingStep \/ UNCHANGED vars)
  BY SpentNext DEF EveryCallWorked
<1>2. EveryCallWorked
  BY <1>1 DEF Spent, LeftOK, EveryCallWorked, Bounds
<1>3. NoneExpired /\ HeldInFlight /\ HeldUnsettled  BY <1>2 DEF HeldOK
<1>4. NoneExpired'
  <2>1. ASSUME NEW s \in Slots, Expire(s) PROVE FALSE
    <3>1. left'.expiries < left.first.expiries  BY <2>1, Spending DEF Expire, Mishaps
    <3> QED  BY <1>1, <3>1 DEF Spent, LeftOK, EveryCallWorked, Bounds
  <2> QED  BY <1>3, <2>1, DeadlinesKept DEF Refers
<1>5. CASE UNCHANGED vars
  <2>1. UNCHANGED <<status, jobs, diffs, poller, worker, admin, startup, left>>
    BY <1>5 DEF vars, database, redis, memory
  <2>2. \A v : Held(v) => Held(v)'
    BY <2>1 DEF Held, ByJob, ByPoller, ByAdmin, ByStartup, Works, JobOf, Busy
  <2>3. InFlight' = InFlight /\ Unsettled' = Unsettled  BY <2>1 DEF InFlight, Unsettled
  <2> QED  BY <1>2, <1>3, <1>4, <2>1, <2>2, <2>3 DEF HeldInFlight, HeldUnsettled
<1>6. CASE Crash
  <2>1. startup'.pc = "jobs"  BY <1>6 DEF Crash
  <2>2. left'.crashes < left.first.crashes  BY <1>6, Spending DEF Crash, Mishaps
  <2>3. left'.crashes # left'.first.crashes
    BY <1>1, <2>2 DEF Spent, LeftOK, Bounds
  <2> QED  BY <1>4, <2>1, <2>3 DEF HeldInFlight, HeldUnsettled
<1>7. CASE WorkingStep /\ ~Crash
  <2>1. Grows  BY RefersNext
  <2>2. /\ HoldsOn
        /\ startup.pc = "jobs" => startup'.pc = "jobs" \/ \A v \in InFlight' : Held(v)'
    BY <1>3, <1>7, <2>1, WorkingHolds
  <2>3. InFlight' \subseteq Unsettled'  BY DEF InFlight, Unsettled
  <2>4. HeldInFlight'
    <3> SUFFICES ASSUME startup'.pc # "jobs", startup.pc # "jobs", NEW v \in InFlight'
                 PROVE  Held(v)'
      BY <2>2 DEF HeldInFlight
    <3>1. \A u \in InFlight : Held(u)  BY <1>2, <1>3 DEF HeldInFlight
    <3>2. status'[v] # status[v] \/ v \in InFlight  BY DEF InFlight
    <3> QED  BY <2>2, <2>3, <3>1, <3>2 DEF HoldsOn
  <2>5. HeldUnsettled'
    <3> SUFFICES ASSUME left'.crashes = left'.first.crashes, NEW v \in Unsettled'
                 PROVE  Held(v)'
      BY DEF HeldUnsettled
    <3>1. left.crashes = left.first.crashes  BY <1>1 DEF Spent, LeftOK, Bounds
    <3>2. \A u \in Unsettled : Held(u)  BY <1>2, <1>3, <3>1 DEF HeldUnsettled
    <3>3. status'[v] # status[v] \/ v \in Unsettled  BY DEF Unsettled
    <3> QED  BY <2>2, <3>2, <3>3 DEF HoldsOn
  <2> QED  BY <1>4, <2>4, <2>5
<1> QED  BY <1>1, <1>5, <1>6, <1>7

LEMMA HeldInit == Init => HeldOK
<1> SUFFICES ASSUME Init PROVE HeldOK  OBVIOUS
<1>1. NoneExpired  BY DEF Init, NoneExpired, IdleWorker
<1>2. InFlight = {} /\ Unsettled = {}  BY DEF Init, InFlight, Unsettled
<1> QED  BY <1>1, <1>2 DEF HeldOK, HeldInFlight, HeldUnsettled

LEMMA HeldInvariant == Spec => []HeldOK
<1>1. Refers /\ LeftOK /\ HeldOK /\ [Next]_vars => HeldOK'  BY HeldNext
<1> QED  BY <1>1, HeldInit, LeftInvariant, PipelineRefers, PTL DEF Spec

\* When the server is up, what holds a release is what carries it.
LEMMA HeldIsCarried ==
    ASSUME Refers, startup.pc = "up", NEW v, Held(v)
    PROVE  Carried(v)
<1>1. ~ByStartup(v)  BY DEF ByStartup
<1>2. CASE ByJob(v)
  <2>1. PICK j \in DOMAIN jobs : Works(j) /\ JobOf(j, v)  BY <1>2 DEF ByJob
  <2>2. jobs[j].state \in {"waiting", "running", "dead"}
    BY <2>1 DEF Works, Busy, Refers, WorkerRefers
  <2> QED  BY <2>1, <2>2 DEF Carried
<1>3. CASE ByPoller(v) \/ ByAdmin(v)  BY <1>3 DEF ByPoller, ByAdmin, Carried
<1> QED  BY <1>1, <1>2, <1>3 DEF Held

\* While the server is up and its calls work, a release that shows as diffing or
\* analyzing has a job behind it, in Redis or about to be; crashes and restarts
\* included.
THEOREM InFlightCarried == Spec => []InFlightIsCarried
<1>1. Refers /\ HeldOK => InFlightIsCarried
  <2> SUFFICES ASSUME Refers, HeldOK, startup.pc = "up", EveryCallWorked, NEW v \in InFlight
               PROVE  Carried(v)
    BY DEF InFlightIsCarried
  <2>1. Held(v)  BY DEF HeldOK, HeldInFlight
  <2> QED  BY <2>1, HeldIsCarried
<1> QED  BY <1>1, HeldInvariant, PipelineRefers, PTL

\* As long as no call has failed, no deadline has passed and nothing has crashed,
\* a release that shows as pending has a job behind it, or its creator is about
\* to queue one.
THEOREM PendingCarried ==
    Spec => [](EveryCallWorked /\ left.crashes = left.first.crashes => PendingIsCarried)
<1>1. Refers /\ HeldOK =>
         (EveryCallWorked /\ left.crashes = left.first.crashes => PendingIsCarried)
  <2> SUFFICES ASSUME Refers, HeldOK, startup.pc = "up", EveryCallWorked,
                      left.crashes = left.first.crashes,
                      NEW v \in Versions, status[v] = "pending"
               PROVE  Carried(v)
    BY DEF PendingIsCarried
  <2>1. Held(v)  BY DEF HeldOK, HeldUnsettled, Unsettled
  <2> QED  BY <2>1, HeldIsCarried
<1> QED  BY <1>1, HeldInvariant, PipelineRefers, PTL

-----------------------------------------------------------------------------
(* The alerts of flagged analyses                                          *)

FlaggedIsDue ==
    \A a \in DOMAIN analyses : analyses[a].flagged => a \in alerts \/ AlertDue(a)

\* Who is about to raise an alert stays so until he raises it, or the server
\* crashes.
LEMMA AlertsKept ==
    ASSUME Types, [Next]_vars, ~Crash, NEW s \in Slots, worker[s].pc = "alert"
    PROVE  \/ worker'[s].pc = "alert" /\ worker'[s].made = worker[s].made
           \/ \E ok \in BOOLEAN : RaiseAlert(s, ok) /\ (ok \/ worker[s].expired \/ Fault)
<1> DEFINE Same == worker'[s].pc = worker[s].pc /\ worker'[s].made = worker[s].made
<1>0. worker \in [Slots -> Task]  BY DEF Types
<1>1. ASSUME NEW t \in Slots, NEW ok \in BOOLEAN, HandlerStep(t, ok)
      PROVE  Same \/ (t = s /\ RaiseAlert(s, ok))
  <2>1. CASE t = s
    <3>1. RaiseAlert(s, ok)
      BY <1>1, <2>1 DEF HandlerStep, DiffStep, AnalyzeStep, DiffBegin, DiffPrevious, DiffBaseline,
         DiffFetch, DiffMarkError, DiffStore, DiffAnalyzing, DiffHandOff, Judge, AnalyzeComplete
    <3> QED  BY <2>1, <3>1
  <2>2. CASE t # s
    <3>1. PICK pc, made : Goto(t, pc) \/ GotoMade(t, pc, made)  BY <1>1, HandlerGoes
    <3> QED  BY <1>0, <2>2, <3>1 DEF Goto, GotoMade
  <2> QED  BY <2>1, <2>2
<1>2. ASSUME NEW ok, PollStep(ok) \/ RecoverStep(ok) \/ \E a \in Admins : AdminStep(a, ok)
      PROVE  Same
  BY <1>2 DEF PollStep, PollStart, PollCreate, PollEnqueue, RecoverStep, RecoverScan,
              RecoverRelease, RecoverEnqueue, AdminStep, ReanalyzeStatus, ReanalyzeEnqueue,
              ReanalyzeAllEnqueue
<1>3. CASE CallStep
  <2>1. CASE \E t \in Slots : HandlerStep(t, ~worker[t].expired)
    <3>1. PICK t \in Slots : HandlerStep(t, ~worker[t].expired)  BY <2>1
    <3>2. Same \/ (t = s /\ RaiseAlert(s, ~worker[t].expired))
      <4>1. PICK ok \in BOOLEAN : ok = ~worker[t].expired  OBVIOUS
      <4> QED  BY <1>1, <3>1, <4>1
    <3> QED  BY <3>2
  <2> QED  BY <1>2, <1>3, <2>1 DEF CallStep
<1>4. CASE Fault  BY <1>1, <1>2, <1>4 DEF Fault
<1>5. CASE \E t \in Slots : Outage(t) \/ Expire(t)
  <2>1. ASSUME NEW t \in Slots, Outage(t) PROVE Same
    <3>1. HandlerStep(t, FALSE) /\ worker[t].pc # "alert"  BY <2>1 DEF Outage
    <3> QED  BY <1>1, <3>1
  <2>2. ASSUME NEW t \in Slots, Expire(t) PROVE Same
    BY <1>0, <2>2 DEF Expire, Task
  <2> QED  BY <1>5, <2>1, <2>2
<1>6. CASE JobStep
  <2>1. PICK t \in Slots : Take(t) \/ Succeed(t) \/ FailJob(t)  BY <1>6 DEF JobStep
  <2>2. t # s  BY <2>1 DEF Take, Succeed, FailJob
  <2>3. \E task : worker' = [worker EXCEPT ![t] = task]
    BY <2>1 DEF Take, Succeed, FailJob
  <2> QED  BY <1>0, <2>2, <2>3
<1>7. CASE Publish \/ Request \/ Restart \/ UNCHANGED vars
  BY <1>7 DEF Publish, Request, ReanalyzeAllLoad, ReanalyzeLoad, RetryDead, Restart,
              RecoverJob, vars, memory
<1> QED  BY <1>3, <1>4, <1>5, <1>6, <1>7 DEF Next

\* The verdicts and the alerts are written by the analyzer only.
LEMMA OnlyAnalyzerWrites ==
    ASSUME [Next]_vars
    PROVE  \/ UNCHANGED <<analyses, alerts>>
           \/ \E s \in Slots, ok \in BOOLEAN : Judge(s, ok) \/ RaiseAlert(s, ok)
<1>1. ASSUME NEW s \in Slots, NEW ok, HandlerStep(s, ok)
      PROVE  UNCHANGED <<analyses, alerts>> \/ Judge(s, ok) \/ RaiseAlert(s, ok)
  BY <1>1 DEF HandlerStep, DiffStep, AnalyzeStep, DiffBegin, DiffPrevious, DiffBaseline,
     DiffFetch, DiffMarkError, DiffStore, DiffAnalyzing, DiffHandOff, AnalyzeComplete, database
<1>2. ASSUME NEW ok, PollStep(ok) \/ RecoverStep(ok) \/ \E a \in Admins : AdminStep(a, ok)
      PROVE  UNCHANGED <<analyses, alerts>>
  BY <1>2 DEF PollStep, PollStart, PollCreate, PollEnqueue, RecoverStep, RecoverScan,
              RecoverRelease, RecoverEnqueue, AdminStep, ReanalyzeStatus, ReanalyzeEnqueue,
              ReanalyzeAllEnqueue, database
<1>3. CASE CallStep
  <2>1. ASSUME NEW s \in Slots, HandlerStep(s, ~worker[s].expired)
        PROVE  UNCHANGED <<analyses, alerts>>
               \/ \E ok \in BOOLEAN : Judge(s, ok) \/ RaiseAlert(s, ok)
    <3>1. PICK ok \in BOOLEAN : ok = ~worker[s].expired  OBVIOUS
    <3> QED  BY <1>1, <2>1, <3>1
  <2> QED  BY <1>2, <1>3, <2>1 DEF CallStep
<1>4. CASE Fault  BY <1>1, <1>2, <1>4 DEF Fault
<1>5. CASE \E s \in Slots : Outage(s) \/ Expire(s)
  BY <1>1, <1>5 DEF Outage, Expire, database
<1>6. CASE Publish \/ JobStep \/ Request \/ Restart \/ Crash \/ UNCHANGED vars
  BY <1>6 DEF Publish, JobStep, Take, Succeed, FailJob, Request, ReanalyzeAllLoad,
              ReanalyzeLoad, RetryDead, Restart, RecoverJob, Crash, vars, database
<1> QED  BY <1>3, <1>4, <1>5, <1>6 DEF Next

LEMMA FlaggedNext ==
    ASSUME Refers, LeftOK, HeldOK, [Next]_vars,
           EveryCallWorked /\ left.crashes = left.first.crashes => FlaggedIsDue
    PROVE  (EveryCallWorked /\ left.crashes = left.first.crashes => FlaggedIsDue)'
<1> SUFFICES ASSUME EveryCallWorked', left'.crashes = left'.first.crashes
             PROVE  FlaggedIsDue'
  OBVIOUS
<1>1. Spent  BY SpentNext
<1>2. EveryCallWorked /\ left.crashes = left.first.crashes /\ Types /\ NoneExpired
  BY <1>1 DEF Spent, LeftOK, EveryCallWorked, Bounds, HeldOK, Refers
<1>3. ~Crash /\ ~Fault
  <2>1. ASSUME Crash PROVE FALSE
    <3>1. left'.crashes < left.first.crashes  BY <2>1, Spending DEF Crash, Mishaps
    <3> QED  BY <1>1, <3>1 DEF Spent, LeftOK, Bounds
  <2>2. ASSUME Fault PROVE FALSE
    <3>1. left'.faults < left.first.faults  BY <2>2, Spending DEF Fault, Mishaps
    <3> QED  BY <1>1, <3>1 DEF Spent, LeftOK, EveryCallWorked, Bounds
  <2> QED  BY <2>1, <2>2
<1>4. analyses \in Seq([diff : Nat, flagged : BOOLEAN]) /\ worker \in [Slots -> Task]
  BY <1>2 DEF Types
<1>5. ASSUME NEW a \in DOMAIN analyses, a \in DOMAIN analyses', alerts \subseteq alerts',
             analyses'[a] = analyses[a], analyses'[a].flagged
      PROVE  a \in alerts' \/ AlertDue(a)'
  <2>1. a \in alerts \/ AlertDue(a)  BY <1>2, <1>5 DEF FlaggedIsDue
  <2>2. CASE AlertDue(a)
    <3>1. PICK s \in AnalyzeSlots : worker[s].pc = "alert" /\ worker[s].made = a
      BY <2>2 DEF AlertDue
    <3>2. s \in Slots  BY DEF Slots
    <3>3. CASE worker'[s].pc = "alert" /\ worker'[s].made = worker[s].made
      BY <3>1, <3>3 DEF AlertDue
    <3>4. CASE RaiseAlert(s, TRUE)
      BY <3>1, <3>4 DEF RaiseAlert
    <3>5. ~worker[s].expired  BY <1>2, <3>2 DEF NoneExpired
    <3> QED  BY <1>2, <1>3, <3>1, <3>2, <3>3, <3>4, <3>5, AlertsKept
  <2> QED  BY <1>5, <2>1, <2>2
<1>6. CASE UNCHANGED <<analyses, alerts>>  BY <1>5, <1>6 DEF FlaggedIsDue
<1>7. ASSUME NEW s \in Slots, NEW ok \in BOOLEAN, RaiseAlert(s, ok) PROVE FlaggedIsDue'
  <2>1. UNCHANGED analyses /\ alerts \subseteq alerts'  BY <1>7 DEF RaiseAlert
  <2> QED  BY <1>5, <2>1 DEF FlaggedIsDue
<1>8. ASSUME NEW s \in Slots, NEW ok \in BOOLEAN, Judge(s, ok) PROVE FlaggedIsDue'
  <2>1. UNCHANGED alerts /\ worker[s].pc = "judge"  BY <1>8 DEF Judge
  <2>2. CASE UNCHANGED analyses  BY <1>6, <2>1, <2>2
  <2>3. ASSUME NEW flagged \in BOOLEAN,
               analyses' = Append(analyses, [diff |-> Ref(s), flagged |-> flagged]),
               GotoMade(s, IF flagged THEN "alert" ELSE "complete", Len(analyses) + 1)
        PROVE  FlaggedIsDue'
    <3> DEFINE row == [diff |-> Ref(s), flagged |-> flagged]
    <3>1. s \in AnalyzeSlots /\ Ref(s) \in DOMAIN diffs
      BY <2>1, Handling DEF AnalyzePcs
    <3>2. row \in [diff : Nat, flagged : BOOLEAN] /\ row.flagged = flagged
      <4>1. DOMAIN diffs \subseteq Nat  BY <1>2 DEF Types
      <4> QED  BY <3>1, <4>1
    <3> HIDE DEF row
    <3>3. PICK n \in Nat : n = Len(analyses) + 1  BY <1>4
    <3>4. analyses' = Append(analyses, row)  BY <2>3 DEF row
    <3>5. /\ DOMAIN analyses' = DOMAIN analyses \cup {n} /\ analyses'[n] = row
          /\ \A i \in DOMAIN analyses : analyses'[i] = analyses[i]
      BY <1>4, <3>2, <3>3, <3>4, Longer
    <3>6. flagged => AlertDue(n)'
      <4>1. flagged => GotoMade(s, "alert", n)  BY <2>3, <3>3
      <4> QED  BY <1>4, <3>1, <4>1 DEF GotoMade, AlertDue, Task
    <3>7. \A a \in DOMAIN analyses :
             analyses'[a].flagged => a \in alerts' \/ AlertDue(a)'
      BY <1>5, <2>1, <3>5
    <3>8. analyses'[n].flagged => AlertDue(n)'  BY <3>2, <3>5, <3>6
    <3> QED  BY <3>5, <3>7, <3>8 DEF FlaggedIsDue
  <2> QED  BY <1>8, <2>2, <2>3 DEF Judge
<1> QED  BY <1>6, <1>7, <1>8, OnlyAnalyzerWrites

\* As long as no call has failed, no deadline has passed and nothing has crashed, a
\* completed release with a suspicious or malicious verdict has its alert, or
\* the analyzer is about to create it.
THEOREM FlaggedAlerted ==
    Spec => [](EveryCallWorked /\ left.crashes = left.first.crashes => FlaggedHasAlert)
<1> DEFINE Inv == EveryCallWorked /\ left.crashes = left.first.crashes => FlaggedIsDue
<1>1. Init => Inv  BY DEF Init, FlaggedIsDue
<1>2. Refers /\ LeftOK /\ HeldOK /\ Inv /\ [Next]_vars => Inv'  BY FlaggedNext
<1>3. FlaggedIsDue => FlaggedHasAlert  BY DEF FlaggedIsDue, FlaggedHasAlert
<1> QED  BY <1>1, <1>2, <1>3, HeldInvariant, LeftInvariant, PipelineRefers, PTL DEF Spec

-----------------------------------------------------------------------------
(* One job at a time                                                       *)

Quiet == left.calls = left.first.calls /\ left.crashes = left.first.crashes

NobodyAsks == startup.pc = "up" /\ \A a \in Admins : admin[a].pc = "idle"

\* What the poller will create is not known yet, and what it has just created
\* has no job.
CreatedOnce ==
    /\ Rest \cap Known = {}
    /\ \A v \in Versions : ByPoller(v) => \A j \in DOMAIN jobs : ~JobOf(j, v)

OneJob ==
    \A v \in Versions : \A i, j \in DOMAIN jobs :
        Works(i) /\ JobOf(i, v) /\ Works(j) /\ JobOf(j, v) => i = j

AtRestOnceCompleted ==
    \A v \in Versions : status[v] = "completed" => ~ByPoller(v) /\ ~ByJob(v)

Alone == NobodyAsks /\ CreatedOnce /\ OneJob /\ AtRestOnceCompleted

\* What a handler's call does: it may write the status of its release, and only
\* its last call completes it or queues the analysis.
Effect(s, r, pc, ok) ==
    /\ JobOf(worker[s].job, r) /\ Busy(s)
    /\ worker'[s].pc = pc /\ worker'[s].job = worker[s].job
    /\ \A t \in Slots : t # s => worker'[t] = worker[t]
    /\ \A v \in Versions : v # r => status'[v] = status[v]
    /\ status'[r] = "completed" => pc = "succeeded" \/ status[r] = "completed"
    /\ UNCHANGED <<poller, admin, startup>>
    /\ \/ UNCHANGED jobs
       \/ /\ \E d \in Nat : Enqueue("analyze", d, ok) /\ diffs[d].release = r
          /\ UNCHANGED <<status, diffs>>
          /\ ok => pc = "succeeded"

LEMMA HandlerEffect ==
    ASSUME Refers, NEW s \in Slots, NEW ok \in BOOLEAN, HandlerStep(s, ok)
    PROVE  \E r \in Versions, pc \in WorkerPcs \ {"idle"} : Effect(s, r, pc, ok)
<1> USE DEF DiffPcs, AnalyzePcs, WorkerPcs
<1>0. /\ Types /\ UNCHANGED <<poller, admin, startup>> /\ Known \subseteq Versions
      /\ worker[s].made \in Nat /\ Versions \subseteq Nat /\ worker \in [Slots -> Task]
      /\ Len(diffs) + 1 \in Nat /\ Len(analyses) + 1 \in Nat
  BY Numbers DEF Refers, HandlerStep, Types, Task
<1>g. ASSUME NEW pc \in WorkerPcs, Goto(s, pc)
      PROVE  /\ worker'[s].pc = pc /\ worker'[s].job = worker[s].job
             /\ \A t \in Slots : t # s => worker'[t] = worker[t]
  BY <1>0, <1>g, WentTo
<1>m. ASSUME NEW pc \in WorkerPcs, NEW made, GotoMade(s, pc, made)
      PROVE  /\ worker'[s].pc = pc /\ worker'[s].job = worker[s].job
             /\ \A t \in Slots : t # s => worker'[t] = worker[t]
  BY <1>0, <1>m DEF GotoMade, Task
<1>d. ASSUME worker[s].pc \in DiffPcs
      PROVE  \E r \in Versions : r = Ref(s) /\ JobOf(worker[s].job, r) /\ Busy(s)
  <2>1. s \in DiffSlots /\ worker[s].pc # "idle"  BY <1>d, Handling
  <2>2. Ref(s) \in Known /\ KindOf(s) = "diff"  BY <2>1, Handling
  <2>3. jobs[worker[s].job].kind = "diff"  BY <2>1, <2>2 DEF Refers, WorkerRefers
  <2> QED  BY <1>0, <1>d, <2>2, <2>3 DEF JobOf, Ref, Busy
<1>a. ASSUME worker[s].pc \in AnalyzePcs
      PROVE  \E r \in Versions : r = ReleaseOf(s) /\ JobOf(worker[s].job, r) /\ Busy(s)
  <2>1. s \in AnalyzeSlots /\ worker[s].pc # "idle"  BY <1>a, Handling
  <2>2. ReleaseOf(s) \in Known /\ KindOf(s) = "analyze"  BY <2>1, Handling
  <2>3. jobs[worker[s].job].kind = "analyze"  BY <2>1, <2>2 DEF Refers, WorkerRefers
  <2> QED  BY <1>0, <1>a, <2>2, <2>3 DEF JobOf, Ref, ReleaseOf, Busy
<1>1. CASE DiffBegin(s, ok)
  <2>1. /\ worker[s].pc \in DiffPcs /\ UNCHANGED jobs
        /\ SetStatus(Ref(s), "diffing", ok) \/ UNCHANGED status
        /\ Goto(s, "previous") \/ Goto(s, "failed")
    BY <1>1 DEF DiffBegin, redis
  <2>2. PICK r \in Versions : r = Ref(s) /\ JobOf(worker[s].job, r) /\ Busy(s)
    BY <1>d, <2>1
  <2>3. /\ \A v \in Versions : v # r => status'[v] = status[v]
        /\ status'[r] = status[r] \/ status'[r] = "diffing"
    BY <1>0, <2>1, <2>2, OneSet DEF SetStatus
  <2> QED  BY <1>0, <1>g, <2>1, <2>2, <2>3 DEF Effect
<1>2. CASE DiffPrevious(s, ok)
  <2>1. /\ worker[s].pc \in DiffPcs /\ UNCHANGED <<jobs, status>>
        /\ \E pc \in {"fetch", "baseline"} : \E made : Goto(s, pc) \/ GotoMade(s, pc, made)
    BY <1>2 DEF DiffPrevious, redis, database
  <2>2. PICK r \in Versions : r = Ref(s) /\ JobOf(worker[s].job, r) /\ Busy(s)
    BY <1>d, <2>1
  <2> QED  BY <1>0, <1>g, <1>m, <2>1, <2>2 DEF Effect
<1>3. CASE DiffBaseline(s, ok)
  <2>1. /\ worker[s].pc \in DiffPcs /\ UNCHANGED jobs
        /\ SetStatus(Ref(s), "completed", ok)
        /\ Goto(s, "succeeded")
    BY <1>3 DEF DiffBaseline, redis
  <2>2. PICK r \in Versions : r = Ref(s) /\ JobOf(worker[s].job, r) /\ Busy(s)
    BY <1>d, <2>1
  <2>3. /\ \A v \in Versions : v # r => status'[v] = status[v]
        /\ status'[r] = status[r] \/ status'[r] = "completed"
    BY <1>0, <2>1, <2>2, OneSet DEF SetStatus
  <2> QED  BY <1>0, <1>g, <2>1, <2>2, <2>3 DEF Effect
<1>4. CASE DiffFetch(s, ok)
  <2>1. /\ worker[s].pc \in DiffPcs /\ UNCHANGED <<jobs, status>>
        /\ \E pc \in {"store", "marking"} : \E made : Goto(s, pc) \/ GotoMade(s, pc, made)
    BY <1>4 DEF DiffFetch, redis, database
  <2>2. PICK r \in Versions : r = Ref(s) /\ JobOf(worker[s].job, r) /\ Busy(s)
    BY <1>d, <2>1
  <2> QED  BY <1>0, <1>g, <1>m, <2>1, <2>2 DEF Effect
<1>5. CASE DiffMarkError(s, ok)
  <2>1. /\ worker[s].pc \in DiffPcs /\ UNCHANGED jobs
        /\ SetStatus(Ref(s), "error", ok)
        /\ Goto(s, "failed")
    BY <1>5 DEF DiffMarkError, redis
  <2>2. PICK r \in Versions : r = Ref(s) /\ JobOf(worker[s].job, r) /\ Busy(s)
    BY <1>d, <2>1
  <2>3. /\ \A v \in Versions : v # r => status'[v] = status[v]
        /\ status'[r] = status[r] \/ status'[r] = "error"
    BY <1>0, <2>1, <2>2, OneSet DEF SetStatus
  <2> QED  BY <1>0, <1>g, <2>1, <2>2, <2>3 DEF Effect
<1>6. CASE DiffStore(s, ok)
  <2>1. /\ worker[s].pc \in DiffPcs /\ UNCHANGED <<jobs, status>>
        /\ \E pc \in {"stored", "marking"} : \E made : Goto(s, pc) \/ GotoMade(s, pc, made)
    BY <1>6 DEF DiffStore, redis, database
  <2>2. PICK r \in Versions : r = Ref(s) /\ JobOf(worker[s].job, r) /\ Busy(s)
    BY <1>d, <2>1
  <2> QED  BY <1>0, <1>g, <1>m, <2>1, <2>2 DEF Effect
<1>7. CASE DiffAnalyzing(s, ok)
  <2>1. /\ worker[s].pc \in DiffPcs /\ UNCHANGED jobs
        /\ SetStatus(Ref(s), "analyzing", ok)
        /\ Goto(s, "handoff")
    BY <1>7 DEF DiffAnalyzing, redis
  <2>2. PICK r \in Versions : r = Ref(s) /\ JobOf(worker[s].job, r) /\ Busy(s)
    BY <1>d, <2>1
  <2>3. /\ \A v \in Versions : v # r => status'[v] = status[v]
        /\ status'[r] = status[r] \/ status'[r] = "analyzing"
    BY <1>0, <2>1, <2>2, OneSet DEF SetStatus
  <2> QED  BY <1>0, <1>g, <2>1, <2>2, <2>3 DEF Effect
<1>8. CASE DiffHandOff(s, ok)
  <2>1. /\ worker[s].pc = "handoff" /\ UNCHANGED <<status, diffs>>
        /\ Enqueue("analyze", worker[s].made, ok)
    BY <1>8 DEF DiffHandOff, database
  <2>2. PICK pc \in {"succeeded", "failed"} : Goto(s, pc) /\ (ok => pc = "succeeded")
    BY <1>8 DEF DiffHandOff
  <2>3. PICK r \in Versions : r = Ref(s) /\ JobOf(worker[s].job, r) /\ Busy(s)  BY <1>d, <2>1
  <2>4. diffs[worker[s].made].release = r  BY <2>1, <2>3 DEF Refers, WorkerRefers
  <2>5. \E d \in Nat : Enqueue("analyze", d, ok) /\ diffs[d].release = r  BY <1>0, <2>1, <2>4
  <2> QED  BY <1>0, <1>g, <2>1, <2>2, <2>3, <2>5 DEF Effect
<1>9. CASE Judge(s, ok)
  <2>1. /\ worker[s].pc \in AnalyzePcs /\ UNCHANGED <<jobs, status>>
        /\ \E pc \in {"alert", "complete", "failed"} : \E made : Goto(s, pc) \/ GotoMade(s, pc, made)
    BY <1>9 DEF Judge, redis, database
  <2>2. PICK r \in Versions : r = ReleaseOf(s) /\ JobOf(worker[s].job, r) /\ Busy(s)
    BY <1>a, <2>1
  <2> QED  BY <1>0, <1>g, <1>m, <2>1, <2>2 DEF Effect
<1>10. CASE RaiseAlert(s, ok)
  <2>1. /\ worker[s].pc \in AnalyzePcs /\ UNCHANGED <<jobs, status>>
        /\ \E pc \in {"complete"} : \E made : Goto(s, pc) \/ GotoMade(s, pc, made)
    BY <1>10 DEF RaiseAlert, redis, database
  <2>2. PICK r \in Versions : r = ReleaseOf(s) /\ JobOf(worker[s].job, r) /\ Busy(s)
    BY <1>a, <2>1
  <2> QED  BY <1>0, <1>g, <1>m, <2>1, <2>2 DEF Effect
<1>11. CASE AnalyzeComplete(s, ok)
  <2>1. /\ worker[s].pc \in AnalyzePcs /\ UNCHANGED jobs
        /\ SetStatus(ReleaseOf(s), "completed", ok)
        /\ Goto(s, "succeeded")
    BY <1>11 DEF AnalyzeComplete, redis
  <2>2. PICK r \in Versions : r = ReleaseOf(s) /\ JobOf(worker[s].job, r) /\ Busy(s)
    BY <1>a, <2>1
  <2>3. /\ \A v \in Versions : v # r => status'[v] = status[v]
        /\ status'[r] = status[r] \/ status'[r] = "completed"
    BY <1>0, <2>1, <2>2, OneSet DEF SetStatus
  <2> QED  BY <1>0, <1>g, <2>1, <2>2, <2>3 DEF Effect
<1> QED
  BY <1>1, <1>2, <1>3, <1>4, <1>5, <1>6, <1>7, <1>8, <1>9, <1>10, <1>11
  DEF HandlerStep, DiffStep, AnalyzeStep

\* Nothing new works, and nothing is completed.
LEMMA AloneKept ==
    ASSUME Refers, Grows, Alone, NobodyAsks', CreatedOnce',
           \A j \in DOMAIN jobs' : Works(j)' => j \in DOMAIN jobs /\ Works(j),
           \A v \in Versions : status'[v] = "completed" =>
               status[v] = "completed" /\ (ByPoller(v)' => ByPoller(v))
    PROVE  Alone'
<1>1. ASSUME NEW v \in Versions, NEW j \in DOMAIN jobs', Works(j)', JobOf(j, v)'
      PROVE  j \in DOMAIN jobs /\ Works(j) /\ JobOf(j, v)
  BY <1>1, JobOfKept
<1>2. OneJob'  BY <1>1 DEF Alone, OneJob
<1>3. AtRestOnceCompleted'
  <2> SUFFICES ASSUME NEW v \in Versions, status'[v] = "completed"
               PROVE  ~ByPoller(v)' /\ ~ByJob(v)'
    BY DEF AtRestOnceCompleted
  <2>1. ~ByPoller(v) /\ ~ByJob(v) /\ (ByPoller(v)' => ByPoller(v))
    BY DEF Alone, AtRestOnceCompleted
  <2>2. ~ByJob(v)'  BY <1>1, <2>1 DEF ByJob
  <2> QED  BY <2>1, <2>2
<1> QED  BY <1>2, <1>3 DEF Alone

LEMMA CreatedStill ==
    ASSUME Refers, Grows, CreatedOnce, UNCHANGED poller, Known' = Known,
           DOMAIN jobs' = DOMAIN jobs
    PROVE  CreatedOnce'
<1>1. Rest' = Rest  BY DEF Rest
<1>2. ASSUME NEW v \in Versions, ByPoller(v)', NEW j \in DOMAIN jobs'
      PROVE  ~JobOf(j, v)'
  <2>1. ByPoller(v) /\ j \in DOMAIN jobs  BY <1>2 DEF ByPoller
  <2> QED  BY <2>1, JobOfKept DEF CreatedOnce
<1> QED  BY <1>1, <1>2 DEF CreatedOnce

\* Queue.Enqueue adds one job at most.
LEMMA SubmittedOne ==
    ASSUME Types, NEW kind, NEW ref, NEW ok, Enqueue(kind, ref, ok)
    PROVE  \A i, j \in DOMAIN jobs' : i \notin DOMAIN jobs /\ j \notin DOMAIN jobs => i = j
<1>1. jobs \in Seq(Job)  BY DEF Types
<1> DEFINE job == [kind |-> kind, ref |-> ref, state |-> "waiting", attempts |-> 0]
<1>2. UNCHANGED jobs \/ jobs' = Append(jobs, job)  BY DEF Enqueue, redis
<1> HIDE DEF job
<1>3. DOMAIN jobs = 1 .. Len(jobs) /\ Len(jobs) \in Nat  BY <1>1
<1>4. DOMAIN Append(jobs, job) = 1 .. Len(jobs) + 1  BY <1>1
<1> QED  BY <1>2, <1>3, <1>4

\* A call of a handler: the job of its release, and only that one, works.
LEMMA HandlersAlone ==
    ASSUME Refers, Grows, Alone, NEW s \in Slots, NEW ok \in BOOLEAN, HandlerStep(s, ok)
    PROVE  /\ Alone'
           /\ \A v \in Versions : status[v] = "completed" => status'[v] = "completed"
<1>1. PICK r \in Versions, pc \in WorkerPcs \ {"idle"} : Effect(s, r, pc, ok)
  BY HandlerEffect
<1>2. /\ JobOf(worker[s].job, r) /\ Busy(s)
      /\ worker'[s].pc = pc /\ worker'[s].job = worker[s].job
      /\ \A t \in Slots : t # s => worker'[t] = worker[t]
      /\ \A v \in Versions : v # r => status'[v] = status[v]
      /\ status'[r] = "completed" => pc = "succeeded" \/ status[r] = "completed"
      /\ UNCHANGED <<poller, admin, startup>>
  BY <1>1 DEF Effect
<1>3. PICK g \in DOMAIN jobs : g = worker[s].job
  BY <1>2 DEF Refers, WorkerRefers, Busy
<1>4. /\ jobs[g].state = "running" /\ Works(g) /\ JobOf(g, r)
      /\ \A t \in Slots : worker[t].job = g /\ Busy(t) => t = s
  BY <1>2, <1>3 DEF Refers, WorkerRefers, OneWorker, Busy, Works
<1>5. ByJob(r)  BY <1>4 DEF ByJob
<1>6. status[r] # "completed"  BY <1>5 DEF Alone, AtRestOnceCompleted
<1>7. \A v \in Versions : status[v] = "completed" => status'[v] = "completed"
  BY <1>2, <1>6
<1>8. \A v \in Versions : status'[v] = "completed" /\ v # r =>
          status[v] = "completed" /\ ~ByPoller(v) /\ ~ByJob(v)
  BY <1>2 DEF Alone, AtRestOnceCompleted
<1>9. ~ByPoller(r)  BY <1>4 DEF Alone, CreatedOnce
<1>10. NobodyAsks' /\ \A v : ByPoller(v)' <=> ByPoller(v)
  BY <1>2 DEF Alone, NobodyAsks, ByPoller
<1>11. Extends(jobs, jobs')
  <2>1. CASE UNCHANGED jobs  BY <2>1 DEF Extends
  <2>2. ASSUME NEW d \in Nat, Enqueue("analyze", d, ok) PROVE Extends(jobs, jobs')
    BY <2>2, EnqueueExtends DEF Kinds
  <2> QED  BY <1>1, <2>1, <2>2 DEF Effect
<1>12. ASSUME NEW j \in DOMAIN jobs, Works(j)' PROVE Works(j) /\ (j = g => pc # "succeeded")
  <2>1. jobs'[j] = jobs[j]  BY <1>11 DEF Extends
  <2>2. CASE j = g
    <3>1. PICK t \in Slots : worker'[t].job = g /\ Busy(t)'
      BY <1>4, <1>12, <2>1, <2>2 DEF Works
    <3>2. t = s
      <4>1. CASE t # s
        <5>1. worker[t].job = g /\ Busy(t)  BY <1>2, <3>1, <4>1 DEF Busy
        <5> QED  BY <1>4, <5>1
      <4> QED  BY <4>1
    <3> QED  BY <1>2, <1>4, <2>2, <3>1, <3>2 DEF Busy
  <2>3. CASE j # g
    <3>1. CASE jobs[j].state \in {"waiting", "dead"}  BY <2>3, <3>1 DEF Works
    <3>2. CASE jobs[j].state \notin {"waiting", "dead"}
      <4>1. PICK t \in Slots : worker'[t].job = j /\ Busy(t)'
        BY <1>12, <2>1, <3>2 DEF Works
      <4>2. t # s  BY <1>2, <1>3, <2>3, <4>1
      <4> QED  BY <1>2, <2>3, <4>1, <4>2 DEF Works, Busy
    <3> QED  BY <3>1, <3>2
  <2> QED  BY <2>2, <2>3
<1>13. Known' = Known  BY HandlersCreateNone
<1>14. CASE UNCHANGED jobs
  <2>1. CreatedOnce'  BY <1>2, <1>13, <1>14, CreatedStill DEF Alone
  <2>2. ASSUME NEW v \in Versions, NEW j \in DOMAIN jobs', Works(j)', JobOf(j, v)'
        PROVE  j \in DOMAIN jobs /\ Works(j) /\ JobOf(j, v) /\ (j = g => pc # "succeeded")
    BY <1>12, <1>14, <2>2, JobOfKept
  <2>3. OneJob'  BY <2>2 DEF Alone, OneJob
  <2>4. ASSUME NEW v \in Versions, status'[v] = "completed"
        PROVE  ~ByPoller(v)' /\ ~ByJob(v)'
    <3>1. CASE v # r  BY <1>8, <1>10, <2>2, <2>4, <3>1 DEF ByJob
    <3>2. CASE v = r
      <4>1. pc = "succeeded"  BY <1>2, <1>6, <2>4, <3>2
      <4>2. ASSUME NEW j \in DOMAIN jobs', Works(j)', JobOf(j, r)' PROVE FALSE
        <5>1. j \in DOMAIN jobs /\ Works(j) /\ JobOf(j, r) /\ j # g  BY <2>2, <4>1, <4>2
        <5> QED  BY <1>4, <5>1 DEF Alone, OneJob
      <4> QED  BY <1>9, <1>10, <3>2, <4>2 DEF ByJob
    <3> QED  BY <3>1, <3>2
  <2>5. AtRestOnceCompleted'  BY <2>4 DEF AtRestOnceCompleted
  <2> QED  BY <1>7, <1>10, <2>1, <2>3, <2>5 DEF Alone
<1>15. ASSUME NEW d \in Nat, Enqueue("analyze", d, ok), diffs[d].release = r,
              UNCHANGED <<status, diffs>>, ok, pc = "succeeded"
       PROVE  Alone'
  <2>1. \A j \in DOMAIN jobs' : j \notin DOMAIN jobs =>
            jobs'[j].kind = "analyze" /\ jobs'[j].ref = d
    BY <1>15, Submitted DEF Refers, Kinds
  <2>2. \A i, j \in DOMAIN jobs' : i \notin DOMAIN jobs /\ j \notin DOMAIN jobs => i = j
    BY <1>15, SubmittedOne DEF Refers, Types, Kinds
  <2>3. \A j \in DOMAIN jobs', v \in Versions :
            j \notin DOMAIN jobs => (JobOf(j, v)' <=> v = r)
    BY <1>15, <2>1 DEF JobOf
  <2>4. ASSUME NEW v \in Versions, NEW j \in DOMAIN jobs, Works(j)', JobOf(j, v)'
        PROVE  Works(j) /\ JobOf(j, v) /\ v # r
    <3>1. Works(j) /\ JobOf(j, v) /\ j # g  BY <1>12, <1>15, <2>4, JobOfKept
    <3>2. v # r  BY <1>4, <3>1 DEF Alone, OneJob
    <3> QED  BY <3>1, <3>2
  <2>5. OneJob'
    <3> SUFFICES ASSUME NEW v \in Versions, NEW i \in DOMAIN jobs', NEW j \in DOMAIN jobs',
                        Works(i)', JobOf(i, v)', Works(j)', JobOf(j, v)'
                 PROVE  i = j
      BY DEF OneJob
    <3>1. CASE v = r  BY <2>2, <2>4, <3>1
    <3>2. CASE v # r
      <4>1. i \in DOMAIN jobs /\ j \in DOMAIN jobs  BY <2>3, <3>2
      <4> QED  BY <2>4, <4>1 DEF Alone, OneJob
    <3> QED  BY <3>1, <3>2
  <2>6. AtRestOnceCompleted'
    <3> SUFFICES ASSUME NEW v \in Versions, status'[v] = "completed"
                 PROVE  ~ByPoller(v)' /\ ~ByJob(v)'
      BY DEF AtRestOnceCompleted
    <3>1. v # r  BY <1>6, <1>15
    <3>2. ~ByPoller(v)' /\ ~ByJob(v)  BY <1>8, <1>10, <3>1
    <3> QED  BY <2>3, <2>4, <3>1, <3>2 DEF ByJob
  <2>7. CreatedOnce'
    <3>1. Rest' \cap Known' = {}  BY <1>2, <1>13 DEF Rest, Alone, CreatedOnce
    <3>2. ASSUME NEW v \in Versions, ByPoller(v)', NEW j \in DOMAIN jobs', JobOf(j, v)'
          PROVE  FALSE
      <4>1. ByPoller(v) /\ v # r  BY <1>9, <1>10, <3>2
      <4>2. j \in DOMAIN jobs  BY <2>3, <3>2, <4>1
      <4> QED  BY <3>2, <4>1, <4>2, JobOfKept DEF Alone, CreatedOnce
    <3> QED  BY <3>1, <3>2 DEF CreatedOnce
  <2> QED  BY <1>10, <2>5, <2>6, <2>7 DEF Alone
<1>16. CASE ~ok /\ ~UNCHANGED jobs
  <2>1. PICK d \in Nat : Enqueue("analyze", d, ok)  BY <1>1, <1>16 DEF Effect
  <2> QED  BY <1>16, <2>1 DEF Enqueue, redis
<1> QED  BY <1>1, <1>7, <1>14, <1>15, <1>16 DEF Effect

\* The poller: what it creates has no job, and gets one.
LEMMA PollerAlone ==
    ASSUME Refers, Grows, Alone, NEW ok \in BOOLEAN, PollStep(ok)
    PROVE  /\ Alone'
           /\ \A v \in Versions : status[v] = "completed" => status'[v] = "completed"
<1>0. /\ Types /\ PollerRefers /\ Versions \subseteq Nat /\ Known \subseteq Versions
      /\ poller.todo \in SUBSET Versions /\ Rest \cap Known = {}
      /\ UNCHANGED <<worker, admin, startup, diffs>> /\ NobodyAsks'
  <2>1. UNCHANGED <<worker, admin, startup, diffs>>
    BY DEF PollStep, PollStart, PollCreate, PollEnqueue, database
  <2> QED  BY <2>1, Numbers DEF Refers, Types, Alone, CreatedOnce, NobodyAsks
<1>1. ASSUME UNCHANGED <<status, jobs>>, ~(poller'.pc = "enqueue"), Rest' \cap Known = {}
      PROVE  Alone'
  <2>1. Known' = Known /\ \A v : ~ByPoller(v)'  BY <1>1 DEF Known, ByPoller
  <2>2. CreatedOnce'  BY <1>1, <2>1 DEF CreatedOnce
  <2>3. \A j \in DOMAIN jobs' : Works(j)' => j \in DOMAIN jobs /\ Works(j)
    BY <1>0, <1>1 DEF Works, Busy
  <2> QED  BY <1>0, <1>1, <2>1, <2>2, <2>3, AloneKept
<1>2. CASE PollStart(ok)
  <2>1. PICK new : /\ new = IF ok /\ Known # {} THEN {v \in 1 .. published : v > Greatest(Known)}
                            ELSE NewestTwo \ Known
                   /\ poller' = IF new = {} THEN poller ELSE [pc |-> "create", todo |-> new]
                   /\ poller.pc = "idle"
    BY <1>2 DEF PollStart
  <2>2. new \cap Known = {}
    <3>1. CASE ok /\ Known # {}
      <4>1. \A u \in Known : Greatest(Known) >= u /\ u \in Nat /\ Greatest(Known) \in Nat
        BY <1>0, <3>1, GreatestIs, Numbers
      <4> DEFINE g == Greatest(Known)
      <4> HIDE DEF g
      <4>2. \A u \in Known : g >= u /\ u \in Nat /\ g \in Nat  BY <4>1 DEF g
      <4>3. new = {v \in 1 .. published : v > g}  BY <2>1, <3>1 DEF g
      <4> QED  BY <4>2, <4>3
    <3> QED  BY <2>1, <3>1
  <2>3. Rest' = new /\ poller'.pc # "enqueue"  BY <2>1 DEF Rest
  <2>4. UNCHANGED <<status, jobs>>  BY <1>2 DEF PollStart, database, redis
  <2> QED  BY <1>1, <2>2, <2>3, <2>4
<1>3. CASE PollCreate(ok) /\ ~ok
  <2>1. PollNext /\ UNCHANGED <<status, jobs>> /\ poller.pc = "create"
    BY <1>3 DEF PollCreate, SetStatus, redis
  <2>2. /\ poller'.pc \in {"idle", "create"}
        /\ poller'.pc = "create" => poller'.todo = poller.todo \ {Least(poller.todo)}
    BY <1>0, <2>1, PollGoesOn DEF PollerRefers
  <2>3. Rest' \subseteq Rest  BY <2>1, <2>2 DEF Rest
  <2> QED  BY <1>0, <1>1, <2>1, <2>2, <2>3
<1>4. CASE PollCreate(ok) /\ ok
  <2>0. PICK w \in Versions : w = Least(poller.todo) /\ w \in poller.todo
    <3>1. poller.pc = "create"  BY <1>4 DEF PollCreate
    <3> QED  BY <1>0, <3>1, LeastIs DEF PollerRefers
  <2>1. /\ poller.pc = "create" /\ SetStatus(w, "pending", TRUE)
        /\ poller' = [poller EXCEPT !.pc = "enqueue"] /\ UNCHANGED jobs
    BY <1>4, <2>0 DEF PollCreate, redis
  <2>2. w \in poller.todo  BY <2>0
  <2>3. poller'.pc = "enqueue" /\ poller'.todo = poller.todo
    BY <1>0, <2>1 DEF Types
  <2>4. Rest' = poller.todo \ {w} /\ Rest = poller.todo /\ \A v : ByPoller(v)' => v = w
    BY <2>0, <2>1, <2>3 DEF Rest, ByPoller
  <2>5. w \notin Known  BY <1>0, <2>2, <2>4
  <2>6. /\ \A v \in Versions : v # w => status'[v] = status[v]
        /\ status'[w] = "pending"
    BY <1>0, <2>1, <2>2, OneSet
  <2>7. Known' \subseteq Known \cup {w}  BY <2>6 DEF Known
  <2>8. \A j \in DOMAIN jobs : ~JobOf(j, w)
    <3>1. RowsRefer  BY DEF Refers
    <3> QED  BY <2>5, <3>1 DEF RowsRefer, JobOf
  <2>9. \A j \in DOMAIN jobs' : ~JobOf(j, w)'  BY <2>1, <2>8, JobOfKept
  <2>10. CreatedOnce'
    <3>1. Rest' \cap Known' = {}  BY <1>0, <2>4, <2>7
    <3>2. \A v \in Versions : ByPoller(v)' => \A j \in DOMAIN jobs' : ~JobOf(j, v)'
      BY <2>4, <2>9
    <3> QED  BY <3>1, <3>2 DEF CreatedOnce
  <2>11. \A j \in DOMAIN jobs' : Works(j)' => j \in DOMAIN jobs /\ Works(j)
    BY <1>0, <2>1 DEF Works, Busy
  <2>12. \A v \in Versions : status'[v] = "completed" =>
             status[v] = "completed" /\ (ByPoller(v)' => ByPoller(v))
    BY <2>4, <2>6
  <2>13. status[w] # "completed"  BY <2>2, <2>5 DEF Known
  <2> QED  BY <1>0, <2>6, <2>10, <2>11, <2>12, <2>13, AloneKept
<1>5. CASE PollEnqueue(ok)
  <2>0. PICK w \in Versions : w = Least(poller.todo)
    <3>1. poller.pc = "enqueue"  BY <1>5 DEF PollEnqueue
    <3> QED  BY <1>0, <3>1 DEF PollerRefers
  <2>1. poller.pc = "enqueue" /\ PollNext /\ UNCHANGED status /\ Enqueue("diff", w, ok)
    BY <1>5, <2>0 DEF PollEnqueue, database
  <2>2. w \in Nat  BY <1>0
  <2>3. ByPoller(w)  BY <2>0, <2>1 DEF ByPoller
  <2>4. /\ poller'.pc \in {"idle", "create"}
        /\ poller'.pc = "create" => poller'.todo = poller.todo \ {w}
    BY <1>0, <2>0, <2>1, PollGoesOn DEF PollerRefers
  <2>5. Rest' \subseteq Rest  BY <2>0, <2>1, <2>4 DEF Rest
  <2>6. Known' = Known /\ \A v : ~ByPoller(v)'  BY <2>1, <2>4 DEF Known, ByPoller
  <2>7. CreatedOnce'  BY <1>0, <2>5, <2>6 DEF CreatedOnce
  <2>8. \A j \in DOMAIN jobs : ~JobOf(j, w)  BY <2>2, <2>3 DEF Alone, CreatedOnce
  <2>9. \A i, j \in DOMAIN jobs' : i \notin DOMAIN jobs /\ j \notin DOMAIN jobs => i = j
    BY <1>0, <2>1, SubmittedOne
  <2>10. \A j \in DOMAIN jobs' : j \notin DOMAIN jobs =>
             jobs'[j].kind = "diff" /\ jobs'[j].ref = w
    BY <2>1, <2>2, Submitted DEF Refers, Kinds
  <2>11. \A j \in DOMAIN jobs', v \in Versions :
             j \notin DOMAIN jobs => (JobOf(j, v)' <=> v = w)
    BY <2>10 DEF JobOf
  <2>12. Extends(jobs, jobs')  BY <2>1, <2>2, EnqueueExtends DEF Kinds
  <2>13. ASSUME NEW v \in Versions, NEW j \in DOMAIN jobs, Works(j)', JobOf(j, v)'
         PROVE  Works(j) /\ JobOf(j, v) /\ v # w
    <3>1. jobs'[j] = jobs[j]  BY <2>12 DEF Extends
    <3>2. Works(j)  BY <1>0, <2>13, <3>1 DEF Works, Busy
    <3>3. JobOf(j, v)  BY <2>13, JobOfKept
    <3> QED  BY <2>8, <3>2, <3>3
  <2>14. OneJob'
    <3> SUFFICES ASSUME NEW v \in Versions, NEW i \in DOMAIN jobs', NEW j \in DOMAIN jobs',
                        Works(i)', JobOf(i, v)', Works(j)', JobOf(j, v)'
                 PROVE  i = j
      BY DEF OneJob
    <3>1. CASE v = w  BY <2>9, <2>13, <3>1
    <3>2. CASE v # w
      <4>1. i \in DOMAIN jobs /\ j \in DOMAIN jobs  BY <2>11, <3>2
      <4> QED  BY <2>13, <4>1 DEF Alone, OneJob
    <3> QED  BY <3>1, <3>2
  <2>15. AtRestOnceCompleted'
    <3> SUFFICES ASSUME NEW v \in Versions, status'[v] = "completed" PROVE ~ByJob(v)'
      BY <2>6 DEF AtRestOnceCompleted
    <3>1. ~ByPoller(v) /\ ~ByJob(v)  BY <2>1 DEF Alone, AtRestOnceCompleted
    <3>2. v # w  BY <2>3, <3>1
    <3> QED  BY <2>11, <2>13, <3>1, <3>2 DEF ByJob
  <2> QED  BY <1>0, <2>1, <2>7, <2>14, <2>15 DEF Alone
<1> QED  BY <1>2, <1>3, <1>4, <1>5 DEF PollStep

\* A worker takes a job that waits, or a job whose handler has ended moves on.
LEMMA JobsAlone ==
    ASSUME Refers, Grows, Alone, NEW s \in Slots, Take(s) \/ Succeed(s) \/ FailJob(s)
    PROVE  Alone'
<1>0. /\ UNCHANGED <<status, poller, admin, startup>> /\ Types /\ QueuesHold
      /\ worker \in [Slots -> Task]
  BY DEF Take, Succeed, FailJob, database, Refers, Types
<1>1. /\ Known' = Known /\ NobodyAsks' /\ \A v : ByPoller(v)' => ByPoller(v)
  BY <1>0 DEF Known, NobodyAsks, Alone, ByPoller
<1>2. ASSUME DOMAIN jobs' = DOMAIN jobs, \A j \in DOMAIN jobs : Works(j)' => Works(j)
      PROVE  Alone'
  <2>1. CreatedOnce'  BY <1>0, <1>1, <1>2, CreatedStill DEF Alone
  <2> QED  BY <1>0, <1>1, <1>2, <2>1, AloneKept
<1>3. CASE Take(s)
  <2>1. PICK g \in DOMAIN jobs : Taken(s, g)  BY <1>0, <1>3, TakenFrom
  <2>2. /\ DOMAIN jobs' = DOMAIN jobs /\ jobs[g].state = "waiting" /\ worker'[s].job = g
        /\ \A t \in Slots : t # s => worker'[t] = worker[t]
        /\ \A i \in DOMAIN jobs : i # g => jobs'[i] = jobs[i]
    BY <2>1 DEF Taken, Moved
  <2>3. ASSUME NEW j \in DOMAIN jobs, Works(j)' PROVE Works(j)
    <3>1. CASE j = g  BY <2>2, <3>1 DEF Works
    <3>2. CASE j # g  BY <2>2, <2>3, <3>2 DEF Works, Busy
    <3> QED  BY <3>1, <3>2
  <2> QED  BY <1>2, <2>2, <2>3
<1>4. CASE Succeed(s) \/ FailJob(s)
  <2>1. /\ worker[s].pc \in {"succeeded", "failed"}
        /\ worker' = [worker EXCEPT ![s] = IdleWorker]
    BY <1>4 DEF Succeed, FailJob
  <2>2. PICK g \in DOMAIN jobs : g = worker[s].job /\ jobs[g].state = "running"
    BY <2>1 DEF Refers, WorkerRefers
  <2>3. jobs[g].attempts \in Nat
    <3>1. jobs[g] \in Job  BY <1>0 DEF Types
    <3> QED  BY <3>1 DEF Job
  <2>4. /\ worker'[s].pc = "idle"
        /\ \A t \in Slots : t # s => worker'[t] = worker[t]
        /\ worker[s].pc # "idle"
    BY <1>0, <2>1 DEF IdleWorker
  <2>5. \A t \in Slots : ~(worker'[t].job = g /\ Busy(t)')
    BY <2>1, <2>2, <2>4 DEF Busy, Refers, OneWorker
  <2>6. ASSUME NEW state \in JobStates, NEW n \in Nat, MoveJob(g, state, n),
               state \in {"waiting", "dead"} => Works(g)
        PROVE  Alone'
    <3>1. Moved(g, state, n)  BY <1>0, <2>2, <2>6, MovedOn
    <3>2. ASSUME NEW j \in DOMAIN jobs, Works(j)' PROVE Works(j)
      <4>1. CASE j = g
        <5>1. jobs'[g].state \in {"waiting", "dead"}  BY <2>5, <3>2, <4>1 DEF Works
        <5> QED  BY <2>6, <3>1, <4>1, <5>1 DEF Moved
      <4>2. CASE j # g
        <5>1. jobs'[j] = jobs[j]  BY <3>1, <4>2 DEF Moved
        <5> QED  BY <2>4, <3>2, <5>1 DEF Works, Busy
      <4> QED  BY <4>1, <4>2
    <3> QED  BY <1>2, <3>1, <3>2 DEF Moved
  <2>7. CASE Succeed(s)
    <3>1. MoveJob(g, "done", jobs[g].attempts)  BY <2>2, <2>7 DEF Succeed
    <3> QED  BY <2>3, <2>6, <3>1 DEF JobStates
  <2>8. CASE FailJob(s)
    <3> DEFINE n == jobs[g].attempts + 1
    <3>1. PICK state \in {"dead", "waiting"} :
             state = IF n >= MaxAttempts THEN "dead" ELSE "waiting"
      OBVIOUS
    <3>2. MoveJob(g, state, n)  BY <2>2, <2>8, <3>1 DEF FailJob
    <3>3. Works(g)
      <4>1. Busy(s)  BY <2>8 DEF FailJob, Busy
      <4> QED  BY <2>2, <4>1 DEF Works
    <3>4. n \in Nat  BY <2>3
    <3> HIDE DEF n
    <3> QED  BY <2>6, <3>1, <3>2, <3>3, <3>4 DEF JobStates
  <2> QED  BY <1>4, <2>7, <2>8
<1> QED  BY <1>3, <1>4

\* A step that leaves the rows, the jobs and the goroutines' places alone.
LEMMA RestAlone ==
    ASSUME Refers, Grows, Alone, Publish \/ UNCHANGED vars \/ \E s \in Slots : Expire(s)
    PROVE  Alone'
<1>1. UNCHANGED <<status, jobs, diffs, poller, admin, startup>>
  BY DEF Publish, Expire, vars, database, redis, memory
<1>2. \A s \in Slots : worker'[s].pc = worker[s].pc /\ worker'[s].job = worker[s].job
  <2>1. CASE UNCHANGED worker  BY <2>1
  <2>2. ASSUME NEW s \in Slots, Expire(s)
        PROVE  \A t \in Slots : worker'[t].pc = worker[t].pc /\ worker'[t].job = worker[t].job
    BY <2>2 DEF Expire, Refers, Types, Task
  <2> QED  BY <2>1, <2>2 DEF Publish, vars, memory
<1>3. \A j \in DOMAIN jobs' : Works(j)' => j \in DOMAIN jobs /\ Works(j)
  BY <1>1, <1>2 DEF Works, Busy
<1>4. Known' = Known /\ NobodyAsks' /\ \A v : ByPoller(v)' => ByPoller(v)
  BY <1>1 DEF Known, NobodyAsks, Alone, ByPoller
<1>5. CreatedOnce'  BY <1>1, <1>4, CreatedStill DEF Alone
<1> QED  BY <1>1, <1>3, <1>4, <1>5, AloneKept

\* What is not a request, a crash or a step of a recovery or a request.
QuietStep ==
    \/ Publish \/ UNCHANGED vars \/ JobStep
    \/ \E ok \in BOOLEAN : PollStep(ok)
    \/ \E s \in Slots, ok \in BOOLEAN : HandlerStep(s, ok)
    \/ \E s \in Slots : Expire(s)

LEMMA QuietSteps ==
    ASSUME Refers, NobodyAsks, [Next]_vars
    PROVE  QuietStep \/ Request \/ Crash \/ Restart
<1>1. ASSUME NEW ok, RecoverStep(ok) \/ \E a \in Admins : AdminStep(a, ok)
      PROVE  FALSE
  BY <1>1 DEF NobodyAsks, RecoverStep, RecoverScan, RecoverRelease, RecoverEnqueue, AdminStep,
              ReanalyzeStatus, ReanalyzeEnqueue, ReanalyzeAllEnqueue
<1>2. ASSUME NEW s \in Slots, HandlerStep(s, ~worker[s].expired)
      PROVE  \E ok \in BOOLEAN : HandlerStep(s, ok)
  <2>1. PICK ok \in BOOLEAN : ok = ~worker[s].expired  OBVIOUS
  <2> QED  BY <1>2, <2>1
<1>3. CASE CallStep
  BY <1>1, <1>2, <1>3 DEF CallStep, QuietStep
<1>4. CASE Fault
  BY <1>1, <1>4 DEF Fault, QuietStep
<1>5. CASE \E s \in Slots : Outage(s) \/ Expire(s)
  BY <1>5 DEF Outage, QuietStep
<1> QED  BY <1>3, <1>4, <1>5 DEF Next, QuietStep

\* What the requests, a crash and the taking up of stuck jobs leave alone.
LEMMA LoudStatus ==
    ASSUME Request \/ Crash \/ Restart
    PROVE  UNCHANGED status
BY DEF Request, ReanalyzeAllLoad, ReanalyzeLoad, RetryDead, Crash, Restart, RecoverJob, database

LEMMA AloneNext ==
    ASSUME Refers, LeftOK, Quiet => Alone, [Next]_vars
    PROVE  /\ (Quiet => Alone)'
           /\ Quiet => \A v \in Versions : status[v] = "completed" => status'[v] = "completed"
<1>0. Grows  BY RefersNext
<1>1. ASSUME QuietStep, Alone
      PROVE  Alone' /\ \A v \in Versions : status[v] = "completed" => status'[v] = "completed"
  <2>1. CASE Publish \/ UNCHANGED vars \/ \E s \in Slots : Expire(s)
    <3>1. UNCHANGED status  BY <2>1 DEF Publish, Expire, vars, database
    <3> QED  BY <1>0, <1>1, <2>1, <3>1, RestAlone
  <2>2. CASE JobStep
    <3>1. UNCHANGED status  BY <2>2 DEF JobStep, Take, Succeed, FailJob, database
    <3> QED  BY <1>0, <1>1, <2>2, <3>1, JobsAlone DEF JobStep
  <2> QED  BY <1>0, <1>1, <2>1, <2>2, PollerAlone, HandlersAlone DEF QuietStep
<1>2. Spent  BY SpentNext
<1>3. ASSUME Quiet' PROVE Quiet  BY <1>2, <1>3 DEF Quiet, Spent, LeftOK, Bounds
<1>4. ASSUME Quiet' PROVE Alone'
  <2>1. Quiet /\ Alone /\ NobodyAsks  BY <1>3, <1>4 DEF Alone
  <2>2. ~Crash
    <3> SUFFICES ASSUME Crash PROVE FALSE  OBVIOUS
    <3>1. left'.crashes < left.first.crashes  BY Spending DEF Crash, Mishaps
    <3> QED  BY <1>2, <1>4, <3>1 DEF Spent, LeftOK, Bounds, Quiet
  <2>3. ~Request
    <3>1. ASSUME Spend("calls") PROVE FALSE
      <4>1. left'.calls < left.first.calls  BY <3>1, Spending DEF Mishaps
      <4> QED  BY <1>2, <1>4, <4>1 DEF Spent, LeftOK, Bounds, Quiet
    <3>2. ASSUME NEW a \in Admins, NEW v \in Versions, NEW ok \in BOOLEAN, ReanalyzeLoad(a, v, ok)
          PROVE  FALSE
      <4>1. left'.calls = left.calls - 1 \/ Spend("calls")
        BY <3>2 DEF ReanalyzeLoad, LeftOK
      <4>2. left'.calls = left.calls  BY <1>2, <1>4, <2>1 DEF Quiet, Spent
      <4> QED  BY <3>1, <4>1, <4>2 DEF LeftOK
    <3> QED  BY <3>1, <3>2 DEF Request, ReanalyzeAllLoad, RetryDead
  <2>4. ~Restart  BY <2>1 DEF Restart, RecoverJob, NobodyAsks
  <2> QED  BY <1>1, <2>1, <2>2, <2>3, <2>4, QuietSteps
<1>5. ASSUME Quiet PROVE \A v \in Versions : status[v] = "completed" => status'[v] = "completed"
  <2>1. Alone /\ NobodyAsks  BY <1>5 DEF Alone
  <2>2. CASE Request \/ Crash \/ Restart  BY <2>2, LoudStatus
  <2> QED  BY <1>1, <2>1, <2>2, QuietSteps
<1> QED  BY <1>4, <1>5

LEMMA AloneInit == Init => Alone
<1> SUFFICES ASSUME Init PROVE Alone  OBVIOUS
<1>1. Known = {} /\ poller.pc = "idle" /\ DOMAIN jobs = {}
  BY DEF Init, Known, IdlePoller
<1>2. NobodyAsks  BY DEF Init, NobodyAsks, Up, IdleAdmin
<1>3. CreatedOnce /\ OneJob  BY <1>1 DEF CreatedOnce, OneJob
<1>4. AtRestOnceCompleted  BY <1>1 DEF AtRestOnceCompleted, Known
<1> QED  BY <1>2, <1>3, <1>4 DEF Alone

\* As long as nobody asks for anything and nothing has crashed, at most one job
\* works for a release, whatever fails and however often it is retried, and
\* none once the release is completed.
LEMMA AloneInvariant == Spec => [](Quiet => Alone)
<1>1. Refers /\ LeftOK /\ (Quiet => Alone) /\ [Next]_vars => (Quiet => Alone)'
  BY AloneNext
<1> QED  BY <1>1, AloneInit, LeftInvariant, PipelineRefers, PTL DEF Spec

\* So what retries the jobs of a release does not process it again once it is
\* completed.
THEOREM CompletedIsKept == Spec => CompletedStays
<1> DEFINE Kept == left.calls = left.first.calls /\ left.crashes = left.first.crashes =>
                       \A v \in Versions : status[v] = "completed" => status'[v] = "completed"
<1>1. Refers /\ LeftOK /\ (Quiet => Alone) /\ [Next]_vars => [Kept]_vars
  BY AloneNext DEF Quiet
<1>2. Spec => [][Kept]_vars
  <2> HIDE DEF Kept
  <2> QED  BY <1>1, AloneInvariant, LeftInvariant, PipelineRefers, PTL DEF Spec
<1> QED  BY <1>2 DEF CompletedStays

-----------------------------------------------------------------------------
(* The first version is completed first                                    *)

\* One goroutine takes diff jobs.
OneDiffer == \A s, t \in DiffSlots : s = t

First == Least(Known)

\* Only the job of the first version has been taken, and it goes on to the
\* call that completes it without a diff.
NotYet ==
    /\ \A j \in DOMAIN jobs :
          /\ jobs[j].kind = "diff" /\ jobs[j].attempts = 0
          /\ j # 1 => jobs[j].state = "waiting"
    /\ \/ DOMAIN jobs = {} /\ poller.pc = "enqueue" /\ Least(poller.todo) = First
       \/ /\ 1 \in DOMAIN jobs /\ jobs[1].ref = First /\ jobs[1].state = "waiting"
          /\ 1 \in DOMAIN queue["diff"] /\ queue["diff"][1] = 1
       \/ /\ 1 \in DOMAIN jobs /\ jobs[1].ref = First
          /\ \E s \in DiffSlots :
                worker[s].job = 1 /\ worker[s].pc \in {"begin", "previous", "baseline"}

FirstInLine == Known # {} => status[First] = "completed" \/ NotYet

BaselineIsFirst == \A s \in Slots : worker[s].pc = "baseline" => Ref(s) = First

\* What is left of Next while calls work, nobody asks and nothing crashes.
WorkingQuietly ==
    \/ Publish \/ UNCHANGED vars \/ JobStep \/ PollStep(TRUE)
    \/ \E s \in Slots : HandlerStep(s, TRUE)
    \/ \E s \in Slots : Outage(s)

LEMMA WorkingSteps ==
    ASSUME Refers, LeftOK, HeldOK, Quiet => Alone, [Next]_vars, EveryCallWorked', Quiet'
    PROVE  EveryCallWorked /\ Quiet /\ NoneExpired /\ Alone /\ WorkingQuietly
<1>1. Spent  BY SpentNext
<1>2. EveryCallWorked /\ Quiet /\ NoneExpired /\ Alone /\ NobodyAsks
  BY <1>1 DEF Spent, LeftOK, EveryCallWorked, Bounds, Quiet, HeldOK, Alone
<1>3. ASSUME NEW what \in {"calls", "faults", "expiries", "crashes"}, Spend(what) PROVE FALSE
  <2>1. left'[what] < left.first[what]  BY <1>3, Spending DEF Mishaps
  <2> QED  BY <1>1, <2>1 DEF Spent, LeftOK, Bounds, Quiet, EveryCallWorked
<1>4. ~Crash /\ ~Fault /\ ~Restart /\ \A s \in Slots : ~Expire(s)
  BY <1>2, <1>3 DEF Crash, Fault, Expire, Restart, RecoverJob, NobodyAsks
<1>5. ~Request
  <2>1. ASSUME NEW a \in Admins, NEW v \in Versions, NEW ok \in BOOLEAN, ReanalyzeLoad(a, v, ok)
        PROVE  FALSE
    <3>1. left'.calls = left.calls - 1 \/ Spend("calls")
      BY <2>1 DEF ReanalyzeLoad, LeftOK
    <3>2. left'.calls = left.calls  BY <1>1, <1>2 DEF Quiet, Spent
    <3> QED  BY <1>3, <3>1, <3>2 DEF LeftOK
  <2> QED  BY <1>3, <2>1 DEF Request, ReanalyzeAllLoad, RetryDead
<1>6. ASSUME NEW s \in Slots, HandlerStep(s, ~worker[s].expired) PROVE HandlerStep(s, TRUE)
  <2>1. (~worker[s].expired) = TRUE  BY <1>2 DEF NoneExpired
  <2> QED  BY <1>6, <2>1
<1>7. ASSUME RecoverStep(TRUE) \/ \E a \in Admins : AdminStep(a, TRUE) PROVE FALSE
  BY <1>2, <1>7
  DEF NobodyAsks, RecoverStep, RecoverScan, RecoverRelease, RecoverEnqueue, AdminStep,
      ReanalyzeStatus, ReanalyzeEnqueue, ReanalyzeAllEnqueue
<1>8. CASE CallStep  BY <1>2, <1>6, <1>7, <1>8 DEF CallStep, WorkingQuietly
<1> QED  BY <1>2, <1>4, <1>5, <1>8 DEF Next, WorkingQuietly

\* A version that becomes known is newer than the ones that are.
LEMMA CreatedAfter ==
    ASSUME Refers, CreatedInOrder, WorkingQuietly
    PROVE  /\ \A w \in Known' \ Known, u \in Known : u < w
           /\ Known' = Known \/ PollCreate(TRUE)
<1>0. /\ Types /\ PollerRefers /\ Versions \subseteq Nat /\ poller.todo \in SUBSET Versions
  BY Numbers DEF Refers, Types
<1>1. ASSUME UNCHANGED status PROVE Known' = Known  BY <1>1 DEF Known
<1>2. CASE Publish \/ UNCHANGED vars \/ JobStep \/ PollStart(TRUE) \/ PollEnqueue(TRUE)
  <2>1. UNCHANGED status
    BY <1>2 DEF Publish, vars, JobStep, Take, Succeed, FailJob, PollStart, PollEnqueue, database
  <2> QED  BY <1>1, <2>1
<1>3. ASSUME NEW s \in Slots, HandlerStep(s, TRUE) \/ Outage(s) PROVE Known' = Known
  BY <1>3, HandlersCreateNone DEF Outage
<1>4. CASE PollCreate(TRUE)
  <2>1. PICK w \in Versions : w = Least(poller.todo) /\ w \in poller.todo
    <3>1. poller.pc = "create"  BY <1>4 DEF PollCreate
    <3> QED  BY <1>0, <3>1, LeastIs DEF PollerRefers
  <2>2. SetStatus(w, "pending", TRUE) /\ w \in Rest  BY <1>4, <2>1 DEF PollCreate, Rest
  <2>3. \A v \in Versions : v # w => status'[v] = status[v]  BY <1>0, <2>2, OneSet
  <2>4. Known' \subseteq Known \cup {w}  BY <2>3 DEF Known
  <2> QED  BY <1>4, <2>2, <2>4 DEF CreatedInOrder
<1> QED  BY <1>2, <1>3, <1>4 DEF WorkingQuietly, PollStep

LEMMA FirstKept ==
    ASSUME Refers, Grows, Known # {}, \A w \in Known' \ Known, u \in Known : u < w
    PROVE  First' = First /\ First \in Known /\ \A u \in Known' : First <= u
<1>1. Known \subseteq Versions /\ Known' \subseteq Versions /\ Versions \subseteq Nat
      /\ Known \subseteq Known'
  BY Numbers DEF Known, Grows
<1>2. Least(Known) \in Known /\ \A u \in Known : Least(Known) <= u  BY <1>1, LeastIs
<1>3. Least(Known') \in Known' /\ \A u \in Known' : Least(Known') <= u  BY <1>1, LeastIs
<1>4. PICK f \in Known : f = Least(Known)  BY <1>2
<1>5. PICK g \in Known' : g = Least(Known')  BY <1>3
<1>6. \A u \in Known' : f <= u
  <2> SUFFICES ASSUME NEW u \in Known' PROVE f <= u  OBVIOUS
  <2>1. CASE u \in Known  BY <1>2, <1>4, <2>1
  <2>2. CASE u \notin Known
    <3>1. f < u  BY <2>2
    <3> QED  BY <1>1, <3>1
  <2> QED  BY <2>1, <2>2
<1>7. f <= g /\ g <= f  BY <1>1, <1>3, <1>4, <1>5, <1>6
<1>8. f \in Nat /\ g \in Nat  BY <1>1
<1>9. f = g  BY <1>7, <1>8
<1> QED  BY <1>4, <1>5, <1>6, <1>9 DEF First

\* Without a release there is no job.
LEMMA NothingBefore ==
    ASSUME Refers, Known = {}
    PROVE  DOMAIN jobs = {} /\ \A s \in Slots : worker[s].pc = "idle"
<1>1. DOMAIN diffs = {} /\ DOMAIN jobs = {}  BY DEF Refers, RowsRefer
<1> QED  BY <1>1 DEF Refers, WorkerRefers

\* A diff job is taken from the head of a list whose jobs never failed.
LEMMA TakesHead ==
    ASSUME Refers, OneDiffer, NotYet, NEW s \in Slots, Take(s)
    PROVE  /\ 1 \in DOMAIN jobs /\ jobs[1].ref = First /\ s \in DiffSlots
           /\ Taken(s, 1)
<1>0. Types /\ QueuesHold  BY DEF Refers
<1>1. PICK k \in Kinds : k = KindOf(s)  BY DEF KindOf, Kinds
<1>2. PICK i \in DOMAIN queue[k] :
         /\ \/ jobs[queue[k][i]].attempts > 0
            \/ \A h \in 1 .. i - 1 : jobs[queue[k][h]].attempts > 0
         /\ worker'[s].job = queue[k][i]
  <2>1. PICK i \in DOMAIN queue[k] :
           /\ Ready(k, i)
           /\ worker' = [worker EXCEPT ![s] =
                 [IdleWorker EXCEPT !.job = queue[k][i],
                     !.pc = IF k = "diff" THEN "begin" ELSE "judge"]]
    BY <1>1 DEF Take
  <2>2. worker \in [Slots -> Task]  BY <1>0 DEF Types
  <2>3. worker'[s].job = queue[k][i]  BY <2>1, <2>2 DEF IdleWorker
  <2> QED  BY <2>1, <2>3 DEF Ready
<1>3. /\ queue[k] \in Seq(Nat)
      /\ \A h \in DOMAIN queue[k] : queue[k][h] \in DOMAIN jobs /\ jobs[queue[k][h]].kind = k
  BY <1>0 DEF Types, QueuesHold
<1>4. k = "diff" /\ s \in DiffSlots  BY <1>1, <1>2, <1>3 DEF NotYet, KindOf
<1>5. \A h \in DOMAIN queue[k] : ~(jobs[queue[k][h]].attempts > 0)
  BY <1>3 DEF NotYet
<1>6. i = 1
  <2>1. \A h \in 1 .. i - 1 : FALSE
    <3> SUFFICES ASSUME NEW h \in 1 .. i - 1 PROVE FALSE  OBVIOUS
    <3>1. h \in DOMAIN queue[k]  BY <1>2, <1>3
    <3> QED  BY <1>2, <1>5, <3>1
  <2>2. i \in 1 .. Len(queue[k]) /\ Len(queue[k]) \in Nat  BY <1>2, <1>3
  <2>3. CASE i > 1
    <3>1. 1 \in 1 .. i - 1  BY <2>2, <2>3
    <3> QED  BY <2>1, <3>1
  <2> QED  BY <2>2, <2>3
<1>7. 1 \in DOMAIN jobs /\ jobs[1].ref = First /\ queue["diff"][1] = 1
  <2>1. CASE DOMAIN jobs = {}  BY <1>2, <1>3, <2>1
  <2>2. ASSUME NEW t \in DiffSlots, worker[t].pc \in {"begin", "previous", "baseline"}
        PROVE  FALSE
    <3>1. s = t  BY <1>4 DEF OneDiffer
    <3> QED  BY <2>2, <3>1 DEF Take
  <2> QED  BY <2>1, <2>2 DEF NotYet
<1>8. PICK j \in DOMAIN jobs : Taken(s, j)  BY <1>0, TakenFrom
<1>9. j = 1  BY <1>2, <1>4, <1>6, <1>7, <1>8 DEF Taken
<1> QED  BY <1>4, <1>7, <1>8, <1>9

\* The handler of the first version's job is the only one.
LEMMA OneHandler ==
    ASSUME Refers, NotYet, NEW s \in Slots, worker[s].pc # "idle"
    PROVE  /\ 1 \in DOMAIN jobs /\ jobs[1].ref = First
           /\ worker[s].job = 1 /\ s \in DiffSlots
           /\ worker[s].pc \in {"begin", "previous", "baseline"}
<1>1. worker[s].job \in DOMAIN jobs /\ jobs[worker[s].job].state = "running"
  BY DEF Refers, WorkerRefers
<1>2. worker[s].job = 1  BY <1>1 DEF NotYet
<1>3. PICK t \in DiffSlots :
         worker[t].job = 1 /\ worker[t].pc \in {"begin", "previous", "baseline"}
  BY <1>1, <1>2 DEF NotYet
<1>4. s = t  BY <1>2, <1>3 DEF Refers, OneWorker, Slots
<1> QED  BY <1>1, <1>2, <1>3, <1>4 DEF NotYet

LEMMA NotYetNext ==
    ASSUME Refers, Refers', Grows, OneDiffer, NotYet, CreatedInOrder, Known # {}, WorkingQuietly
    PROVE  status'[First] = "completed" \/ NotYet'
<1>0. /\ Types /\ First' = First /\ First \in Known /\ First \in Versions
      /\ \A u \in Known : First <= u /\ PollerRefers
  BY CreatedAfter, FirstKept, Numbers DEF Refers, Grows
<1>1. \A j \in DOMAIN jobs :
         /\ jobs[j].kind = "diff" /\ jobs[j].attempts = 0
         /\ j # 1 => jobs[j].state = "waiting"
  BY DEF NotYet
<1>2. CASE Publish \/ UNCHANGED vars
  <2>1. UNCHANGED <<jobs, queue, worker, poller>>
    BY <1>2 DEF Publish, vars, redis, memory
  <2> QED  BY <1>0, <2>1 DEF NotYet
<1>3. CASE PollStart(TRUE) \/ PollCreate(TRUE)
  <2>1. UNCHANGED <<jobs, queue, worker>> /\ poller.pc # "enqueue"
    BY <1>3 DEF PollStart, PollCreate, redis
  <2> QED  BY <1>0, <2>1 DEF NotYet
<1>4. CASE PollEnqueue(TRUE)
  <2>1. /\ poller.pc = "enqueue" /\ UNCHANGED worker
        /\ Enqueue("diff", Least(poller.todo), TRUE)
    BY <1>4 DEF PollEnqueue
  <2>2. PICK w \in Versions : w = Least(poller.todo)  BY <1>0, <2>1, Numbers DEF PollerRefers
  <2> DEFINE job == [kind |-> "diff", ref |-> w, state |-> "waiting", attempts |-> 0]
  <2>3. /\ jobs' = Append(jobs, job)
        /\ queue' = [queue EXCEPT !["diff"] = Append(queue["diff"], Len(jobs) + 1)]
    BY <2>1, <2>2 DEF Enqueue
  <2>4. /\ job.kind = "diff" /\ job.ref = w /\ job.state = "waiting" /\ job.attempts = 0
        /\ job \in Job
    BY <2>2, Numbers DEF Job, Kinds, JobStates
  <2> HIDE DEF job
  <2>5. /\ DOMAIN jobs' = DOMAIN jobs \cup {Len(jobs) + 1} /\ jobs'[Len(jobs) + 1] = job
        /\ \A j \in DOMAIN jobs : jobs'[j] = jobs[j]
        /\ Len(jobs) \in Nat /\ DOMAIN jobs = 1 .. Len(jobs)
    BY <1>0, <2>3, <2>4, Longer DEF Types
  <2>6. \A j \in DOMAIN jobs' :
           /\ jobs'[j].kind = "diff" /\ jobs'[j].attempts = 0
           /\ j # 1 => jobs'[j].state = "waiting"
    BY <1>1, <2>4, <2>5
  <2>7. queue["diff"] \in Seq(Nat) /\ queue'["diff"] = Append(queue["diff"], Len(jobs) + 1)
    BY <1>0, <2>3 DEF Types, Kinds
  <2>8. CASE DOMAIN jobs = {} /\ w = First
    <3>1. Len(jobs) = 0  BY <2>5, <2>8
    <3>2. DOMAIN queue["diff"] = {}  BY <2>8 DEF Refers, QueuesHold, Kinds
    <3>3. queue'["diff"] = Append(queue["diff"], 1)  BY <2>7, <3>1
    <3>4. 1 \in DOMAIN queue'["diff"] /\ queue'["diff"][1] = 1
      BY <2>7, <3>2, <3>3
    <3>5. 1 \in DOMAIN jobs' /\ jobs'[1].ref = First /\ jobs'[1].state = "waiting"
      BY <2>4, <2>5, <2>8, <3>1
    <3> QED  BY <1>0, <2>6, <3>4, <3>5 DEF NotYet
  <2>9. CASE /\ 1 \in DOMAIN jobs /\ jobs[1].ref = First /\ jobs[1].state = "waiting"
             /\ 1 \in DOMAIN queue["diff"] /\ queue["diff"][1] = 1
    <3>1. 1 \in DOMAIN queue'["diff"] /\ queue'["diff"][1] = 1
      BY <2>5, <2>7, <2>9
    <3> QED  BY <1>0, <2>5, <2>6, <2>9, <3>1 DEF NotYet
  <2>10. CASE /\ 1 \in DOMAIN jobs /\ jobs[1].ref = First
              /\ \E s \in DiffSlots :
                    worker[s].job = 1 /\ worker[s].pc \in {"begin", "previous", "baseline"}
    BY <1>0, <2>1, <2>5, <2>6, <2>10 DEF NotYet
  <2> QED  BY <2>2, <2>8, <2>9, <2>10 DEF NotYet
<1>5. ASSUME NEW s \in Slots, Take(s) PROVE NotYet'
  <2>1. 1 \in DOMAIN jobs /\ jobs[1].ref = First /\ s \in DiffSlots /\ Taken(s, 1)
    BY <1>5, TakesHead
  <2>2. Moved(1, "running", 0) /\ worker'[s].job = 1 /\ worker'[s].pc = "begin"
    BY <1>1, <2>1 DEF Taken, KindOf
  <2>3. \A j \in DOMAIN jobs' :
           /\ jobs'[j].kind = "diff" /\ jobs'[j].attempts = 0
           /\ j # 1 => jobs'[j].state = "waiting"
    BY <1>1, <2>1, <2>2 DEF Moved
  <2>4. 1 \in DOMAIN jobs' /\ jobs'[1].ref = First'  BY <1>0, <2>1, <2>2 DEF Moved
  <2> QED  BY <2>1, <2>2, <2>3, <2>4 DEF NotYet
<1>6. ASSUME NEW s \in Slots, Succeed(s) \/ FailJob(s) \/ Outage(s) PROVE FALSE
  <2>1. worker[s].pc \in {"succeeded", "failed", "fetch", "judge"}
    BY <1>6 DEF Succeed, FailJob, Outage
  <2> QED  BY <2>1, OneHandler
<1>7. ASSUME NEW s \in Slots, HandlerStep(s, TRUE)
      PROVE  status'[First] = "completed" \/ NotYet'
  <2>1. worker[s].pc # "idle"
    BY <1>7 DEF HandlerStep, DiffStep, AnalyzeStep, DiffBegin, DiffPrevious, DiffBaseline,
       DiffFetch, DiffMarkError, DiffStore, DiffAnalyzing, DiffHandOff, Judge, RaiseAlert,
       AnalyzeComplete
  <2>2. /\ 1 \in DOMAIN jobs /\ jobs[1].ref = First /\ worker[s].job = 1 /\ s \in DiffSlots
        /\ worker[s].pc \in {"begin", "previous", "baseline"}
    BY <2>1, OneHandler
  <2>3. DiffBegin(s, TRUE) \/ DiffPrevious(s, TRUE) \/ DiffBaseline(s, TRUE)
    BY <1>7, <2>2 DEF HandlerStep, DiffStep, AnalyzeStep,
       DiffFetch, DiffMarkError, DiffStore, DiffAnalyzing, DiffHandOff, Judge, RaiseAlert,
       AnalyzeComplete
  <2>4. ASSUME NEW pc \in {"previous", "baseline"}, Goto(s, pc), UNCHANGED jobs
        PROVE  NotYet'
    <3>1. worker'[s].job = 1 /\ worker'[s].pc = pc  BY <1>0, <2>2, <2>4 DEF Goto, Types, Task
    <3> QED  BY <1>0, <1>1, <2>2, <2>4, <3>1 DEF NotYet
  <2>5. CASE DiffBegin(s, TRUE)  BY <2>4, <2>5 DEF DiffBegin, redis
  <2>6. CASE DiffPrevious(s, TRUE)
    <3>1. Ref(s) = First  BY <2>2 DEF Ref
    <3>2. {u \in Versions : u < First /\ status[u] = "completed"} = {}
      <4> SUFFICES ASSUME NEW u \in Versions, u < First, status[u] = "completed" PROVE FALSE
        OBVIOUS
      <4>1. u \in Known  BY DEF Known
      <4>2. First <= u /\ u \in Nat /\ First \in Nat  BY <1>0, <4>1, Numbers
      <4> QED  BY <4>2
    <3>3. Goto(s, "baseline") /\ UNCHANGED jobs  BY <2>6, <3>1, <3>2 DEF DiffPrevious, redis
    <3> QED  BY <2>4, <3>3
  <2>7. CASE DiffBaseline(s, TRUE)
    <3>1. SetStatus(First, "completed", TRUE)  BY <2>2, <2>7 DEF DiffBaseline, Ref
    <3> QED  BY <1>0, <3>1, OneSet
  <2> QED  BY <2>3, <2>5, <2>6, <2>7
<1> QED  BY <1>2, <1>3, <1>4, <1>5, <1>6, <1>7 DEF WorkingQuietly, JobStep, PollStep

\* A handler that finds nothing to compare with has the first version, and the
\* release it completes is that one or has an analysis.
LEMMA HandlersComplete ==
    ASSUME Refers, Grows, FirstInLine, BaselineIsFirst, NEW s \in Slots, NEW ok \in BOOLEAN,
           HandlerStep(s, ok), ok \/ worker[s].pc \in {"fetch", "judge"}
    PROVE  /\ \A t \in Slots : worker'[t].pc = "baseline" =>
                  worker[t].pc # "idle" /\ worker'[t].job = worker[t].job /\ Ref(t) = First
           /\ \A v \in Versions : status'[v] = "completed" =>
                  status[v] = "completed" \/ v = First \/ \E d \in DiffsOf(v) : AnalysesOf(d) # {}
<1>0. Types /\ worker \in [Slots -> Task] /\ Known \subseteq Versions /\ Versions \subseteq Nat
  BY Numbers DEF Refers, Types
<1>1. PICK r \in Versions, pc \in WorkerPcs \ {"idle"} : Effect(s, r, pc, ok)  BY HandlerEffect
<1>2. /\ JobOf(worker[s].job, r) /\ Busy(s)
      /\ worker'[s].pc = pc /\ worker'[s].job = worker[s].job
      /\ \A t \in Slots : t # s => worker'[t] = worker[t]
      /\ \A v \in Versions : v # r => status'[v] = status[v]
  BY <1>1 DEF Effect
<1>3. ASSUME NEW t \in Slots, worker'[t].pc = "baseline"
      PROVE  worker[t].pc # "idle" /\ worker'[t].job = worker[t].job /\ Ref(t) = First
  <2>1. CASE t # s
    <3>1. worker'[t] = worker[t]  BY <1>2, <2>1
    <3> QED  BY <1>3, <3>1 DEF BaselineIsFirst
  <2>2. CASE t = s
    <3>1. worker'[s].pc = "baseline"  BY <1>3, <2>2
    <3>2. ASSUME NEW new \in WorkerPcs, new # "baseline",
                 Goto(s, new) \/ \E made : GotoMade(s, new, made)
          PROVE  FALSE
      BY <1>0, <3>1, <3>2 DEF Goto, GotoMade, Task
    <3>3. ~DiffBegin(s, ok) /\ ~DiffBaseline(s, ok) /\ ~DiffMarkError(s, ok)
          /\ ~DiffAnalyzing(s, ok) /\ ~RaiseAlert(s, ok) /\ ~AnalyzeComplete(s, ok)
      BY <3>2 DEF DiffBegin, DiffBaseline, DiffMarkError, DiffAnalyzing, RaiseAlert,
                  AnalyzeComplete, WorkerPcs
    <3>4. ~DiffFetch(s, ok) /\ ~DiffStore(s, ok) /\ ~DiffHandOff(s, ok)
      BY <3>2 DEF DiffFetch, DiffStore, DiffHandOff, WorkerPcs
    <3>5. ~Judge(s, ok)
      <4> SUFFICES ASSUME Judge(s, ok) PROVE FALSE  OBVIOUS
      <4>1. \E new \in {"alert", "complete", "failed"} :
               Goto(s, new) \/ \E made : GotoMade(s, new, made)
        BY DEF Judge
      <4> QED  BY <3>2, <4>1 DEF WorkerPcs
    <3>6. DiffPrevious(s, ok)  BY <3>3, <3>4, <3>5 DEF HandlerStep, DiffStep, AnalyzeStep
    <3>7. ok /\ worker[s].pc = "previous"  BY <3>6 DEF DiffPrevious
    <3>8. {u \in Versions : u < Ref(s) /\ status[u] = "completed"} = {}
      <4>1. ASSUME {u \in Versions : u < Ref(s) /\ status[u] = "completed"} # {} PROVE FALSE
        <5>1. \E made : GotoMade(s, "fetch", made)  BY <3>6, <3>7, <4>1 DEF DiffPrevious
        <5> QED  BY <3>2, <5>1 DEF WorkerPcs
      <4> QED  BY <4>1
    <3>9. s \in DiffSlots /\ Ref(s) \in Known  BY <3>7, Handling DEF DiffPcs
    <3>10. Ref(s) = First
      <4>1. CASE status[First] = "completed"
        <5>1. First \in Known /\ First <= Ref(s)  BY <1>0, <3>9, LeastIs DEF First
        <5>2. First \in Versions /\ ~(First < Ref(s))  BY <1>0, <3>8, <4>1, <5>1
        <5>3. First \in Nat /\ Ref(s) \in Nat  BY <1>0, <3>9, <5>2
        <5> QED  BY <5>1, <5>2, <5>3
      <4>2. CASE NotYet
        <5>1. worker[s].job = 1 /\ jobs[1].ref = First  BY <3>7, <4>2, OneHandler
        <5> QED  BY <5>1 DEF Ref
      <4> QED  BY <3>9, <4>1, <4>2 DEF FirstInLine
    <3> QED  BY <1>2, <2>2, <3>7, <3>10
  <2> QED  BY <2>1, <2>2
<1>4. ASSUME NEW v \in Versions, status'[v] = "completed", status[v] # "completed"
      PROVE  v = First \/ \E d \in DiffsOf(v) : AnalysesOf(d) # {}
  <2>1. status'[v] # status[v]  BY <1>4
  <2>2. ASSUME NEW w \in Versions, NEW new, new # "completed", SetStatus(w, new, ok) PROVE FALSE
    BY <1>0, <1>4, <2>2, OneSet DEF SetStatus
  <2>3. worker[s].pc # "idle"  BY <1>2 DEF Busy
  <2>4. ASSUME worker[s].pc \in DiffPcs PROVE Ref(s) \in Versions
    BY <1>0, <2>3, <2>4, Handling
  <2>5. ~DiffBegin(s, ok) /\ ~DiffMarkError(s, ok) /\ ~DiffAnalyzing(s, ok)
    BY <2>1, <2>2, <2>4 DEF DiffBegin, DiffMarkError, DiffAnalyzing, DiffPcs
  <2>6. DiffBaseline(s, ok) \/ AnalyzeComplete(s, ok)
    BY <2>1, <2>5 DEF HandlerStep, DiffStep, AnalyzeStep, DiffPrevious, DiffFetch, DiffStore,
       DiffHandOff, Judge, RaiseAlert, database
  <2>7. CASE DiffBaseline(s, ok)
    <3>1. worker[s].pc = "baseline" /\ SetStatus(Ref(s), "completed", ok)
      BY <2>7 DEF DiffBaseline
    <3>2. Ref(s) \in Versions /\ Ref(s) = First  BY <2>4, <3>1 DEF BaselineIsFirst, DiffPcs
    <3> QED  BY <1>0, <2>1, <3>1, <3>2, OneSet
  <2>8. CASE AnalyzeComplete(s, ok)
    <3>1. worker[s].pc = "complete" /\ SetStatus(ReleaseOf(s), "completed", ok)
      BY <2>8 DEF AnalyzeComplete
    <3>2. s \in AnalyzeSlots /\ Ref(s) \in DOMAIN diffs /\ ReleaseOf(s) \in Known
      BY <2>3, <3>1, Handling DEF AnalyzePcs
    <3>3. v = ReleaseOf(s)  BY <1>0, <2>1, <3>1, <3>2, OneSet
    <3>4. Ref(s) \in DiffsOf(v)  BY <3>2, <3>3 DEF DiffsOf, ReleaseOf
    <3>5. worker[s].made \in DOMAIN analyses /\ analyses[worker[s].made].diff = Ref(s)
      BY <3>1 DEF Refers, WorkerRefers
    <3>6. worker[s].made \in AnalysesOf(Ref(s))  BY <3>5 DEF AnalysesOf
    <3> QED  BY <3>4, <3>6
  <2> QED  BY <2>6, <2>7, <2>8
<1> QED  BY <1>3, <1>4

Examining == FirstInLine /\ BaselineIsFirst /\ CompletedWasExamined

LEMMA ExaminingNext ==
    ASSUME Refers, Refers', Grows, OneDiffer, Examining, CreatedInOrder, WorkingQuietly,
           \A v \in Versions : status[v] = "completed" => status'[v] = "completed"
    PROVE  Examining'
<1>0. /\ Types /\ Known \subseteq Versions /\ Versions \subseteq Nat /\ PollerRefers
      /\ Known' \subseteq Versions /\ worker \in [Slots -> Task]
      /\ poller.todo \in SUBSET Versions /\ Known \subseteq Known'
  BY Numbers DEF Refers, Types, Known, Grows
<1>1. Known # {} =>
         First' = First /\ First \in Known /\ \A u \in Known' : First <= u
  BY CreatedAfter, FirstKept
<1>2. FirstInLine'
  <2>1. CASE Known # {}
    <3>1. First \in Versions /\ First' = First  BY <1>0, <1>1, <2>1
    <3>2. status'[First] = "completed" \/ NotYet'
      BY <2>1, <3>1, NotYetNext DEF Examining, FirstInLine
    <3> QED  BY <3>1, <3>2 DEF FirstInLine
  <2>2. CASE Known = {} /\ Known' # {}
    <3>1. PollCreate(TRUE)  BY <2>2, CreatedAfter
    <3>2. PICK w \in Versions : w = Least(poller.todo) /\ w \in poller.todo
      <4>1. poller.pc = "create"  BY <3>1 DEF PollCreate
      <4> QED  BY <1>0, <4>1, LeastIs DEF PollerRefers
    <3>3. /\ SetStatus(w, "pending", TRUE) /\ poller' = [poller EXCEPT !.pc = "enqueue"]
          /\ UNCHANGED <<jobs, worker>>
      BY <3>1, <3>2 DEF PollCreate, redis
    <3>4. \A v \in Versions : v # w => status'[v] = status[v]  BY <1>0, <3>3, OneSet
    <3>5. Known' \subseteq {w}  BY <2>2, <3>4 DEF Known
    <3>6. First' \in Known'
      <4>1. Known' \in SUBSET Nat  BY <1>0
      <4>2. Least(Known') \in Known'  BY <2>2, <4>1, LeastIs
      <4> QED  BY <4>2 DEF First
    <3>7. poller'.pc = "enqueue" /\ poller'.todo = poller.todo  BY <1>0, <3>3 DEF Types
    <3>8. DOMAIN jobs = {}  BY <2>2, NothingBefore
    <3>9. Least(poller'.todo) = First'  BY <3>2, <3>5, <3>6, <3>7
    <3> QED  BY <3>3, <3>7, <3>8, <3>9 DEF FirstInLine, NotYet
  <2> QED  BY <2>1, <2>2 DEF FirstInLine
<1>3. ASSUME NEW s \in Slots, NEW ok \in BOOLEAN, HandlerStep(s, ok),
             ok \/ worker[s].pc \in {"fetch", "judge"}
      PROVE  /\ \A t \in Slots : worker'[t].pc = "baseline" =>
                    worker[t].pc # "idle" /\ worker'[t].job = worker[t].job /\ Ref(t) = First
             /\ \A v \in Versions : status'[v] = "completed" =>
                    status[v] = "completed" \/ v = First \/ \E d \in DiffsOf(v) : AnalysesOf(d) # {}
  BY <1>3, HandlersComplete DEF Examining
<1>4. ASSUME UNCHANGED worker
      PROVE  \A t \in Slots : worker'[t].pc = "baseline" =>
                 worker[t].pc # "idle" /\ worker'[t].job = worker[t].job /\ Ref(t) = First
  BY <1>4 DEF Examining, BaselineIsFirst
<1>5. ASSUME NEW s \in Slots, Take(s) \/ Succeed(s) \/ FailJob(s)
      PROVE  \A t \in Slots : worker'[t].pc = "baseline" => worker'[t] = worker[t]
  <2>1. CASE Take(s)
    <3>1. PICK j \in DOMAIN jobs : Taken(s, j)  BY <2>1, TakenFrom DEF Refers
    <3> QED  BY <3>1 DEF Taken
  <2>2. CASE Succeed(s) \/ FailJob(s)
    <3>1. worker' = [worker EXCEPT ![s] = IdleWorker]  BY <2>2 DEF Succeed, FailJob
    <3> QED  BY <1>0, <3>1 DEF IdleWorker
  <2> QED  BY <1>5, <2>1, <2>2
<1>6. \A t \in Slots : worker'[t].pc = "baseline" =>
          worker[t].pc # "idle" /\ worker'[t].job = worker[t].job /\ Ref(t) = First
  <2>1. CASE Publish \/ UNCHANGED vars \/ PollStep(TRUE)
    <3>1. UNCHANGED worker
      BY <2>1 DEF Publish, vars, memory, PollStep, PollStart, PollCreate, PollEnqueue
    <3> QED  BY <1>4, <3>1
  <2>2. CASE JobStep
    BY <1>5, <2>2 DEF JobStep, Examining, BaselineIsFirst
  <2>3. ASSUME NEW s \in Slots, Outage(s)
        PROVE  HandlerStep(s, FALSE) /\ worker[s].pc \in {"fetch", "judge"}
    BY <2>3 DEF Outage
  <2> QED  BY <1>3, <2>1, <2>2, <2>3 DEF WorkingQuietly
<1>7. BaselineIsFirst'
  <2> SUFFICES ASSUME NEW t \in Slots, worker'[t].pc = "baseline" PROVE Ref(t)' = First'
    BY DEF BaselineIsFirst
  <2>1. worker[t].pc # "idle" /\ worker'[t].job = worker[t].job /\ Ref(t) = First  BY <1>6
  <2>2. worker[t].job \in DOMAIN jobs  BY <2>1 DEF Refers, WorkerRefers
  <2>3. jobs'[worker[t].job].ref = jobs[worker[t].job].ref  BY <2>2 DEF Grows
  <2>4. Known # {}  BY <2>2, NothingBefore
  <2> QED  BY <1>1, <2>1, <2>3, <2>4 DEF Ref
<1>8. \A v \in Versions : status'[v] = "completed" =>
          status[v] = "completed" \/ v = First \/ \E d \in DiffsOf(v) : AnalysesOf(d) # {}
  <2>1. CASE Publish \/ UNCHANGED vars \/ JobStep \/ PollStart(TRUE) \/ PollEnqueue(TRUE)
    <3>1. UNCHANGED status
      BY <2>1 DEF Publish, vars, JobStep, Take, Succeed, FailJob, PollStart, PollEnqueue, database
    <3> QED  BY <3>1
  <2>2. CASE PollCreate(TRUE)
    <3>1. PICK w \in Versions : w = Least(poller.todo)
      <4>1. poller.pc = "create"  BY <2>2 DEF PollCreate
      <4> QED  BY <1>0, <4>1, LeastIs DEF PollerRefers
    <3>2. SetStatus(w, "pending", TRUE)  BY <2>2, <3>1 DEF PollCreate
    <3>3. /\ \A v \in Versions : v # w => status'[v] = status[v]
          /\ status'[w] = "pending"
      BY <1>0, <3>2, OneSet
    <3> QED  BY <3>3
  <2>3. ASSUME NEW s \in Slots, Outage(s)
        PROVE  HandlerStep(s, FALSE) /\ worker[s].pc \in {"fetch", "judge"}
    BY <2>3 DEF Outage
  <2> QED  BY <1>3, <2>1, <2>2, <2>3 DEF WorkingQuietly, PollStep
<1>9. ASSUME NEW v \in Versions, \E d \in DiffsOf(v) : AnalysesOf(d) # {}
      PROVE  \E d \in DiffsOf(v)' : AnalysesOf(d)' # {}
  BY <1>9 DEF Grows, Extends, DiffsOf, AnalysesOf
<1>10. CompletedWasExamined'
  <2> SUFFICES ASSUME NEW v \in Versions, status'[v] = "completed"
               PROVE  (\E d \in DiffsOf(v)' : AnalysesOf(d)' # {}) \/ \A u \in Known' : v <= u
    BY DEF CompletedWasExamined
  <2>1. \/ v = First \/ \E d \in DiffsOf(v) : AnalysesOf(d) # {}
    <3>1. CASE status[v] = "completed" /\ \A u \in Known : v <= u
      <4>1. v \in Known  BY <3>1 DEF Known
      <4>2. First \in Known /\ First <= v  BY <1>0, <4>1, LeastIs DEF First
      <4>3. v <= First /\ v \in Nat /\ First \in Nat  BY <1>0, <3>1, <4>2
      <4> QED  BY <4>2, <4>3
    <3> QED  BY <1>8, <3>1 DEF Examining, CompletedWasExamined
  <2>2. CASE v = First /\ Known # {}  BY <1>1, <2>2
  <2>3. CASE Known = {}
    <3>1. ~\E d \in DiffsOf(v) : AnalysesOf(d) # {}
      BY <2>3 DEF DiffsOf, Refers, RowsRefer
    <3>2. UNCHANGED status
      <4>1. CASE PollCreate(TRUE)
        <5>1. PICK w \in Versions : w = Least(poller.todo)
          <6>1. poller.pc = "create"  BY <4>1 DEF PollCreate
          <6> QED  BY <1>0, <6>1, LeastIs DEF PollerRefers
        <5>2. SetStatus(w, "pending", TRUE)  BY <4>1, <5>1 DEF PollCreate
        <5>3. v # w => status'[v] = status[v]  BY <1>0, <5>2, OneSet
        <5>4. v = w => status'[v] = "pending"  BY <1>0, <5>2, OneSet
        <5>5. status[v] = "completed"  BY <5>3, <5>4
        <5> QED  BY <2>3, <5>5 DEF Known
      <4>2. CASE Known' = Known
        <5>1. v \in Known'  BY DEF Known
        <5> QED  BY <2>3, <4>2, <5>1
      <4> QED  BY <4>1, <4>2, CreatedAfter
    <3>3. v \in Known  BY <3>2 DEF Known
    <3> QED  BY <2>3, <3>3
  <2> QED  BY <1>9, <2>1, <2>2, <2>3
<1> QED  BY <1>2, <1>7, <1>10 DEF Examining

LEMMA ExaminingInvariant ==
    ASSUME OneDiffer
    PROVE  Spec => [](EveryCallWorked /\ Quiet => Examining)
<1>1. Init => Examining
  <2> SUFFICES ASSUME Init PROVE Examining  OBVIOUS
  <2>1. Known = {}  BY DEF Init, Known
  <2>2. BaselineIsFirst  BY DEF Init, IdleWorker, BaselineIsFirst
  <2>3. CompletedWasExamined  BY DEF Init, CompletedWasExamined
  <2> QED  BY <2>1, <2>2, <2>3 DEF Examining, FirstInLine
<1> DEFINE Created == left.faults = left.first.faults => CreatedInOrder
           Inv == Refers /\ LeftOK /\ HeldOK /\ (Quiet => Alone) /\ Created
           Good == EveryCallWorked /\ Quiet => Examining
<1>2. Inv /\ Good /\ [Next]_vars => Good'
  <2> SUFFICES ASSUME Inv, Good, [Next]_vars, EveryCallWorked', Quiet' PROVE Examining'
    OBVIOUS
  <2>1. EveryCallWorked /\ Quiet /\ WorkingQuietly  BY WorkingSteps
  <2>2. Refers' /\ Grows  BY RefersNext
  <2>3. \A v \in Versions : status[v] = "completed" => status'[v] = "completed"
    BY <2>1, AloneNext
  <2>4. CreatedInOrder /\ Examining  BY <2>1 DEF EveryCallWorked
  <2> QED  BY <2>1, <2>2, <2>3, <2>4, ExaminingNext
<1>3. Spec => []Inv
  BY PipelineRefers, LeftInvariant, HeldInvariant, AloneInvariant, CreatedInvariant, PTL
<1> HIDE DEF Inv, Good
<1>4. Spec => []Good
  <2>1. Init => Good  BY <1>1 DEF Good
  <2> QED  BY <1>2, <1>3, <2>1, PTL DEF Spec
<1> QED  BY <1>4, PTL DEF Good

\* With one goroutine that takes diff jobs, as long as no call fails, no
\* deadline passes, nobody asks for anything and nothing crashes, a release is
\* completed because one of its diffs was analysed or because it is the oldest
\* known, whatever downloads and providers fail and are retried.
THEOREM ExaminedInOrder ==
    ASSUME OneDiffer
    PROVE  Spec => [](EveryCallWorked /\ Quiet => CompletedWasExamined)
<1>1. Examining => CompletedWasExamined  BY DEF Examining
<1> QED  BY <1>1, ExaminingInvariant, PTL

=============================================================================
