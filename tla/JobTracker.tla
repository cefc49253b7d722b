----------------------------- MODULE JobTracker -----------------------------
(***************************************************************************)
(* One job of the master (src/master/job_tracker.cc) together with the     *)
(* minions that work for it (src/minion/minion_impl.cc).                   *)
(*                                                                         *)
(* RPC handlers of the tracker run concurrently, one thread per request.   *)
(* A handler is modelled as a record in a slot of `hs` whose `pc` names    *)
(* the next critical section it will run; every critical section (under   *)
(* alloc_mu_, under mu_, or inside a task pool call) is one action, so     *)
(* the model interleaves handlers, the monitor thread and the minions      *)
(* exactly at the points where the code releases a lock or waits on I/O.   *)
(*                                                                         *)
(* Data is abstracted: endpoints are model values, a task is a number and  *)
(* an attempt, times are replaced by nondeterministic choices ("is this    *)
(* attempt older than the timeout?"), counters and log text are dropped.   *)
(***************************************************************************)
EXTENDS Integers, Sequences, FiniteSets, TaskPool

CONSTANTS
    MapTotal,          \* number of map splits (map_total after partitioning)
    ReduceTotal,       \* reduce_total; 0 for a map-only job
    MapWorkers,        \* endpoints of the map minions (model values)
    ReduceWorkers,     \* endpoints of the reduce minions (model values)
    Killer,            \* the master thread that serves a user KillJob
    NodeOf(_),         \* host part of an endpoint (text before ':')
    AllowDup(_),       \* map_allow_duplicates_ / reduce_allow_duplicates_
    Capacity(_),       \* map_capacity / reduce_capacity
    Retry(_),          \* map_retry / reduce_retry
    IgnoreBudget(_),   \* ignore_map_failures / ignore_reduce_failures
    ReplicaNum,        \* FLAGS_replica_num
    ReplicaBegin,      \* FLAGS_replica_begin
    ReplicaBeginPercent, \* FLAGS_replica_begin_percent
    LeftPercent,       \* FLAGS_left_percent
    ParallelAttempts,  \* FLAGS_parallel_attempts
    MonitorBudget,     \* entries a monitor pass inspects (10 in the code)
    MaxAllocs,         \* bound: attempts the model hands out
    MaxCrashes,        \* bound: minion crashes
    UserKill,          \* whether a user KillJob may arrive
    LossyRpc,          \* whether RPC responses may be lost
    StateRace,         \* whether AssignMap's unlocked state_ update may be preempted
    TaskCounters,      \* the counters a completed attempt reports (name -> value)
    MaxCounters,       \* FLAGS_max_counters_per_job
    MaxRestarts,       \* bound: master restarts (recovery from the Store)
    UpdateRequests     \* the [Phases -> capacity] a user Update may ask for (-1: keep)

Workers == MapWorkers \cup ReduceWorkers
Phases  == {"map", "reduce"}
MapOnly == ReduceTotal = 0

ASSUME MapTotal \in Nat \ {0} /\ ReduceTotal \in Nat
ASSUME MapWorkers \cap ReduceWorkers = {} /\ Killer \notin Workers
ASSUME MapOnly => ReduceWorkers = {}

\* Task states of the ledger and of reports (proto TaskState).
Running == "Running"
Completed == "Completed"
Failed == "Failed"
Killed == "Killed"
Canceled == "Canceled"
MoveOutputFailed == "MoveOutputFailed"
TaskStates == {Running, Completed, Failed, Killed, Canceled}
Reports    == {Completed, Failed, Killed, MoveOutputFailed}

\* Job states and RPC statuses.
JPending == "JobPending"
JRunning == "JobRunning"
JCompleted == "JobCompleted"
JFailed == "JobFailed"
JKilled == "JobKilled"
JobStates == {JPending, JRunning, JCompleted, JFailed, JKilled}
Terminal  == {JCompleted, JFailed, JKilled}
Ok == "Ok"
Suspend == "Suspend"
NoMore == "NoMore"

Ids(p)   == IF p = "map" THEN 0 .. MapTotal - 1 ELSE 0 .. ReduceTotal - 1
AllIds   == 0 .. (IF MapTotal > ReduceTotal THEN MapTotal ELSE ReduceTotal) - 1
Total(p) == IF p = "map" THEN MapTotal ELSE ReduceTotal
PhaseOf(w) == IF w \in MapWorkers THEN "map" ELSE "reduce"
Nodes == {NodeOf(w) : w \in Workers}

VARIABLES
    jobState,    \* state_
    live,        \* the master still routes RPCs to this job (RetractJob)
    deployed,    \* [Phases -> BOOLEAN]: the phase's minions run on Galaxy
    gru,         \* [Phases -> BOOLEAN]: map_ / reduce_ (this tracker's Gru handle)
    pool,        \* [Phases -> pool]: map_manager_ / reduce_manager_
    slug,        \* [Phases -> Seq(task no)]: map_slug_ / reduce_slug_
    table,       \* allocation_table_: Seq of allocation records
    heap,        \* time_heap_: set of table positions
    failedCount, \* failed_count_: Seq(Nat)
    failedNodes, \* failed_nodes_: [AllIds -> SUBSET Nodes]
    ignored,     \* [Phases -> SUBSET ids]: ignore_failure_{mappers,reducers}_
    ignoredCnt,  \* [Phases -> Nat]: ignored_{map,reduce}_failures_
    dismissed,   \* [Phases -> SUBSET Workers]: {map,reduce}_dismissed_
    capacity,    \* [Phases -> Nat]: job_descriptor_'s map_capacity / reduce_capacity
    monitoring,  \* [Phases -> BOOLEAN]: map_monitoring_ / reduce_monitoring_
    monitor,     \* monitor_ /= NULL
    monTasks,    \* phases whose KeepMonitoring chain is scheduled on monitor_
    mon,         \* the monitor thread inside a KeepMonitoring pass
    rpcClient,   \* rpc_client_ /= NULL
    hs,          \* [Slots -> handler]: RPC handler threads in flight
    worker,      \* [Workers -> minion]: MinionImpl::Loop of each minion
    cancels,     \* CancelTask requests in flight: set of <<endpoint, no>>
    faults,      \* undefined behaviour reached: set of fault names
    store,       \* the job's last backup in the Store: ledger and state_
    restarts,    \* master restarts so far
    counters     \* counters_ (CounterAggregator)

vars == <<jobState, live, deployed, pool, slug, table, heap, failedCount,
          failedNodes, ignored, ignoredCnt, dismissed, capacity, monitoring, monitor,
          monTasks, mon, rpcClient, hs, worker, cancels, faults, gru, store,
          restarts, counters>>

\* The job's counters: the operators of CounterAggregator on counters_.
CA == INSTANCE CounterAggregator
        WITH MaxCountersPerJob <- MaxCounters, Reports <- {TaskCounters},
             MaxCalls <- 0, received <- <<>>

Slots == (Workers \cup {Killer}) \X {1, 2}
NoH == [kind |-> "none", w |-> Killer, ph |-> "map", no |-> -1, att |-> -1,
        st |-> "none", cur |-> 0, pc |-> "none", end |-> "none", fin |-> FALSE,
        rep |-> FALSE, pend |-> FALSE, cap |-> [p \in Phases |-> -1]]
NoTask == <<-1, -1>>

-----------------------------------------------------------------------------
(* Ledger helpers                                                          *)

\* map_index_ / reduce_index_ lookup: the last record stored under the key.
IndexOf(p, no, att) ==
    LET I == {i \in DOMAIN table : table[i].ph = p /\ table[i].no = no
                                    /\ table[i].att = att}
    IN  IF I = {} THEN 0 ELSE CHOOSE i \in I : \A j \in I : j <= i

\* map_index_.size(): the task numbers the index has entries for.
IndexSize(p) == Cardinality({table[i].no : i \in {j \in DOMAIN table : table[j].ph = p}})

SetState(i, s) == [table EXCEPT ![i].st = s]

\* BuildEndGameCounters (C integer division on non-negative values).
MapEndGameBegin ==
    LET a == MapTotal - ReplicaBegin
        b == MapTotal - (MapTotal * ReplicaBeginPercent) \div 100
    IN  IF a > b THEN b ELSE a
ReduceBeginOffByOne == MapTotal - (MapTotal * ReplicaBeginPercent) \div 100 - 1
ReduceBegin == MapTotal - (MapTotal * ReplicaBeginPercent) \div 100
ReduceEndGameBegin ==
    LET a == ReduceTotal - ReplicaBegin
        b == (ReduceTotal * ReplicaBeginPercent) \div 100
    IN  IF a < b THEN b ELSE a
EndGameBegin(p) == IF p = "map" THEN MapEndGameBegin ELSE ReduceEndGameBegin

\* ::ceil(x * LeftPercent / 100.0) for x >= 0.
CeilPercent(x) == (x * LeftPercent + 99) \div 100

\* CanMapDismiss / CanReduceDismiss: the status and the new dismissed set.
NotDone(p) == Total(p) - DoneCount(pool[p])
DismissBudget(p) ==
    capacity[p] - CeilPercent(IF NotDone(p) > 5 THEN NotDone(p) ELSE 5)
CanDismiss(p, w) ==
    IF capacity[p] > NotDone(p) /\ Cardinality(dismissed[p]) < DismissBudget(p)
    THEN [status |-> NoMore, set |-> dismissed[p] \cup {w}]
    ELSE [status |-> Suspend, set |-> dismissed[p]]

\* The constructor: a reduce capacity above twice the reduce total is set
\* to max(2 * reduce total, 60).
ClampCapacity(p) ==
    IF p = "reduce" /\ Capacity(p) > 2 * ReduceTotal
    THEN IF 2 * ReduceTotal > 60 THEN 2 * ReduceTotal ELSE 60
    ELSE Capacity(p)

-----------------------------------------------------------------------------
(* Initial state: the tracker right after a successful Start().           *)

Init ==
    /\ jobState = JPending
    /\ live = TRUE
    /\ deployed = [p \in Phases |-> p = "map"]
    /\ gru = deployed
    /\ pool = [p \in Phases |-> NewPool(Total(p))]
    /\ slug = [p \in Phases |-> <<>>]
    /\ table = <<>>
    /\ heap = {}
    /\ failedCount = [i \in 1 .. MapTotal |-> 0]
    /\ failedNodes = [i \in AllIds |-> {}]
    /\ ignored = [p \in Phases |-> {}]
    /\ ignoredCnt = [p \in Phases |-> 0]
    /\ dismissed = [p \in Phases |-> {}]
    /\ capacity = [p \in Phases |-> ClampCapacity(p)]
    /\ monitoring = [p \in Phases |-> FALSE]
    /\ monitor = TRUE
    /\ monTasks = {}
    /\ mon = [pc |-> "idle", ph |-> "map", aside |-> {}, budget |-> 0,
              rq |-> FALSE, cur |-> 0]
    /\ rpcClient = TRUE
    /\ hs = [s \in Slots |-> NoH]
    /\ worker = [w \in Workers |-> [pc |-> "idle", task |-> NoTask, res |-> "none",
                     cur |-> NoTask, stopped |-> FALSE, dup |-> FALSE, crashes |-> 0]]
    /\ cancels = {}
    /\ faults = {}
    /\ store = [ledger |-> <<>>, state |-> JPending]
    /\ restarts = 0
    /\ counters = CA!NoCounters

-----------------------------------------------------------------------------
(* Handler threads and their answers to the minion                         *)

\* The slot a new request of w runs in: its first free one (the copy
\* number only tells concurrent requests of one minion apart).
FreeSlot(w) ==
    LET F == {s \in Slots : s[1] = w /\ hs[s].kind = "none"}
    IN  IF F = {} THEN {} ELSE {CHOOSE s \in F : \A t \in F : s[2] <= t[2]}
AssignsInFlight == Cardinality({s \in Slots : hs[s].kind = "assign"})

NewHandler(kind, w, p, no, att, st, pc) ==
    [NoH EXCEPT !.kind = kind, !.w = w, !.ph = p, !.no = no, !.att = att,
                !.st = st, !.pc = pc, !.rep = (st = Completed)]

\* What the minion's Loop does with an answer that reaches it.
Deliver(wr, h, status) ==
    CASE h.kind = "assign" /\ wr.pc = "assigning" ->
            IF status = Ok
            THEN [wr EXCEPT !.pc = "running", !.task = <<h.no, h.att>>,
                            !.cur = <<h.no, h.att>>, !.stopped = FALSE]
            ELSE IF status = NoMore THEN [wr EXCEPT !.pc = "exited"]
            ELSE [wr EXCEPT !.pc = "idle"]
      [] h.kind = "finish" /\ wr.pc \in {"finishing", "reporting"}
                           /\ wr.task = <<h.no, h.att>> ->
            IF status = Suspend /\ wr.pc = "finishing" THEN wr
            ELSE [wr EXCEPT !.pc = "idle", !.task = NoTask, !.res = "none"]
      [] OTHER -> wr

\* What the minion does when SendRequest fails (the answer is lost).
LoseAnswer(wr, h) ==
    CASE h.kind = "assign" /\ wr.pc = "assigning" -> [wr EXCEPT !.pc = "idle"]
      [] h.kind = "finish" /\ wr.pc = "reporting" /\ wr.task = <<h.no, h.att>> ->
            [wr EXCEPT !.pc = "crashed"]
      [] OTHER -> wr

\* The handler in slot s returns status and its thread ends.
Answer(s, status) ==
    LET h == hs[s] IN
    /\ hs' = [hs EXCEPT ![s] = NoH]
    /\ \/ worker' = [worker EXCEPT ![h.w] = Deliver(@, h, status)]
       \/ LossyRpc /\ worker' = [worker EXCEPT ![h.w] = LoseAnswer(@, h)]

-----------------------------------------------------------------------------
(* The minion (MinionImpl::Loop, CheckUnfinishedTask)                      *)

Reachable(w) == deployed[PhaseOf(w)] /\ worker[w].pc \notin {"crashed", "exited"}

\* Loop: ask the master for a task.  A retracted job answers kNoSuchJob.
SendAssign(w) ==
    /\ worker[w].pc = "idle"
    /\ deployed[PhaseOf(w)]
    /\ Len(table) + AssignsInFlight < MaxAllocs
    /\ \E s \in FreeSlot(w) :
         IF live
         THEN /\ hs' = [hs EXCEPT ![s] = NewHandler("assign", w, PhaseOf(w), -1, -1,
                                                    "none", "a_handout")]
              /\ worker' = [worker EXCEPT ![w].pc = "assigning"]
         ELSE /\ worker' = [worker EXCEPT ![w].pc = "exited"]
              /\ UNCHANGED hs
    /\ UNCHANGED <<jobState, live, deployed, gru, counters, pool, slug, table, heap, failedCount,
                   failedNodes, ignored, ignoredCnt, dismissed, capacity, monitoring, monitor,
                   monTasks, mon, rpcClient, cancels, faults>>

\* A FinishTask for a retracted job is answered kNoSuchJob by the master
\* without reaching the tracker; the minion's report loop ends.
NoSuchJob(w) ==
    /\ worker' = [worker EXCEPT ![w].pc = "idle", ![w].task = NoTask, ![w].res = "none"]
    /\ UNCHANGED hs

\* Loop: Exec returns and the minion reports the task state.  A task whose
\* executor was stopped by CancelTask ends Killed.
Exec(w) ==
    /\ worker[w].pc = "running"
    /\ deployed[PhaseOf(w)]
    /\ \E res \in (IF worker[w].stopped THEN {Killed}
                   ELSE {Completed, Failed, MoveOutputFailed}),
          s \in FreeSlot(w) :
         IF live
         THEN /\ hs' = [hs EXCEPT ![s] = NewHandler("finish", w, PhaseOf(w),
                            worker[w].task[1], worker[w].task[2], res, "f_lookup")]
              /\ worker' = [worker EXCEPT ![w].pc = "finishing", ![w].res = res,
                                          ![w].dup = FALSE]
         ELSE NoSuchJob(w)
    /\ UNCHANGED <<jobState, live, deployed, gru, counters, pool, slug, table, heap, failedCount,
                   failedNodes, ignored, ignoredCnt, dismissed, capacity, monitoring, monitor,
                   monTasks, mon, rpcClient, cancels, faults>>

\* Loop: FinishTask is sent again after a failed SendRequest or a kSuspend
\* answer.  A request whose answer timed out may still be running on the
\* master, so a second copy can run concurrently with the first.
ResendFinish(w) ==
    LET inFlight == {s \in Slots : s[1] = w /\ hs[s].kind = "finish"
                                   /\ <<hs[s].no, hs[s].att>> = worker[w].task}
    IN
    /\ worker[w].pc = "finishing"
    /\ deployed[PhaseOf(w)]
    /\ inFlight = {} \/ (LossyRpc /\ ~worker[w].dup)
    /\ \E s \in FreeSlot(w) :
         IF live
         THEN /\ hs' = [hs EXCEPT ![s] = NewHandler("finish", w, PhaseOf(w),
                            worker[w].task[1], worker[w].task[2], worker[w].res, "f_lookup")]
              /\ worker' = [worker EXCEPT ![w].dup = @ \/ inFlight # {}]
         ELSE NoSuchJob(w)
    /\ UNCHANGED <<jobState, live, deployed, gru, counters, pool, slug, table, heap, failedCount,
                   failedNodes, ignored, ignoredCnt, dismissed, capacity, monitoring, monitor,
                   monTasks, mon, rpcClient, cancels, faults>>

\* The minion process dies while it runs or reports a task.
Crash(w) ==
    /\ worker[w].pc \in {"running", "finishing"}
    /\ deployed[PhaseOf(w)]
    /\ worker[w].crashes < MaxCrashes
    /\ worker' = [worker EXCEPT ![w].pc = "crashed", ![w].crashes = @ + 1]
    /\ UNCHANGED <<jobState, live, deployed, gru, counters, pool, slug, table, heap, failedCount,
                   failedNodes, ignored, ignoredCnt, dismissed, capacity, monitoring, monitor,
                   monTasks, mon, rpcClient, hs, cancels, faults>>

\* The restarted minion finds the breakpoint file and reports that task
\* Killed (CheckUnfinishedTask); a failed send aborts the process again.
Restart(w) ==
    /\ worker[w].pc = "crashed"
    /\ deployed[PhaseOf(w)]
    /\ \E s \in FreeSlot(w) :
         IF live
         THEN /\ hs' = [hs EXCEPT ![s] = NewHandler("finish", w, PhaseOf(w),
                            worker[w].task[1], worker[w].task[2], Killed, "f_lookup")]
              /\ worker' = [worker EXCEPT ![w].pc = "reporting", ![w].res = Killed,
                                          ![w].cur = NoTask, ![w].stopped = FALSE]
         ELSE NoSuchJob(w)
    /\ UNCHANGED <<jobState, live, deployed, gru, counters, pool, slug, table, heap, failedCount,
                   failedNodes, ignored, ignoredCnt, dismissed, capacity, monitoring, monitor,
                   monTasks, mon, rpcClient, cancels, faults>>

\* MinionImpl::CancelTask: a request for the minion's current task id
\* stops the executor; a lost request or another task id changes nothing.
DeliverCancel(c) ==
    /\ c \in cancels
    /\ cancels' = cancels \ {c}
    /\ \/ /\ Reachable(c[1]) /\ worker[c[1]].cur[1] = c[2]
          /\ worker[c[1]].pc = "running"
          /\ worker' = [worker EXCEPT ![c[1]].stopped = TRUE]
       \/ UNCHANGED worker
    /\ UNCHANGED <<jobState, live, deployed, gru, counters, pool, slug, table, heap, failedCount,
                   failedNodes, ignored, ignoredCnt, dismissed, capacity, monitoring, monitor,
                   monTasks, mon, rpcClient, hs, faults>>

-----------------------------------------------------------------------------
(* AssignMap / AssignReduce                                                *)

\* The slug front is popped while its task is no longer Allocated.
RECURSIVE Drain(_, _)
Drain(q, pl) == IF q # <<>> /\ ~IsAllocated(pl, Head(q)) THEN Drain(Tail(q), pl) ELSE q

Replicas(no) == [i \in 1 .. ReplicaNum |-> no]

\* state_ is read and written without a lock.  A thread may be preempted
\* between the test `state_ == kPending` and the store `state_ = kRunning`:
\* this step is the test, remembered in the handler, and AssignHandout
\* below then stores kRunning whatever state_ has become meanwhile.
AssignReadState(s) ==
    /\ StateRace
    /\ hs[s].kind = "assign" /\ hs[s].pc = "a_handout" /\ ~hs[s].pend
    /\ jobState = JPending
    /\ hs' = [hs EXCEPT ![s].pend = TRUE]
    /\ UNCHANGED <<jobState, live, deployed, gru, counters, pool, slug, table, heap,
                   failedCount, failedNodes, ignored, ignoredCnt, dismissed, capacity, monitoring,
                   monitor, monTasks, mon, rpcClient, worker, cancels, faults>>

\* First part: state_ leaves Pending, the task pool hands out the next item
\* (with end-game replicas queued on the slug), or a speculative duplicate
\* is taken from the slug, or the minion is told to wait or to exit.
AssignHandout(s) ==
    LET h  == hs[s]
        p  == h.ph
        nx == NextPending(pool[p])
        q  == Drain(slug[p], pool[p])
    IN
    /\ h.kind = "assign" /\ h.pc = "a_handout"
    /\ jobState' = IF jobState = JPending \/ h.pend THEN JRunning ELSE jobState
    /\ IF nx # -1
       THEN /\ pool' = [pool EXCEPT ![p] = GetItem(@)]
            /\ slug' = IF AllowDup(p) /\ nx >= EndGameBegin(p)
                       THEN [slug EXCEPT ![p] = @ \o Replicas(nx)] ELSE slug
            /\ hs' = [hs EXCEPT ![s].pc = "a_record", ![s].no = nx,
                                ![s].att = pool[p][nx].attempt + 1]
            /\ UNCHANGED <<worker, dismissed>>
       ELSE IF q # <<>> /\ CanTake(pool[p], Head(q))
       THEN /\ pool' = [pool EXCEPT ![p] = GetCertainItem(@, Head(q))]
            /\ slug' = [slug EXCEPT ![p] = Tail(q)]
            /\ hs' = [hs EXCEPT ![s].pc = "a_record", ![s].no = Head(q),
                                ![s].att = pool[p][Head(q)].attempt + 1]
            /\ UNCHANGED <<worker, dismissed>>
       ELSE LET d == CanDismiss(p, h.w) IN
            /\ slug' = [slug EXCEPT ![p] = IF q = <<>> THEN q ELSE Tail(q)]
            /\ dismissed' = [dismissed EXCEPT ![p] = d.set]
            /\ Answer(s, d.status)
            /\ UNCHANGED pool
    /\ UNCHANGED <<capacity, live, deployed, gru, counters, table, heap, failedCount, failedNodes, ignored,
                   ignoredCnt, monitoring, monitor, monTasks, mon, rpcClient,
                   cancels, faults>>

\* Second part: start the phase's monitor at the end game, then record the
\* attempt in the ledger, its index and the time heap.
AssignRecord(s) ==
    LET h == hs[s]
        p == h.ph
        startMon == h.no >= EndGameBegin(p) /\ ~monitoring[p]
    IN
    /\ h.kind = "assign" /\ h.pc = "a_record"
    /\ monitoring' = IF startMon THEN [monitoring EXCEPT ![p] = TRUE] ELSE monitoring
    /\ monTasks' = IF startMon /\ monitor THEN monTasks \cup {p} ELSE monTasks
    /\ faults' = IF startMon /\ ~monitor THEN faults \cup {"AddTaskOnNullMonitor"}
                 ELSE faults
    /\ table' = Append(table, [ph |-> p, no |-> h.no, att |-> h.att, ep |-> h.w,
                               st |-> Running])
    /\ heap' = heap \cup {Len(table) + 1}
    /\ Answer(s, Ok)
    /\ UNCHANGED <<jobState, live, deployed, gru, counters, pool, slug, failedCount, failedNodes,
                   ignored, ignoredCnt, dismissed, capacity, monitor, mon, rpcClient, cancels>>

-----------------------------------------------------------------------------
(* FinishMap / FinishReduce                                                *)

Goto(s, pc, st) == hs' = [hs EXCEPT ![s].pc = pc, ![s].st = st]
GotoRetract(s, st, end) == hs' = [hs EXCEPT ![s].pc = "retract", ![s].st = st, ![s].end = end]

\* A faulty FinishReduce that accepts reduce reports at any time.
EarlyReduceUnchecked(h) == FALSE

\* FinishReduce's first test: a reduce report other than Killed that arrives
\* while the map pool is not all Done is answered kSuspend.
EarlyReduce(h) == h.ph = "reduce" /\ DoneCount(pool["map"]) < MapTotal /\ h.st # Killed

\* Lookup under alloc_mu_: only a Running attempt can be finished.  A reduce
\* report other than Killed is answered kSuspend while maps are not all done.
FinishLookup(s) ==
    LET h == hs[s]
        i == IndexOf(h.ph, h.no, h.att)
    IN
    /\ h.kind = "finish" /\ h.pc = "f_lookup"
    /\ IF EarlyReduce(h)
       THEN Answer(s, Suspend)
       ELSE IF i = 0 \/ table[i].st # Running
       THEN Answer(s, NoMore)
       ELSE /\ hs' = [hs EXCEPT ![s].pc = "f_body", ![s].cur = i]
            /\ UNCHANGED worker
    /\ UNCHANGED <<jobState, live, deployed, gru, counters, pool, slug, table, heap, failedCount,
                   failedNodes, ignored, ignoredCnt, dismissed, capacity, monitoring, monitor,
                   monTasks, mon, rpcClient, cancels, faults>>

\* Faulty variants: FinishItem's result ignored; failed_count_ resized one
\* entry too long.
FirstCompletionUnchecked(s) == TRUE
ResetFailedCountLong == [i \in 0 .. ReduceTotal |-> 0]

\* FinishItem succeeds only for the first completion of a task.
FirstCompletion(s) == CanFinish(pool[hs[s].ph], hs[s].no)

\* completed == SumOfItem(): the phase has no task left.
PhaseDone(p, c) == c = Total(p)

\* failed_count_.resize(0); failed_count_.resize(reduce total, 0).
ResetFailedCount == [i \in 1 .. ReduceTotal |-> 0]

\* The counters sent with a report: only a Completed task reports any.
Report(h) == IF h.rep THEN TaskCounters ELSE CA!NoCounters

\* A faulty kTaskCompleted case that accumulates the counters of a report
\* before FinishItem has refused it.
IgnoreFinishCounted(s) ==
    /\ Goto(s, "f_commit", Canceled)
    /\ counters' = CA!Accumulate(counters, Report(hs[s]))
    /\ UNCHANGED <<pool, deployed, gru, failedCount, failedNodes, ignored, ignoredCnt>>

\* FinishItem refused the completion: the report is turned into Canceled.
IgnoreFinish(s) ==
    /\ Goto(s, "f_commit", Canceled)
    /\ UNCHANGED <<pool, deployed, gru, counters, failedCount, failedNodes, ignored, ignoredCnt>>

\* The switch on the task state, under mu_.
OnCompleted(s) ==
    LET h  == hs[s]
        p  == h.ph
        pl == FinishItem(pool[p], h.no)
        c  == DoneCount(pl)
        pullUp == p = "map" /\ ~MapOnly /\ c = ReduceBegin
    IN
    IF ~FirstCompletion(s)
    THEN IgnoreFinish(s)
    ELSE
    /\ pool' = [pool EXCEPT ![p] = pl]
    /\ counters' = CA!Accumulate(counters, Report(h))
    /\ \E started \in BOOLEAN :
         /\ deployed' = IF pullUp /\ started THEN [deployed EXCEPT !["reduce"] = TRUE]
                        ELSE deployed
         /\ gru' = IF pullUp THEN [gru EXCEPT !["reduce"] = TRUE] ELSE gru
         /\ IF pullUp /\ ~started
            THEN /\ GotoRetract(s, Completed, JFailed)
                 /\ UNCHANGED <<failedCount, failedNodes>>
            ELSE IF PhaseDone(p, c) /\ p = "map" /\ ~MapOnly
            THEN /\ failedCount' = ResetFailedCount
                 /\ failedNodes' = [i \in AllIds |-> {}]
                 /\ Goto(s, "f_purge", Completed)
            ELSE /\ IF PhaseDone(p, c) THEN GotoRetract(s, Completed, JCompleted)
                    ELSE Goto(s, "f_commit", Completed)
                 /\ UNCHANGED <<failedCount, failedNodes>>
    /\ UNCHANGED <<ignored, ignoredCnt>>

\* Faulty variants: the ReturnBackItem call left out; every failure
\* counted, whatever host it ran on.
GiveBackSkipped(s) == UNCHANGED pool
NewFailureAlways(nd, no) == TRUE

\* map_manager_->ReturnBackItem / reduce_manager_->ReturnBackItem.
GiveBack(s) == pool' = [pool EXCEPT ![hs[s].ph] = ReturnBackItem(@, hs[s].no)]

\* failed_nodes_[no] does not hold the host yet.
NewFailure(nd, no) == nd \notin failedNodes[no]

\* A failure counts once per host; past the retry bound the task takes an
\* ignore-failure slot if one is left, else the job is retracted as Failed.
\* An index past the end of failed_count_ is undefined behaviour: the value
\* read is arbitrary.
OnFailed(s) ==
    LET h   == hs[s]
        p   == h.ph
        nd  == NodeOf(table[h.cur].ep)
        new == NewFailure(nd, h.no)
        inRange == h.no < Len(failedCount)
        cnt == IF inRange THEN failedCount[h.no + 1] + (IF new THEN 1 ELSE 0) ELSE 0
    IN
    /\ GiveBack(s)
    /\ failedNodes' = [failedNodes EXCEPT ![h.no] = @ \cup {nd}]
    /\ failedCount' = IF inRange THEN [failedCount EXCEPT ![h.no + 1] = cnt]
                      ELSE failedCount
    /\ faults' = IF inRange THEN faults ELSE faults \cup {"FailedCountOutOfRange"}
    /\ \E exceeded \in (IF inRange THEN {cnt >= Retry(p)} ELSE BOOLEAN) :
         IF ~exceeded
         THEN /\ Goto(s, "f_commit", Failed)
              /\ UNCHANGED <<ignored, ignoredCnt>>
         ELSE IF ignoredCnt[p] < IgnoreBudget(p)
         THEN /\ ignored' = [ignored EXCEPT ![p] = @ \cup {h.no}]
              /\ ignoredCnt' = [ignoredCnt EXCEPT ![p] = @ + 1]
              /\ Goto(s, "f_commit", Failed)
         ELSE /\ GotoRetract(s, Failed, JFailed)
              /\ UNCHANGED <<ignored, ignoredCnt>>
    /\ UNCHANGED <<deployed, gru, counters>>

\* A faulty kTaskKilled case that keeps the task allocated.
OnKilledKept(s) ==
    /\ Goto(s, "f_commit", Killed)
    /\ UNCHANGED <<pool, deployed, gru, counters, failedCount, failedNodes, ignored, ignoredCnt>>

OnKilled(s) ==
    /\ GiveBack(s)
    /\ Goto(s, "f_commit", Killed)
    /\ UNCHANGED <<deployed, gru, counters, failedCount, failedNodes, ignored, ignoredCnt>>

OnCanceled(s) ==
    /\ GiveBack(s)
    /\ Goto(s, "f_commit", Canceled)
    /\ UNCHANGED <<deployed, gru, counters, failedCount, failedNodes, ignored, ignoredCnt>>

FinishSwitch(s, st) ==
    /\ CASE st = Completed -> OnCompleted(s) /\ UNCHANGED faults
         [] st = Failed    -> OnFailed(s)
         [] st = Killed    -> OnKilled(s) /\ UNCHANGED faults
         [] st = Canceled  -> OnCanceled(s) /\ UNCHANGED faults

\* Under mu_: kTaskMoveOutputFailed is re-mapped, a failure of a task in the
\* ignore-failure set becomes a fake completion (a map of a map-reduce job
\* first writes an empty sort file with mu_ released), then the switch.
FinishBody(s) ==
    LET h   == hs[s]
        p   == h.ph
        st0 == IF h.st = MoveOutputFailed
               THEN IF IsDone(pool[p], h.no) THEN Canceled ELSE Failed
               ELSE h.st
        fake == st0 = Failed /\ h.no \in ignored[p]
    IN
    /\ h.kind = "finish" /\ h.pc = "f_body"
    /\ IF fake /\ p = "map" /\ ~MapOnly
       THEN /\ Goto(s, "f_sort", Completed)
            /\ UNCHANGED <<pool, deployed, gru, counters, failedCount, failedNodes, ignored,
                           ignoredCnt, faults>>
       ELSE FinishSwitch(s, IF fake THEN Completed ELSE st0)
    /\ UNCHANGED <<jobState, live, slug, table, heap, dismissed, capacity, monitoring,
                   monitor, monTasks, mon, rpcClient, worker, cancels>>

\* The empty sort file is written with mu_ released; a failed Close turns
\* the report back into a failure.  Then mu_ is taken again for the switch.
FinishSort(s) ==
    /\ hs[s].kind = "finish" /\ hs[s].pc = "f_sort"
    /\ \E closed \in BOOLEAN : FinishSwitch(s, IF closed THEN Completed ELSE Failed)
    /\ UNCHANGED <<jobState, live, slug, table, heap, dismissed, capacity, monitoring,
                   monitor, monTasks, mon, rpcClient, worker, cancels>>

\* Last map done: map entries leave the time heap (under alloc_mu_).
FinishPurge(s) ==
    /\ hs[s].kind = "finish" /\ hs[s].pc = "f_purge"
    /\ heap' = {i \in heap : table[i].ph # "map"}
    /\ Goto(s, "f_newmon", hs[s].st)
    /\ UNCHANGED <<jobState, live, deployed, gru, counters, pool, slug, table, failedCount,
                   failedNodes, ignored, ignoredCnt, dismissed, capacity, monitoring, monitor,
                   monTasks, mon, rpcClient, worker, cancels, faults>>

\* monitor_->Stop(false) joins a running pass; under mu_ the monitor is
\* replaced by a new one that runs the reduce chain if reduce_monitoring_,
\* and the map minions are released if this tracker holds their Gru.
FinishNewMonitor(s) ==
    /\ hs[s].kind = "finish" /\ hs[s].pc = "f_newmon"
    /\ monitor => mon.pc = "idle"
    /\ monitor' = TRUE
    /\ monTasks' = IF monitoring["reduce"] THEN {"reduce"} ELSE {}
    /\ deployed' = IF gru["map"] THEN [deployed EXCEPT !["map"] = FALSE] ELSE deployed
    /\ gru' = [gru EXCEPT !["map"] = FALSE]
    /\ Goto(s, "f_commit", hs[s].st)
    /\ UNCHANGED <<jobState, live, pool, slug, table, heap, failedCount, failedNodes, counters,
                   ignored, ignoredCnt, dismissed, capacity, monitoring, mon, rpcClient,
                   worker, cancels, faults>>

\* Under alloc_mu_: the attempt's terminal state is committed and a killed
\* or failed task is queued for re-issue when duplicates are allowed.
FinishCommit(s) ==
    LET h == hs[s] IN
    /\ h.kind = "finish" /\ h.pc = "f_commit"
    /\ table' = SetState(h.cur, h.st)
    /\ slug' = IF AllowDup(h.ph) /\ h.st \in {Killed, Failed}
               THEN [slug EXCEPT ![h.ph] = Append(@, h.no)] ELSE slug
    /\ IF h.st = Completed /\ AllowDup(h.ph)
       THEN Goto(s, "f_cancel", h.st) /\ UNCHANGED worker
       ELSE Answer(s, Ok)
    /\ UNCHANGED <<jobState, live, deployed, gru, counters, pool, heap, failedCount, failedNodes,
                   ignored, ignoredCnt, dismissed, capacity, monitoring, monitor, monTasks,
                   mon, rpcClient, cancels, faults>>

\* CancelOtherAttempts: every other attempt in the index becomes Canceled
\* and its minion is sent a fire-and-forget CancelTask.
FinishCancel(s) ==
    LET h == hs[s]
        others == {IndexOf(h.ph, h.no, table[i].att) :
                      i \in {j \in DOMAIN table : table[j].ph = h.ph /\ table[j].no = h.no
                                                  /\ table[j].att # h.att}}
    IN
    /\ h.kind = "finish" /\ h.pc = "f_cancel"
    /\ IF rpcClient
       THEN /\ table' = [i \in DOMAIN table |->
                           IF i \in others THEN [table[i] EXCEPT !.st = Canceled]
                           ELSE table[i]]
            /\ cancels' = cancels \cup {<<table[i].ep, h.no>> : i \in others}
       ELSE UNCHANGED <<table, cancels>>
    /\ IF rpcClient /\ h.fin
       THEN Goto(s, "f_release", h.st) /\ UNCHANGED worker
       ELSE Answer(s, Ok)
    /\ UNCHANGED <<jobState, live, deployed, gru, counters, pool, slug, heap, failedCount,
                   failedNodes, ignored, ignoredCnt, dismissed, capacity, monitoring, monitor,
                   monTasks, mon, rpcClient, faults>>

\* A finishing call that ended the job deletes rpc_client_.
FinishRelease(s) ==
    /\ hs[s].kind = "finish" /\ hs[s].pc = "f_release"
    /\ rpcClient' = FALSE
    /\ Answer(s, Ok)
    /\ UNCHANGED <<jobState, live, deployed, gru, counters, pool, slug, table, heap, failedCount,
                   failedNodes, ignored, ignoredCnt, dismissed, capacity, monitoring, monitor,
                   monTasks, mon, cancels, faults>>

-----------------------------------------------------------------------------
(* RetractJob and Kill                                                     *)

\* MasterImpl::RetractJob, called with mu_ released: a job the master still
\* runs is removed from its table and killed; otherwise nothing happens.
Retract(s) ==
    /\ hs[s].pc = "retract"
    /\ live' = FALSE
    /\ hs' = [hs EXCEPT ![s].pc = IF live THEN "k_mu" ELSE "f_relock"]
    /\ UNCHANGED <<jobState, deployed, gru, counters, pool, slug, table, heap, failedCount,
                   failedNodes, ignored, ignoredCnt, dismissed, capacity, monitoring, monitor,
                   monTasks, mon, rpcClient, worker, cancels, faults>>

\* The master serves a user KillJob: RetractJob(kKilled) on a live job.
KillJob ==
    /\ UserKill /\ live
    /\ hs[<<Killer, 1>>].kind = "none"
    /\ live' = FALSE
    /\ hs' = [hs EXCEPT ![<<Killer, 1>>] = [NewHandler("kill", Killer, "map", -1, -1,
                                              "none", "k_mu") EXCEPT !.end = JKilled]]
    /\ UNCHANGED <<jobState, deployed, gru, counters, pool, slug, table, heap, failedCount,
                   failedNodes, ignored, ignoredCnt, dismissed, capacity, monitoring, monitor,
                   monTasks, mon, rpcClient, worker, cancels, faults>>

\* Kill, under mu_: the minions of every Gru held are released, monitor
\* deleted (joining a running pass), state_ set to the end state.
KillMu(s) ==
    /\ hs[s].pc = "k_mu"
    /\ monitor => mon.pc = "idle"
    /\ deployed' = [p \in Phases |-> deployed[p] /\ ~gru[p]]
    /\ gru' = [p \in Phases |-> FALSE]
    /\ monitor' = FALSE
    /\ monTasks' = {}
    /\ jobState' = hs[s].end
    /\ hs' = [hs EXCEPT ![s].pc = "k_alloc"]
    /\ UNCHANGED <<live, counters, pool, slug, table, heap, failedCount, failedNodes, ignored,
                   ignoredCnt, dismissed, capacity, monitoring, mon, rpcClient, worker,
                   cancels, faults>>

\* Kill, under alloc_mu_: every Running attempt becomes Killed and the RPC
\* client is deleted.
KillAlloc(s) ==
    /\ hs[s].pc = "k_alloc"
    /\ table' = [i \in DOMAIN table |->
                   IF table[i].st = Running THEN [table[i] EXCEPT !.st = Killed]
                   ELSE table[i]]
    /\ rpcClient' = FALSE
    /\ hs' = IF hs[s].kind = "kill" THEN [hs EXCEPT ![s] = NoH]
             ELSE [hs EXCEPT ![s].pc = "f_relock"]
    /\ UNCHANGED <<jobState, live, deployed, gru, counters, pool, slug, heap, failedCount,
                   failedNodes, ignored, ignoredCnt, dismissed, capacity, monitoring, monitor,
                   monTasks, mon, worker, cancels, faults>>

\* Back in FinishMap/FinishReduce under mu_: finished = true, state_ = end.
FinishRelock(s) ==
    /\ hs[s].pc = "f_relock"
    /\ jobState' = hs[s].end
    /\ hs' = [hs EXCEPT ![s].pc = "f_commit", ![s].fin = TRUE]
    /\ UNCHANGED <<live, deployed, gru, counters, pool, slug, table, heap, failedCount,
                   failedNodes, ignored, ignoredCnt, dismissed, capacity, monitoring, monitor,
                   monTasks, mon, rpcClient, worker, cancels, faults>>

-----------------------------------------------------------------------------
(* Update: a user changes the capacity of a running job                    *)

UpdUnchanged == UNCHANGED <<jobState, live, deployed, gru, counters, pool, slug, table, heap,
                            failedCount, failedNodes, ignored, ignoredCnt, dismissed,
                            monitoring, monitor, monTasks, mon, rpcClient, worker, cancels>>

\* The master serves a user Update of a live job on its own thread; the
\* tracker takes no lock for it.  Bound: a request is made only while it
\* would change a stored capacity (a repeat only reopens the same window).
UpdateRequest ==
    /\ live /\ hs[<<Killer, 2>>].kind = "none"
    /\ \E r \in UpdateRequests :
         /\ \E p \in Phases : r[p] \notin {-1, capacity[p]}
         /\ hs' = [hs EXCEPT ![<<Killer, 2>>] =
                  [NewHandler("update", Killer, "map", -1, -1, "none", "u_read")
                      EXCEPT !.cap = r]]
    /\ UNCHANGED <<capacity, faults>>
    /\ UpdUnchanged

\* `if (map_ != NULL)` / `if (reduce_ != NULL)`: the handle is read with no
\* lock held; a phase without one is skipped.
UpdateRead(s) ==
    LET h == hs[s] IN
    /\ h.kind = "update" /\ h.pc = "u_read"
    /\ hs' = IF gru[h.ph] THEN [hs EXCEPT ![s].pc = "u_call"]
             ELSE IF h.ph = "map" THEN [hs EXCEPT ![s].ph = "reduce"]
             ELSE [hs EXCEPT ![s] = NoH]
    /\ UNCHANGED <<capacity, faults>>
    /\ UpdUnchanged

\* Gru::Update returns.  Kill or the last FinishMap may have deleted the
\* Gru meanwhile: the call then ran on freed memory (undefined behaviour,
\* either answer).  A rejection ends the call with kGalaxyError; success
\* stores the new capacity (unless -1) and goes on to the reduce phase.
UpdateCall(s) ==
    LET h == hs[s]
        c == h.cap[h.ph]
    IN
    /\ h.kind = "update" /\ h.pc = "u_call"
    /\ faults' = IF gru[h.ph] THEN faults ELSE faults \cup {"UpdateOnDeletedGru"}
    /\ \E ok \in BOOLEAN :
         IF ok
         THEN /\ capacity' = IF c # -1 THEN [capacity EXCEPT ![h.ph] = c] ELSE capacity
              /\ hs' = IF h.ph = "map" THEN [hs EXCEPT ![s].ph = "reduce", ![s].pc = "u_read"]
                       ELSE [hs EXCEPT ![s] = NoH]
         ELSE /\ hs' = [hs EXCEPT ![s] = NoH]
              /\ UNCHANGED capacity
    /\ UpdUnchanged

-----------------------------------------------------------------------------
(* KeepMonitoring: one pass of the monitor thread                          *)

MonUnchanged == UNCHANGED <<jobState, live, deployed, gru, counters, failedCount, failedNodes,
                            ignored, ignoredCnt, dismissed, capacity, monitoring, monitor,
                            monTasks, rpcClient, hs, worker, cancels>>

\* A Kill waiting in delete monitor_, or a finishing map waiting in
\* monitor_->Stop(false), has stopped the thread pool: the pass under way
\* finishes, and no further scheduled pass starts.
MonitorStopping == \E s \in Slots : hs[s].pc \in {"k_mu", "f_newmon"}

\* A scheduled pass starts.  Without a completed attempt of the phase to
\* time, it proceeds only on the 30% random-query coin (otherwise it just
\* sleeps, which changes nothing).
MonStart(p) ==
    /\ mon.pc = "idle" /\ monitor /\ p \in monTasks /\ ~MonitorStopping
    /\ \E rq \in BOOLEAN :
         /\ rq \/ \E i \in DOMAIN table : table[i].ph = p /\ table[i].st = Completed
         /\ mon' = [pc |-> "scan", ph |-> p, aside |-> {}, budget |-> MonitorBudget,
                    rq |-> rq, cur |-> 0]
    /\ UNCHANGED <<pool, slug, table, heap, faults>>
    /\ MonUnchanged

\* The pass ends (the oldest entry is younger than the sleep time, the heap
\* is empty or the budget is spent): set-aside entries go back on the heap.
MonEnd ==
    /\ mon.pc = "scan"
    /\ heap' = heap \cup mon.aside
    /\ mon' = [mon EXCEPT !.pc = "idle", !.aside = {}]
    /\ UNCHANGED <<pool, slug, table, faults>>
    /\ MonUnchanged

\* A faulty pass that requeues a killed attempt without returning its task.
KilledGiveBackSkipped(p, no) == pool

\* The pass returns the task of an attempt it killed to the phase's pool.
KilledGiveBack(p, no) == [pool EXCEPT ![p] = ReturnBackItem(@, no)]

\* Requeue of a timed-out (Running) or killed attempt: the last parallel
\* attempt stays on the heap and is requeued only while the slug is not
\* longer than the index; a killed attempt is returned to the pool.
Requeue(top, st) ==
    LET e      == table[top]
        p      == e.ph
        pinned == e.att >= ParallelAttempts - 1 /\ st = Running
        skip   == pinned /\ Len(slug[p]) > IndexSize(p)
    IN
    /\ mon' = [mon EXCEPT !.pc = "scan", !.cur = 0,
                          !.aside = IF pinned THEN @ \cup {top} ELSE @,
                          !.budget = IF pinned THEN @ ELSE @ - 1]
    /\ pool' = IF ~skip /\ st = Killed THEN KilledGiveBack(p, e.no)
               ELSE pool
    /\ slug' = IF skip THEN slug ELSE [slug EXCEPT ![p] = Append(@, e.no)]

\* The oldest heap entry is popped and examined under alloc_mu_.
MonPop ==
    LET top == CHOOSE i \in heap : \A j \in heap : i <= j
        e   == table[top]
        p   == mon.ph
    IN
    /\ mon.pc = "scan" /\ mon.budget > 0 /\ heap # {}
    /\ heap' = heap \ {top}
    /\ CASE e.st # Running ->
              UNCHANGED <<mon, pool, slug, faults>>
         [] e.ph # p ->
              /\ mon' = [mon EXCEPT !.aside = @ \cup {top}]
              /\ UNCHANGED <<pool, slug, faults>>
         [] OTHER ->
              \E query \in (IF ~AllowDup(p) \/ mon.rq THEN {TRUE} ELSE BOOLEAN) :
                IF query
                THEN /\ mon' = [mon EXCEPT !.pc = "query", !.cur = top]
                     /\ faults' = IF rpcClient THEN faults
                                  ELSE faults \cup {"QueryOnNullRpcClient"}
                     /\ UNCHANGED <<pool, slug>>
                ELSE Requeue(top, Running) /\ UNCHANGED faults
    /\ UNCHANGED table
    /\ MonUnchanged

\* WatchDogTask's flags: over_loaded_ (load above 1.5 per core), or
\* task_frozen_ for more than 300 s (load or network traffic).  They follow
\* the machine's load, so any value is possible at any time.
Stalled == BOOLEAN

\* MinionImpl::Query under the minion's mu_: a stalled minion runs done
\* with an empty response (no job id); otherwise it answers the task and
\* attempt it last started, kept after the task has ended.
QueryAnswer(w, stalled) == IF stalled THEN NoTask ELSE worker[w].cur

\* The Query RPC returns (alloc_mu_ was released around it).  A minion that
\* confirms the attempt keeps it; an attempt whose task is no longer
\* Allocated is marked Killed; any other answer or a failed RPC marks it
\* Killed whatever state it reached meanwhile, and it is requeued.
MonQuery ==
    LET top == mon.cur
        e   == table[top]
        p   == mon.ph
        reach == Reachable(e.ep)
    IN
    /\ mon.pc = "query"
    /\ \E stalled \in Stalled, ok \in BOOLEAN :
       LET r == IF ~(ok /\ reach) THEN "fail"
                ELSE IF QueryAnswer(e.ep, stalled) = <<e.no, e.att>> THEN "match"
                ELSE "mismatch"
       IN
         CASE r = "match" ->
                   /\ mon' = [mon EXCEPT !.pc = "scan", !.cur = 0, !.aside = @ \cup {top}]
                   /\ UNCHANGED <<table, pool, slug>>
              [] r = "mismatch" /\ ~IsAllocated(pool[p], e.no) ->
                   /\ table' = IF e.st = Running THEN SetState(top, Killed) ELSE table
                   /\ mon' = [mon EXCEPT !.pc = "scan", !.cur = 0]
                   /\ UNCHANGED <<pool, slug>>
              [] OTHER ->
                   /\ table' = SetState(top, Killed)
                   /\ Requeue(top, Killed)
    /\ UNCHANGED <<heap, faults>>
    /\ MonUnchanged

-----------------------------------------------------------------------------
(* Recovery: the master's backup of the job and Load after a restart       *)

SE == INSTANCE SequencesExt

\* HistoryForDump: a copy of allocation_table_, taken under alloc_mu_.
HistoryForDump == table

\* The master's periodic backup (backup_interval): the job's state_ and its
\* ledger are written to the Store.
Backup ==
    /\ live /\ restarts < MaxRestarts
    /\ store' = [ledger |-> HistoryForDump, state |-> jobState]
    /\ UNCHANGED <<jobState, live, deployed, gru, counters, pool, slug, table, heap,
                   failedCount, failedNodes, ignored, ignoredCnt, dismissed, capacity,
                   monitoring, monitor, monTasks, mon, rpcClient, hs, worker,
                   cancels, faults, restarts>>

\* A faulty Replay whose kTaskRunning case falls through into kTaskCompleted.
ReplayRecordFallThrough(pl, e) ==
    LET cur == [pl[e.no] EXCEPT !.attempt = e.att] IN
    [pl EXCEPT ![e.no] =
        IF e.st \in {Running, Completed} THEN [cur EXCEPT !.status = Done, !.allocated = 0]
        ELSE cur]

\* Replay, one history record: the item takes the record's attempt; a
\* Running record allocates an item that is not Done, a Completed one makes
\* it Done; other states change nothing else.
ReplayRecord(pl, e) ==
    LET cur == [pl[e.no] EXCEPT !.attempt = e.att] IN
    [pl EXCEPT ![e.no] =
        CASE e.st = Running /\ cur.status # Done ->
                 [cur EXCEPT !.status = Allocated, !.allocated = @ + 1]
          [] e.st = Completed -> [cur EXCEPT !.status = Done, !.allocated = 0]
          [] OTHER -> cur]

\* Replay: a fresh id table (all Pending, attempt 0) rebuilt from the
\* history records of the phase, in ledger order.
Replay(history, p) ==
    SE!FoldLeft(ReplayRecord, NewPool(Total(p)),
                SelectSeq(history, LAMBDA e : e.ph = p /\ e.no \in Ids(p)))

\* A faulty Load that does not put the saved records back in the ledger.
LoadLedgerDropped(history) == <<>>

\* Load's loop over the saved records: each goes back into allocation_table_
\* (and its index) in the saved order.
LoadLedger(history) == history

\* What a minion waiting on a request the dead master was serving does.
LostOnRestart(w) ==
    LET S == {s \in Slots : s[1] = w /\ hs[s].kind # "none"}
    IN  IF S = {} THEN worker[w] ELSE LoseAnswer(worker[w], hs[CHOOSE s \in S : TRUE])

\* The master process dies and a new JobTracker is Load()ed from the Store:
\* every handler thread and the monitor pass die with the old process; the
\* pools are replayed from the saved ledger; failed_count_ is sized to the
\* phase the replayed map pool is in; a Running job monitors that phase; the
\* time heap holds the Running records; everything else Load does not
\* restore starts empty.  The Galaxy jobs of the old Gru keep running, but
\* the new tracker holds no Gru handle.
MasterRestart ==
    LET st    == store.state
        mp    == Replay(store.ledger, "map")
        isMap == DoneCount(mp) # MapTotal
        ph    == IF isMap THEN "map" ELSE "reduce"
        led   == LoadLedger(store.ledger)
    IN
    /\ live /\ restarts < MaxRestarts
    /\ restarts' = restarts + 1
    /\ jobState' = st
    /\ pool' = [p \in Phases |-> IF p = "map" THEN mp ELSE Replay(store.ledger, p)]
    /\ failedCount' = [i \in 1 .. Total(ph) |-> 0]
    /\ monitoring' = [p \in Phases |-> st = JRunning /\ p = ph]
    /\ monTasks' = IF st = JRunning THEN {ph} ELSE {}
    /\ monitor' = (st \in {JRunning, JPending})
    /\ rpcClient' = (st \in {JRunning, JPending})
    /\ table' = led
    /\ heap' = {i \in DOMAIN led : led[i].st = Running}
    /\ gru' = [p \in Phases |-> FALSE]
    /\ counters' = CA!NoCounters
    /\ slug' = [p \in Phases |-> <<>>]
    /\ failedNodes' = [i \in AllIds |-> {}]
    /\ ignored' = [p \in Phases |-> {}]
    /\ ignoredCnt' = [p \in Phases |-> 0]
    /\ dismissed' = [p \in Phases |-> {}]
    /\ mon' = [mon EXCEPT !.pc = "idle", !.aside = {}, !.cur = 0]
    /\ hs' = [s \in Slots |-> NoH]
    /\ worker' = [w \in Workers |-> LostOnRestart(w)]
    /\ UNCHANGED <<live, deployed, capacity, cancels, faults, store>>

-----------------------------------------------------------------------------
(* The specification                                                       *)

\* The steps of one AssignTask handler thread, by the phase it serves.
AssignSteps(s) == AssignReadState(s) \/ AssignHandout(s) \/ AssignRecord(s)
AssignMap(s)    == hs[s].ph = "map" /\ AssignSteps(s)
AssignReduce(s) == hs[s].ph = "reduce" /\ AssignSteps(s)

\* The steps of one FinishTask handler thread, by the phase it serves; the
\* RetractJob and Kill it calls when the job ends are steps of their own.
FinishSteps(s) ==
    \/ FinishLookup(s) \/ FinishBody(s) \/ FinishSort(s) \/ FinishPurge(s)
    \/ FinishNewMonitor(s) \/ FinishRelock(s) \/ FinishCommit(s)
    \/ FinishCancel(s) \/ FinishRelease(s)
FinishMap(s)    == hs[s].ph = "map" /\ FinishSteps(s)
FinishReduce(s) == hs[s].ph = "reduce" /\ FinishSteps(s)

\* JobTracker::Update: both phases' handles read and called in turn.
Update(s) == UpdateRead(s) \/ UpdateCall(s)

HandlerStep(s) ==
    \/ AssignMap(s) \/ AssignReduce(s) \/ FinishMap(s) \/ FinishReduce(s)
    \/ Retract(s) \/ KillMu(s) \/ KillAlloc(s) \/ Update(s)

MinionStep(w) ==
    \/ SendAssign(w) \/ Exec(w) \/ ResendFinish(w) \/ Crash(w) \/ Restart(w)

MonitorStep ==
    \/ \E p \in Phases : MonStart(p)
    \/ MonEnd \/ MonPop \/ MonQuery

Next ==
    \/ /\ \/ \E s \in Slots : HandlerStep(s)
          \/ \E w \in Workers : MinionStep(w)
          \/ \E c \in cancels : DeliverCancel(c)
          \/ KillJob
          \/ UpdateRequest
          \/ MonitorStep
       /\ UNCHANGED <<store, restarts>>
    \/ Backup
    \/ MasterRestart

Spec == Init /\ [][Next]_vars

\* The steps a minion's Loop takes by itself (a crash is not one of them).
MinionWork(w) == SendAssign(w) \/ Exec(w) \/ ResendFinish(w) \/ Restart(w)

\* Every RPC handler thread, every minion's Loop and the monitor thread is
\* eventually scheduled while it can move: none of them blocks forever
\* (handlers only wait on mutexes, the minion retries after a sleep, the
\* monitor sleeps between passes).  A CancelTask request is eventually
\* delivered or lost.  Crashes, lost answers, a user kill and a master
\* restart are failures or outside input, and are not forced.
Fairness ==
    /\ \A s \in Slots : WF_vars(HandlerStep(s) /\ UNCHANGED <<store, restarts>>)
    /\ \A w \in Workers : WF_vars(MinionWork(w) /\ UNCHANGED <<store, restarts>>)
    /\ \A c \in Workers \X AllIds : WF_vars(DeliverCancel(c) /\ UNCHANGED <<store, restarts>>)
    /\ WF_vars(MonitorStep /\ UNCHANGED <<store, restarts>>)

FairSpec == Spec /\ Fairness

-----------------------------------------------------------------------------
(* Properties                                                              *)

Entry == [ph : Phases, no : AllIds, att : Nat, ep : Workers, st : TaskStates]

TypeOK ==
    /\ jobState \in JobStates
    /\ live \in BOOLEAN /\ monitor \in BOOLEAN /\ rpcClient \in BOOLEAN
    /\ deployed \in [Phases -> BOOLEAN] /\ monitoring \in [Phases -> BOOLEAN]
    /\ \A p \in Phases :
         /\ DOMAIN pool[p] = Ids(p)
         /\ \A no \in Ids(p) : pool[p][no].status \in ResStatus
                                /\ pool[p][no].allocated \in Nat
         /\ slug[p] \in Seq(Ids(p))
         /\ ignored[p] \subseteq Ids(p) /\ ignoredCnt[p] \in Nat
         /\ dismissed[p] \subseteq Workers /\ capacity[p] \in Int
    /\ table \in Seq(Entry)
    /\ heap \subseteq DOMAIN table
    /\ \E n \in {MapTotal, ReduceTotal} : failedCount \in [1 .. n -> Nat]
    /\ failedNodes \in [AllIds -> SUBSET Nodes]
    /\ monTasks \subseteq Phases
    /\ mon.pc \in {"idle", "scan", "query"} /\ mon.aside \subseteq DOMAIN table
    /\ cancels \subseteq Workers \X AllIds
    /\ gru \in [Phases -> BOOLEAN] /\ restarts \in 0 .. MaxRestarts
    /\ store.ledger \in Seq(Entry) /\ store.state \in JobStates
    /\ \E names \in SUBSET DOMAIN TaskCounters : counters \in [names -> Nat]

\* First completion wins (FinishMap/FinishReduce, kTaskCompleted): however
\* duplicate attempts, retried reports and the monitor interleave, the
\* ledger never holds two Completed attempts of one task.
AtMostOneCompleted ==
    \A p \in Phases, no \in AllIds :
        Cardinality({i \in DOMAIN table : table[i].ph = p /\ table[i].no = no
                                          /\ table[i].st = Completed}) <= 1

\* A job's end is final (spec section 8, invariant 5): once state_ is
\* Completed, Failed or Killed it never changes, even when a user KillJob
\* and the FinishMap/FinishReduce that ends the job run concurrently.
TerminalStateIsFinal ==
    [][(jobState \in Terminal) => jobState' = jobState]_jobState

\* Once every map task is Done, a map-reduce job that is live and that no
\* handler is ending runs its reduce minions (spec section 2, the reduce
\* phase starts before the maps end): FinishMap's pull-up test
\* `completed == reduce_begin_` must fire for some count of Done maps,
\* since the map-end switch never creates reduce_.
ReduceDeployedAfterMaps ==
    (~MapOnly /\ live /\ DoneCount(pool["map"]) = MapTotal
        /\ \A s \in Slots : hs[s].end = "none")
    => deployed["reduce"]

\* The hand-out bound of the model starves a task: a task is back in the
\* pool (Pending) and no minion may ask for it again.
AllocsSpent ==
    /\ Len(table) >= MaxAllocs
    /\ \E p \in Phases : \E no \in Ids(p) :
         ~IsAllocated(pool[p], no) /\ ~IsDone(pool[p], no)

\* A job ends (spec section 2, the job runs to Completed or Failed): while
\* the minions keep looping, every task is eventually handed out, run and
\* reported, so state_ reaches a terminal state, unless the model's bound
\* on hand-outs keeps a returned task from being handed out again.
JobEventuallyEnds == <>(jobState \in Terminal \/ AllocsSpent)

\* The refinement mapping: the job state is state_, a task is Done when its
\* pool says so.
DoneSets == [p \in Phases |-> {no \in Ids(p) : IsDone(pool[p], no)}]

AJ == INSTANCE AbstractJob WITH state <- jobState, done <- DoneSets

\* The tracker implements the job contract of AbstractJob: every step of
\* the handlers, the monitor, Kill and the minions either leaves the job
\* state and the Done tasks alone or is one abstract step (the first
\* AssignMap starts the job, a first FinishItem completes one task, and
\* Kill sets the end state FinishMap/FinishReduce or the user asked for).
\* A user kill racing the job's end, and Load restoring state_ from an older
\* backup, break it (README, Properties).
ImplementsAbstractJob == AJ!Spec

\* Kill is final for the ledger (spec section 8, invariant 6): once Kill
\* has swept allocation_table_, no attempt is Running any more.
KillSwept ==
    /\ ~live /\ ~rpcClient /\ jobState \in Terminal
    /\ \A s \in Slots : hs[s].pc \notin {"k_mu", "k_alloc"}
NoRunningAfterKill ==
    KillSwept => \A i \in DOMAIN table : table[i].st # Running

\* Every Done task keeps a Completed attempt in the ledger (or one about
\* to be committed).  Dump writes the ledger and Load's Replay marks a task
\* Done only from a Completed record, so a Done task without one would be
\* run again after a master restart.
CommittingCompletion(p, no) ==
    \E s \in Slots : /\ hs[s].kind = "finish" /\ hs[s].ph = p /\ hs[s].no = no
                     /\ hs[s].st = Completed
                     /\ hs[s].pc \notin {"f_lookup", "f_body", "f_sort"}
DoneIsRecorded ==
    \A p \in Phases : \A no \in Ids(p) :
        IsDone(pool[p], no) =>
            \/ \E i \in DOMAIN table : /\ table[i].ph = p /\ table[i].no = no
                                       /\ table[i].st = Completed
            \/ CommittingCompletion(p, no)

\* A job that forbids duplicates never runs two attempts of one task at
\* once (spec section 3): apart from an attempt whose FinishMap/FinishReduce
\* has already returned the task to the pool and is about to commit its
\* end state, at most one attempt of a task is Running in the ledger, however
\* retried reports, crashed minions and the monitor interleave.
Settling(i) ==
    \E s \in Slots : /\ hs[s].kind = "finish" /\ hs[s].ph = table[i].ph
                     /\ hs[s].no = table[i].no /\ hs[s].att = table[i].att
                     /\ hs[s].pc \notin {"f_lookup", "f_body"}
SingleRunningAttempt ==
    \A p \in Phases : ~AllowDup(p) =>
        \A no \in Ids(p) :
            Cardinality({i \in DOMAIN table : /\ table[i].ph = p /\ table[i].no = no
                                              /\ table[i].st = Running
                                              /\ ~Settling(i)}) <= 1

\* Reduce output is only accepted once every map is done (FinishReduce
\* answers kSuspend to early reports, spec scenario S5): however early the
\* reduce minions are deployed, no reduce task is Done while a map is not.
ReduceCompletedAfterMaps ==
    DoneCount(pool["reduce"]) > 0 => DoneCount(pool["map"]) = MapTotal

\* A failure is counted once per host (spec section 8, invariant 4): the
\* failed_count_ of a task never exceeds the number of hosts recorded in
\* failed_nodes_ for it, across retried reports and the map-to-reduce reset.
FailedCountWithinNodes ==
    \A i \in DOMAIN failedCount : failedCount[i] <= Cardinality(failedNodes[i - 1])

\* A task the pool has handed out is never orphaned: while it is Allocated
\* some attempt of it is Running in the ledger or still being assigned or
\* reported (ReturnBackItem is called whenever the last attempt ends).  It
\* does not see a hand-out given back twice (SingleRunningAttempt does).
InFlight(p, no) ==
    \E s \in Slots : hs[s].kind \in {"assign", "finish"} /\ hs[s].ph = p /\ hs[s].no = no
AllocatedHasAttempt ==
    jobState \notin Terminal =>
        \A p \in Phases : \A no \in Ids(p) :
            IsAllocated(pool[p], no) =>
                \/ \E i \in DOMAIN table : /\ table[i].ph = p /\ table[i].no = no
                                           /\ table[i].st = Running
                \/ InFlight(p, no)

\* The ignore-failure bookkeeping agrees with itself (spec section 8,
\* invariant 8): ignored_map_failures_ equals the size of
\* ignore_failure_mappers_ and stays within ignore_map_failures, whatever
\* becomes of the empty sort file written for a fake completion.
IgnoredMatchesCounter ==
    \A p \in Phases : /\ ignoredCnt[p] = Cardinality(ignored[p])
                     /\ ignoredCnt[p] <= IgnoreBudget(p)

\* Attempt numbers identify attempts: map_index_ / reduce_index_ key records
\* by <<no, attempt>> and a minion names its output after them.  No two
\* ledger records of one task carry the same attempt number, even after a
\* master restart has Load()ed the ledger and Replay()ed the pools.
AttemptsUnique ==
    \A i, j \in DOMAIN table :
        (i # j /\ table[i].ph = table[j].ph /\ table[i].no = table[j].no)
            => table[i].att # table[j].att

\* Load never invents progress: after a master restart, every task the
\* replayed pool reports Done was Done in the pool of the old process,
\* whatever the age of the backup it was loaded from.
ReplayNeverInventsDone ==
    [][MasterRestart =>
         \A p \in Phases : \A no \in Ids(p) : IsDone(pool'[p], no) => IsDone(pool[p], no)]_vars

\* The job's counters count every completed task once (spec section 4.5,
\* scenario S6 and invariant 7): each name holds its value times the number
\* of tasks a Completed report finished, so at most once per Done task,
\* however duplicate attempts and resent reports race, and at least once
\* per Done task that no ignored failure completed, across master restarts.
DoneTasks == DoneCount(pool["map"]) + DoneCount(pool["reduce"])
IgnoredTasks == Cardinality(ignored["map"]) + Cardinality(ignored["reduce"])
CountersMatchDone ==
    \A k \in DOMAIN TaskCounters :
        /\ CA!Value(counters, k) <= DoneTasks * TaskCounters[k]
        /\ CA!Value(counters, k) >= (DoneTasks - IgnoredTasks) * TaskCounters[k]

\* The tracker never reaches undefined behaviour: no failed_count_ index
\* past its end (a map failure reported after the switch to reduce), no
\* AddTask on a deleted monitor_, no Query through a deleted rpc_client_.
NoUndefinedBehaviour == faults = {}

\* Update never calls through a Gru handle that Kill or the last FinishMap
\* has deleted: it reads map_ / reduce_ without mu_, which those delete under.
UpdateUsesLiveGru == "UpdateOnDeletedGru" \notin faults

=============================================================================
