------------------------------- MODULE Worker -------------------------------
(***************************************************************************)
(* The background worker's loop (bgworker.c) and the jobs scheduler        *)
(* (jobs.c) beside clients that add, run and delete jobs.  One iteration   *)
(* of the loop runs the due jobs in ONE transaction, drains the ring when  *)
(* that is due, reclaims a stuck slot every few iterations and waits.      *)
(*                                                                         *)
(* A row of pgredis.jobs and its row of pgredis.job_stats are one record:  *)
(* update_job_row writes both and DELETE_JOB's cascade removes both.  The  *)
(* clock is left out: `due' says whether next_run has passed.  `row' is    *)
(* the newest version of a row, `base' the committed one and `owner' the   *)
(* transaction that holds the row's lock.                                  *)
(*                                                                         *)
(* The scheduler reads the due list and looks a job up read-only, in the   *)
(* snapshot the tick began with; its UPDATE and INSERT take new snapshots, *)
(* wait for row locks and see what was committed meanwhile.                *)
(***************************************************************************)
EXTENDS Integers, FiniteSets, FiniteSetsExt

CONSTANTS
  Clients,        \* sessions that call ADD_*_POLICY, BGSAVE, RUN_JOB, DELETE_JOB
  TheWorker,      \* the background worker
  Nobody,         \* no transaction holds the row
  Absent,         \* no such row
  MaxJobs,        \* bound: job ids the sequence hands out
  Unimplemented,  \* jobs of type aof_rewrite or of an unknown type
  Loads,          \* bounds: the workloads, one of which is chosen at the start:
                  \*   jobs, the jobs that are there when the worker starts;
                  \*   clients, the clients there are, and calls, the calls they make;
                  \*   runs, the runs of a job after which it does not fall due again;
                  \*   events, the events in the ring at a time;
                  \*   deaths, whether a producer may leave a slot in WRITING
  RingSize,       \* pg_redis.dirty_ring_size
  BatchMax,       \* events one drain takes
  ReclaimEvery    \* pg_redis.ring_reclaim_tick_interval

Jobs == 1 .. MaxJobs
Actors == Clients \cup {TheWorker}

ASSUME WorkerAssumption ==
  /\ TheWorker \notin Clients /\ Nobody \notin Actors
  /\ MaxJobs \in Nat /\ Absent \notin [due : BOOLEAN, ok : Nat, failed : Nat]
  /\ Unimplemented \subseteq Jobs
  /\ Loads \subseteq [jobs : 0 .. MaxJobs, clients : SUBSET Clients, calls : Nat,
                    runs : Nat, events : 0 .. RingSize, deaths : BOOLEAN]
  /\ RingSize \in Nat \ {0} /\ BatchMax \in Nat \ {0} /\ ReclaimEvery \in Nat \ {0}

VARIABLES
  load,              \* the workload
  base, row, owner,  \* jobs and job_stats
  nextId,            \* jobs_job_id_seq
  at,                \* where each actor is
  cur,               \* the job whose row it is about to write, and how its run ended
  todo,              \* the worker's ids[] not yet run
  work,              \* ghost: runs of each open transaction
  done,              \* ghost: runs of committed transactions
  calls,             \* calls of the clients so far
  pending, stuck,    \* events in the ring; a slot left in WRITING
  elapsed,           \* flush_interval has passed since last_drain
  turn,              \* reclaim_tick
  term,              \* got_sigterm
  promised, owed,    \* ghost: events pending at SIGTERM; those not yet durable
  failed             \* ghost: a drain failed after SIGTERM

tables == <<base, row, owner, nextId>>
runs == <<work, done, calls>>
ring == <<pending, stuck, elapsed, turn, term, promised, owed, failed>>
vars == <<load, tables, at, cur, todo, runs, ring>>

----------------------------------------------------------------------------
(* Rows and transactions *)

NewRow(due) == [due |-> due, ok |-> 0, failed |-> 0]
NoRuns == [j \in Jobs |-> [ok |-> 0, failed |-> 0]]
NoRun == [job |-> 0, ok |-> FALSE]

\* One more run that ended with `ok'.
Counted(c, ok) ==
  IF ok THEN [c EXCEPT !.ok = @ + 1] ELSE [c EXCEPT !.failed = @ + 1]

Init ==
  /\ load \in Loads
  /\ base \in [Jobs -> {Absent} \cup {NewRow(d) : d \in BOOLEAN}]
  /\ \A j \in Jobs : base[j] = Absent <=> j > load.jobs
  /\ row = base /\ owner = [j \in Jobs |-> Nobody] /\ nextId = load.jobs + 1
  /\ at = [a \in Actors |-> IF a = TheWorker THEN "loop" ELSE "idle"]
  /\ cur = [a \in Actors |-> NoRun]
  /\ todo = {}
  /\ work = [a \in Actors |-> NoRuns] /\ done = NoRuns /\ calls = 0
  /\ pending = 0 /\ stuck = FALSE /\ elapsed = FALSE /\ turn = 0
  /\ term = FALSE /\ promised = 0 /\ owed = 0 /\ failed = FALSE

Mine(a) == {j \in Jobs : owner[j] = a}
Free(a, j) == owner[j] \in {Nobody, a}

\* What a statement of `a' that begins now reads of job j.
Sees(a, j) == IF owner[j] = a THEN row[j] ELSE base[j]

Unlock(a) == owner' = [j \in Jobs |-> IF owner[j] = a THEN Nobody ELSE owner[j]]

CommitOf(a) ==
  /\ base' = [j \in Jobs |-> IF owner[j] = a THEN row[j] ELSE base[j]]
  /\ done' = [j \in Jobs |-> [ok |-> done[j].ok + work[a][j].ok,
                              failed |-> done[j].failed + work[a][j].failed]]
  /\ work' = [work EXCEPT ![a] = NoRuns]
  /\ Unlock(a)
  /\ UNCHANGED <<row, nextId, calls>>

AbortOf(a) ==
  /\ row' = [j \in Jobs |-> IF owner[j] = a THEN base[j] ELSE row[j]]
  /\ work' = [work EXCEPT ![a] = NoRuns]
  /\ Unlock(a)
  /\ UNCHANGED <<base, nextId, done, calls>>

Write(a, j, r) ==
  /\ row' = [row EXCEPT ![j] = r]
  /\ owner' = [owner EXCEPT ![j] = a]
  /\ UNCHANGED <<base, nextId>>

----------------------------------------------------------------------------
(* jobs.c: one run of a job *)

\* dispatch_job: how the handler of job j can end.  Every handler may raise
\* an error; the subtransaction around it makes that a failed run.
Dispatch(j) == IF j \in Unimplemented THEN {FALSE} ELSE BOOLEAN

\* pg_redis_jobs_run_one up to the end of the handler.
RunHandler(a, j) ==
  \E ok \in Dispatch(j) : cur' = [cur EXCEPT ![a] = [job |-> j, ok |-> ok]]

\* update_job_row: next_run moves on whether or not the run succeeded, and
\* the counters are incremented from the newest version of their row.
\* Mutant: it increments what the last commit left.
MutUpdated(j, ok) ==
  [Counted(IF base[j] = Absent THEN row[j] ELSE base[j], ok) EXCEPT !.due = FALSE]
Updated(j, ok) == [Counted(row[j], ok) EXCEPT !.due = FALSE]

UpdateJobRow(a) ==
  LET j == cur[a].job IN
  /\ Free(a, j) /\ row[j] # Absent
  /\ Write(a, j, Updated(j, cur[a].ok))
  /\ work' = [work EXCEPT ![a][j] = Counted(@, cur[a].ok)]
  /\ cur' = [cur EXCEPT ![a] = NoRun]
  /\ UNCHANGED <<done, calls>>

\* The job was deleted and the deletion committed: the UPDATE finds no row,
\* and the INSERT into job_stats violates its foreign key.  The error leaves
\* the transaction to abort.
Orphaned(a) ==
  LET j == cur[a].job IN
  /\ Free(a, j) /\ row[j] = Absent
  /\ AbortOf(a)
  /\ cur' = [cur EXCEPT ![a] = NoRun]

----------------------------------------------------------------------------
(* Clients.  A client's transaction may make several calls. *)

Goto(a, place) == at' = [at EXCEPT ![a] = place]
Call(c) == c \in load.clients /\ at[c] = "idle" /\ calls < load.calls /\ calls' = calls + 1

InsertJob(c, due) ==
  /\ Call(c) /\ nextId \in Jobs
  /\ row' = [row EXCEPT ![nextId] = NewRow(due)]
  /\ owner' = [owner EXCEPT ![nextId] = c]
  /\ nextId' = nextId + 1
  /\ UNCHANGED <<base, at, cur, todo, work, done, ring>>

\* ADD_*_POLICY: due after its interval.  BGSAVE: due at once.
AddPolicy(c) == InsertJob(c, FALSE)
Bgsave(c) == InsertJob(c, TRUE)

\* RUN_JOB: a job its statement does not see is not run.
RunJob(c, j) ==
  /\ Call(c) /\ Sees(c, j) # Absent
  /\ RunHandler(c, j)
  /\ Goto(c, "update")
  /\ UNCHANGED <<tables, todo, work, done, ring>>

RunJobRecords(c) ==
  /\ at[c] = "update" /\ UpdateJobRow(c)
  /\ Goto(c, "idle") /\ UNCHANGED <<todo, ring>>

RunJobFails(c) ==
  /\ at[c] = "update" /\ Orphaned(c)
  /\ Goto(c, "idle") /\ UNCHANGED <<todo, ring>>

\* DELETE_JOB: the DELETE waits for the row it has found, and deletes its
\* newest version, with its cascade, if there still is one.
DeleteJob(c, j) ==
  /\ Call(c) /\ Sees(c, j) # Absent
  /\ cur' = [cur EXCEPT ![c] = [job |-> j, ok |-> TRUE]]
  /\ Goto(c, "delete")
  /\ UNCHANGED <<tables, todo, work, done, ring>>

DeleteRow(c) ==
  /\ at[c] = "delete" /\ Free(c, cur[c].job)
  /\ IF row[cur[c].job] # Absent THEN Write(c, cur[c].job, Absent) ELSE UNCHANGED tables
  /\ cur' = [cur EXCEPT ![c] = NoRun]
  /\ Goto(c, "idle")
  /\ UNCHANGED <<todo, runs, ring>>

EndClient(c) ==
  /\ at[c] = "idle" /\ Mine(c) # {}
  /\ CommitOf(c) \/ AbortOf(c)
  /\ UNCHANGED <<at, cur, todo, ring>>

\* Two transactions that wait for each other's rows: PostgreSQL fails one.
Blocks(a, b) == cur[b].job # 0 /\ owner[cur[b].job] = a

BreakDeadlock(a) ==
  /\ \E b \in Actors \ {a} : Blocks(a, b) /\ Blocks(b, a)
  /\ AbortOf(a)
  /\ cur' = [cur EXCEPT ![a] = NoRun]
  /\ Goto(a, IF a = TheWorker THEN "drain" ELSE "idle")
  /\ todo' = IF a = TheWorker THEN {} ELSE todo
  /\ UNCHANGED ring

----------------------------------------------------------------------------
(* bgworker.c: the loop *)

\* The ids pg_redis_jobs_run_due reads.
\* Mutant: a job is run once only.
MutDueList == {j \in Jobs : base[j] # Absent /\ base[j].due /\ base[j].ok + base[j].failed = 0}
DueList == {j \in Jobs : base[j] # Absent /\ base[j].due}

\* Mutant: the tick moves next_run on, and commits that, before it runs the jobs.
MutTick ==
  /\ at[TheWorker] = "loop" /\ ~term
  /\ todo' = DueList
  /\ Goto(TheWorker, "jobs")
  /\ base' = [j \in Jobs |-> IF j \in DueList THEN [base[j] EXCEPT !.due = FALSE] ELSE base[j]]
  /\ row' = [j \in Jobs |-> IF owner[j] = Nobody THEN base'[j] ELSE row[j]]
  /\ UNCHANGED <<owner, nextId, cur, runs, ring>>
Tick ==
  /\ at[TheWorker] = "loop" /\ ~term
  /\ todo' = DueList
  /\ Goto(TheWorker, "jobs")
  /\ UNCHANGED <<tables, cur, runs, ring>>

\* The lookup of pg_redis_jobs_run_one reads the tick's own snapshot, so it
\* finds every job of the list, also one deleted since.
RunDue ==
  /\ at[TheWorker] = "jobs" /\ cur[TheWorker] = NoRun
  /\ \E j \in todo : RunHandler(TheWorker, j) /\ todo' = todo \ {j}
  /\ UNCHANGED <<tables, at, runs, ring>>

RecordDue ==
  /\ at[TheWorker] = "jobs" /\ cur[TheWorker] # NoRun
  /\ UpdateJobRow(TheWorker)
  /\ UNCHANGED <<at, todo, ring>>

\* The error leaves run_due; the loop's catch aborts the whole tick, with the
\* runs before it, and goes on.
TickFails ==
  /\ at[TheWorker] = "jobs" /\ cur[TheWorker] # NoRun
  /\ Orphaned(TheWorker)
  /\ todo' = {}
  /\ Goto(TheWorker, "drain")
  /\ UNCHANGED ring

TickCommits ==
  /\ at[TheWorker] = "jobs" /\ todo = {} /\ cur[TheWorker] = NoRun
  /\ CommitOf(TheWorker)
  /\ Goto(TheWorker, "drain")
  /\ UNCHANGED <<cur, todo, ring>>

\* 2. The ring is drained at the watermark, or when flush_interval has passed.
\* Mutant: no flush_interval.
MutDrainDue == pending >= RingSize \div 4
DrainDue == pending >= RingSize \div 4 \/ (pending > 0 /\ elapsed)

\* Mutant: one event too many.
MutBatch == BatchMax + 1
Batch == Min({BatchMax, pending})

\* A drain commits its batch or fails as a whole.
DrainOk ==
  /\ pending' = pending - Batch
  /\ owed' = Max({0, owed - Batch})
  /\ UNCHANGED failed

DrainFails ==
  /\ failed' = (failed \/ term)
  /\ UNCHANGED <<pending, owed>>

Drain ==
  /\ at[TheWorker] = "drain"
  /\ \/ DrainDue /\ DrainOk /\ elapsed' = FALSE
     \/ DrainDue /\ DrainFails /\ elapsed' = FALSE
     \/ ~DrainDue /\ UNCHANGED <<pending, owed, failed, elapsed>>
  /\ Goto(TheWorker, "reclaim")
  /\ UNCHANGED <<tables, cur, todo, runs, stuck, turn, term, promised>>

\* Every ReclaimEvery-th iteration resets the slots of dead producers.
Reclaim ==
  /\ at[TheWorker] = "reclaim"
  /\ turn' = (turn + 1) % ReclaimEvery
  /\ stuck' = (stuck /\ turn' # 0)
  /\ Goto(TheWorker, "wait")
  /\ UNCHANGED <<tables, cur, todo, runs, pending, elapsed, term, promised, owed, failed>>

\* WaitLatch: a producer's wake-up, SIGTERM, or the timeout.
Wait ==
  /\ at[TheWorker] = "wait"
  /\ Goto(TheWorker, "loop")
  /\ UNCHANGED <<tables, cur, todo, runs, ring>>

\* After SIGTERM the loop ends; one more drain, of one batch.
\* Mutant: no final drain.
MutFinalDrain == UNCHANGED <<pending, owed, failed>>
FinalDrain ==
  \/ pending > 0 /\ (DrainOk \/ DrainFails)
  \/ pending = 0 /\ UNCHANGED <<pending, owed, failed>>

Exit ==
  /\ at[TheWorker] = "loop" /\ term
  /\ FinalDrain
  /\ Goto(TheWorker, "exited")
  /\ UNCHANGED <<tables, cur, todo, runs, stuck, elapsed, turn, term, promised>>

----------------------------------------------------------------------------
(* The surroundings *)

Sigterm ==
  /\ ~term
  /\ term' = TRUE /\ promised' = pending /\ owed' = pending
  /\ UNCHANGED <<tables, at, cur, todo, runs, pending, stuck, elapsed, turn, failed>>

\* next_run of a committed row passes.  The interval of a job is longer than
\* the tick that sets its next_run.
FallDue(j) ==
  /\ base[j] # Absent /\ ~base[j].due /\ owner[j] # TheWorker
  /\ base[j].ok + base[j].failed < load.runs
  /\ base' = [base EXCEPT ![j].due = TRUE]
  /\ row' = IF owner[j] = Nobody THEN [row EXCEPT ![j].due = TRUE] ELSE row
  /\ UNCHANGED <<owner, nextId, at, cur, todo, runs, ring>>

FlushIntervalPasses ==
  /\ ~elapsed /\ elapsed' = TRUE
  /\ UNCHANGED <<tables, at, cur, todo, runs, pending, stuck, turn, term, promised, owed, failed>>

\* Producers, as the worker sees them: an event is published, or its
\* producer raises an error and leaves the slot at write_head in WRITING.
Publish ==
  /\ pending < load.events /\ ~stuck
  /\ \/ pending' = pending + 1 /\ UNCHANGED stuck
     \/ load.deaths /\ stuck' = TRUE /\ UNCHANGED pending
  /\ UNCHANGED <<tables, at, cur, todo, runs, elapsed, turn, term, promised, owed, failed>>

ClientStep(c) ==
  \/ AddPolicy(c) \/ Bgsave(c) \/ DeleteRow(c) \/ RunJobRecords(c) \/ RunJobFails(c) \/ EndClient(c)
  \/ \E j \in Jobs : RunJob(c, j) \/ DeleteJob(c, j)

WorkerStep ==
  \/ Tick \/ RunDue \/ RecordDue \/ TickFails \/ TickCommits
  \/ Drain \/ Reclaim \/ Wait \/ Exit

Step ==
  \/ WorkerStep
  \/ \E c \in Clients : ClientStep(c)
  \/ \E a \in Actors : BreakDeadlock(a)
  \/ Sigterm \/ FlushIntervalPasses \/ Publish
  \/ \E j \in Jobs : FallDue(j)

Next == Step /\ UNCHANGED load

Spec == Init /\ [][Next]_vars

\* The scheduler runs the worker; time passes; a lock that is free is granted;
\* the deadlock detector acts; clients end their transactions; a drain that is
\* tried again and again does not fail for ever.
Fairness ==
  /\ WF_vars(WorkerStep /\ UNCHANGED load)
  /\ WF_vars(FlushIntervalPasses /\ UNCHANGED load)
  /\ SF_vars((RecordDue \/ TickFails) /\ UNCHANGED load)
  /\ SF_vars(Drain /\ DrainDue /\ DrainOk /\ UNCHANGED load)
  /\ WF_vars((\E a \in Actors : BreakDeadlock(a)) /\ UNCHANGED load)
  /\ \A c \in Clients :
       /\ WF_vars(EndClient(c) /\ UNCHANGED load)
       /\ SF_vars((RunJobRecords(c) \/ RunJobFails(c) \/ DeleteRow(c)) /\ UNCHANGED load)

FairSpec == Spec /\ Fairness

----------------------------------------------------------------------------
(* Properties *)

Counters == [ok : Nat, failed : Nat]
Rows == {Absent} \cup [due : BOOLEAN, ok : Nat, failed : Nat]

\* The variables have their types, the ring is never over- or underdrawn, and
\* a row whose lock is free has one version.
TypeOK ==
  /\ base \in [Jobs -> Rows] /\ row \in [Jobs -> Rows]
  /\ owner \in [Jobs -> Actors \cup {Nobody}] /\ nextId \in 1 .. MaxJobs + 1
  /\ \A j \in Jobs : owner[j] = Nobody => row[j] = base[j]
  /\ at \in [Actors -> {"idle", "update", "delete", "loop", "jobs", "drain", "reclaim", "wait", "exited"}]
  /\ cur \in [Actors -> [job : {0} \cup Jobs, ok : BOOLEAN]] /\ todo \subseteq Jobs
  /\ work \in [Actors -> [Jobs -> Counters]] /\ done \in [Jobs -> Counters]
  /\ load \in Loads /\ calls \in 0 .. load.calls
  /\ pending \in 0 .. load.events /\ promised \in 0 .. load.events /\ owed \in 0 .. promised
  /\ turn \in 0 .. ReclaimEvery - 1
  /\ {stuck, elapsed, term, failed} \subseteq BOOLEAN

\* job_stats counts every run of a committed transaction once, as success or
\* as failure, and no other: not when RUN_JOB and the worker run the same job
\* at the same time, nor when a tick that ran some jobs is aborted by the
\* deletion of a later one (update_job_row's ON CONFLICT increments).
CountersExact ==
  \A j \in Jobs : base[j] # Absent =>
    base[j].ok = done[j].ok /\ base[j].failed = done[j].failed

SkipsNothing(j) ==
  base[j] # Absent /\ base'[j] # Absent /\ base[j].due /\ ~base'[j].due => done'[j] # done[j]

\* A due job stops being due only by a run that the same commit records, or
\* by its deletion: an aborted tick skips nothing (the catch of the loop).
NoSkip == [][\A j \in Jobs : SkipsNothing(j)]_vars

\* "SIGTERM: final drain so already-acked events make it to disk": of the
\* events that were in the ring at SIGTERM, all but what exceeds one batch are
\* durable when the worker has exited, unless a drain failed.
FinalDrainBound ==
  at[TheWorker] = "exited" /\ ~failed => owed <= Max({0, promised - BatchMax})

\* A job that is due is run, or deleted, while the worker is not told to
\* stop: neither a handler that fails, nor a tick that aborts, nor a client
\* that holds the job's row for a while keeps it from running.
DueJobsRun ==
  \A j \in Jobs : (base[j] # Absent /\ base[j].due) ~> (base[j] = Absent \/ ~base[j].due \/ term)

\* The scheduler's tick, whatever happens to it, does not keep the worker
\* from the ring: a stuck slot is reclaimed, and events do not lie in the
\* ring for ever, few as they may be (watermark and flush_interval).
RingServed ==
  /\ stuck ~> (~stuck \/ term)
  /\ \A n \in 1 .. Max({l.events : l \in Loads}) : pending = n ~> (pending # n \/ term)
=============================================================================
