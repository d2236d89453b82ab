---------------------------- MODULE WorkerProofs ----------------------------
(***************************************************************************)
(* Proofs about Worker, for every set of clients, every workload and every *)
(* batch size.  The inductive invariant has three parts that no action     *)
(* mixes: what the rows say against the ghost counts of runs (Ledger),     *)
(* where the actors are (Places), and what SIGTERM promised (Promise).     *)
(***************************************************************************)
EXTENDS Worker, TLAPS

Zero == [ok |-> 0, failed |-> 0]

\* A row that a transaction holds counts the committed runs of its job and
\* those of the transaction.  A transaction has runs only of jobs it holds,
\* and a committed row it holds and has not deleted is one it has run.  An id
\* the sequence has not handed out names no row and has no runs.
Ledger ==
  /\ base \in [Jobs -> Rows] /\ row \in [Jobs -> Rows]
  /\ owner \in [Jobs -> Actors \cup {Nobody}] /\ nextId \in 1 .. MaxJobs + 1
  /\ work \in [Actors -> [Jobs -> Counters]] /\ done \in [Jobs -> Counters]
  /\ \A j \in Jobs : owner[j] = Nobody => row[j] = base[j]
  /\ CountersExact
  /\ \A a \in Actors, j \in Jobs : owner[j] = a /\ row[j] # Absent =>
       /\ row[j].ok = done[j].ok + work[a][j].ok
       /\ row[j].failed = done[j].failed + work[a][j].failed
       /\ base[j] # Absent => work[a][j].ok + work[a][j].failed > 0
  /\ \A a \in Actors, j \in Jobs : owner[j] # a => work[a][j] = Zero
  /\ \A j \in Jobs : j >= nextId =>
       base[j] = Absent /\ row[j] = Absent /\ owner[j] = Nobody /\ done[j] = Zero

\* An actor that is about to write a row knows which.
Places ==
  /\ at \in [Actors -> {"idle", "update", "delete", "loop", "jobs", "drain", "reclaim", "wait", "exited"}]
  /\ cur \in [Actors -> [job : {0} \cup Jobs, ok : BOOLEAN]] /\ todo \subseteq Jobs
  /\ \A a \in Actors : cur[a] # NoRun \/ at[a] \in {"update", "delete"} => cur[a].job \in Jobs
  /\ load \in Loads /\ calls \in 0 .. load.calls

\* What is owed is still in the ring, and the worker exits only when told to.
Promise ==
  /\ load \in Loads
  /\ pending \in 0 .. load.events /\ promised \in 0 .. load.events /\ owed \in 0 .. promised
  /\ turn \in 0 .. ReclaimEvery - 1
  /\ stuck \in BOOLEAN /\ elapsed \in BOOLEAN /\ term \in BOOLEAN /\ failed \in BOOLEAN
  /\ owed <= pending
  /\ at[TheWorker] = "exited" => term
  /\ FinalDrainBound

WorkerInv == Ledger /\ Places /\ Promise

----------------------------------------------------------------------------
(* Constants and operators *)

LEMMA LoadTypes ==
  ASSUME NEW l \in Loads
  PROVE  /\ l.jobs \in 0 .. MaxJobs /\ l.calls \in Nat /\ l.runs \in Nat
         /\ l.events \in Nat /\ l.deaths \in BOOLEAN
BY WorkerAssumption

LEMMA MaxIsNonNegative ==
  ASSUME NEW x \in Int
  PROVE  Max({0, x}) = IF x > 0 THEN x ELSE 0
<1>1. \E m \in {0, x} : \A y \in {0, x} : m >= y  OBVIOUS
<1>2. Max({0, x}) \in {0, x} /\ \A y \in {0, x} : Max({0, x}) >= y  BY <1>1 DEF Max
<1> QED BY <1>2

LEMMA MinOfTwo ==
  ASSUME NEW x \in Int, NEW y \in Int
  PROVE  Min({x, y}) = IF x <= y THEN x ELSE y
<1>1. \E m \in {x, y} : \A z \in {x, y} : m <= z  OBVIOUS
<1>2. Min({x, y}) \in {x, y} /\ \A z \in {x, y} : Min({x, y}) <= z  BY <1>1 DEF Min
<1> QED BY <1>2

LEMMA CountedAdds ==
  ASSUME NEW ok \in BOOLEAN, NEW c \in Counters
  PROVE  /\ Counted(c, ok) \in Counters
         /\ Counted(c, ok).ok = c.ok + (IF ok THEN 1 ELSE 0)
         /\ Counted(c, ok).failed = c.failed + (IF ok THEN 0 ELSE 1)
<1>1. c.ok \in Nat /\ c.failed \in Nat  BY DEF Counters
<1>2. Counted(c, ok) = [ok |-> IF ok THEN c.ok + 1 ELSE c.ok,
                        failed |-> IF ok THEN c.failed ELSE c.failed + 1]
  BY DEF Counted, Counters
<1> QED BY <1>1, <1>2 DEF Counters

LEMMA UpdatedAdds ==
  ASSUME NEW ok \in BOOLEAN, NEW j, row[j] \in Rows \ {Absent}
  PROVE  /\ Updated(j, ok) \in Rows \ {Absent} /\ ~Updated(j, ok).due
         /\ Updated(j, ok).ok = row[j].ok + (IF ok THEN 1 ELSE 0)
         /\ Updated(j, ok).failed = row[j].failed + (IF ok THEN 0 ELSE 1)
<1>1. row[j] \in [due : BOOLEAN, ok : Nat, failed : Nat]  BY DEF Rows
<1>2. Counted(row[j], ok) = [due |-> row[j].due, ok |-> IF ok THEN row[j].ok + 1 ELSE row[j].ok,
                             failed |-> IF ok THEN row[j].failed ELSE row[j].failed + 1]
  BY <1>1 DEF Counted
<1>3. row[j].ok \in Nat /\ row[j].failed \in Nat /\ row[j].due \in BOOLEAN  BY <1>1
<1> DEFINE c == Counted(row[j], ok)
<1>4. /\ c \in [due : BOOLEAN, ok : Nat, failed : Nat]
      /\ c.ok = row[j].ok + (IF ok THEN 1 ELSE 0)
      /\ c.failed = row[j].failed + (IF ok THEN 0 ELSE 1)
  BY <1>2, <1>3
<1>5. Updated(j, ok) = [c EXCEPT !.due = FALSE]  BY DEF Updated
<1> HIDE DEF c
<1>6. /\ Updated(j, ok) \in [due : BOOLEAN, ok : Nat, failed : Nat] /\ ~Updated(j, ok).due
      /\ Updated(j, ok).ok = c.ok /\ Updated(j, ok).failed = c.failed
  BY ZenonT(30), <1>4, <1>5
<1>7. Updated(j, ok) \in Rows \ {Absent}  BY <1>6, WorkerAssumption DEF Rows
<1> QED BY <1>4, <1>6, <1>7

----------------------------------------------------------------------------
(* The rows *)

LEMMA LedgerInit ==
  ASSUME Init
  PROVE  Ledger
<1>1. load.jobs \in 0 .. MaxJobs  BY LoadTypes DEF Init
<1>2. \A d \in BOOLEAN : NewRow(d) \in Rows \ {Absent} /\ NewRow(d).ok = 0 /\ NewRow(d).failed = 0
  BY WorkerAssumption DEF NewRow, Rows
<1>3. base \in [Jobs -> Rows] /\ row = base /\ \A j \in Jobs : base[j] = Absent \/ (base[j].ok = 0 /\ base[j].failed = 0)
  BY <1>2 DEF Init, Rows
<1>4. /\ owner = [j \in Jobs |-> Nobody] /\ nextId = load.jobs + 1
      /\ work = [a \in Actors |-> NoRuns] /\ done = NoRuns
      /\ \A j \in Jobs : base[j] = Absent <=> j > load.jobs
  BY DEF Init
<1>5. NoRuns \in [Jobs -> Counters] /\ \A j \in Jobs : NoRuns[j] = Zero /\ NoRuns[j].ok = 0 /\ NoRuns[j].failed = 0
  BY DEF NoRuns, Zero, Counters
<1>6. nextId \in 1 .. MaxJobs + 1  BY <1>1, <1>4, WorkerAssumption
<1>7. \A j \in Jobs : j >= nextId => base[j] = Absent  BY <1>1, <1>4, WorkerAssumption DEF Jobs
<1>8. CountersExact  BY <1>3, <1>4, <1>5 DEF CountersExact
<1> QED BY <1>3, <1>4, <1>5, <1>6, <1>7, <1>8, WorkerAssumption DEF Ledger

\* A commit makes the held rows, and the runs they count, the committed ones;
\* a row that stops being due was run.
LEMMA LedgerCommit ==
  ASSUME Ledger, NEW a \in Actors, CommitOf(a)
  PROVE  /\ Ledger'
         /\ \A j \in Jobs : SkipsNothing(j)
<1> DEFINE Total(j) == [ok |-> done[j].ok + work[a][j].ok, failed |-> done[j].failed + work[a][j].failed]
<1>1. /\ base' = [j \in Jobs |-> IF owner[j] = a THEN row[j] ELSE base[j]]
      /\ done' = [j \in Jobs |-> Total(j)]
      /\ work' = [work EXCEPT ![a] = NoRuns]
      /\ owner' = [j \in Jobs |-> IF owner[j] = a THEN Nobody ELSE owner[j]]
      /\ row' = row /\ nextId' = nextId
  BY DEF CommitOf, Unlock
<1>2. NoRuns \in [Jobs -> Counters] /\ \A j \in Jobs : NoRuns[j] = Zero /\ Zero.ok = 0 /\ Zero.failed = 0
  BY DEF NoRuns, Zero, Counters
<1>3. \A j \in Jobs : /\ done[j] \in Counters /\ work[a][j] \in Counters
                      /\ done[j].ok \in Nat /\ done[j].failed \in Nat
                      /\ work[a][j].ok \in Nat /\ work[a][j].failed \in Nat
  BY DEF Ledger, Counters
<1>4. \A j \in Jobs : Total(j) \in Counters  BY <1>3 DEF Counters
<1>5. \A j \in Jobs : owner[j] # a => Total(j) = done[j]
  <2> TAKE j \in Jobs
  <2> HAVE owner[j] # a
  <2>1. work[a][j] = Zero  BY DEF Ledger
  <2> QED BY <2>1, <1>2, <1>3 DEF Counters
<1>6. /\ base' \in [Jobs -> Rows] /\ row' \in [Jobs -> Rows]
      /\ owner' \in [Jobs -> Actors \cup {Nobody}] /\ nextId' \in 1 .. MaxJobs + 1
      /\ work' \in [Actors -> [Jobs -> Counters]] /\ done' \in [Jobs -> Counters]
  BY <1>1, <1>2, <1>4 DEF Ledger
<1>7. \A j \in Jobs : owner'[j] = Nobody => row'[j] = base'[j]
  BY <1>1, WorkerAssumption DEF Ledger
<1>8. CountersExact'
  <2> SUFFICES ASSUME NEW j \in Jobs, base'[j] # Absent
               PROVE  base'[j].ok = done'[j].ok /\ base'[j].failed = done'[j].failed
    BY DEF CountersExact
  <2>1. CASE owner[j] = a  BY <2>1, <1>1, <1>3 DEF Ledger
  <2>2. CASE owner[j] # a  BY <2>2, <1>1, <1>5 DEF Ledger, CountersExact
  <2> QED BY <2>1, <2>2
<1>9. ASSUME NEW b \in Actors, NEW j \in Jobs, owner'[j] = b, row'[j] # Absent
      PROVE  /\ row'[j].ok = done'[j].ok + work'[b][j].ok
             /\ row'[j].failed = done'[j].failed + work'[b][j].failed
             /\ base'[j] # Absent => work'[b][j].ok + work'[b][j].failed > 0
  <2>1. owner[j] = b /\ b # a  BY <1>1, <1>9, WorkerAssumption
  <2>2. done'[j] = done[j] /\ work'[b][j] = work[b][j] /\ row'[j] = row[j] /\ base'[j] = base[j]
    BY <1>1, <1>5, <2>1 DEF Ledger
  <2> QED BY <2>1, <2>2, <1>9 DEF Ledger
<1>10. ASSUME NEW b \in Actors, NEW j \in Jobs, owner'[j] # b PROVE work'[b][j] = Zero
  <2>1. CASE b = a  BY <2>1, <1>1, <1>2 DEF Ledger
  <2>2. CASE b # a  BY <2>2, <1>1, <1>10 DEF Ledger
  <2> QED BY <2>1, <2>2
<1>11. ASSUME NEW j \in Jobs, j >= nextId'
       PROVE  base'[j] = Absent /\ row'[j] = Absent /\ owner'[j] = Nobody /\ done'[j] = Zero
  <2>1. owner[j] = Nobody /\ a # Nobody  BY <1>1, <1>11, WorkerAssumption DEF Ledger
  <2> QED BY <2>1, <1>1, <1>5, <1>11 DEF Ledger
<1>12. ASSUME NEW j \in Jobs, base[j] # Absent, base'[j] # Absent, base[j].due, ~base'[j].due
       PROVE  done'[j] # done[j]
  <2>1. owner[j] = a /\ row[j] # Absent  BY <1>1, <1>12
  <2>2. work[a][j].ok + work[a][j].failed > 0  BY <2>1, <1>12 DEF Ledger
  <2>3. done'[j].ok = done[j].ok + work[a][j].ok /\ done'[j].failed = done[j].failed + work[a][j].failed
    BY <1>1
  <2> QED BY <1>3, <2>2, <2>3
<1> QED BY <1>6, <1>7, <1>8, <1>9, <1>10, <1>11, <1>12 DEF Ledger, SkipsNothing

\* An abort gives the held rows their committed version back and forgets the
\* runs they counted.
LEMMA LedgerAbort ==
  ASSUME Ledger, NEW a \in Actors, AbortOf(a)
  PROVE  Ledger' /\ base' = base
<1>1. /\ row' = [j \in Jobs |-> IF owner[j] = a THEN base[j] ELSE row[j]]
      /\ work' = [work EXCEPT ![a] = NoRuns]
      /\ owner' = [j \in Jobs |-> IF owner[j] = a THEN Nobody ELSE owner[j]]
      /\ base' = base /\ nextId' = nextId /\ done' = done
  BY DEF AbortOf, Unlock
<1>2. NoRuns \in [Jobs -> Counters] /\ \A j \in Jobs : NoRuns[j] = Zero
  BY DEF NoRuns, Zero, Counters
<1>3. /\ base' \in [Jobs -> Rows] /\ row' \in [Jobs -> Rows]
      /\ owner' \in [Jobs -> Actors \cup {Nobody}] /\ nextId' \in 1 .. MaxJobs + 1
      /\ work' \in [Actors -> [Jobs -> Counters]] /\ done' \in [Jobs -> Counters]
  BY <1>1, <1>2 DEF Ledger
<1>4. \A j \in Jobs : owner'[j] = Nobody => row'[j] = base'[j]
  BY <1>1, WorkerAssumption DEF Ledger
<1>5. CountersExact'  BY <1>1 DEF Ledger, CountersExact
<1>6. ASSUME NEW b \in Actors, NEW j \in Jobs, owner'[j] = b, row'[j] # Absent
      PROVE  /\ row'[j].ok = done'[j].ok + work'[b][j].ok
             /\ row'[j].failed = done'[j].failed + work'[b][j].failed
             /\ base'[j] # Absent => work'[b][j].ok + work'[b][j].failed > 0
  <2>1. owner[j] = b /\ b # a  BY <1>1, <1>6, WorkerAssumption
  <2>2. work'[b][j] = work[b][j] /\ row'[j] = row[j]  BY <1>1, <2>1 DEF Ledger
  <2> QED BY <2>1, <2>2, <1>1, <1>6 DEF Ledger
<1>7. ASSUME NEW b \in Actors, NEW j \in Jobs, owner'[j] # b PROVE work'[b][j] = Zero
  <2>1. CASE b = a  BY <2>1, <1>1, <1>2 DEF Ledger
  <2>2. CASE b # a  BY <2>2, <1>1, <1>7 DEF Ledger
  <2> QED BY <2>1, <2>2
<1>8. ASSUME NEW j \in Jobs, j >= nextId'
      PROVE  base'[j] = Absent /\ row'[j] = Absent /\ owner'[j] = Nobody /\ done'[j] = Zero
  <2>1. owner[j] = Nobody /\ a # Nobody  BY <1>1, <1>8, WorkerAssumption DEF Ledger
  <2> QED BY <2>1, <1>1, <1>8 DEF Ledger
<1> QED BY <1>1, <1>3, <1>4, <1>5, <1>6, <1>7, <1>8 DEF Ledger

\* update_job_row: the row and the transaction count one run more.
LEMMA LedgerUpdate ==
  ASSUME Ledger, NEW a \in Actors, NEW j \in Jobs, cur[a].job = j, cur[a].ok \in BOOLEAN,
         UpdateJobRow(a)
  PROVE  Ledger' /\ base' = base
<1> DEFINE ok == cur[a].ok
<1>1. /\ Free(a, j) /\ row[j] # Absent
      /\ row' = [row EXCEPT ![j] = Updated(j, ok)] /\ owner' = [owner EXCEPT ![j] = a]
      /\ work' = [work EXCEPT ![a][j] = Counted(work[a][j], ok)]
      /\ base' = base /\ nextId' = nextId /\ done' = done
  BY DEF UpdateJobRow, Write
<1>2. row[j] \in Rows \ {Absent} /\ work[a][j] \in Counters /\ work[a] \in [Jobs -> Counters] /\ done[j] \in Counters
  BY <1>1 DEF Ledger
<1>3. /\ Updated(j, ok) \in Rows \ {Absent}
      /\ Updated(j, ok).ok = row[j].ok + (IF ok THEN 1 ELSE 0)
      /\ Updated(j, ok).failed = row[j].failed + (IF ok THEN 0 ELSE 1)
  BY <1>2, UpdatedAdds
<1>4. /\ Counted(work[a][j], ok) \in Counters
      /\ Counted(work[a][j], ok).ok = work[a][j].ok + (IF ok THEN 1 ELSE 0)
      /\ Counted(work[a][j], ok).failed = work[a][j].failed + (IF ok THEN 0 ELSE 1)
  BY <1>2, CountedAdds
<1> HIDE DEF ok
<1>5. /\ base' \in [Jobs -> Rows] /\ row' \in [Jobs -> Rows]
      /\ owner' \in [Jobs -> Actors \cup {Nobody}] /\ nextId' \in 1 .. MaxJobs + 1
      /\ work' \in [Actors -> [Jobs -> Counters]] /\ done' \in [Jobs -> Counters]
  BY <1>1, <1>2, <1>3, <1>4 DEF Ledger
<1>6. \A i \in Jobs : owner'[i] = Nobody => row'[i] = base'[i]
  BY <1>1, WorkerAssumption DEF Ledger
<1>7. CountersExact'  BY <1>1 DEF Ledger, CountersExact
<1>8. /\ row[j].ok = done[j].ok + work[a][j].ok
      /\ row[j].failed = done[j].failed + work[a][j].failed
  <2>1. CASE owner[j] = a  BY <2>1, <1>1 DEF Ledger
  <2>2. CASE owner[j] = Nobody
    <3>1. base[j] = row[j] /\ a # Nobody  BY <2>2, WorkerAssumption DEF Ledger
    <3>2. work[a][j] = Zero  BY <2>2, <3>1 DEF Ledger
    <3>3. row[j].ok = done[j].ok /\ row[j].failed = done[j].failed  BY <1>1, <3>1 DEF Ledger, CountersExact
    <3> QED BY <1>2, <3>2, <3>3 DEF Zero, Counters
  <2> QED BY <1>1, <2>1, <2>2 DEF Free
<1>9. ASSUME NEW b \in Actors, NEW i \in Jobs, owner'[i] = b, row'[i] # Absent
      PROVE  /\ row'[i].ok = done'[i].ok + work'[b][i].ok
             /\ row'[i].failed = done'[i].failed + work'[b][i].failed
             /\ base'[i] # Absent => work'[b][i].ok + work'[b][i].failed > 0
  <2>1. CASE i = j
    <3>1. b = a  BY <1>1, <1>9, <2>1 DEF Ledger
    <3>2. row'[i] = Updated(j, ok) /\ work'[b][i] = Counted(work[a][j], ok) /\ done'[i] = done[j]
      BY <1>1, <2>1, <3>1, <1>2 DEF Ledger
    <3>3. row[j].ok \in Nat /\ row[j].failed \in Nat /\ done[j].ok \in Nat /\ done[j].failed \in Nat
          /\ work[a][j].ok \in Nat /\ work[a][j].failed \in Nat
      BY <1>2 DEF Counters, Rows
    <3> QED BY <1>3, <1>4, <1>8, <3>2, <3>3
  <2>2. CASE i # j
    <3>1. owner[i] = b /\ row'[i] = row[i] /\ work'[b][i] = work[b][i]  BY <1>1, <1>9, <2>2, <1>2 DEF Ledger
    <3> QED BY <3>1, <1>1, <1>9 DEF Ledger
  <2> QED BY <2>1, <2>2
<1>10. ASSUME NEW b \in Actors, NEW i \in Jobs, owner'[i] # b PROVE work'[b][i] = Zero
  <2>1. ~(b = a /\ i = j)  BY <1>1, <1>10 DEF Ledger
  <2>2. work'[b][i] = work[b][i]  BY <1>1, <2>1, <1>2 DEF Ledger
  <2>3. owner[i] # b
    <3>1. CASE i = j  BY <3>1, <2>1, <1>1, WorkerAssumption DEF Free
    <3>2. CASE i # j  BY <3>2, <1>1, <1>10 DEF Ledger
    <3> QED BY <3>1, <3>2
  <2> QED BY <2>2, <2>3 DEF Ledger
<1>11. ASSUME NEW i \in Jobs, i >= nextId'
       PROVE  base'[i] = Absent /\ row'[i] = Absent /\ owner'[i] = Nobody /\ done'[i] = Zero
  <2>1. i # j  BY <1>1, <1>11 DEF Ledger
  <2> QED BY <2>1, <1>1, <1>11 DEF Ledger
<1> QED BY <1>1, <1>5, <1>6, <1>7, <1>9, <1>10, <1>11 DEF Ledger

\* ADD_*_POLICY and BGSAVE: a new id, whose row starts with no run.
LEMMA LedgerInsert ==
  ASSUME Ledger, NEW c \in Clients, NEW due \in BOOLEAN, InsertJob(c, due)
  PROVE  Ledger' /\ base' = base
<1>1. /\ nextId \in Jobs /\ c \in Actors /\ c # Nobody
      /\ row' = [row EXCEPT ![nextId] = NewRow(due)] /\ owner' = [owner EXCEPT ![nextId] = c]
      /\ nextId' = nextId + 1 /\ base' = base /\ work' = work /\ done' = done
  BY WorkerAssumption DEF InsertJob, Actors
<1>2. NewRow(due) \in Rows \ {Absent} /\ NewRow(due).ok = 0 /\ NewRow(due).failed = 0
  BY WorkerAssumption DEF NewRow, Rows
<1>3. /\ base' \in [Jobs -> Rows] /\ row' \in [Jobs -> Rows]
      /\ owner' \in [Jobs -> Actors \cup {Nobody}] /\ nextId' \in 1 .. MaxJobs + 1
      /\ work' \in [Actors -> [Jobs -> Counters]] /\ done' \in [Jobs -> Counters]
  BY <1>1, <1>2, WorkerAssumption DEF Ledger, Jobs
<1>4. base[nextId] = Absent /\ row[nextId] = Absent /\ owner[nextId] = Nobody /\ done[nextId] = Zero
  BY <1>1, WorkerAssumption DEF Ledger
<1>5. \A i \in Jobs : owner'[i] = Nobody => row'[i] = base'[i]
  BY <1>1 DEF Ledger
<1>6. CountersExact'  BY <1>1 DEF Ledger, CountersExact
<1>7. ASSUME NEW b \in Actors, NEW i \in Jobs, owner'[i] = b, row'[i] # Absent
      PROVE  /\ row'[i].ok = done'[i].ok + work'[b][i].ok
             /\ row'[i].failed = done'[i].failed + work'[b][i].failed
             /\ base'[i] # Absent => work'[b][i].ok + work'[b][i].failed > 0
  <2>1. CASE i = nextId
    <3>1. b = c /\ row'[i] = NewRow(due) /\ done'[i] = Zero /\ base'[i] = Absent
      BY <1>1, <1>4, <1>7, <2>1 DEF Ledger
    <3>2. work'[b][i] = Zero  BY <1>1, <1>4, <2>1, <3>1 DEF Ledger
    <3> QED BY <1>2, <3>1, <3>2 DEF Zero
  <2>2. CASE i # nextId
    <3>1. owner[i] = b /\ row'[i] = row[i]  BY <1>1, <1>7, <2>2 DEF Ledger
    <3> QED BY <3>1, <1>1, <1>7 DEF Ledger
  <2> QED BY <2>1, <2>2
<1>8. ASSUME NEW b \in Actors, NEW i \in Jobs, owner'[i] # b PROVE work'[b][i] = Zero
  <2>1. owner[i] # b  BY <1>1, <1>4, <1>8, WorkerAssumption DEF Ledger
  <2> QED BY <1>1, <2>1 DEF Ledger
<1>9. ASSUME NEW i \in Jobs, i >= nextId'
      PROVE  base'[i] = Absent /\ row'[i] = Absent /\ owner'[i] = Nobody /\ done'[i] = Zero
  <2>1. i # nextId /\ i >= nextId  BY <1>1, <1>9 DEF Jobs
  <2> QED BY <2>1, <1>1 DEF Ledger
<1> QED BY <1>1, <1>3, <1>5, <1>6, <1>7, <1>8, <1>9 DEF Ledger

\* DELETE_JOB: the newest version of the row, with its counts, is gone.
LEMMA LedgerDelete ==
  ASSUME Ledger, NEW a \in Actors, NEW j \in Jobs, Free(a, j), row[j] # Absent,
         Write(a, j, Absent), work' = work, done' = done
  PROVE  Ledger' /\ base' = base
<1>1. /\ row' = [row EXCEPT ![j] = Absent] /\ owner' = [owner EXCEPT ![j] = a]
      /\ base' = base /\ nextId' = nextId
  BY DEF Write
<1>2. /\ base' \in [Jobs -> Rows] /\ row' \in [Jobs -> Rows]
      /\ owner' \in [Jobs -> Actors \cup {Nobody}] /\ nextId' \in 1 .. MaxJobs + 1
      /\ work' \in [Actors -> [Jobs -> Counters]] /\ done' \in [Jobs -> Counters]
  BY <1>1 DEF Ledger, Rows
<1>3. \A i \in Jobs : owner'[i] = Nobody => row'[i] = base'[i]
  BY <1>1, WorkerAssumption DEF Ledger
<1>4. CountersExact'  BY <1>1 DEF Ledger, CountersExact
<1>5. ASSUME NEW b \in Actors, NEW i \in Jobs, owner'[i] = b, row'[i] # Absent
      PROVE  /\ row'[i].ok = done'[i].ok + work'[b][i].ok
             /\ row'[i].failed = done'[i].failed + work'[b][i].failed
             /\ base'[i] # Absent => work'[b][i].ok + work'[b][i].failed > 0
  <2>1. i # j /\ owner[i] = b /\ row'[i] = row[i]  BY <1>1, <1>5 DEF Ledger
  <2> QED BY <2>1, <1>1, <1>5 DEF Ledger
<1>6. ASSUME NEW b \in Actors, NEW i \in Jobs, owner'[i] # b PROVE work'[b][i] = Zero
  <2>1. owner[i] # b  BY <1>1, <1>6, WorkerAssumption DEF Ledger, Free
  <2> QED BY <2>1 DEF Ledger
<1>7. ASSUME NEW i \in Jobs, i >= nextId'
      PROVE  base'[i] = Absent /\ row'[i] = Absent /\ owner'[i] = Nobody /\ done'[i] = Zero
  <2>1. i # j  BY <1>1, <1>7 DEF Ledger
  <2> QED BY <2>1, <1>1, <1>7 DEF Ledger
<1> QED BY <1>1, <1>2, <1>3, <1>4, <1>5, <1>6, <1>7 DEF Ledger

\* A job falls due: no count changes.
LEMMA LedgerFallDue ==
  ASSUME Ledger, NEW j \in Jobs, FallDue(j)
  PROVE  Ledger' /\ \A i \in Jobs : base[i] # Absent /\ base[i].due => base'[i] = base[i]
<1> DEFINE r == [base[j] EXCEPT !.due = TRUE]
<1>1. /\ base[j] # Absent /\ ~base[j].due
      /\ base' = [base EXCEPT ![j] = r]
      /\ row' = IF owner[j] = Nobody THEN [row EXCEPT ![j].due = TRUE] ELSE row
      /\ owner' = owner /\ nextId' = nextId /\ work' = work /\ done' = done
  BY DEF FallDue, runs
<1>2. base[j] \in [due : BOOLEAN, ok : Nat, failed : Nat]  BY <1>1 DEF Ledger, Rows
<1>3. r \in [due : BOOLEAN, ok : Nat, failed : Nat] /\ r.ok = base[j].ok /\ r.failed = base[j].failed
  BY ZenonT(30), <1>2
<1>4. r \in Rows \ {Absent}  BY ZenonT(30), <1>3, WorkerAssumption DEF Rows
<1>5. row' = IF owner[j] = Nobody THEN [row EXCEPT ![j] = r] ELSE row
  BY ZenonT(30), <1>1 DEF Ledger
<1> HIDE DEF r
<1>6. /\ base' \in [Jobs -> Rows] /\ row' \in [Jobs -> Rows]
      /\ owner' \in [Jobs -> Actors \cup {Nobody}] /\ nextId' \in 1 .. MaxJobs + 1
      /\ work' \in [Actors -> [Jobs -> Counters]] /\ done' \in [Jobs -> Counters]
  BY ZenonT(30), <1>1, <1>4, <1>5 DEF Ledger
<1>7. \A i \in Jobs : owner'[i] = Nobody => row'[i] = base'[i]
  BY ZenonT(30), <1>1, <1>5 DEF Ledger
<1>8. CountersExact'
  <2> SUFFICES ASSUME NEW i \in Jobs, base'[i] # Absent
               PROVE  base'[i].ok = done[i].ok /\ base'[i].failed = done[i].failed
    BY <1>1 DEF CountersExact
  <2>1. CASE i = j  BY <2>1, <1>1, <1>3 DEF Ledger, CountersExact
  <2>2. CASE i # j  BY <2>2, <1>1 DEF Ledger, CountersExact
  <2> QED BY <2>1, <2>2
<1>9. ASSUME NEW b \in Actors, NEW i \in Jobs, owner'[i] = b, row'[i] # Absent
      PROVE  /\ row'[i].ok = done'[i].ok + work'[b][i].ok
             /\ row'[i].failed = done'[i].failed + work'[b][i].failed
             /\ base'[i] # Absent => work'[b][i].ok + work'[b][i].failed > 0
  <2>1. owner[i] = b /\ row'[i] = row[i]  BY <1>1, <1>5, <1>9, WorkerAssumption DEF Ledger
  <2>2. base'[i] # Absent => base[i] # Absent  BY <1>1 DEF Ledger
  <2> QED BY <2>1, <2>2, <1>1, <1>9 DEF Ledger
<1>10. ASSUME NEW b \in Actors, NEW i \in Jobs, owner'[i] # b PROVE work'[b][i] = Zero
  BY <1>1, <1>10 DEF Ledger
<1>11. ASSUME NEW i \in Jobs, i >= nextId'
       PROVE  base'[i] = Absent /\ row'[i] = Absent /\ owner'[i] = Nobody /\ done'[i] = Zero
  <2>1. i # j  BY <1>1, <1>11 DEF Ledger
  <2> QED BY <2>1, <1>1, <1>5, <1>11 DEF Ledger
<1> QED BY ZenonT(30), <1>1, <1>6, <1>7, <1>8, <1>9, <1>10, <1>11 DEF Ledger

\* Steps that touch neither the rows nor the runs.
LEMMA LedgerUnchanged ==
  ASSUME Ledger, UNCHANGED <<tables, work, done>>
  PROVE  Ledger' /\ base' = base
BY DEF Ledger, tables, CountersExact

\* An actor records a run only of a job.
LEMMA UpdateStep ==
  ASSUME WorkerInv, NEW a \in Actors, cur[a] # NoRun \/ at[a] = "update", UpdateJobRow(a)
  PROVE  Ledger' /\ base' = base
<1>1. cur[a].job \in Jobs /\ cur[a].ok \in BOOLEAN  BY DEF WorkerInv, Places
<1> QED BY <1>1, LedgerUpdate DEF WorkerInv

LEMMA LedgerNext ==
  ASSUME WorkerInv, Next
  PROVE  Ledger' /\ \A j \in Jobs : SkipsNothing(j)
<1> USE DEF WorkerInv
<1>1. TheWorker \in Actors /\ \A c \in Clients : c \in Actors  BY DEF Actors
<1>2. base' = base => \A j \in Jobs : SkipsNothing(j)  BY DEF SkipsNothing
<1>3. CASE UNCHANGED <<tables, work, done>>  BY <1>2, <1>3, LedgerUnchanged
<1>4. CASE WorkerStep
  <2>1. CASE RecordDue  BY <2>1, <1>1, <1>2, UpdateStep DEF RecordDue
  <2>2. CASE TickFails  BY <2>2, <1>1, <1>2, LedgerAbort DEF TickFails, Orphaned
  <2>3. CASE TickCommits  BY <2>3, <1>1, LedgerCommit DEF TickCommits
  <2>4. CASE Tick \/ RunDue \/ Drain \/ Reclaim \/ Wait \/ Exit
    BY <2>4, <1>3 DEF Tick, RunDue, Drain, Reclaim, Wait, Exit, runs
  <2> QED BY <1>4, <2>1, <2>2, <2>3, <2>4 DEF WorkerStep
<1>5. ASSUME NEW c \in Clients, ClientStep(c)
      PROVE  Ledger' /\ \A j \in Jobs : SkipsNothing(j)
  <2>1. CASE AddPolicy(c) \/ Bgsave(c)  BY ZenonT(30), <2>1, <1>2, LedgerInsert DEF AddPolicy, Bgsave
  <2>2. CASE DeleteRow(c)
    <3>1. cur[c].job \in Jobs  BY <2>2, <1>1 DEF DeleteRow, Places
    <3>2. CASE row[cur[c].job] # Absent
      <4>1. Free(c, cur[c].job) /\ Write(c, cur[c].job, Absent) /\ work' = work /\ done' = done
        BY <2>2, <3>2 DEF DeleteRow, runs
      <4> QED BY <4>1, <1>1, <1>2, <3>1, <3>2, LedgerDelete
    <3>3. CASE row[cur[c].job] = Absent  BY <2>2, <3>3, <1>3 DEF DeleteRow, runs
    <3> QED BY <3>2, <3>3
  <2>3. CASE RunJobRecords(c)  BY <2>3, <1>1, <1>2, UpdateStep DEF RunJobRecords
  <2>4. CASE RunJobFails(c)  BY <2>4, <1>1, <1>2, LedgerAbort DEF RunJobFails, Orphaned
  <2>5. CASE EndClient(c)
    <3>1. CASE CommitOf(c)  BY <3>1, <1>1, LedgerCommit
    <3>2. CASE AbortOf(c)  BY <3>2, <1>1, <1>2, LedgerAbort
    <3> QED BY <2>5, <3>1, <3>2 DEF EndClient
  <2>6. ASSUME NEW j \in Jobs, RunJob(c, j) \/ DeleteJob(c, j)
        PROVE  UNCHANGED <<tables, work, done>>
    BY <2>6 DEF RunJob, DeleteJob
  <2> QED BY <1>3, <1>5, <2>1, <2>2, <2>3, <2>4, <2>5, <2>6 DEF ClientStep
<1>6. ASSUME NEW a \in Actors, BreakDeadlock(a)
      PROVE  Ledger' /\ \A j \in Jobs : SkipsNothing(j)
  BY <1>6, <1>2, LedgerAbort DEF BreakDeadlock
<1>7. CASE Sigterm \/ FlushIntervalPasses \/ Publish
  BY <1>7, <1>3 DEF Sigterm, FlushIntervalPasses, Publish, runs
<1>8. ASSUME NEW j \in Jobs, FallDue(j)
      PROVE  Ledger' /\ \A i \in Jobs : SkipsNothing(i)
  BY <1>8, LedgerFallDue DEF SkipsNothing
<1> QED BY <1>4, <1>5, <1>6, <1>7, <1>8 DEF Next, Step

----------------------------------------------------------------------------
(* Where the actors are *)

\* What a step may do to an actor's place and to what it is about to write.
LEMMA PlacesMove ==
  ASSUME Places, NEW a \in Actors, NEW place, NEW r \in [job : {0} \cup Jobs, ok : BOOLEAN],
         place \in {"idle", "update", "delete", "loop", "jobs", "drain", "reclaim", "wait", "exited"},
         r # NoRun \/ place \in {"update", "delete"} => r.job \in Jobs,
         at' = [at EXCEPT ![a] = place], cur' = [cur EXCEPT ![a] = r],
         todo' \subseteq Jobs, load' = load, calls' \in 0 .. load.calls
  PROVE  Places'
<1>1. /\ at' \in [Actors -> {"idle", "update", "delete", "loop", "jobs", "drain", "reclaim", "wait", "exited"}]
      /\ cur' \in [Actors -> [job : {0} \cup Jobs, ok : BOOLEAN]]
  BY DEF Places
<1>2. ASSUME NEW b \in Actors, cur'[b] # NoRun \/ at'[b] \in {"update", "delete"} PROVE cur'[b].job \in Jobs
  <2>1. CASE b = a  BY <2>1, <1>2 DEF Places
  <2>2. CASE b # a  BY <2>2, <1>2 DEF Places
  <2> QED BY <2>1, <2>2
<1> QED BY <1>1, <1>2 DEF Places, NoRun

LEMMA PlacesNext ==
  ASSUME WorkerInv, Next
  PROVE  Places'
<1> USE DEF WorkerInv
<1>1. TheWorker \in Actors /\ \A c \in Clients : c \in Actors  BY DEF Actors
<1>2. load' = load /\ load \in Loads /\ load.calls \in Nat /\ calls \in 0 .. load.calls /\ todo \subseteq Jobs
  BY LoadTypes DEF Next, Places
<1>3. NoRun \in [job : {0} \cup Jobs, ok : BOOLEAN]  BY DEF NoRun
<1>4. CASE UNCHANGED <<at, cur, calls>> /\ todo' \subseteq Jobs  BY <1>4, <1>2 DEF Places, NoRun
<1>5. \A a \in Actors : cur[a] \in [job : {0} \cup Jobs, ok : BOOLEAN] /\ (cur[a] # NoRun => cur[a].job \in Jobs)
  BY DEF Places
<1>6. \A a \in Actors : at = [at EXCEPT ![a] = at[a]] /\ cur = [cur EXCEPT ![a] = cur[a]]
  BY DEF Places
<1>7. CASE WorkerStep
  <2>1. CASE RunDue
    <3>1. PICK j \in todo, ok \in BOOLEAN :
            cur' = [cur EXCEPT ![TheWorker] = [job |-> j, ok |-> ok]] /\ todo' = todo \ {j}
      BY ZenonT(30), <2>1 DEF RunDue, RunHandler, Dispatch
    <3>2. j \in Jobs  BY <3>1, <1>2
    <3>3. at[TheWorker] = "jobs" /\ at' = at /\ calls' = calls  BY <2>1 DEF RunDue, runs
    <3> QED BY ZenonT(30), <3>1, <3>2, <3>3, <1>1, <1>2, <1>6, PlacesMove
  <2>2. CASE RecordDue
    <3>1. at[TheWorker] = "jobs" /\ at' = at /\ todo' = todo /\ calls' = calls /\ cur' = [cur EXCEPT ![TheWorker] = NoRun]
      BY <2>2 DEF RecordDue, UpdateJobRow
    <3> QED BY ZenonT(30), <3>1, <1>1, <1>2, <1>3, <1>6, PlacesMove
  <2>3. CASE TickFails
    <3>1. at' = [at EXCEPT ![TheWorker] = "drain"] /\ todo' = {} /\ calls' = calls /\ cur' = [cur EXCEPT ![TheWorker] = NoRun]
      BY <2>3 DEF TickFails, Orphaned, AbortOf, Goto
    <3> QED BY ZenonT(30), <3>1, <1>1, <1>2, <1>3, PlacesMove
  <2>4. CASE Tick \/ TickCommits \/ Drain \/ Reclaim \/ Wait \/ Exit
    <3>1. cur' = cur /\ calls' = calls /\ todo' \subseteq Jobs
      BY ZenonT(30), <2>4, <1>2 DEF Tick, DueList, TickCommits, CommitOf, Drain, Reclaim, Wait, Exit, runs
    <3>2. \E place \in {"jobs", "drain", "reclaim", "wait", "loop", "exited"} : at' = [at EXCEPT ![TheWorker] = place]
      BY ZenonT(30), <2>4 DEF Tick, TickCommits, Drain, Reclaim, Wait, Exit, Goto
    <3>3. PICK place \in {"jobs", "drain", "reclaim", "wait", "loop", "exited"} : at' = [at EXCEPT ![TheWorker] = place]
      BY ZenonT(30), <3>2
    <3>4. place \notin {"update", "delete"} /\ cur' = [cur EXCEPT ![TheWorker] = cur[TheWorker]]  BY <3>1, <3>3, <1>1, <1>6
    <3> QED BY ZenonT(30), <3>1, <3>3, <3>4, <1>1, <1>2, <1>5, PlacesMove
  <2> QED BY <1>7, <2>1, <2>2, <2>3, <2>4 DEF WorkerStep
<1>8. ASSUME NEW c \in Clients, ClientStep(c) PROVE Places'
  <2>1. CASE AddPolicy(c) \/ Bgsave(c)
    <3>1. calls' = calls + 1 /\ calls < load.calls /\ UNCHANGED <<at, cur, todo>>
      BY ZenonT(30), <2>1 DEF AddPolicy, Bgsave, InsertJob, Call
    <3>2. calls' \in 0 .. load.calls  BY <3>1, <1>2
    <3> QED BY <3>1, <3>2, <1>2 DEF Places, NoRun
  <2>2. CASE DeleteRow(c) \/ RunJobRecords(c) \/ RunJobFails(c)
    <3>1. at' = [at EXCEPT ![c] = "idle"] /\ todo' = todo /\ calls' = calls /\ cur' = [cur EXCEPT ![c] = NoRun]
      BY <2>2 DEF DeleteRow, RunJobRecords, UpdateJobRow, RunJobFails, Orphaned, AbortOf, Goto, runs
    <3> QED BY ZenonT(30), <3>1, <1>1, <1>2, <1>3, PlacesMove
  <2>3. CASE EndClient(c)  BY ZenonT(30), <2>3, <1>2, <1>4 DEF EndClient, CommitOf, AbortOf
  <2>4. ASSUME NEW j \in Jobs, RunJob(c, j) \/ DeleteJob(c, j) PROVE Places'
    <3>1. calls' = calls + 1 /\ calls < load.calls /\ todo' = todo
      BY ZenonT(30), <2>4 DEF RunJob, DeleteJob, Call
    <3>2. calls' \in 0 .. load.calls  BY <3>1, <1>2
    <3>3. PICK ok \in BOOLEAN, place \in {"update", "delete"} :
            at' = [at EXCEPT ![c] = place] /\ cur' = [cur EXCEPT ![c] = [job |-> j, ok |-> ok]]
      BY ZenonT(30), <2>4 DEF RunJob, DeleteJob, RunHandler, Dispatch, Goto
    <3> QED BY ZenonT(30), <3>1, <3>2, <3>3, <1>1, <1>2, PlacesMove
  <2> QED BY <1>8, <2>1, <2>2, <2>3, <2>4 DEF ClientStep
<1>9. ASSUME NEW a \in Actors, BreakDeadlock(a) PROVE Places'
  <2>1. /\ cur' = [cur EXCEPT ![a] = NoRun] /\ calls' = calls /\ todo' \subseteq Jobs
        /\ \E place \in {"drain", "idle"} : at' = [at EXCEPT ![a] = place]
    BY ZenonT(30), <1>9, <1>2 DEF BreakDeadlock, AbortOf, Goto
  <2> QED BY ZenonT(30), <2>1, <1>2, <1>3, PlacesMove
<1>10. CASE Sigterm \/ FlushIntervalPasses \/ Publish \/ \E j \in Jobs : FallDue(j)
  BY <1>10, <1>2, <1>4 DEF Sigterm, FlushIntervalPasses, Publish, FallDue, runs
<1> QED BY <1>7, <1>8, <1>9, <1>10 DEF Next, Step

----------------------------------------------------------------------------
(* What SIGTERM promised *)

LEMMA BatchBounds ==
  ASSUME pending \in Nat
  PROVE  /\ Batch \in Nat /\ Batch <= pending
         /\ Batch = BatchMax \/ Batch = pending
BY MinOfTwo, WorkerAssumption DEF Batch

\* A drain takes what is owed first: what is left of it is still in the ring.
LEMMA DrainStep ==
  ASSUME Promise, DrainOk
  PROVE  /\ pending' \in 0 .. load.events /\ owed' \in 0 .. promised
         /\ owed' <= pending' /\ owed' <= Max({0, promised - BatchMax}) /\ failed' = failed
<1>1. /\ load.events \in Nat /\ pending \in 0 .. load.events /\ promised \in Nat
      /\ owed \in 0 .. promised /\ owed <= pending /\ BatchMax \in Nat \ {0}
  BY LoadTypes, WorkerAssumption DEF Promise
<1>2. pending' = pending - Batch /\ owed' = Max({0, owed - Batch}) /\ failed' = failed  BY DEF DrainOk
<1>3. Batch \in Nat /\ Batch <= pending /\ (Batch = BatchMax \/ Batch = pending)  BY <1>1, BatchBounds
<1>4. owed' = IF owed - Batch > 0 THEN owed - Batch ELSE 0  BY <1>1, <1>2, <1>3, MaxIsNonNegative
<1>5. Max({0, promised - BatchMax}) = IF promised - BatchMax > 0 THEN promised - BatchMax ELSE 0
  BY <1>1, MaxIsNonNegative
<1> QED BY <1>1, <1>2, <1>3, <1>4, <1>5

LEMMA PromiseNext ==
  ASSUME WorkerInv, Next
  PROVE  Promise'
<1> USE DEF WorkerInv
<1>1. /\ load' = load /\ load \in Loads /\ load.events \in Nat
      /\ at \in [Actors -> {"idle", "update", "delete", "loop", "jobs", "drain", "reclaim", "wait", "exited"}]
      /\ TheWorker \in Actors /\ TheWorker \notin Clients
  BY LoadTypes, WorkerAssumption DEF Next, Places, Actors
<1>2. CASE UNCHANGED ring /\ (at'[TheWorker] = at[TheWorker] \/ at'[TheWorker] # "exited")
  BY <1>2, <1>1 DEF Promise, FinalDrainBound, ring
<1>3. \A a \in Actors : \A place : at' = [at EXCEPT ![a] = place] =>
        at'[TheWorker] = IF a = TheWorker THEN place ELSE at[TheWorker]
  BY <1>1
<1>4. CASE WorkerStep
  <2>1. CASE Tick \/ RunDue \/ RecordDue \/ TickFails \/ TickCommits \/ Wait
    <3>1. UNCHANGED ring /\ (at' = at \/ \E place \in {"jobs", "drain", "loop"} : at' = [at EXCEPT ![TheWorker] = place])
      BY <2>1 DEF Tick, RunDue, RecordDue, TickFails, TickCommits, Wait, Goto
    <3> QED BY <3>1, <1>1, <1>2, <1>3
  <2>2. CASE Drain
    <3>1. at'[TheWorker] = "reclaim"  BY <2>2, <1>1, <1>3 DEF Drain, Goto
    <3>2. stuck' = stuck /\ turn' = turn /\ term' = term /\ promised' = promised  BY <2>2 DEF Drain
    <3>3. \/ DrainOk /\ elapsed' = FALSE
          \/ DrainFails /\ elapsed' = FALSE
          \/ UNCHANGED <<pending, owed, failed, elapsed>>
      BY <2>2 DEF Drain
    <3>4. CASE DrainOk /\ elapsed' = FALSE
      BY ZenonT(30), <3>1, <3>2, <3>4, <1>1, DrainStep DEF Promise, FinalDrainBound
    <3>5. CASE DrainFails /\ elapsed' = FALSE
      BY ZenonT(30), <3>1, <3>2, <3>5, <1>1 DEF Promise, FinalDrainBound, DrainFails
    <3>6. CASE UNCHANGED <<pending, owed, failed, elapsed>>
      BY <3>1, <3>2, <3>6, <1>1 DEF Promise, FinalDrainBound
    <3> QED BY ZenonT(30), <3>3, <3>4, <3>5, <3>6
  <2>3. CASE Reclaim
    <3>1. at'[TheWorker] = "wait"  BY <2>3, <1>1, <1>3 DEF Reclaim, Goto
    <3>2. turn' = (turn + 1) % ReclaimEvery /\ stuck' = (stuck /\ turn' # 0)
          /\ UNCHANGED <<pending, elapsed, term, promised, owed, failed>>
      BY <2>3 DEF Reclaim
    <3>3. turn' \in 0 .. ReclaimEvery - 1  BY <3>2, WorkerAssumption DEF Promise
    <3>4. stuck' \in BOOLEAN  BY <3>2
    <3> QED BY <3>1, <3>2, <3>3, <3>4, <1>1 DEF Promise, FinalDrainBound
  <2>4. CASE Exit
    <3>1. term /\ FinalDrain /\ stuck' = stuck /\ elapsed' = elapsed /\ turn' = turn
          /\ term' = term /\ promised' = promised
      BY <2>4 DEF Exit
    <3>2. CASE DrainOk
      BY <3>1, <3>2, <1>1, DrainStep DEF Promise, FinalDrainBound
    <3>3. CASE DrainFails
      BY ZenonT(30), <3>1, <3>3, <1>1 DEF Promise, FinalDrainBound, DrainFails
    <3>4. CASE pending = 0 /\ UNCHANGED <<pending, owed, failed>>
      <4>1. owed = 0 /\ promised \in Nat /\ BatchMax \in Nat  BY <3>4, <1>1, WorkerAssumption DEF Promise
      <4>2. owed <= Max({0, promised - BatchMax})  BY <4>1, MaxIsNonNegative
      <4> QED BY <3>1, <3>4, <4>1, <4>2, <1>1 DEF Promise, FinalDrainBound
    <3> QED BY <3>1, <3>2, <3>3, <3>4 DEF FinalDrain
  <2> QED BY <1>4, <2>1, <2>2, <2>3, <2>4 DEF WorkerStep
<1>5. ASSUME NEW c \in Clients, ClientStep(c) PROVE Promise'
  <2>1. UNCHANGED ring  BY ZenonT(30), <1>5 DEF ClientStep, AddPolicy, Bgsave, InsertJob, DeleteRow, RunJobRecords,
                                    RunJobFails, EndClient, RunJob, DeleteJob
  <2>2. at' = at \/ \E place \in {"idle", "update", "delete"} : at' = [at EXCEPT ![c] = place]
    BY ZenonT(30), <1>5 DEF ClientStep, AddPolicy, Bgsave, InsertJob, DeleteRow, RunJobRecords,
                RunJobFails, EndClient, RunJob, DeleteJob, Goto
  <2>3. c \in Actors /\ c # TheWorker  BY <1>1 DEF Actors
  <2> QED BY <2>1, <2>2, <2>3, <1>1, <1>2, <1>3
<1>6. ASSUME NEW a \in Actors, BreakDeadlock(a) PROVE Promise'
  <2>1. UNCHANGED ring /\ at' = [at EXCEPT ![a] = IF a = TheWorker THEN "drain" ELSE "idle"]
    BY <1>6 DEF BreakDeadlock, Goto
  <2> QED BY <2>1, <1>1, <1>2
<1>7. CASE Sigterm  BY <1>7, <1>1 DEF Sigterm, Promise, FinalDrainBound
<1>8. CASE FlushIntervalPasses  BY <1>8, <1>1 DEF FlushIntervalPasses, Promise, FinalDrainBound
<1>9. CASE Publish
  <2>1. UNCHANGED <<at, elapsed, turn, term, promised, owed, failed>>  BY <1>9 DEF Publish
  <2>2. pending' \in 0 .. load.events /\ owed <= pending'
    BY <1>9, <1>1 DEF Publish, Promise
  <2>3. stuck' \in BOOLEAN  BY <1>9, Zenon DEF Publish, Promise
  <2> QED BY <2>1, <2>2, <2>3, <1>1 DEF Promise, FinalDrainBound
<1>10. ASSUME NEW j \in Jobs, FallDue(j) PROVE Promise'
  BY <1>10, <1>2 DEF FallDue
<1> QED BY <1>4, <1>5, <1>6, <1>7, <1>8, <1>9, <1>10 DEF Next, Step

----------------------------------------------------------------------------
(* Theorems *)

LEMMA WorkerInit ==
  ASSUME Init
  PROVE  WorkerInv
<1>1. Places
  <2>1. load \in Loads /\ load.calls \in Nat  BY LoadTypes DEF Init
  <2>2. NoRun \in [job : {0} \cup Jobs, ok : BOOLEAN]  BY DEF NoRun
  <2>3. /\ at = [a \in Actors |-> IF a = TheWorker THEN "loop" ELSE "idle"] /\ cur = [a \in Actors |-> NoRun]
        /\ todo = {} /\ calls = 0
    BY DEF Init
  <2> QED BY <2>1, <2>2, <2>3 DEF Places
<1>2. Promise
  <2>1. load \in Loads /\ load.events \in Nat /\ TheWorker \in Actors  BY LoadTypes DEF Init, Actors
  <2>2. 0 \in 0 .. ReclaimEvery - 1  BY WorkerAssumption
  <2>3. at[TheWorker] = "loop"  BY <2>1 DEF Init
  <2>4. pending = 0 /\ turn = 0 /\ promised = 0 /\ owed = 0  BY DEF Init
  <2>5. stuck \in BOOLEAN /\ elapsed \in BOOLEAN /\ term \in BOOLEAN /\ failed \in BOOLEAN  BY Zenon DEF Init
  <2> QED BY <2>1, <2>2, <2>3, <2>4, <2>5 DEF Promise, FinalDrainBound
<1> QED BY <1>1, <1>2, LedgerInit DEF WorkerInv

LEMMA WorkerStutter ==
  ASSUME WorkerInv, UNCHANGED vars
  PROVE  WorkerInv'
<1>1. Ledger'  BY LedgerUnchanged DEF WorkerInv, vars, runs
<1>2. Places'  BY DEF WorkerInv, Places, vars, runs, NoRun
<1>3. Promise'  BY DEF WorkerInv, Promise, FinalDrainBound, vars, ring
<1> QED BY <1>1, <1>2, <1>3 DEF WorkerInv

\* Every state of the worker, its jobs and the clients satisfies the invariant
\* behind the theorems below.
THEOREM WorkerInvariant == Spec => []WorkerInv
<1>1. Init => WorkerInv  BY WorkerInit
<1>2. WorkerInv /\ [Next]_vars => WorkerInv'
  BY LedgerNext, PlacesNext, PromiseNext, WorkerStutter DEF WorkerInv
<1> QED BY <1>1, <1>2, PTL DEF Spec

\* The variables keep their types; the ring is neither over- nor underdrawn,
\* and a row whose lock is free has one version.
THEOREM WorkerTypeCorrect == Spec => []TypeOK
<1>1. WorkerInv => TypeOK  BY DEF WorkerInv, Ledger, Places, Promise, TypeOK
<1> QED BY <1>1, WorkerInvariant, PTL

\* job_stats counts every committed run of a job once, whoever ran it and
\* whatever was aborted meanwhile (update_job_row).
THEOREM JobStatsExact == Spec => []CountersExact
<1>1. WorkerInv => CountersExact  BY DEF WorkerInv, Ledger
<1> QED BY <1>1, WorkerInvariant, PTL

\* No commit or abort of a tick or of a client takes a job off the due list
\* without recording a run of it.
THEOREM NoJobSkipped == Spec => NoSkip
<1>1. WorkerInv /\ [Next]_vars => [\A j \in Jobs : SkipsNothing(j)]_vars  BY LedgerNext
<1> QED BY <1>1, WorkerInvariant, PTL DEF Spec, NoSkip

\* The final drain leaves at most what exceeds one batch of the events that
\* were in the ring at SIGTERM, unless a drain failed.
THEOREM FinalDrainBounded == Spec => []FinalDrainBound
<1>1. WorkerInv => FinalDrainBound  BY DEF WorkerInv, Promise
<1> QED BY <1>1, WorkerInvariant, PTL
=============================================================================
