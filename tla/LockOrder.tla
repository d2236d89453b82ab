----------------------------- MODULE LockOrder -----------------------------
(***************************************************************************)
(* Who waits for whom in storage_mode = shared: the LWLocks of shmem.c     *)
(* (the partition locks, startup_lock; ring_consumer_lock guards sections  *)
(* that wait for nothing, so such a section is one step), the row and      *)
(* relation locks of the transactions that drains and FLUSHALL run in, and *)
(* the full dirty-ring.                                                    *)
(*                                                                         *)
(* PostgreSQL detects and breaks a cycle of row and relation locks; nobody *)
(* detects one that passes through an LWLock or through the ring.          *)
(*                                                                         *)
(* The ring is the queue that DirtyRing implements, reduced to the keys of *)
(* its events.  What a drain in flight leaves behind in the slots when     *)
(* FLUSHALL has dropped its batch is DirtyRing's matter (RaceSpec).        *)
(***************************************************************************)
EXTENDS Integers, Sequences, FiniteSets

CONSTANTS
    Backends, Bgw, Nobody,
    Keys,            \* keys: natural numbers
    Partitions,      \* pg_redis.lock_partitions
    RingCapacity,    \* pg_redis.dirty_ring_size
    MaxBatch,        \* ASYNC_DRAIN_BATCH_MAX
    MaxSpin,         \* spin budget of block mode (100 in the code)
    Commands,        \* the commands the workload uses in each setting of sync
    Attached         \* the backends that have attached the DSA before, likewise

ASSUME LockAssumption ==
    /\ Bgw \notin Backends
    /\ Nobody \notin Backends \cup {Bgw}
    /\ Keys \subseteq Nat
    /\ Partitions \in Nat \ {0}
    /\ RingCapacity \in Nat \ {0}
    /\ MaxBatch \in Nat \ {0}
    /\ MaxSpin \in Nat \ {0}
    /\ Commands \in [BOOLEAN -> SUBSET {"HSET", "SET", "FLUSHALL"}]
    /\ Attached \in [BOOLEAN -> SUBSET Backends]

VARIABLES
    sync,            \* pg_redis.async_full_action = 'sync_flush'
    plock,           \* holder of each partition lock
    startup_lock,    \* holder of startup_lock
    attached,        \* the backends that have attached the DSA
    ring, marked,    \* keys of the pending events; how many are DRAINING
    batch, lost,     \* batch[p]: keys p has collected; FLUSHALL dropped them
    rows, writer,    \* row locks, and RowExclusiveLock on the tables, of p
    truncator,       \* holder of the AccessExclusiveLock of TRUNCATE
    pc, op, key,     \* place of a process, the command of a backend, its key
    next,            \* FLUSHALL: the partition to lock next
    spin

latchVars == <<plock, startup_lock, attached>>
ringVars == <<ring, marked, batch, lost>>
txnVars == <<rows, writer, truncator>>
cmdVars == <<op, key, next, spin>>
vars == <<sync, latchVars, ringVars, txnVars, pc, cmdVars>>

Procs == Backends \cup {Bgw}
Parts == 0 .. Partitions - 1

\* pg_redis_partition_lock
PartitionOf(k) == k % Partitions

Init ==
    /\ sync \in BOOLEAN
    /\ plock = [i \in Parts |-> Nobody]
    /\ startup_lock = Nobody
    /\ attached = Attached[sync]
    /\ ring = <<>> /\ marked = 0
    /\ batch = [p \in Procs |-> {}] /\ lost = [p \in Procs |-> FALSE]
    /\ rows = [p \in Procs |-> {}] /\ writer = [p \in Procs |-> FALSE]
    /\ truncator = Nobody
    /\ pc = [p \in Procs |-> "idle"]
    /\ op = [b \in Backends |-> "none"]
    /\ key = [b \in Backends |-> 0]
    /\ next = [b \in Backends |-> 0]
    /\ spin = [b \in Backends |-> 0]

Goto(p, place) == pc' = [pc EXCEPT ![p] = place]

\* The command returns, or raises an error: its local variables go.
Return(b) ==
    /\ Goto(b, "idle")
    /\ op' = [op EXCEPT ![b] = "none"]
    /\ key' = [key EXCEPT ![b] = 0]
    /\ next' = [next EXCEPT ![b] = 0]
    /\ spin' = [spin EXCEPT ![b] = 0]

\* The end of p's transaction: its row and relation locks go.
Ended(p) ==
    /\ rows' = [rows EXCEPT ![p] = {}]
    /\ writer' = [writer EXCEPT ![p] = FALSE]
    /\ truncator' = IF truncator = p THEN Nobody ELSE truncator

(***************************************************************************)
(* pg_redis_shmem_attach_dsa, before a backend's first command.            *)
(***************************************************************************)
FirstPlace(o) == IF o = "FLUSHALL" THEN "acquire" ELSE "lock"

Start(b, o, k) ==
    /\ pc[b] = "idle"
    /\ op' = [op EXCEPT ![b] = o]
    /\ key' = [key EXCEPT ![b] = k]
    /\ Goto(b, IF b \in attached THEN FirstPlace(o) ELSE "attach")
    /\ UNCHANGED <<sync, latchVars, ringVars, txnVars, next, spin>>

LockStartup(b) ==
    /\ pc[b] = "attach"
    /\ startup_lock = Nobody
    /\ startup_lock' = b
    /\ Goto(b, "attaching")
    /\ UNCHANGED <<sync, plock, attached, ringVars, txnVars, cmdVars>>

AttachDsa(b) ==
    /\ pc[b] = "attaching"
    /\ attached' = attached \cup {b}
    /\ startup_lock' = Nobody
    /\ Goto(b, FirstPlace(op[b]))
    /\ UNCHANGED <<sync, plock, ringVars, txnVars, cmdVars>>

\* dsa_create or dsa_attach raises: PG_CATCH releases the lock.
AttachError(b) ==
    /\ pc[b] = "attaching"
    /\ startup_lock' = Nobody
    /\ Return(b)
    /\ Ended(b)
    /\ UNCHANGED <<sync, plock, attached, ringVars>>

(***************************************************************************)
(* HSET and SET.  HSET publishes under the partition lock; SET takes the   *)
(* lock to copy the entry and to write it back, and publishes without.     *)
(***************************************************************************)
MyLock(b) == plock[PartitionOf(key[b])]
HoldMine(b, holder) == plock' = [plock EXCEPT ![PartitionOf(key[b])] = holder]

Lock(b) ==
    /\ pc[b] \in {"lock", "relock"}
    /\ MyLock(b) = Nobody
    /\ IF op[b] = "HSET" THEN HoldMine(b, b) ELSE UNCHANGED plock
    /\ Goto(b, IF op[b] = "SET" /\ pc[b] = "lock" THEN "relock" ELSE "publish")
    /\ UNCHANGED <<sync, startup_lock, attached, ringVars, txnVars, cmdVars>>

\* Mutant: HSET waits for room with its partition lock held.
MutUnlockMine(b) == UNCHANGED plock
UnlockMine(b) == IF MyLock(b) = b THEN HoldMine(b, Nobody) ELSE UNCHANGED plock

\* Mutant: one event too many.
MutHasRoom == Len(ring) <= RingCapacity
HasRoom == Len(ring) < RingCapacity

Publish(b) ==
    /\ pc[b] = "publish"
    /\ HasRoom
    /\ ring' = Append(ring, key[b])
    /\ IF MyLock(b) = b THEN HoldMine(b, Nobody) ELSE UNCHANGED plock
    /\ Return(b)
    /\ UNCHANGED <<sync, startup_lock, attached, marked, batch, lost, txnVars>>

FindFull(b) ==
    /\ pc[b] = "publish"
    /\ ~HasRoom
    /\ UnlockMine(b)
    /\ Goto(b, "full")
    /\ UNCHANGED <<sync, startup_lock, attached, ringVars, txnVars, cmdVars>>

\* Where publishing resumes: HSET starts over.
Again(b) == IF op[b] = "HSET" THEN "lock" ELSE "publish"

\* Mutant: the budget starts afresh after every wait.
MutSpun(b) == 0
Spun(b) == spin[b] + 1

BlockRetry(b) ==
    /\ pc[b] = "full" /\ ~sync
    /\ Spun(b) < MaxSpin
    /\ spin' = [spin EXCEPT ![b] = Spun(b)]
    /\ Goto(b, Again(b))
    /\ UNCHANGED <<sync, latchVars, ringVars, txnVars, op, key, next>>

\* The spin budget is used up: the error ends the transaction.
BlockGiveUp(b) ==
    /\ pc[b] = "full" /\ ~sync
    /\ Spun(b) >= MaxSpin
    /\ Ended(b)
    /\ Return(b)
    /\ UNCHANGED <<sync, latchVars, ringVars>>

(***************************************************************************)
(* Drains: the worker's, and a sync_flush producer's in its transaction.   *)
(***************************************************************************)
DrainWanted(p) ==
    \/ p = Bgw /\ pc[p] = "idle" /\ ring # <<>>
    \/ p \in Backends /\ pc[p] = "full" /\ sync

Prefix == IF Len(ring) < MaxBatch THEN Len(ring) ELSE MaxBatch

Collect(p) ==
    /\ DrainWanted(p)
    /\ marked = 0 /\ ring # <<>>
    /\ marked' = Prefix
    /\ batch' = [batch EXCEPT ![p] = {ring[i] : i \in 1 .. Prefix}]
    /\ Goto(p, "persist")
    /\ UNCHANGED <<sync, latchVars, ring, lost, txnVars, cmdVars>>

\* The slot at read_head is DRAINING already, or the ring is empty: the
\* producer's drain returns 0 and it tries to publish again.
CollectNothing(b) ==
    /\ b \in Backends /\ DrainWanted(b)
    /\ marked > 0 \/ ring = <<>>
    /\ Goto(b, Again(b))
    /\ UNCHANGED <<sync, latchVars, ringVars, txnVars, cmdVars>>

\* Whom p waits for: a TRUNCATE that holds the tables or is queued before p,
\* the transactions that hold its batch's rows; for TRUNCATE every other
\* transaction that has written, or truncated, the tables.
BlockedOn(p) ==
    CASE pc[p] = "persist" ->
           {q \in Procs \ {p} : \/ truncator = q
                                \/ pc[q] = "truncate" /\ ~writer[p] /\ truncator # p
                                \/ rows[q] \cap batch[p] # {}}
      [] pc[p] = "truncate" -> {q \in Procs \ {p} : truncator = q \/ writer[q]}
      [] OTHER -> {}

\* The first statement of the batch holds the table's lock while it waits for
\* a row.
OpenTables(p) ==
    /\ pc[p] = "persist" /\ ~writer[p]
    /\ \A q \in Procs \ {p} : truncator # q /\ (pc[q] = "truncate" => truncator = p)
    /\ writer' = [writer EXCEPT ![p] = TRUE]
    /\ UNCHANGED <<sync, latchVars, ringVars, rows, truncator, pc, cmdVars>>

Persist(p) ==
    /\ pc[p] = "persist" /\ writer[p]
    /\ BlockedOn(p) = {}
    /\ rows' = [rows EXCEPT ![p] = @ \cup batch[p]]
    /\ Goto(p, "settle")
    /\ UNCHANGED <<sync, latchVars, ringVars, writer, truncator, cmdVars>>

\* release_batch; the worker commits afterwards, a producer publishes again.
Release(p) ==
    /\ pc[p] = "settle"
    /\ IF lost[p] THEN UNCHANGED <<ring, marked>>
       ELSE ring' = SubSeq(ring, marked + 1, Len(ring)) /\ marked' = 0
    /\ batch' = [batch EXCEPT ![p] = {}]
    /\ lost' = [lost EXCEPT ![p] = FALSE]
    /\ Goto(p, IF p = Bgw THEN "commit" ELSE Again(p))
    /\ UNCHANGED <<sync, latchVars, txnVars, cmdVars>>

Commit(p) ==
    /\ \/ p = Bgw /\ pc[p] = "commit"
       \/ p \in Backends /\ pc[p] = "idle" /\ (writer[p] \/ truncator = p)
    /\ Ended(p)
    /\ Goto(p, "idle")
    /\ UNCHANGED <<sync, latchVars, ringVars, cmdVars>>

\* PostgreSQL's deadlock detector: p is in a cycle of row and relation locks,
\* and its statement fails.  abort_batch returns a batch to the ring.
BreakDeadlock(p) ==
    /\ \E S \in SUBSET Procs : p \in S /\ \A q \in S : BlockedOn(q) \cap S # {}
    /\ marked' = IF batch[p] # {} /\ ~lost[p] THEN 0 ELSE marked
    /\ batch' = [batch EXCEPT ![p] = {}]
    /\ lost' = [lost EXCEPT ![p] = FALSE]
    /\ Ended(p)
    /\ IF p = Bgw THEN Goto(p, "idle") /\ UNCHANGED cmdVars ELSE Return(p)
    /\ UNCHANGED <<sync, latchVars, ring>>

(***************************************************************************)
(* FLUSHALL.                                                               *)
(***************************************************************************)
\* Mutant: one caller takes the locks in descending order.
MutInOrder(b) == IF b = CHOOSE c \in Backends : TRUE THEN Partitions - 1 - next[b] ELSE next[b]
InOrder(b) == next[b]

LockNext(b) ==
    /\ pc[b] = "acquire"
    /\ plock[InOrder(b)] = Nobody
    /\ plock' = [plock EXCEPT ![InOrder(b)] = b]
    /\ IF next[b] + 1 = Partitions
       THEN Goto(b, "release") /\ UNCHANGED next
       ELSE next' = [next EXCEPT ![b] = @ + 1] /\ UNCHANGED pc
    /\ UNCHANGED <<sync, startup_lock, attached, ringVars, txnVars, op, key, spin>>

\* After the reset, in PG_FINALLY; releasing waits for nothing.
UnlockAll(b) ==
    /\ pc[b] = "release"
    /\ plock' = [i \in Parts |-> Nobody]
    /\ next' = [next EXCEPT ![b] = 0]
    /\ Goto(b, "drop")
    /\ UNCHANGED <<sync, startup_lock, attached, ringVars, txnVars, op, key, spin>>

Drop(b) ==
    /\ pc[b] = "drop"
    /\ ring' = <<>> /\ marked' = 0
    /\ lost' = [p \in Procs |-> lost[p] \/ batch[p] # {}]
    /\ Goto(b, "truncate")
    /\ UNCHANGED <<sync, latchVars, batch, txnVars, cmdVars>>

Truncate(b) ==
    /\ pc[b] = "truncate"
    /\ BlockedOn(b) = {}
    /\ truncator' = b
    /\ Return(b)
    /\ UNCHANGED <<sync, latchVars, ringVars, rows, writer>>

(***************************************************************************)
(* Specification.                                                          *)
(***************************************************************************)
\* The steps of a process, once its client has asked for something.
Drain(p) == Collect(p) \/ OpenTables(p) \/ Persist(p) \/ Release(p)
Step(b) ==
    \/ LockStartup(b) \/ AttachDsa(b) \/ AttachError(b)
    \/ Lock(b) \/ Publish(b) \/ FindFull(b) \/ BlockRetry(b) \/ BlockGiveUp(b)
    \/ Drain(b) \/ CollectNothing(b)
    \/ LockNext(b) \/ UnlockAll(b) \/ Drop(b) \/ Truncate(b)

Next ==
    \/ \E b \in Backends :
        \/ \E o \in Commands[sync] \ {"FLUSHALL"}, k \in Keys : Start(b, o, k)
        \/ "FLUSHALL" \in Commands[sync] /\ Start(b, "FLUSHALL", 0)
        \/ Step(b)
    \/ Drain(Bgw)
    \/ \E p \in Procs : Commit(p) \/ BreakDeadlock(p)

Spec == Init /\ [][Next]_vars

\* Every process keeps running.  LWLocks, row locks and relation locks are
\* granted in the order of their queues, so whoever keeps waiting for one gets
\* it in the end.  A client ends its transaction some time, and PostgreSQL
\* looks for deadlocks.
Fairness ==
    /\ \A b \in Backends : SF_vars(Step(b)) /\ SF_vars(Commit(b))
    /\ SF_vars(Drain(Bgw) \/ Commit(Bgw))
    /\ WF_vars(\E p \in Procs : BreakDeadlock(p))

FairSpec == Spec /\ Fairness

(***************************************************************************)
(* Properties.                                                             *)
(***************************************************************************)
Places ==
    {"idle", "attach", "attaching", "lock", "relock", "publish", "full", "persist",
     "settle", "commit", "acquire", "release", "drop", "truncate"}

TypeOK ==
    /\ sync \in BOOLEAN
    /\ plock \in [Parts -> Backends \cup {Nobody}]
    /\ startup_lock \in Backends \cup {Nobody}
    /\ pc \in [Procs -> Places]
    /\ op \in [Backends -> {"none", "HSET", "SET", "FLUSHALL"}]
    /\ key \in [Backends -> Nat]
    /\ next \in [Backends -> Parts]
    /\ marked \in 0 .. Len(ring) /\ Len(ring) <= RingCapacity

\* The partition locks p holds.
Held(p) == {i \in Parts : plock[i] = p}

\* The contract of pg_redis_assert_no_pg_redis_lwlock_held, of "Decision 2" and
\* of "Decision 12": whoever drains, sleeps, truncates or waits for startup_lock
\* holds no LWLock; a publisher holds at most the partition of its key, and
\* FLUSHALL all of them when it resets the keyspace.
LatchDiscipline ==
    \A b \in Backends :
        /\ Held(b) # {} => pc[b] \in {"publish", "acquire", "release"}
        /\ startup_lock = b => pc[b] = "attaching"
        /\ pc[b] = "publish" => Held(b) \subseteq {PartitionOf(key[b])}
        /\ pc[b] = "release" => Held(b) = Parts

\* No LWLock deadlock, which PostgreSQL would never detect: when partition
\* locks are held, one of the holders does not wait for another lock.
Stuck(p) == pc[p] = "acquire" /\ plock[InOrder(p)] # Nobody
SomeHolderRuns ==
    (\E i \in Parts : plock[i] # Nobody) =>
        \E i \in Parts : plock[i] # Nobody /\ ~Stuck(plock[i])

\* What makes the two inductive: FLUSHALL holds the partitions below the one it
\* waits for, and starts at partition 0.
Ascending ==
    \A b \in Backends :
        /\ pc[b] = "acquire" => Held(b) = 0 .. next[b] - 1
        /\ pc[b] \notin {"acquire", "release"} => next[b] = 0

\* With async_full_action = 'block' every command returns, with or without an
\* error, whatever FLUSHALLs, drains and failed attaches run beside it.
CommandsReturn == \A b \in Backends : (pc[b] # "idle" /\ ~sync) ~> (pc[b] = "idle")

\* The comment on publish_blocking, "loops until the event is published or it
\* raises", and inside it, "draining synchronously is safe": in sync_flush mode
\* too a command returns.
SyncCommandsReturn == \A b \in Backends : (pc[b] # "idle") ~> (pc[b] = "idle")
=============================================================================
