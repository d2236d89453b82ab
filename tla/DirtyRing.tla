------------------------------ MODULE DirtyRing ------------------------------
(***************************************************************************)
(* The shared dirty-ring (dirty_ring.c): backends publish events into a    *)
(* ring of slots with compare-and-swap only; the background worker and,    *)
(* with async_full_action = 'sync_flush', the backends themselves drain it *)
(* in two phases under ring_consumer_lock.                                 *)
(*                                                                         *)
(* Every atomic access a producer makes is an action.  A section under     *)
(* ring_consumer_lock is one action, except that release_batch and         *)
(* drop_all_pending empty the slots first and move read_head afterwards:   *)
(* producers, which take no lock, see the two writes apart.                *)
(***************************************************************************)
EXTENDS Integers, FiniteSets

CONSTANTS
    Backends,        \* client backends: they publish events
    Bgw,             \* the background worker: it only drains
    Nobody,          \* ring_consumer_lock is free
    NoEvent,         \* payload of a slot never written
    RingCapacity,    \* pg_redis.dirty_ring_size
    MaxBatch,        \* ASYNC_DRAIN_BATCH_MAX
    MaxSpin,         \* spin budget of block mode (100 in the code)
    SyncFlush,       \* pg_redis.async_full_action = 'sync_flush'
    MaxPublishes     \* bound: events one backend tries to publish

ASSUME RingAssumption ==
    /\ Bgw \notin Backends
    /\ Nobody \notin Backends \cup {Bgw}
    /\ NoEvent \notin Backends \X Nat
    /\ RingCapacity \in Nat \ {0}
    /\ MaxBatch \in Nat \ {0}
    /\ MaxSpin \in Nat \ {0}
    /\ SyncFlush \in BOOLEAN
    /\ MaxPublishes \in Nat

VARIABLES
    write_head, read_head,   \* the header's counters (never near 2^64)
    state,                   \* state[s]: life cycle of slot s
    payload,                 \* payload[s]: the event copied into slot s
    stale,                   \* stale[s]: write_started_at is older than the timeout
    consumer_lock,           \* holder of ring_consumer_lock
    pc, w, spin,             \* publish_blocking of a backend: place, local w, spin
    sent,                    \* events the backend has started to publish
    dpc, base, n,            \* drain (or FLUSHALL) of a process: place, positions
    events,                  \* the drain's copies: <<position, event>>
    durable,                 \* history: <<position, event>> of executed durable writes
    dropped,                 \* history: positions discarded by FLUSHALL
    acked                    \* history: events whose publish returned RING_OK

ringVars == <<write_head, read_head, state, payload, stale, consumer_lock>>
pubVars  == <<pc, w, spin, sent>>
dpcVars  == <<dpc, base, n, events>>
histVars == <<durable, dropped, acked>>
vars == <<ringVars, pubVars, dpcVars, histVars>>

Drainers == Backends \cup {Bgw}
Slots == 0 .. RingCapacity - 1
SlotOf(pos) == pos % RingCapacity
Events == Backends \X Nat
Event(b) == <<b, sent[b]>>          \* the event backend b is publishing

\* The positions of process d's batch, and its slots.
Batch(d) == base[d] .. base[d] + n[d] - 1
BatchSlots(d) == {SlotOf(pos) : pos \in Batch(d)}

TypeOK ==
    /\ write_head \in Nat /\ read_head \in Nat
    /\ state \in [Slots -> {"EMPTY", "WRITING", "READY", "DRAINING"}]
    /\ payload \in [Slots -> Events \cup {NoEvent}]
    /\ stale \in [Slots -> BOOLEAN]
    /\ consumer_lock \in Drainers \cup {Nobody}
    /\ pc \in [Backends -> {"idle", "read_w", "read_r", "reserve", "write",
                            "ready", "advance", "full"}]
    /\ w \in [Backends -> Nat]
    /\ spin \in [Backends -> Nat]
    /\ sent \in [Backends -> Nat]
    /\ dpc \in [Drainers -> {"none", "persist", "release", "release_head",
                             "abort", "drop_head"}]
    /\ base \in [Drainers -> Nat]
    /\ n \in [Drainers -> Nat]
    /\ events \in [Drainers -> SUBSET (Nat \X (Events \cup {NoEvent}))]
    /\ durable \subseteq Nat \X (Events \cup {NoEvent})
    /\ dropped \subseteq Nat
    /\ acked \subseteq Events

\* pg_redis_dirty_ring_shmem_init, and the zeroed counters of the header.
\* write_started_at is 0, the epoch: older than any timeout.
Init ==
    /\ write_head = 0 /\ read_head = 0
    /\ state = [s \in Slots |-> "EMPTY"]
    /\ payload = [s \in Slots |-> NoEvent]
    /\ stale = [s \in Slots |-> TRUE]
    /\ consumer_lock = Nobody
    /\ pc = [b \in Backends |-> "idle"]
    /\ w = [b \in Backends |-> 0]
    /\ spin = [b \in Backends |-> 0]
    /\ sent = [b \in Backends |-> 0]
    /\ dpc = [d \in Drainers |-> "none"]
    /\ base = [d \in Drainers |-> 0]
    /\ n = [d \in Drainers |-> 0]
    /\ events = [d \in Drainers |-> {}]
    /\ durable = {} /\ dropped = {} /\ acked = {}

-----------------------------------------------------------------------------
(* Producer: publish and publish_blocking                                  *)

Goto(b, place) == pc' = [pc EXCEPT ![b] = place]

\* A mutating command calls publish_blocking with its event.
PublishStart(b) ==
    /\ pc[b] = "idle" /\ dpc[b] = "none"
    /\ sent[b] < MaxPublishes
    /\ sent' = [sent EXCEPT ![b] = @ + 1]
    /\ spin' = [spin EXCEPT ![b] = 0]
    /\ Goto(b, "read_w")
    /\ UNCHANGED <<ringVars, w, dpcVars, histVars>>

\* Mutant: the position before write_head is taken.
MutReservedPosition == write_head - 1
ReservedPosition == write_head

ReadWriteHead(b) ==
    /\ pc[b] = "read_w"
    /\ w' = [w EXCEPT ![b] = ReservedPosition]
    /\ Goto(b, "read_r")
    /\ UNCHANGED <<ringVars, spin, sent, dpcVars, histVars>>

\* w - r is unsigned: it wraps, and reads as full, when read_head has passed
\* the write_head read before it.
\* Mutant: one event too many is admitted.
MutRingFull(b) == w[b] < read_head \/ w[b] - read_head > RingCapacity
RingFull(b) == w[b] < read_head \/ w[b] - read_head >= RingCapacity

ReadReadHead(b) ==
    /\ pc[b] = "read_r"
    /\ Goto(b, IF RingFull(b) THEN "full" ELSE "reserve")
    /\ UNCHANGED <<ringVars, w, spin, sent, dpcVars, histVars>>

\* Mutant: a plain store instead of the CAS takes a slot in any state.
MutReservable(s) == TRUE
Reservable(s) == state[s] = "EMPTY"

\* CAS EMPTY -> WRITING; on failure CHECK_FOR_INTERRUPTS may cancel the command.
ReserveSlot(b) ==
    /\ pc[b] = "reserve"
    /\ \/ /\ Reservable(SlotOf(w[b]))
          /\ state' = [state EXCEPT ![SlotOf(w[b])] = "WRITING"]
          /\ Goto(b, "write")
       \/ /\ ~Reservable(SlotOf(w[b]))
          /\ \E place \in {"read_w", "idle"} : Goto(b, place)
          /\ UNCHANGED state
    /\ UNCHANGED <<write_head, read_head, payload, stale, consumer_lock,
                   w, spin, sent, dpcVars, histVars>>

\* The slot is stamped only now, after the reservation became visible.
WriteSlot(b) ==
    /\ pc[b] = "write"
    /\ payload' = [payload EXCEPT ![SlotOf(w[b])] = Event(b)]
    /\ stale' = [stale EXCEPT ![SlotOf(w[b])] = FALSE]
    /\ Goto(b, "ready")
    /\ UNCHANGED <<write_head, read_head, state, consumer_lock,
                   w, spin, sent, dpcVars, histVars>>

\* CAS WRITING -> READY; a failed CAS returns RING_FULL.
MarkReady(b) ==
    /\ pc[b] = "ready"
    /\ \/ /\ state[SlotOf(w[b])] = "WRITING"
          /\ state' = [state EXCEPT ![SlotOf(w[b])] = "READY"]
          /\ Goto(b, "advance")
       \/ /\ state[SlotOf(w[b])] # "WRITING"
          /\ Goto(b, "full")
          /\ UNCHANGED state
    /\ UNCHANGED <<write_head, read_head, payload, stale, consumer_lock,
                   w, spin, sent, dpcVars, histVars>>

\* Mutants: a fetch-and-add, or a plain store, instead of the CAS.
MutFetchAdd(b) == write_head + 1
MutStore(b) == w[b] + 1
AdvancedHead(b) == IF write_head = w[b] THEN w[b] + 1 ELSE write_head

\* CAS write_head w -> w + 1, whose result is ignored; the publish returns OK.
AdvanceWriteHead(b) ==
    /\ pc[b] = "advance"
    /\ write_head' = AdvancedHead(b)
    /\ acked' = acked \cup {Event(b)}
    /\ Goto(b, "idle")
    /\ UNCHANGED <<read_head, state, payload, stale, consumer_lock,
                   w, spin, sent, dpcVars, durable, dropped>>

\* block mode: sleep and try again, or an interrupt cancels the command.
BlockRetry(b) ==
    /\ ~SyncFlush
    /\ pc[b] = "full"
    /\ spin[b] + 1 < MaxSpin
    /\ spin' = [spin EXCEPT ![b] = @ + 1]
    /\ \E place \in {"read_w", "idle"} : Goto(b, place)
    /\ UNCHANGED <<ringVars, w, sent, dpcVars, histVars>>

\* block mode: the spin budget is used up, the command raises an error.
BlockGiveUp(b) ==
    /\ ~SyncFlush
    /\ pc[b] = "full"
    /\ spin[b] + 1 >= MaxSpin
    /\ spin' = [spin EXCEPT ![b] = @ + 1]
    /\ Goto(b, "idle")
    /\ UNCHANGED <<ringVars, w, sent, dpcVars, histVars>>

-----------------------------------------------------------------------------
(* Consumer: async_drain over collect, release_batch and abort_batch       *)

\* What pg_redis_dirty_ring_collect takes: the READY slots from read_head on,
\* up to the batch size, write_head or the first slot that is not READY.  A
\* window longer than the ring meets the slot it has just marked DRAINING.
Collectable(k) ==
    /\ read_head + k <= write_head /\ k <= MaxBatch /\ k <= RingCapacity
    /\ \A pos \in read_head .. read_head + k - 1 : state[SlotOf(pos)] = "READY"
    /\ \/ read_head + k = write_head
       \/ k = MaxBatch
       \/ k = RingCapacity
       \/ state[SlotOf(read_head + k)] # "READY"

\* The background worker drains when events are pending; a sync_flush producer
\* drains when its publish found the ring full.
DrainWanted(d) ==
    \/ d = Bgw /\ write_head > read_head
    \/ d \in Backends /\ SyncFlush /\ pc[d] = "full"

\* A sync_flush producer publishes again, spin budget reset, once its drain is over.
ResumePublish(d) ==
    IF d = Bgw THEN UNCHANGED <<pc, spin>>
    ELSE Goto(d, "read_w") /\ spin' = [spin EXCEPT ![d] = 0]

\* Mutant: the collected slots stay READY.
MutCollectedState == "READY"
CollectedState == "DRAINING"

\* Mutant: every copy is taken from the first slot of the batch.
MutCollected(pos) == <<pos, payload[SlotOf(read_head)]>>
Collected(pos) == <<pos, payload[SlotOf(pos)]>>

Collect(d) ==
    /\ dpc[d] = "none" /\ DrainWanted(d)
    /\ consumer_lock = Nobody
    /\ \E k \in 0 .. MaxBatch :
         LET taken == read_head .. read_head + k - 1
         IN  /\ Collectable(k)
             /\ base' = [base EXCEPT ![d] = read_head]
             /\ n' = [n EXCEPT ![d] = k]
             /\ events' = [events EXCEPT ![d] = {Collected(pos) : pos \in taken}]
             /\ state' = [s \in Slots |-> IF \E pos \in taken : s = SlotOf(pos)
                                          THEN CollectedState ELSE state[s]]
             /\ dpc' = [dpc EXCEPT ![d] = IF k = 0 THEN "none" ELSE "persist"]
             /\ IF k = 0 THEN ResumePublish(d) ELSE UNCHANGED <<pc, spin>>
    /\ UNCHANGED <<write_head, read_head, payload, stale, consumer_lock,
                   w, sent, histVars>>

\* The batch's SPI statements have all executed.
PersistOk(d) ==
    /\ dpc[d] = "persist"
    /\ durable' = durable \cup events[d]
    /\ dpc' = [dpc EXCEPT ![d] = "release"]
    /\ UNCHANGED <<ringVars, pubVars, base, n, events, dropped, acked>>

\* Mutant: a failed batch is released as if it had been written.
MutAfterError == "release"
AfterError == "abort"

\* SPI raised an error: the PG_CATCH block, or SPI_connect failing.
PersistError(d) ==
    /\ dpc[d] = "persist"
    /\ dpc' = [dpc EXCEPT ![d] = AfterError]
    /\ UNCHANGED <<ringVars, pubVars, base, n, events, histVars>>

\* release_batch, first half: the slots become EMPTY under the lock ...
ReleaseSlots(d) ==
    /\ dpc[d] = "release"
    /\ consumer_lock = Nobody
    /\ consumer_lock' = d
    /\ state' = [s \in Slots |-> IF s \in BatchSlots(d) THEN "EMPTY" ELSE state[s]]
    /\ dpc' = [dpc EXCEPT ![d] = "release_head"]
    /\ UNCHANGED <<write_head, read_head, payload, stale, pubVars,
                   base, n, events, histVars>>

\* async_drain returns: its batch is forgotten.
DrainOver(d) ==
    /\ dpc' = [dpc EXCEPT ![d] = "none"]
    /\ n' = [n EXCEPT ![d] = 0]
    /\ events' = [events EXCEPT ![d] = {}]
    /\ UNCHANGED base

\* ... second half: read_head moves past the batch and the lock is released.
ReleaseHead(d) ==
    /\ dpc[d] = "release_head"
    /\ read_head' = base[d] + n[d]
    /\ consumer_lock' = Nobody
    /\ DrainOver(d)
    /\ ResumePublish(d)
    /\ UNCHANGED <<write_head, state, payload, stale, w, sent, histVars>>

\* Mutant: a failed batch's slots stay DRAINING.
MutAbortedState == "DRAINING"
AbortedState == "READY"

\* abort_batch: the slots become READY again, read_head stays.  The background
\* worker tries again at a later tick; in a sync_flush producer the error is
\* rethrown and ends the command.
AbortBatch(d) ==
    /\ dpc[d] = "abort"
    /\ consumer_lock = Nobody
    /\ state' = [s \in Slots |-> IF s \in BatchSlots(d) THEN AbortedState ELSE state[s]]
    /\ DrainOver(d)
    /\ IF d = Bgw THEN UNCHANGED pc ELSE Goto(d, "idle")
    /\ UNCHANGED <<write_head, read_head, payload, stale, consumer_lock,
                   w, spin, sent, histVars>>

\* A FATAL exit (pg_terminate_backend) while the statements run: PostgreSQL
\* ends the process without running PG_CATCH, and shared memory lives on.
TerminateDrainer(b) ==
    /\ dpc[b] = "persist"
    /\ DrainOver(b)
    /\ Goto(b, "idle")
    /\ UNCHANGED <<ringVars, w, spin, sent, histVars>>

-----------------------------------------------------------------------------
(* FLUSHALL, and the reclaim pass of the background worker                 *)

\* The number of slots drop_all_pending empties: READY and DRAINING slots from
\* read_head on, up to write_head or the first slot in another state.
Droppable(k) ==
    /\ read_head + k <= write_head /\ k <= RingCapacity
    /\ \A pos \in read_head .. read_head + k - 1 :
         state[SlotOf(pos)] \in {"READY", "DRAINING"}
    /\ \/ read_head + k = write_head
       \/ k = RingCapacity
       \/ state[SlotOf(read_head + k)] \notin {"READY", "DRAINING"}

DropSlots(b) ==
    /\ pc[b] = "idle" /\ dpc[b] = "none"
    /\ consumer_lock = Nobody
    /\ \E k \in 1 .. RingCapacity :
         LET taken == read_head .. read_head + k - 1
         IN  /\ Droppable(k)
             /\ base' = [base EXCEPT ![b] = read_head]
             /\ n' = [n EXCEPT ![b] = k]
             /\ dropped' = dropped \cup taken
             /\ state' = [s \in Slots |-> IF \E pos \in taken : s = SlotOf(pos)
                                          THEN "EMPTY" ELSE state[s]]
    /\ consumer_lock' = b
    /\ dpc' = [dpc EXCEPT ![b] = "drop_head"]
    /\ UNCHANGED <<write_head, read_head, payload, stale, pubVars,
                   events, durable, acked>>

DropHead(b) ==
    /\ dpc[b] = "drop_head"
    /\ read_head' = base[b] + n[b]
    /\ consumer_lock' = Nobody
    /\ DrainOver(b)
    /\ UNCHANGED <<write_head, state, payload, stale, pubVars, histVars>>

\* Time passes: a stamp becomes older than ring_slot_stuck_timeout.  A producer
\* that has stamped its slot never lingers that long (the assumption
\* reclaim_stuck states), so its slot does not age.
Age(s) ==
    /\ ~stale[s]
    /\ \A b \in Backends : ~(pc[b] = "ready" /\ SlotOf(w[b]) = s)
    /\ stale' = [stale EXCEPT ![s] = TRUE]
    /\ UNCHANGED <<write_head, read_head, state, payload, consumer_lock,
                   pubVars, dpcVars, histVars>>

\* reclaim_stuck looks at the slot of write_head only.
ReclaimStuck ==
    LET s == SlotOf(write_head)
    IN  /\ consumer_lock = Nobody
        /\ state[s] = "WRITING" /\ stale[s]
        /\ state' = [state EXCEPT ![s] = "EMPTY"]
        /\ UNCHANGED <<write_head, read_head, payload, stale, consumer_lock,
                       pubVars, dpcVars, histVars>>

-----------------------------------------------------------------------------
(* Specifications                                                          *)

Producer(b) ==
    \/ PublishStart(b) \/ ReadWriteHead(b) \/ ReadReadHead(b) \/ ReserveSlot(b)
    \/ WriteSlot(b) \/ MarkReady(b) \/ AdvanceWriteHead(b)
    \/ BlockRetry(b) \/ BlockGiveUp(b)

Drain(d) ==
    \/ Collect(d) \/ PersistOk(d) \/ PersistError(d)
    \/ ReleaseSlots(d) \/ ReleaseHead(d) \/ AbortBatch(d)

\* No drain is between its collect and its release or abort.
NoBatchInFlight == \A d \in Drainers : dpc[d] = "none"

\* Publishing and draining alone.
CoreNext ==
    \/ \E b \in Backends : Producer(b)
    \/ \E d \in Drainers : Drain(d)

\* FLUSHALL, issued while no drain holds a batch.
QuietFlushall(b) == (NoBatchInFlight /\ DropSlots(b)) \/ DropHead(b)

Next ==
    \/ CoreNext
    \/ \E b \in Backends : QuietFlushall(b)
    \/ \E s \in Slots : Age(s)
    \/ ReclaimStuck

Spec == Init /\ [][Next]_vars

CoreSpec == Init /\ [][CoreNext]_vars

\* With FLUSHALL between the drains: everything but the reclaim pass.
FlushallNext == CoreNext \/ \E b \in Backends : QuietFlushall(b)

FlushallSpec == Init /\ [][FlushallNext]_vars

\* FLUSHALL at any time: nothing in the code keeps it away from a drain.
RaceSpec == Init /\ [][CoreNext \/ \E b \in Backends : DropSlots(b) \/ DropHead(b)]_vars

\* Every process keeps taking its own steps; a batch that is retried for ever
\* is not refused by the database for ever.
Fairness ==
    /\ \A b \in Backends : WF_vars(Producer(b) /\ ~PublishStart(b))
    /\ \A d \in Drainers : WF_vars(Drain(d)) /\ SF_vars(PersistOk(d))

\* A FLUSHALL that has emptied the slots goes on to move read_head.
LiveSpec == FlushallSpec /\ Fairness /\ \A b \in Backends : WF_vars(DropHead(b))

TerminateSpec ==
    /\ Init /\ [][CoreNext \/ \E b \in Backends : TerminateDrainer(b)]_vars
    /\ Fairness

-----------------------------------------------------------------------------
(* Properties                                                              *)

\* The processes that hold a batch whose slots are still DRAINING, and the ones
\* whose slots are already free but whose read_head write is still to come.
Holding(d) == dpc[d] \in {"persist", "release", "abort"}
Freeing(d) == dpc[d] \in {"release_head", "drop_head"}

\* Two-phase drain, several drainers (the comment in release_batch: only one
\* drainer ever holds a batch, and read_head must still equal its base): at most
\* one process is between collect and release or abort, its batch starts at
\* read_head and lies in the window, and the DRAINING slots are exactly its own.
BatchExclusive ==
    /\ \A d \in Drainers : Holding(d) \/ Freeing(d) =>
         /\ base[d] = read_head
         /\ n[d] > 0 /\ base[d] + n[d] <= write_head
         /\ \A e \in Drainers \ {d} : ~Holding(e) /\ ~Freeing(e)
    /\ \A s \in Slots : state[s] = "DRAINING" <=>
         \E d \in Drainers : Holding(d) /\ s \in BatchSlots(d)

\* publish never punches a hole in [read_head, write_head) that would stall the
\* consumer: each position of the window holds a published event, or is one a
\* finishing release or FLUSHALL has just freed.
WindowFull ==
    \A pos \in read_head .. write_head - 1 :
        \/ state[SlotOf(pos)] \in {"READY", "DRAINING"}
        \/ \E d \in Drainers : Freeing(d) /\ pos \in Batch(d)

\* The full check of publish, made on two reads that are stale by the time the
\* slot is reserved, still keeps write_head within one lap of read_head.
NoOverrun == read_head <= write_head /\ write_head <= read_head + RingCapacity

\* read_head moves only past events whose durable write has executed, or that
\* FLUSHALL discarded: a failed batch stays in the ring (at-least-once).
ReleasedIsDurable ==
    \A pos \in 0 .. read_head - 1 :
        pos \in dropped \/ \E rec \in durable : rec[1] = pos

\* Neither head is ever rewound, whichever process writes it.
HeadsMonotone == [][read_head' >= read_head /\ write_head' >= write_head]_vars

\* Events become durable once each, at one position each, and those of one
\* backend in the order in which it published them.
DurableInOrder ==
    \A r1, r2 \in durable :
        /\ r1[1] = r2[1] => r1 = r2
        /\ r1[2][1] = r2[2][1] /\ r1[1] < r2[1] => r1[2][2] < r2[2][2]

\* Every event that entered the window eventually leaves it, drained by a batch
\* that was written or discarded by FLUSHALL.
EventsDrained ==
    \A pos \in 0 .. Cardinality(Backends) * MaxPublishes - 1 :
        (write_head > pos) ~> (read_head > pos)

\* What makes the properties above inductive.  Whoever is about to move read_head
\* holds ring_consumer_lock ...
LockHeld == \A d \in Drainers : consumer_lock = d <=> Freeing(d)

\* ... the position a producer works on was not full when it was checked, and
\* read_head has only moved on since ...
Admitted ==
    \A b \in Backends :
        /\ pc[b] \in {"read_r", "reserve", "write", "ready", "advance"} =>
             w[b] <= write_head
        /\ pc[b] \in {"reserve", "write", "ready", "advance"} =>
             w[b] < read_head + RingCapacity

\* ... a producer whose write_head CAS will succeed has published its slot ...
AdvanceReady ==
    \A b \in Backends :
        pc[b] = "advance" /\ w[b] = write_head => state[SlotOf(w[b])] = "READY"

\* ... and a batch has been copied whole, and written whole when it is released.
BatchAccounted ==
    \A d \in Drainers : \A pos \in Batch(d) :
        /\ dpc[d] = "persist" => \E rec \in events[d] : rec[1] = pos
        /\ dpc[d] \in {"release", "release_head"} => \E rec \in durable : rec[1] = pos
        /\ dpc[d] = "drop_head" => pos \in dropped

RingInv ==
    /\ BatchExclusive /\ WindowFull /\ NoOverrun /\ ReleasedIsDurable
    /\ LockHeld /\ Admitted /\ AdvanceReady /\ BatchAccounted

\* The position up to which events have left the queue: a batch leaves it when
\* its durable write has executed, before release_batch frees it.
Delivered(d) == dpc[d] = "release" \/ Freeing(d)

QueueHead ==
    IF \E d \in Drainers : Delivered(d)
    THEN LET d == CHOOSE d \in Drainers : Delivered(d)
         IN  base[d] + n[d]
    ELSE read_head

\* What makes the queue's order inductive as long as nothing is reclaimed.  A
\* producer owns the slot it is filling ...
SlotOwned ==
    \A b \in Backends : pc[b] \in {"write", "ready"} =>
        /\ state[SlotOf(w[b])] = "WRITING"
        /\ \A c \in Backends \ {b} :
             pc[c] \in {"write", "ready"} => SlotOf(w[c]) # SlotOf(w[b])

\* ... so its event is still there when write_head passes the slot ...
OwnEvent ==
    \A b \in Backends : pc[b] = "ready" \/ (pc[b] = "advance" /\ w[b] = write_head) =>
        payload[SlotOf(w[b])] = Event(b)

\* ... a backend drains only inside its publish, which found the ring full ...
DrainInPublish ==
    \A b \in Backends : dpc[b] \notin {"none", "drop_head"} => SyncFlush /\ pc[b] = "full"

\* ... a batch is a copy of its slots ...
Copied ==
    \A d \in Drainers : dpc[d] = "persist" => events[d] = {Collected(pos) : pos \in Batch(d)}

\* ... and the events with a place in the queue, durable or still in the ring, are in
\* the order of their publishing.
Placed == durable \cup {Collected(pos) : pos \in QueueHead .. write_head - 1}

PlacedOnce == \A r1, r2 \in Placed : r1[1] = r2[1] => r1 = r2

PlacedInOrder ==
    \A r1, r2 \in Placed : r1[2][1] = r2[2][1] /\ r1[1] < r2[1] => r1[2][2] < r2[2][2]

PlacedBefore ==
    /\ \A r \in Placed :
         /\ r[1] \in 0 .. write_head - 1 /\ r[2] \in Events
         /\ r[2][2] <= sent[r[2][1]]
         /\ pc[r[2][1]] # "idle" => r[2][2] < sent[r[2][1]]
    /\ \A r \in durable : r[1] < QueueHead
    /\ \A b \in Backends : sent[b] <= MaxPublishes /\ (pc[b] # "idle" => sent[b] > 0)

QueueInv ==
    /\ SlotOwned /\ OwnEvent /\ DrainInPublish /\ Copied
    /\ PlacedOnce /\ PlacedInOrder /\ PlacedBefore

Queue == INSTANCE EventQueue WITH
    Item <- Backends \X (1 .. MaxPublishes),
    Capacity <- RingCapacity,
    head <- QueueHead,
    tail <- write_head,
    item <- [pos \in QueueHead .. write_head - 1 |-> payload[SlotOf(pos)]],
    delivered <- durable

\* Publishing, draining and FLUSHALL implement the FIFO queue: no interleaving of the
\* producers' CASes with a drain loses, doubles, reorders or overwrites an event
\* that write_head has passed.
ImplementsQueue == Queue!Spec

\* The comment before the write_head CAS in publish: the producer is the unique
\* owner of position w, so write_head must still equal w.
AdvanceOwnsPosition ==
    \A b \in Backends : pc[b] = "advance" => write_head = w[b]

\* The comment in reclaim_stuck: the slot it frees belongs to a crashed or
\* aborted producer; a live producer that does not linger keeps its slot.
ReclaimSparesLiveProducer ==
    \A b \in Backends : pc[b] \in {"write", "ready"} => state[SlotOf(w[b])] = "WRITING"

\* The assertion in release_batch: read_head still equals base.
ReleaseOwnsHead ==
    \A d \in Drainers : dpc[d] = "release" => read_head = base[d]

\* publish_blocking loops until the event is published or it raises: it returns.
PublishReturns == \A b \in Backends : (pc[b] = "read_w") ~> (pc[b] = "idle")
=============================================================================
