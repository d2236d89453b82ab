-------------------------- MODULE DirtyRingProofs ---------------------------
(***************************************************************************)
(* Safety of the dirty-ring, for every ring size, batch size, set of       *)
(* backends and full-ring policy: arithmetic of slots, types, then the     *)
(* inductive invariant, one lemma per step of the producers, the drainers  *)
(* and FLUSHALL, and what follows from it.                                 *)
(***************************************************************************)
EXTENDS DirtyRing, TLAPS

-----------------------------------------------------------------------------
(* Arithmetic of the slot index                                            *)

\* A slot index is a slot.
LEMMA SlotOfType == ASSUME NEW pos \in Nat PROVE SlotOf(pos) \in Slots
BY RingAssumption DEF SlotOf, Slots

\* Positions less than one lap apart have different slots.
LEMMA SlotOfInjective ==
    ASSUME NEW p \in Nat, NEW q \in Nat, p < q, q < p + RingCapacity
    PROVE  SlotOf(p) # SlotOf(q)
<1> DEFINE C == RingCapacity
<1>0. C \in Nat /\ C > 0
  BY RingAssumption
<1> SUFFICES ASSUME p % C = q % C PROVE FALSE
  BY DEF SlotOf
<1>1. /\ p = C * (p \div C) + (p % C)
      /\ q = C * (q \div C) + (q % C)
      /\ p \div C \in Int /\ q \div C \in Int
  BY <1>0
<1> DEFINE k == (q \div C) - (p \div C)
<1>2. q - p = C * k /\ k \in Int
  BY <1>0, <1>1
<1> HIDE DEF k
<1>3. CASE k <= 0
  BY <1>0, <1>2, <1>3
<1>4. CASE k >= 1
  <2>1. C * k >= C
    BY <1>0, <1>2, <1>4
  <2> QED BY <1>0, <1>2, <2>1
<1> QED BY <1>2, <1>3, <1>4

-----------------------------------------------------------------------------
(* Type correctness                                                        *)

\* A step of a producer keeps every variable in its type.
LEMMA TypeProducer ==
    ASSUME TypeOK, NEW b \in Backends, Producer(b)
    PROVE  TypeOK'
<1> USE RingAssumption DEF TypeOK, ringVars, pubVars, dpcVars, histVars, Drainers, Events
<1>0. SlotOf(w[b]) \in Slots
  BY SlotOfType
<1>1. CASE PublishStart(b)
  BY <1>1 DEF PublishStart, Goto
<1>2. CASE ReadWriteHead(b)
  BY <1>2 DEF ReadWriteHead, ReservedPosition, Goto
<1>3. CASE ReadReadHead(b)
  BY <1>3 DEF ReadReadHead, Goto
<1>4. CASE ReserveSlot(b)
  BY <1>4, <1>0 DEF ReserveSlot, Goto
<1>5. CASE WriteSlot(b)
  BY <1>5, <1>0 DEF WriteSlot, Event, Goto
<1>6. CASE MarkReady(b)
  BY <1>6, <1>0 DEF MarkReady, Goto
<1>7. CASE AdvanceWriteHead(b)
  BY <1>7 DEF AdvanceWriteHead, AdvancedHead, Event, Goto
<1>8. CASE BlockRetry(b)
  BY <1>8 DEF BlockRetry, Goto
<1>9. CASE BlockGiveUp(b)
  BY <1>9 DEF BlockGiveUp, Goto
<1> QED
  BY <1>1, <1>2, <1>3, <1>4, <1>5, <1>6, <1>7, <1>8, <1>9 DEF Producer

\* A step of a drain keeps every variable in its type.
LEMMA TypeDrain ==
    ASSUME TypeOK, NEW d \in Drainers, Drain(d)
    PROVE  TypeOK'
<1> USE RingAssumption DEF TypeOK, ringVars, pubVars, dpcVars, histVars, Drainers, Events
<1>1. CASE Collect(d)
  <2> PICK k \in 0 .. MaxBatch :
        LET taken == read_head .. read_head + k - 1
        IN  /\ Collectable(k)
            /\ base' = [base EXCEPT ![d] = read_head]
            /\ n' = [n EXCEPT ![d] = k]
            /\ events' = [events EXCEPT ![d] = {Collected(pos) : pos \in taken}]
            /\ state' = [s \in Slots |-> IF \E pos \in taken : s = SlotOf(pos)
                                         THEN CollectedState ELSE state[s]]
            /\ dpc' = [dpc EXCEPT ![d] = IF k = 0 THEN "none" ELSE "persist"]
            /\ IF k = 0 THEN ResumePublish(d) ELSE UNCHANGED <<pc, spin>>
    BY ZenonT(30), <1>1 DEF Collect
  <2> DEFINE taken == read_head .. read_head + k - 1
  <2>1. \A pos \in taken : Collected(pos) \in Nat \X (Events \cup {NoEvent})
    BY SlotOfType DEF Collected
  <2>2. events' \in [Drainers -> SUBSET (Nat \X (Events \cup {NoEvent}))]
    BY <2>1
  <2>3. pc' \in [Backends -> {"idle", "read_w", "read_r", "reserve", "write",
                              "ready", "advance", "full"}]
        /\ spin' \in [Backends -> Nat]
    BY DEF ResumePublish, Goto
  <2>4. state' \in [Slots -> {"EMPTY", "WRITING", "READY", "DRAINING"}]
    BY DEF CollectedState
  <2> QED
    BY <1>1, <2>2, <2>3, <2>4 DEF Collect
<1>2. CASE PersistOk(d)
  BY <1>2 DEF PersistOk
<1>3. CASE PersistError(d)
  BY <1>3 DEF PersistError, AfterError
<1>4. CASE ReleaseSlots(d)
  BY <1>4 DEF ReleaseSlots
<1>5. CASE ReleaseHead(d)
  <2>1. /\ pc' \in [Backends -> {"idle", "read_w", "read_r", "reserve", "write",
                                 "ready", "advance", "full"}]
        /\ spin' \in [Backends -> Nat]
    BY <1>5 DEF ReleaseHead, ResumePublish, Goto
  <2>2. /\ dpc' \in [Drainers -> {"none", "persist", "release", "release_head",
                                  "abort", "drop_head"}]
        /\ base' \in [Drainers -> Nat] /\ n' \in [Drainers -> Nat]
        /\ events' \in [Drainers -> SUBSET (Nat \X (Events \cup {NoEvent}))]
    BY <1>5 DEF ReleaseHead, DrainOver
  <2>3. read_head' \in Nat
    BY <1>5 DEF ReleaseHead
  <2> QED
    BY <1>5, <2>1, <2>2, <2>3 DEF ReleaseHead
<1>6. CASE AbortBatch(d)
  <2>1. state' \in [Slots -> {"EMPTY", "WRITING", "READY", "DRAINING"}]
    BY <1>6 DEF AbortBatch, AbortedState
  <2>2. pc' \in [Backends -> {"idle", "read_w", "read_r", "reserve", "write",
                              "ready", "advance", "full"}]
    BY <1>6 DEF AbortBatch, Goto
  <2>3. /\ dpc' \in [Drainers -> {"none", "persist", "release", "release_head",
                                  "abort", "drop_head"}]
        /\ base' \in [Drainers -> Nat] /\ n' \in [Drainers -> Nat]
        /\ events' \in [Drainers -> SUBSET (Nat \X (Events \cup {NoEvent}))]
    BY <1>6 DEF AbortBatch, DrainOver
  <2> QED
    BY <1>6, <2>1, <2>2, <2>3 DEF AbortBatch
<1> QED
  BY <1>1, <1>2, <1>3, <1>4, <1>5, <1>6 DEF Drain

\* FLUSHALL keeps every variable in its type.
LEMMA TypeFlushall ==
    ASSUME TypeOK, NEW b \in Backends, DropSlots(b) \/ DropHead(b)
    PROVE  TypeOK'
<1> USE RingAssumption DEF TypeOK, ringVars, pubVars, dpcVars, histVars, Drainers, Events
<1>1. CASE DropSlots(b)
  BY <1>1 DEF DropSlots
<1>2. CASE DropHead(b)
  BY <1>2 DEF DropHead, DrainOver
<1> QED
  BY <1>1, <1>2

\* Every step keeps every variable in its type.
LEMMA TypeNext == TypeOK /\ [Next]_vars => TypeOK'
<1> SUFFICES ASSUME TypeOK, [Next]_vars PROVE TypeOK'
  OBVIOUS
<1>1. CASE CoreNext
  BY <1>1, TypeProducer, TypeDrain DEF CoreNext
<1>2. CASE \E b \in Backends : QuietFlushall(b)
  BY <1>2, TypeFlushall DEF QuietFlushall
<1>3. CASE \E s \in Slots : Age(s)
  BY <1>3 DEF Age, TypeOK, ringVars, pubVars, dpcVars, histVars
<1>4. CASE ReclaimStuck
  BY <1>4, SlotOfType DEF ReclaimStuck, TypeOK, ringVars, pubVars, dpcVars, histVars
<1>5. CASE UNCHANGED vars
  BY <1>5 DEF vars, TypeOK, ringVars, pubVars, dpcVars, histVars
<1> QED
  BY <1>1, <1>2, <1>3, <1>4, <1>5 DEF Next

-----------------------------------------------------------------------------
(* The inductive invariant                                                 *)

\* Two positions of the window share no slot.
LEMMA WindowInjective ==
    ASSUME TypeOK, NoOverrun,
           NEW p \in read_head .. write_head - 1,
           NEW q \in read_head .. write_head - 1,
           SlotOf(p) = SlotOf(q)
    PROVE  p = q
<1>1. p \in Nat /\ q \in Nat /\ p < q + RingCapacity /\ q < p + RingCapacity
  BY RingAssumption DEF TypeOK, NoOverrun
<1>2. CASE p < q
  BY <1>1, <1>2, SlotOfInjective
<1>3. CASE q < p
  BY <1>1, <1>3, SlotOfInjective
<1> QED BY <1>1, <1>2, <1>3

\* The slot a producer may still advance write_head over is not in the window.
LEMMA AdvanceOutsideWindow ==
    ASSUME TypeOK, NoOverrun, Admitted,
           NEW b \in Backends, pc[b] = "advance", w[b] = write_head,
           NEW p \in read_head .. write_head - 1
    PROVE  SlotOf(p) # SlotOf(w[b])
<1>1. p \in Nat /\ w[b] \in Nat /\ p < w[b] /\ w[b] < p + RingCapacity
  BY RingAssumption DEF TypeOK, NoOverrun, Admitted
<1> QED BY <1>1, SlotOfInjective

\* A step that keeps the heads and every batch, and neither makes a slot DRAINING
\* nor ends that state, preserves BatchExclusive.
LEMMA BatchFrame ==
    ASSUME BatchExclusive, UNCHANGED <<write_head, read_head, base, n>>,
           \A d \in Drainers : (Holding(d)' <=> Holding(d)) /\ (Freeing(d)' <=> Freeing(d)),
           \A s \in Slots : state'[s] = "DRAINING" <=> state[s] = "DRAINING"
    PROVE  BatchExclusive'
<1>1. \A d \in Drainers : BatchSlots(d)' = BatchSlots(d)
  BY DEF BatchSlots, Batch
<1>2. \A d \in Drainers : (Holding(d) \/ Freeing(d))' =>
        /\ base'[d] = read_head'
        /\ n'[d] > 0 /\ base'[d] + n'[d] <= write_head'
        /\ \A e \in Drainers \ {d} : ~Holding(e)' /\ ~Freeing(e)'
  BY DEF BatchExclusive
<1>3. \A s \in Slots : state'[s] = "DRAINING" <=>
        \E d \in Drainers : Holding(d)' /\ s \in BatchSlots(d)'
  BY <1>1 DEF BatchExclusive
<1> QED BY <1>2, <1>3 DEF BatchExclusive

\* A step that leaves slots, heads, lock and drains alone can only disturb what
\* the invariant says of the producers.
LEMMA ProducerFrame ==
    ASSUME RingInv,
           UNCHANGED <<write_head, read_head, state, consumer_lock, dpcVars, durable, dropped>>,
           Admitted', AdvanceReady'
    PROVE  RingInv'
BY DEF RingInv, BatchExclusive, WindowFull, NoOverrun, ReleasedIsDurable, LockHeld,
       BatchAccounted, Holding, Freeing, Batch, BatchSlots, dpcVars

\* A step of a producer preserves the invariant.
LEMMA RingProducer ==
    ASSUME TypeOK, RingInv, NEW b \in Backends, Producer(b)
    PROVE  RingInv'
<1> USE RingAssumption DEF ringVars, pubVars, dpcVars, histVars
<1>0. /\ \A c \in Backends : w[c] \in Nat /\ SlotOf(w[c]) \in Slots
      /\ SlotOf(write_head) \in Slots
  BY SlotOfType DEF TypeOK
<1>1. CASE PublishStart(b) \/ BlockRetry(b) \/ BlockGiveUp(b)
  <2>1. Admitted' /\ AdvanceReady'
    BY <1>1 DEF TypeOK, RingInv, Admitted, AdvanceReady, PublishStart, BlockRetry, BlockGiveUp, Goto
  <2> QED
    BY <1>1, <2>1, ProducerFrame DEF PublishStart, BlockRetry, BlockGiveUp
<1>2. CASE ReadWriteHead(b)
  <2>1. Admitted' /\ AdvanceReady'
    BY <1>2 DEF TypeOK, RingInv, Admitted, AdvanceReady, ReadWriteHead, ReservedPosition, Goto
  <2> QED
    BY <1>2, <2>1, ProducerFrame DEF ReadWriteHead
<1>3. CASE ReadReadHead(b)
  <2>1. Admitted' /\ AdvanceReady'
    BY <1>3 DEF TypeOK, RingInv, Admitted, AdvanceReady, ReadReadHead, RingFull, Goto
  <2> QED
    BY <1>3, <2>1, ProducerFrame DEF ReadReadHead
<1>4. CASE WriteSlot(b)
  <2>1. Admitted' /\ AdvanceReady'
    BY <1>4 DEF TypeOK, RingInv, Admitted, AdvanceReady, WriteSlot, Goto
  <2> QED
    BY <1>4, <2>1, ProducerFrame DEF WriteSlot
<1>5. CASE ReserveSlot(b)
  <2> DEFINE s0 == SlotOf(w[b])
  <2>1. CASE UNCHANGED state
    <3>1. Admitted' /\ AdvanceReady'
      BY <1>5, <2>1, <1>0 DEF TypeOK, RingInv, Admitted, AdvanceReady, ReserveSlot, Reservable, Goto
    <3> QED
      BY <1>5, <2>1, <3>1, ProducerFrame DEF ReserveSlot
  <2>2. CASE state[s0] = "EMPTY" /\ state' = [state EXCEPT ![s0] = "WRITING"] /\ Goto(b, "write")
    <3>1. Admitted' /\ AdvanceReady'
      BY <1>5, <2>2, <1>0 DEF TypeOK, RingInv, Admitted, AdvanceReady, ReserveSlot, Goto
    <3>2. BatchExclusive'
      BY <1>5, <2>2, <1>0 DEF TypeOK, RingInv, BatchExclusive, Holding, Freeing, Batch, BatchSlots, ReserveSlot
    <3>3. WindowFull'
      BY <1>5, <2>2, <1>0 DEF TypeOK, RingInv, WindowFull, Freeing, Batch, ReserveSlot
    <3> QED
      BY <1>5, <3>1, <3>2, <3>3
      DEF RingInv, NoOverrun, ReleasedIsDurable, LockHeld, BatchAccounted, Freeing, Batch, ReserveSlot
  <2> QED
    BY <1>5, <2>1, <2>2 DEF ReserveSlot, Reservable
<1>6. CASE MarkReady(b)
  <2> DEFINE s0 == SlotOf(w[b])
  <2>1. CASE UNCHANGED state /\ Goto(b, "full")
    <3>1. Admitted' /\ AdvanceReady'
      BY <1>6, <2>1, <1>0 DEF TypeOK, RingInv, Admitted, AdvanceReady, MarkReady, Goto
    <3> QED
      BY <1>6, <2>1, <3>1, ProducerFrame DEF MarkReady
  <2>2. CASE state[s0] = "WRITING" /\ state' = [state EXCEPT ![s0] = "READY"] /\ Goto(b, "advance")
    <3>1. Admitted' /\ AdvanceReady'
      BY <1>6, <2>2, <1>0 DEF TypeOK, RingInv, Admitted, AdvanceReady, MarkReady, Goto
    <3>2. BatchExclusive'
      BY <1>6, <2>2, <1>0 DEF TypeOK, RingInv, BatchExclusive, Holding, Freeing, Batch, BatchSlots, MarkReady
    <3>3. WindowFull'
      BY <1>6, <2>2, <1>0 DEF TypeOK, RingInv, WindowFull, Freeing, Batch, MarkReady
    <3> QED
      BY <1>6, <3>1, <3>2, <3>3
      DEF RingInv, NoOverrun, ReleasedIsDurable, LockHeld, BatchAccounted, Freeing, Batch, MarkReady
  <2> QED
    BY <1>6, <2>1, <2>2 DEF MarkReady
<1>7. CASE AdvanceWriteHead(b)
  <2>1. CASE write_head # w[b]
    <3>1. Admitted' /\ AdvanceReady'
      BY <1>7, <2>1 DEF TypeOK, RingInv, Admitted, AdvanceReady, AdvanceWriteHead, AdvancedHead, Goto
    <3> QED
      BY <1>7, <2>1, <3>1, ProducerFrame DEF AdvanceWriteHead, AdvancedHead
  <2>2. CASE write_head = w[b]
    <3>0. write_head' = write_head + 1 /\ write_head \in Nat /\ read_head \in Nat
      BY <1>7, <2>2 DEF AdvanceWriteHead, AdvancedHead, TypeOK
    <3>1. Admitted' /\ AdvanceReady'
      BY <1>7, <2>2, <3>0 DEF TypeOK, RingInv, Admitted, AdvanceReady, AdvanceWriteHead, Goto
    <3>2. BatchExclusive'
      BY <1>7, <3>0 DEF TypeOK, RingInv, BatchExclusive, Holding, Freeing, Batch, BatchSlots, AdvanceWriteHead
    <3>3. WindowFull'
      <4> SUFFICES ASSUME NEW pos \in read_head .. write_head
                   PROVE  \/ state[SlotOf(pos)] \in {"READY", "DRAINING"}
                          \/ \E d \in Drainers : Freeing(d) /\ pos \in Batch(d)
        BY <1>7, <3>0 DEF WindowFull, Freeing, Batch, AdvanceWriteHead
      <4>1. CASE pos = write_head
        BY <1>7, <2>2, <4>1 DEF RingInv, AdvanceReady, AdvanceWriteHead
      <4>2. CASE pos # write_head
        BY <4>2, <3>0 DEF RingInv, WindowFull
      <4> QED BY <4>1, <4>2
    <3>4. NoOverrun'
      BY <1>7, <2>2, <3>0 DEF TypeOK, RingInv, NoOverrun, Admitted, AdvanceWriteHead
    <3> QED
      BY <1>7, <3>1, <3>2, <3>3, <3>4
      DEF RingInv, ReleasedIsDurable, LockHeld, BatchAccounted, Freeing, Batch, AdvanceWriteHead
  <2> QED BY <2>1, <2>2
<1> QED
  BY <1>1, <1>2, <1>3, <1>4, <1>5, <1>6, <1>7 DEF Producer

-----------------------------------------------------------------------------
(* Collecting a batch                                                      *)

\* While one process holds or frees a batch, a collect of another finds nothing:
\* the first slot of the window is not READY, or the lock is taken.
LEMMA CollectFindsNothing ==
    ASSUME TypeOK, RingInv, consumer_lock = Nobody,
           NEW e \in Drainers, Holding(e) \/ Freeing(e),
           NEW k \in Nat, Collectable(k)
    PROVE  k = 0
<1>1. Holding(e)
  BY RingAssumption DEF RingInv, LockHeld, Drainers
<1>2. base[e] = read_head /\ n[e] > 0
  BY <1>1 DEF RingInv, BatchExclusive
<1>3. read_head \in Batch(e) /\ SlotOf(read_head) \in Slots
  BY <1>2, SlotOfType DEF Batch, TypeOK
<1>4. state[SlotOf(read_head)] = "DRAINING"
  <2>1. SlotOf(read_head) \in BatchSlots(e)
    BY <1>3 DEF BatchSlots
  <2> QED BY ZenonT(30), <1>1, <1>3, <2>1 DEF RingInv, BatchExclusive
<1>5. k > 0 => state[SlotOf(read_head)] = "READY"
  BY DEF Collectable, TypeOK
<1> QED BY <1>4, <1>5

LEMMA WindowNat ==
  ASSUME NEW r \in Nat, NEW h \in Nat, NEW pos \in r .. h - 1
  PROVE  pos \in Nat
  OBVIOUS

\* collect preserves the invariant.
LEMMA RingCollect ==
    ASSUME TypeOK, RingInv, NEW d \in Drainers, Collect(d)
    PROVE  RingInv'
<1> USE RingAssumption DEF ringVars, pubVars, dpcVars, histVars
<1>k. PICK k \in 0 .. MaxBatch :
      LET taken == read_head .. read_head + k - 1
      IN  /\ Collectable(k)
          /\ base' = [base EXCEPT ![d] = read_head]
          /\ n' = [n EXCEPT ![d] = k]
          /\ events' = [events EXCEPT ![d] = {Collected(pos) : pos \in taken}]
          /\ state' = [s \in Slots |-> IF \E pos \in taken : s = SlotOf(pos)
                                       THEN CollectedState ELSE state[s]]
          /\ dpc' = [dpc EXCEPT ![d] = IF k = 0 THEN "none" ELSE "persist"]
          /\ IF k = 0 THEN ResumePublish(d) ELSE UNCHANGED <<pc, spin>>
  BY ZenonT(30) DEF Collect
<1> DEFINE taken == read_head .. read_head + k - 1
<1>k3. state' = [s \in Slots |-> IF \E pos \in taken : s = SlotOf(pos) THEN CollectedState ELSE state[s]]
  BY ZenonT(30), <1>k
<1>0. /\ dpc[d] = "none" /\ consumer_lock = Nobody
      /\ UNCHANGED <<write_head, read_head, payload, stale, consumer_lock, w, sent, histVars>>
  BY DEF Collect
<1>t. /\ read_head \in Nat /\ write_head \in Nat /\ k \in Nat
      /\ dpc \in [Drainers -> {"none", "persist", "release", "release_head", "abort", "drop_head"}]
      /\ base \in [Drainers -> Nat] /\ n \in [Drainers -> Nat]
      /\ state \in [Slots -> {"EMPTY", "WRITING", "READY", "DRAINING"}]
      /\ pc \in [Backends -> {"idle", "read_w", "read_r", "reserve", "write",
                              "ready", "advance", "full"}]
      /\ w \in [Backends -> Nat]
  BY DEF TypeOK
<1>u. \A pos \in Nat : SlotOf(pos) \in Slots
  BY SlotOfType
<1>f. \A e \in Drainers : ~Freeing(e)
  BY <1>0 DEF RingInv, LockHeld, Drainers
<1>p. \A b \in Backends : pc'[b] \in {"reserve", "write", "ready", "advance", "read_r"} => pc'[b] = pc[b]
  BY <1>k, <1>t DEF ResumePublish, Goto, Drainers
<1>a. Admitted'
  BY <1>0, <1>p, <1>t DEF RingInv, Admitted
<1>b. NoOverrun' /\ ReleasedIsDurable'
  BY <1>0 DEF RingInv, NoOverrun, ReleasedIsDurable
<1>c. LockHeld'
  BY <1>k, <1>0, <1>f, <1>t DEF LockHeld, Freeing, Drainers
<1>1. CASE k = 0
  <2>1. state' = state
    BY <1>k3, <1>1, <1>t
  <2>2. \A e \in Drainers : /\ dpc'[e] = dpc[e]
                            /\ e # d => base'[e] = base[e] /\ n'[e] = n[e] /\ events'[e] = events[e]
    BY <1>k, <1>0, <1>1, <1>t DEF TypeOK
  <2>3. ~Holding(d) /\ ~Freeing(d) /\ dpc[d] = "none"
    BY <1>0 DEF Holding, Freeing
  <2>a. \A e \in Drainers : (Holding(e)' <=> Holding(e)) /\ (Freeing(e)' <=> Freeing(e))
    BY ZenonT(30), <2>2 DEF Holding, Freeing
  <2>b. \A e \in Drainers : e # d => Batch(e)' = Batch(e)
    BY <2>2 DEF Batch
  <2>c. \A e \in Drainers : e # d => BatchSlots(e)' = BatchSlots(e)
    BY <2>b DEF BatchSlots
  <2>4. BatchExclusive'
    <3>1. \A e \in Drainers : (Holding(e) \/ Freeing(e))' =>
            /\ base'[e] = read_head'
            /\ n'[e] > 0 /\ base'[e] + n'[e] <= write_head'
            /\ \A g \in Drainers \ {e} : ~Holding(g)' /\ ~Freeing(g)'
      <4> SUFFICES ASSUME NEW e \in Drainers, Holding(e) \/ Freeing(e)
                   PROVE  /\ base'[e] = read_head'
                          /\ n'[e] > 0 /\ base'[e] + n'[e] <= write_head'
                          /\ \A g \in Drainers \ {e} : ~Holding(g) /\ ~Freeing(g)
        BY ZenonT(30), <2>a
      <4>1. /\ base[e] = read_head
            /\ n[e] > 0 /\ base[e] + n[e] <= write_head
            /\ \A g \in Drainers \ {e} : ~Holding(g) /\ ~Freeing(g)
        BY ZenonT(30) DEF RingInv, BatchExclusive
      <4>2. base'[e] = base[e] /\ n'[e] = n[e]
        BY ZenonT(30), <2>2, <2>3
      <4> QED BY ZenonT(30), <4>1, <4>2, <1>0
    <3>2. \A s \in Slots : state'[s] = "DRAINING" <=>
            \E e \in Drainers : Holding(e)' /\ s \in BatchSlots(e)'
      <4>1. \A s \in Slots : state[s] = "DRAINING" <=>
              \E e \in Drainers : Holding(e) /\ s \in BatchSlots(e)
        BY DEF RingInv, BatchExclusive
      <4>2. \A e \in Drainers : Holding(e) => BatchSlots(e)' = BatchSlots(e)
        BY ZenonT(30), <2>c, <2>3
      <4> QED BY <4>1, <4>2, <2>a, <2>1
    <3> QED BY ZenonT(30), <3>1, <3>2 DEF BatchExclusive
  <2>5. WindowFull'
    BY <2>1, <1>0, <1>f DEF RingInv, WindowFull
  <2>6. AdvanceReady'
    BY <2>1, <1>0, <1>p DEF RingInv, AdvanceReady
  <2>7. BatchAccounted'
    <3> SUFFICES ASSUME NEW e \in Drainers, NEW pos \in Batch(e)'
                 PROVE  /\ dpc'[e] = "persist" => \E rec \in events'[e] : rec[1] = pos
                        /\ dpc'[e] \in {"release", "release_head"} => \E rec \in durable' : rec[1] = pos
                        /\ dpc'[e] = "drop_head" => pos \in dropped'
      BY DEF BatchAccounted
    <3>1. CASE e = d
      BY ZenonT(30), <3>1, <2>2, <2>3
    <3>2. CASE e # d
      <4>1. pos \in Batch(e)
        BY <3>2, <2>b
      <4>2. /\ dpc[e] = "persist" => \E rec \in events[e] : rec[1] = pos
            /\ dpc[e] \in {"release", "release_head"} => \E rec \in durable : rec[1] = pos
            /\ dpc[e] = "drop_head" => pos \in dropped
        BY <4>1 DEF RingInv, BatchAccounted
      <4> QED BY <3>2, <4>2, <2>2, <1>0
    <3> QED BY <3>1, <3>2
  <2> QED
    BY <1>a, <1>b, <1>c, <2>4, <2>5, <2>6, <2>7 DEF RingInv
<1>2. CASE k > 0
  <2>1. \A e \in Drainers : ~Holding(e)
    <3> SUFFICES ASSUME NEW e \in Drainers, Holding(e) PROVE FALSE
      OBVIOUS
    <3>1. Collectable(k) /\ k \in Nat /\ consumer_lock = Nobody
      BY <1>k, <1>0, <1>t
    <3>2. k = 0
      BY <3>1, CollectFindsNothing
    <3> QED BY <3>2, <1>2
  <2>2. \A s \in Slots : state[s] # "DRAINING"
    BY <2>1 DEF RingInv, BatchExclusive
  <2>3. taken \subseteq read_head .. write_head - 1
    BY <1>k, <1>t DEF Collectable
  <2>4. \A e \in Drainers : e # d => dpc'[e] = dpc[e] /\ base'[e] = base[e] /\ n'[e] = n[e]
    BY <1>k, <1>t
  <2>5. dpc'[d] = "persist" /\ base'[d] = read_head /\ n'[d] = k
    BY <1>k, <1>2, <1>t
  <2>6. Batch(d)' = taken
    BY <2>5, <1>t DEF Batch
  <2>7. BatchExclusive'
    <3>1. \A e \in Drainers : (Holding(e) \/ Freeing(e))' => e = d
      BY <2>1, <1>f, <2>4 DEF Holding, Freeing
    <3>2. base'[d] = read_head' /\ n'[d] > 0 /\ base'[d] + n'[d] <= write_head'
      BY <1>k, ZenonT(30), <2>5, <1>2, <1>0 DEF Collectable
    <3>3. \A s \in Slots : state'[s] = "DRAINING" <=> \E pos \in taken : s = SlotOf(pos)
      BY <1>k3, ZenonT(30), <2>2, <1>t DEF CollectedState
    <3>4. BatchSlots(d)' = {SlotOf(pos) : pos \in taken}
      BY <2>6 DEF BatchSlots
    <3>5. Holding(d)'
      BY <2>5 DEF Holding
    <3> QED
      BY <3>1, <3>2, <3>3, <3>4, <3>5 DEF BatchExclusive
  <2>8. WindowFull'
    <3> SUFFICES ASSUME NEW pos \in read_head .. write_head - 1
                 PROVE  state'[SlotOf(pos)] \in {"READY", "DRAINING"}
      BY ZenonT(30), <1>0 DEF WindowFull
    <3>1. state[SlotOf(pos)] \in {"READY", "DRAINING"} /\ SlotOf(pos) \in Slots
      <4>1. pos \in Nat
        BY ZenonT(30), <1>t, WindowNat
      <4> QED BY ZenonT(30), <4>1, <1>f, <1>u DEF RingInv, WindowFull
    <3>2. state'[SlotOf(pos)] = "DRAINING" \/ state'[SlotOf(pos)] = state[SlotOf(pos)]
      BY <1>k3, <3>1, <1>0, SMTT(30) DEF CollectedState
    <3> QED BY <3>1, <3>2, Zenon
  <2>9. AdvanceReady'
    <3> SUFFICES ASSUME NEW b \in Backends, pc[b] = "advance", w[b] = write_head
                 PROVE  state'[SlotOf(w[b])] = "READY"
      BY <1>0, <1>p DEF AdvanceReady
    <3>1. state[SlotOf(w[b])] = "READY" /\ SlotOf(w[b]) \in Slots
      BY <1>t, <1>u DEF RingInv, AdvanceReady
    <3>2. ~\E pos \in taken : SlotOf(w[b]) = SlotOf(pos)
      BY <2>3, AdvanceOutsideWindow DEF RingInv
    <3> QED
      BY <1>k3, ZenonT(30), <3>1, <3>2
  <2>10. BatchAccounted'
    <3>1. \A pos \in taken : Collected(pos) \in events'[d] /\ Collected(pos)[1] = pos
      BY <1>k DEF Collected, TypeOK
    <3>2. \A e \in Drainers : e # d => ~Holding(e) /\ ~Freeing(e) /\ dpc'[e] = dpc[e]
      BY ZenonT(30), <2>1, <1>f, <2>4
    <3>3. \A e \in Drainers : e # d => dpc'[e] \notin {"persist", "release", "release_head", "drop_head"}
      BY <3>2 DEF Holding, Freeing
    <3> QED
      BY ZenonT(30), <2>5, <2>6, <3>1, <3>3 DEF BatchAccounted
  <2> QED
    BY <1>a, <1>b, <1>c, <2>7, <2>8, <2>9, <2>10 DEF RingInv
<1> QED BY <1>1, <1>2

\* Executing the statements, with or without an error, preserves the invariant.
LEMMA RingPersist ==
    ASSUME TypeOK, RingInv, NEW d \in Drainers, PersistOk(d) \/ PersistError(d)
    PROVE  RingInv'
<1> USE DEF ringVars, pubVars, dpcVars, histVars
<1>1. /\ dpc[d] = "persist"
      /\ dpc'[d] \in {"release", "abort"}
      /\ dpc'[d] = "release" => durable' = durable \cup events[d]
      /\ \A e \in Drainers : e # d => dpc'[e] = dpc[e]
      /\ durable \subseteq durable'
      /\ UNCHANGED <<write_head, read_head, state, consumer_lock, pubVars, base, n, events, dropped>>
  BY DEF TypeOK, PersistOk, PersistError, AfterError
<1>2. \A e \in Drainers : /\ Holding(e)' <=> Holding(e)
                          /\ Freeing(e)' <=> Freeing(e)
                          /\ Batch(e)' = Batch(e) /\ BatchSlots(e)' = BatchSlots(e)
  BY ZenonT(30), <1>1 DEF Holding, Freeing, Batch, BatchSlots
<1>3. BatchExclusive'
  BY ZenonT(30), <1>1, <1>2, BatchFrame DEF RingInv
<1>4. WindowFull' /\ NoOverrun' /\ LockHeld' /\ Admitted' /\ AdvanceReady'
  BY ZenonT(30), <1>1, <1>2 DEF RingInv, WindowFull, NoOverrun, LockHeld, Admitted, AdvanceReady
<1>5. ReleasedIsDurable'
  BY ZenonT(30), <1>1 DEF RingInv, ReleasedIsDurable
<1>6. BatchAccounted'
  <2> SUFFICES ASSUME NEW e \in Drainers, NEW pos \in Batch(e)
               PROVE  /\ dpc'[e] = "persist" => \E rec \in events'[e] : rec[1] = pos
                      /\ dpc'[e] \in {"release", "release_head"} => \E rec \in durable' : rec[1] = pos
                      /\ dpc'[e] = "drop_head" => pos \in dropped'
    BY ZenonT(30), <1>2 DEF BatchAccounted
  <2>1. CASE e = d
    BY ZenonT(30), <1>1, <2>1 DEF RingInv, BatchAccounted
  <2>2. CASE e # d
    BY ZenonT(30), <1>1, <2>2 DEF RingInv, BatchAccounted
  <2> QED BY ZenonT(30), <2>1, <2>2
<1> QED
  BY <1>3, <1>4, <1>5, <1>6 DEF RingInv

\* The first half of release_batch preserves the invariant.
LEMMA RingReleaseSlots ==
    ASSUME TypeOK, RingInv, NEW d \in Drainers, ReleaseSlots(d)
    PROVE  RingInv'
<1> USE DEF ringVars, pubVars, dpcVars, histVars
<1>1. /\ dpc[d] = "release" /\ dpc'[d] = "release_head"
      /\ \A e \in Drainers : e # d => dpc'[e] = dpc[e]
      /\ consumer_lock = Nobody /\ consumer_lock' = d
      /\ state' = [s \in Slots |-> IF s \in BatchSlots(d) THEN "EMPTY" ELSE state[s]]
      /\ UNCHANGED <<write_head, read_head, pubVars, base, n, events, durable, dropped>>
  BY DEF TypeOK, ReleaseSlots
<1>2. Holding(d) /\ ~Freeing(d)
  BY <1>1 DEF Holding, Freeing
<1>3. \A e \in Drainers : e # d => ~Holding(e) /\ ~Freeing(e)
  BY <1>2 DEF RingInv, BatchExclusive
<1>4. \A e \in Drainers : /\ ~Holding(e)'
                          /\ Freeing(e)' <=> e = d
                          /\ Batch(e)' = Batch(e)
  BY ZenonT(30), <1>1, <1>3 DEF Holding, Freeing, Batch
<1>5. \A s \in Slots : state[s] = "DRAINING" <=> s \in BatchSlots(d)
  BY ZenonT(30), <1>2, <1>3 DEF RingInv, BatchExclusive
<1>6. BatchExclusive'
  <2>1. base[d] = read_head /\ n[d] > 0 /\ base[d] + n[d] <= write_head
    BY ZenonT(30), <1>2 DEF RingInv, BatchExclusive
  <2>2. \A s \in Slots : state'[s] # "DRAINING"
    BY ZenonT(30), <1>1, <1>5
  <2> QED
    BY ZenonT(30), <1>1, <1>4, <2>1, <2>2 DEF BatchExclusive
<1>7. WindowFull'
  <2> SUFFICES ASSUME NEW pos \in read_head .. write_head - 1
               PROVE  state'[SlotOf(pos)] \in {"READY", "DRAINING"} \/ pos \in Batch(d)
    BY ZenonT(30), <1>1, <1>4 DEF WindowFull
  <2>1. pos \in Nat /\ SlotOf(pos) \in Slots
    BY SlotOfType DEF TypeOK
  <2>2. state[SlotOf(pos)] \in {"READY", "DRAINING"}
    BY <1>2, <1>3 DEF RingInv, WindowFull
  <2>3. CASE SlotOf(pos) \in BatchSlots(d)
    <3>1. PICK q \in Batch(d) : SlotOf(pos) = SlotOf(q)
      BY <2>3 DEF BatchSlots
    <3>2. q \in read_head .. write_head - 1
      BY <1>2 DEF RingInv, BatchExclusive, Batch, TypeOK
    <3>3. pos = q
      BY <3>1, <3>2, WindowInjective DEF RingInv
    <3> QED BY <3>3
  <2>4. CASE SlotOf(pos) \notin BatchSlots(d)
    BY <1>1, <2>1, <2>2, <2>4
  <2> QED BY <2>3, <2>4
<1>8. AdvanceReady'
  <2> SUFFICES ASSUME NEW b \in Backends, pc[b] = "advance", w[b] = write_head
               PROVE  state'[SlotOf(w[b])] = "READY"
    BY <1>1 DEF AdvanceReady
  <2>1. state[SlotOf(w[b])] = "READY" /\ SlotOf(w[b]) \in Slots
    BY SlotOfType DEF RingInv, AdvanceReady, TypeOK
  <2> QED BY ZenonT(30), <1>1, <1>5, <2>1
<1>9. LockHeld'
  BY <1>1, <1>4 DEF LockHeld
<1>10. BatchAccounted'
  <2>1. \A pos \in Batch(d) : \E rec \in durable : rec[1] = pos
    BY ZenonT(30), <1>1 DEF RingInv, BatchAccounted
  <2>2. \A e \in Drainers : e # d => dpc'[e] \notin {"persist", "release", "release_head", "drop_head"}
    BY ZenonT(30), <1>1, <1>3 DEF Holding, Freeing
  <2> SUFFICES ASSUME NEW e \in Drainers, NEW pos \in Batch(e)'
               PROVE  /\ dpc'[e] = "persist" => \E rec \in events'[e] : rec[1] = pos
                      /\ dpc'[e] \in {"release", "release_head"} => \E rec \in durable' : rec[1] = pos
                      /\ dpc'[e] = "drop_head" => pos \in dropped'
    BY DEF BatchAccounted
  <2>3. CASE e = d
    BY ZenonT(30), <1>1, <1>4, <2>1, <2>3
  <2>4. CASE e # d
    BY <2>2, <2>4
  <2> QED BY ZenonT(30), <2>3, <2>4
<1>11. NoOverrun' /\ Admitted' /\ ReleasedIsDurable'
  BY <1>1 DEF RingInv, NoOverrun, Admitted, ReleasedIsDurable
<1> QED
  BY <1>6, <1>7, <1>8, <1>9, <1>10, <1>11 DEF RingInv

LEMMA MovedWindow ==
  ASSUME NEW r \in Nat, NEW m \in Nat, NEW h \in Nat, NEW pos \in (r + m) .. h - 1
  PROVE  pos \in r .. h - 1 /\ pos \notin r .. r + m - 1
  OBVIOUS

\* Moving read_head past the freed slots, at the end of release_batch or of
\* FLUSHALL, preserves the invariant.
LEMMA RingMoveHead ==
    ASSUME TypeOK, RingInv, NEW d \in Drainers, Freeing(d),
           read_head' = base[d] + n[d], consumer_lock' = Nobody, DrainOver(d),
           UNCHANGED <<write_head, state, w, durable, dropped>>,
           \A b \in Backends : pc'[b] \in {"read_r", "reserve", "write", "ready", "advance"}
                               => pc'[b] = pc[b]
    PROVE  RingInv'
<1>1. /\ dpc'[d] = "none"
      /\ \A e \in Drainers : e # d => dpc'[e] = dpc[e] /\ ~Holding(e) /\ ~Freeing(e)
  BY DEF TypeOK, DrainOver, RingInv, BatchExclusive
<1>2. \A e \in Drainers : ~Holding(e)' /\ ~Freeing(e)'
  BY <1>1 DEF Holding, Freeing
<1>3. ~Holding(d)
  BY DEF Holding, Freeing
<1>4. /\ base[d] = read_head /\ n[d] > 0 /\ base[d] + n[d] <= write_head
      /\ read_head \in Nat /\ write_head \in Nat /\ n[d] \in Nat
  BY DEF RingInv, BatchExclusive, TypeOK
<1>5. BatchExclusive'
  <2>1. \A s \in Slots : state[s] # "DRAINING"
    BY ZenonT(30), <1>1, <1>3 DEF RingInv, BatchExclusive
  <2>2. \A s \in Slots : state'[s] # "DRAINING"
    BY ZenonT(30), <2>1
  <2> QED BY <1>2, <2>2 DEF BatchExclusive
<1>6. WindowFull'
  <2> SUFFICES ASSUME NEW pos \in read_head' .. write_head' - 1
               PROVE  state[SlotOf(pos)] \in {"READY", "DRAINING"}
    BY DEF WindowFull
  <2>a. pos \in (read_head + n[d]) .. write_head - 1
    BY ZenonT(30), <1>4
  <2>b. Batch(d) = read_head .. read_head + n[d] - 1
    BY ZenonT(30), <1>4 DEF Batch
  <2>1. pos \in read_head .. write_head - 1 /\ pos \notin Batch(d)
    BY ZenonT(30), <2>a, <2>b, <1>4, MovedWindow
  <2>2. \A e \in Drainers : Freeing(e) => e = d
    BY ZenonT(30), <1>1
  <2> QED BY <2>1, <2>2 DEF RingInv, WindowFull
<1>7. NoOverrun' /\ Admitted'
  <2>1. NoOverrun /\ Admitted /\ w \in [Backends -> Nat]
    BY ZenonT(30) DEF RingInv, TypeOK
  <2>2. read_head' \in Nat /\ read_head <= read_head' /\ read_head' <= write_head /\ write_head' = write_head
    BY <1>4
  <2>3. NoOverrun'
    BY <1>4, <2>1, <2>2, RingAssumption DEF NoOverrun
  <2>4. Admitted'
    BY <1>4, <2>1, <2>2, RingAssumption DEF Admitted
  <2> QED BY ZenonT(30), <2>3, <2>4
<1>8. ReleasedIsDurable'
  <2>1. \A pos \in Batch(d) : pos \in dropped \/ \E rec \in durable : rec[1] = pos
    BY ZenonT(30) DEF RingInv, BatchAccounted, Freeing
  <2>2. \A pos \in 0 .. read_head - 1 : pos \in dropped \/ \E rec \in durable : rec[1] = pos
    BY DEF RingInv, ReleasedIsDurable
  <2>3. \A pos \in 0 .. read_head' - 1 : pos \in 0 .. read_head - 1 \/ pos \in Batch(d)
    BY <1>4 DEF Batch
  <2> QED
    BY ZenonT(30), <2>1, <2>2, <2>3 DEF ReleasedIsDurable
<1>9. LockHeld'
  BY <1>2, RingAssumption DEF LockHeld, Drainers
<1>10. AdvanceReady'
  BY DEF RingInv, AdvanceReady
<1>11. BatchAccounted'
  BY <1>2 DEF BatchAccounted, Holding, Freeing
<1> QED
  BY <1>5, <1>6, <1>7, <1>8, <1>9, <1>10, <1>11 DEF RingInv

\* abort_batch preserves the invariant.
LEMMA RingAbort ==
    ASSUME TypeOK, RingInv, NEW d \in Drainers, AbortBatch(d)
    PROVE  RingInv'
<1> USE DEF histVars
<1>1. /\ dpc[d] = "abort" /\ dpc'[d] = "none" /\ consumer_lock = Nobody
      /\ \A e \in Drainers : e # d => dpc'[e] = dpc[e]
      /\ state' = [s \in Slots |-> IF s \in BatchSlots(d) THEN "READY" ELSE state[s]]
      /\ UNCHANGED <<write_head, read_head, consumer_lock, w, durable, dropped>>
  BY DEF TypeOK, AbortBatch, AbortedState, DrainOver
<1>p. \A b \in Backends : pc'[b] \in {"read_r", "reserve", "write", "ready", "advance"}
                          => pc'[b] = pc[b]
  BY DEF TypeOK, AbortBatch, Goto, Drainers
<1>2. Holding(d)
  BY <1>1 DEF Holding
<1>3. \A e \in Drainers : ~Holding(e)' /\ ~Freeing(e)'
  BY <1>1, <1>2 DEF RingInv, BatchExclusive, Holding, Freeing
<1>4. \A s \in Slots : state[s] = "DRAINING" <=> s \in BatchSlots(d)
  BY <1>2 DEF RingInv, BatchExclusive
<1>5. BatchExclusive'
  BY ZenonT(30), <1>1, <1>3, <1>4 DEF BatchExclusive
<1>6. WindowFull'
  <2>1. \A pos \in read_head .. write_head - 1 :
          state[SlotOf(pos)] \in {"READY", "DRAINING"} /\ SlotOf(pos) \in Slots
    BY <1>2, SlotOfType DEF RingInv, WindowFull, BatchExclusive, TypeOK, Freeing, Holding
  <2> QED
    BY <1>1, <2>1 DEF WindowFull
<1>7. AdvanceReady'
  <2>1. \A b \in Backends : SlotOf(w[b]) \in Slots
    BY SlotOfType DEF TypeOK
  <2> QED
    BY ZenonT(30), <1>1, <1>p, <2>1 DEF RingInv, AdvanceReady
<1>8. LockHeld'
  BY <1>1, <1>3, RingAssumption DEF LockHeld, Drainers
<1>9. BatchAccounted'
  BY <1>3 DEF BatchAccounted, Holding, Freeing
<1>10. NoOverrun' /\ Admitted' /\ ReleasedIsDurable'
  BY <1>1, <1>p DEF RingInv, NoOverrun, Admitted, ReleasedIsDurable
<1> QED
  BY <1>5, <1>6, <1>7, <1>8, <1>9, <1>10 DEF RingInv

\* FLUSHALL emptying the slots, while no batch is in flight, preserves the
\* invariant.
LEMMA RingDropSlots ==
    ASSUME TypeOK, RingInv, NEW b \in Backends, NoBatchInFlight, DropSlots(b)
    PROVE  RingInv'
<1> USE DEF ringVars, pubVars, dpcVars, histVars
<1>0. b \in Drainers
  BY DEF Drainers
<1> PICK k \in 1 .. RingCapacity :
      LET taken == read_head .. read_head + k - 1
      IN  /\ Droppable(k)
          /\ base' = [base EXCEPT ![b] = read_head]
          /\ n' = [n EXCEPT ![b] = k]
          /\ dropped' = dropped \cup taken
          /\ state' = [s \in Slots |-> IF \E pos \in taken : s = SlotOf(pos)
                                       THEN "EMPTY" ELSE state[s]]
  BY ZenonT(30) DEF DropSlots
<1> DEFINE taken == read_head .. read_head + k - 1
<1>1. /\ dpc'[b] = "drop_head" /\ consumer_lock' = b
      /\ \A e \in Drainers : e # b => dpc'[e] = dpc[e]
      /\ base'[b] = read_head /\ n'[b] = k
      /\ UNCHANGED <<write_head, read_head, pubVars, durable>>
      /\ read_head \in Nat /\ write_head \in Nat /\ k \in Nat /\ k > 0
  <2>1. /\ dpc' = [dpc EXCEPT ![b] = "drop_head"] /\ consumer_lock' = b
        /\ UNCHANGED <<write_head, read_head, pubVars, durable>>
    BY DEF DropSlots
  <2>2. /\ read_head \in Nat /\ write_head \in Nat /\ k \in Nat /\ k > 0
        /\ b \in DOMAIN dpc /\ b \in DOMAIN base /\ b \in DOMAIN n /\ DOMAIN dpc = Drainers
    BY <1>0, RingAssumption DEF TypeOK
  <2> QED BY <2>1, <2>2
<1>2. \A e \in Drainers : ~Holding(e) /\ ~Freeing(e)
  BY DEF NoBatchInFlight, Holding, Freeing
<1>3. \A e \in Drainers : ~Holding(e)' /\ (Freeing(e)' <=> e = b)
  BY <1>0, <1>1, <1>2 DEF Holding, Freeing
<1>4. Batch(b)' = taken
  BY <1>1 DEF Batch
<1>5. taken \subseteq read_head .. write_head - 1
  BY <1>1 DEF Droppable
<1>6. BatchExclusive'
  <2>1. \A s \in Slots : state'[s] # "DRAINING"
    BY <1>2 DEF RingInv, BatchExclusive, TypeOK
  <2>2. base'[b] + n'[b] <= write_head'
    BY ZenonT(30), <1>1 DEF Droppable
  <2> QED
    BY ZenonT(30), <1>1, <1>3, <2>1, <2>2 DEF BatchExclusive
<1>7. WindowFull'
  <2> SUFFICES ASSUME NEW pos \in read_head .. write_head - 1
               PROVE  state'[SlotOf(pos)] \in {"READY", "DRAINING"} \/ pos \in taken
    BY ZenonT(30), <1>0, <1>1, <1>3, <1>4 DEF WindowFull
  <2>1. state[SlotOf(pos)] \in {"READY", "DRAINING"} /\ SlotOf(pos) \in Slots
    BY <1>1, <1>2, SlotOfType DEF RingInv, WindowFull
  <2>2. \A q \in taken : SlotOf(pos) = SlotOf(q) => pos = q
    BY <1>5, WindowInjective DEF RingInv
  <2> QED BY <2>1, <2>2
<1>8. AdvanceReady'
  <2> SUFFICES ASSUME NEW c \in Backends, pc[c] = "advance", w[c] = write_head
               PROVE  state'[SlotOf(w[c])] = "READY"
    BY <1>1 DEF AdvanceReady
  <2>1. state[SlotOf(w[c])] = "READY" /\ SlotOf(w[c]) \in Slots
    BY SlotOfType DEF RingInv, AdvanceReady, TypeOK
  <2>2. ~\E pos \in taken : SlotOf(w[c]) = SlotOf(pos)
    BY <1>5, AdvanceOutsideWindow DEF RingInv
  <2> QED BY ZenonT(30), <2>1, <2>2
<1>9. LockHeld'
  BY ZenonT(30), <1>1, <1>3 DEF LockHeld
<1>10. BatchAccounted'
  BY ZenonT(30), <1>1, <1>3, <1>4 DEF BatchAccounted, Holding, Freeing
<1>11. NoOverrun' /\ Admitted' /\ ReleasedIsDurable'
  BY ZenonT(30), <1>1 DEF RingInv, NoOverrun, Admitted, ReleasedIsDurable
<1> QED
  BY <1>6, <1>7, <1>8, <1>9, <1>10, <1>11 DEF RingInv

\* A step of a drain preserves the invariant.
LEMMA RingDrain ==
    ASSUME TypeOK, RingInv, NEW d \in Drainers, Drain(d)
    PROVE  RingInv'
<1>1. CASE ReleaseHead(d)
  <2>1. Freeing(d)
    BY ZenonT(30), <1>1 DEF ReleaseHead, Freeing
  <2>2. \A b \in Backends : pc'[b] \in {"read_r", "reserve", "write", "ready", "advance"}
                            => pc'[b] = pc[b]
    BY <1>1 DEF ReleaseHead, ResumePublish, Goto, TypeOK, Drainers
  <2> QED
    BY ZenonT(30), <1>1, <2>1, <2>2, RingMoveHead DEF ReleaseHead, histVars
<1> QED
  BY <1>1, RingCollect, RingPersist, RingReleaseSlots, RingAbort DEF Drain

\* The background worker's reclaim pass preserves the invariant: a slot that is
\* WRITING is not in the window.
LEMMA RingReclaim ==
    ASSUME TypeOK, RingInv, ReclaimStuck
    PROVE  RingInv'
<1> USE DEF ringVars, pubVars, dpcVars, histVars
<1> DEFINE s0 == SlotOf(write_head)
<1>1. /\ state[s0] = "WRITING" /\ s0 \in Slots
      /\ state' = [state EXCEPT ![s0] = "EMPTY"]
      /\ UNCHANGED <<write_head, read_head, consumer_lock, pubVars, dpcVars, histVars>>
  BY SlotOfType DEF ReclaimStuck, TypeOK
<1>2. BatchExclusive'
  <2>1. \A d \in Drainers : (Holding(d)' <=> Holding(d)) /\ (Freeing(d)' <=> Freeing(d))
    BY <1>1 DEF Holding, Freeing
  <2>2. \A s \in Slots : state'[s] = "DRAINING" <=> state[s] = "DRAINING"
    BY <1>1 DEF TypeOK
  <2> QED BY <1>1, <2>1, <2>2, BatchFrame DEF RingInv
<1>3. WindowFull'
  BY <1>1 DEF RingInv, WindowFull, Freeing, Batch, TypeOK
<1>4. AdvanceReady'
  BY <1>1 DEF RingInv, AdvanceReady, TypeOK
<1> QED
  BY ZenonT(30), <1>1, <1>2, <1>3, <1>4
  DEF RingInv, NoOverrun, ReleasedIsDurable, LockHeld, Admitted, BatchAccounted, Freeing, Batch

\* Every step preserves the invariant.
LEMMA RingNext == TypeOK /\ RingInv /\ [Next]_vars => RingInv'
<1> SUFFICES ASSUME TypeOK, RingInv, [Next]_vars PROVE RingInv'
  OBVIOUS
<1>1. CASE CoreNext
  BY <1>1, RingProducer, RingDrain DEF CoreNext
<1>2. ASSUME NEW b \in Backends, QuietFlushall(b) PROVE RingInv'
  <2>1. CASE NoBatchInFlight /\ DropSlots(b)
    BY <2>1, RingDropSlots
  <2>2. CASE DropHead(b)
    <3>1. b \in Drainers /\ Freeing(b)
      BY ZenonT(30), <2>2 DEF DropHead, Freeing, Drainers
    <3> QED
      BY ZenonT(30), <2>2, <3>1, RingMoveHead DEF DropHead, pubVars, histVars
  <2> QED BY <1>2, <2>1, <2>2 DEF QuietFlushall
<1>3. CASE \E s \in Slots : Age(s)
  BY ZenonT(30), <1>3, ProducerFrame DEF Age, RingInv, Admitted, AdvanceReady, pubVars, dpcVars, histVars
<1>4. CASE ReclaimStuck
  BY <1>4, RingReclaim
<1>5. CASE UNCHANGED vars
  BY ZenonT(30), <1>5, ProducerFrame DEF vars, RingInv, Admitted, AdvanceReady, ringVars, pubVars, dpcVars, histVars
<1> QED
  BY <1>1, <1>2, <1>3, <1>4, <1>5 DEF Next

\* The initial state satisfies the invariant.
LEMMA RingInit == Init => TypeOK /\ RingInv
<1> SUFFICES ASSUME Init PROVE TypeOK /\ RingInv
  OBVIOUS
<1> USE RingAssumption DEF Init
<1>1. TypeOK
  BY DEF TypeOK, Events, Slots, Drainers
<1>2. BatchExclusive /\ LockHeld
  <2>1. \A d \in Drainers : ~Holding(d) /\ ~Freeing(d) /\ consumer_lock # d
    BY ZenonT(30) DEF Holding, Freeing, Drainers
  <2>2. \A s \in Slots : state[s] # "DRAINING"
    OBVIOUS
  <2> QED BY ZenonT(30), <2>1, <2>2 DEF BatchExclusive, LockHeld
<1>3. WindowFull /\ NoOverrun /\ ReleasedIsDurable
  BY DEF WindowFull, NoOverrun, ReleasedIsDurable
<1>4. Admitted /\ AdvanceReady /\ BatchAccounted
  BY DEF Admitted, AdvanceReady, BatchAccounted, Batch
<1> QED BY <1>1, <1>2, <1>3, <1>4 DEF RingInv

-----------------------------------------------------------------------------
(* The theorems                                                            *)

\* Every reachable state of the dirty-ring is well typed and satisfies the
\* inductive invariant, whatever the interleaving of publish, the drains,
\* FLUSHALL and the reclaim pass.
THEOREM RingInvariant == Spec => [](TypeOK /\ RingInv)
<1>1. Init => TypeOK /\ RingInv
  BY RingInit
<1>2. (TypeOK /\ RingInv) /\ [Next]_vars => (TypeOK /\ RingInv)'
  BY TypeNext, RingNext
<1> QED BY <1>1, <1>2, PTL DEF Spec

\* Type correctness.
THEOREM TypeCorrect == Spec => []TypeOK
BY RingInvariant, PTL

\* One drainer at a time holds a batch, at read_head, and the DRAINING slots are
\* its own (collect, release_batch, abort_batch).
THEOREM OneDrainer == Spec => []BatchExclusive
<1>1. TypeOK /\ RingInv => BatchExclusive
  BY DEF RingInv
<1> QED BY <1>1, RingInvariant, PTL

\* The window never has a hole (publish).
THEOREM NoHole == Spec => []WindowFull
<1>1. TypeOK /\ RingInv => WindowFull
  BY DEF RingInv
<1> QED BY <1>1, RingInvariant, PTL

\* write_head never laps read_head, though publish tests stale values.
THEOREM NoLap == Spec => []NoOverrun
<1>1. TypeOK /\ RingInv => NoOverrun
  BY DEF RingInv
<1> QED BY <1>1, RingInvariant, PTL

\* read_head passes only durable or discarded events (at-least-once).
THEOREM AtLeastOnce == Spec => []ReleasedIsDurable
<1>1. TypeOK /\ RingInv => ReleasedIsDurable
  BY DEF RingInv
<1> QED BY <1>1, RingInvariant, PTL

\* No step rewinds a head.
THEOREM HeadsNeverRewind == Spec => HeadsMonotone
<1>1. TypeOK /\ RingInv /\ [Next]_vars
        => [read_head' >= read_head /\ write_head' >= write_head]_vars
  <2> SUFFICES ASSUME TypeOK, RingInv, Next
               PROVE  read_head' >= read_head /\ write_head' >= write_head
    OBVIOUS
  <2> USE DEF ringVars, histVars
  <2>0. write_head \in Nat /\ read_head \in Nat
    BY DEF TypeOK
  <2>1. ASSUME NEW b \in Backends, Producer(b)
        PROVE  read_head' = read_head /\ write_head' >= write_head
    <3>1. CASE AdvanceWriteHead(b)
      <4>1. read_head' = read_head /\ write_head' = AdvancedHead(b)
        BY <3>1 DEF AdvanceWriteHead
      <4> QED BY <2>0, <4>1 DEF AdvancedHead
    <3>2. CASE ReserveSlot(b) \/ WriteSlot(b) \/ MarkReady(b)
      <4>1. UNCHANGED <<write_head, read_head>>
        BY ZenonT(30), <3>2 DEF ReserveSlot, WriteSlot, MarkReady
      <4> QED BY <2>0, <4>1
    <3>3. CASE PublishStart(b) \/ ReadWriteHead(b) \/ ReadReadHead(b)
      <4>1. UNCHANGED <<write_head, read_head>>
        <5>1. CASE PublishStart(b)
          BY ZenonT(30), <5>1 DEF PublishStart
        <5>2. CASE ReadWriteHead(b)
          BY <5>2 DEF ReadWriteHead
        <5>3. CASE ReadReadHead(b)
          BY <5>3 DEF ReadReadHead
        <5> QED BY <3>3, <5>1, <5>2, <5>3
      <4> QED BY <2>0, <4>1
    <3>4. CASE BlockRetry(b) \/ BlockGiveUp(b)
      <4>1. UNCHANGED <<write_head, read_head>>
        BY ZenonT(30), <3>4 DEF BlockRetry, BlockGiveUp
      <4> QED BY <2>0, <4>1
    <3> QED BY <2>1, <3>1, <3>2, <3>3, <3>4 DEF Producer
  <2>2. ASSUME NEW d \in Drainers, Drain(d)
        PROVE  read_head' >= read_head /\ write_head' = write_head
    <3>1. CASE ReleaseHead(d)
      <4>0. Freeing(d)
        BY <3>1 DEF Freeing, ReleaseHead
      <4>1. base[d] = read_head /\ n[d] \in Nat
        BY <4>0 DEF RingInv, BatchExclusive, TypeOK
      <4> QED BY <2>0, <3>1, <4>1 DEF ReleaseHead
    <3>2. CASE Collect(d)
      <4>1. UNCHANGED <<write_head, read_head>>
        BY ZenonT(30), <3>2 DEF Collect
      <4> QED BY <2>0, <4>1
    <3>3. CASE PersistOk(d) \/ PersistError(d)
      <4>1. UNCHANGED <<write_head, read_head>>
        BY ZenonT(30), <3>3 DEF PersistOk, PersistError
      <4> QED BY <2>0, <4>1
    <3>4. CASE ReleaseSlots(d) \/ AbortBatch(d)
      <4>1. UNCHANGED <<write_head, read_head>>
        BY ZenonT(30), <3>4 DEF ReleaseSlots, AbortBatch
      <4> QED BY <2>0, <4>1
    <3> QED
      BY <2>2, <3>1, <3>2, <3>3, <3>4 DEF Drain
  <2>3. ASSUME NEW b \in Backends, QuietFlushall(b)
        PROVE  read_head' >= read_head /\ write_head' = write_head
    <3>1. CASE DropHead(b)
      <4>0. Freeing(b) /\ b \in Drainers
        BY <3>1 DEF Freeing, DropHead, Drainers
      <4>1. base[b] = read_head /\ n[b] \in Nat
        BY <4>0 DEF RingInv, BatchExclusive, TypeOK
      <4> QED BY <2>0, <3>1, <4>1 DEF DropHead
    <3> QED
      BY <2>0, <2>3, <3>1 DEF QuietFlushall, DropSlots
  <2>4. CASE (\E s \in Slots : Age(s)) \/ ReclaimStuck
    BY <2>0, <2>4 DEF Age, ReclaimStuck
  <2> QED
    BY <2>0, <2>1, <2>2, <2>3, <2>4 DEF Next, CoreNext
<1> QED BY <1>1, RingInvariant, PTL DEF Spec, HeadsMonotone
=============================================================================
