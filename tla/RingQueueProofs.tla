-------------------------- MODULE RingQueueProofs ---------------------------
(***************************************************************************)
(* The dirty-ring is a bounded FIFO queue, for every ring size, batch size,*)
(* set of backends and full-ring policy, as long as nothing is reclaimed:  *)
(* where the queue begins, what each step does to it, who owns which slot, *)
(* the order of the events, and the refinement of EventQueue.              *)
(***************************************************************************)
EXTENDS DirtyRingProofs

-----------------------------------------------------------------------------
(* The queue: where it begins                                              *)

\* Whose batch has left the queue determines its head ...
LEMMA QueueHeadOf ==
  ASSUME NEW d \in Drainers, Delivered(d), \A e \in Drainers \ {d} : ~Delivered(e)
  PROVE  QueueHead = base[d] + n[d]
<1>1. (CHOOSE e \in Drainers : Delivered(e)) = d
  BY ZenonT(30)
<1> QED BY ZenonT(30), <1>1 DEF QueueHead

LEMMA QueueHeadOfNext ==
  ASSUME NEW d \in Drainers, Delivered(d)', \A e \in Drainers \ {d} : ~Delivered(e)'
  PROVE  QueueHead' = base'[d] + n'[d]
<1>1. (CHOOSE e \in Drainers : Delivered(e)') = d
  BY ZenonT(30)
<1> QED BY ZenonT(30), <1>1 DEF QueueHead

\* ... and at most one process has such a batch.
LEMMA DeliveredAlone ==
  ASSUME RingInv, NEW d \in Drainers, Holding(d) \/ Freeing(d), NEW e \in Drainers, e # d
  PROVE  ~Delivered(e)
BY ZenonT(30) DEF RingInv, BatchExclusive, Delivered, Holding

LEMMA QueueHeadIs ==
  ASSUME RingInv, NEW d \in Drainers, Holding(d) \/ Freeing(d)
  PROVE  QueueHead = IF Delivered(d) THEN base[d] + n[d] ELSE read_head
<1>1. CASE Delivered(d)
  BY ZenonT(30), <1>1, DeliveredAlone, QueueHeadOf
<1>2. CASE ~Delivered(d)
  BY ZenonT(30), <1>2, DeliveredAlone DEF QueueHead
<1> QED BY <1>1, <1>2

\* The head of the queue lies in the window.
LEMMA QueueHeadInWindow ==
  ASSUME TypeOK, RingInv
  PROVE  /\ read_head \in Nat /\ write_head \in Nat /\ QueueHead \in Nat
         /\ read_head <= QueueHead /\ QueueHead <= write_head
         /\ write_head <= read_head + RingCapacity
<1>1. read_head \in Nat /\ write_head \in Nat /\ base \in [Drainers -> Nat] /\ n \in [Drainers -> Nat]
  BY ZenonT(30) DEF TypeOK
<1>2. read_head <= write_head /\ write_head <= read_head + RingCapacity
  BY ZenonT(30) DEF RingInv, NoOverrun
<1>3. CASE \E d \in Drainers : Delivered(d)
  <2> PICK d \in Drainers : Delivered(d)  BY <1>3
  <2>1. Holding(d) \/ Freeing(d)  BY ZenonT(30) DEF Delivered, Holding
  <2>2. QueueHead = base[d] + n[d]  BY ZenonT(30), <2>1, QueueHeadIs
  <2>3. base[d] = read_head /\ n[d] > 0 /\ base[d] + n[d] <= write_head
    BY ZenonT(30), <2>1 DEF RingInv, BatchExclusive
  <2> QED BY <1>1, <1>2, <2>2, <2>3
<1>4. CASE ~ \E d \in Drainers : Delivered(d)
  BY <1>1, <1>2, <1>4 DEF QueueHead
<1> QED BY <1>3, <1>4

\* What is queued lies in slots that are READY or DRAINING.
LEMMA QueuedSlots ==
  ASSUME TypeOK, RingInv, NEW pos \in QueueHead .. write_head - 1
  PROVE  /\ pos \in Nat /\ pos \in read_head .. write_head - 1
         /\ SlotOf(pos) \in Slots /\ state[SlotOf(pos)] \in {"READY", "DRAINING"}
<1>1. pos \in Nat /\ pos \in read_head .. write_head - 1
  BY QueueHeadInWindow
<1>2. ASSUME NEW d \in Drainers, Freeing(d), pos \in Batch(d)
      PROVE  FALSE
  <2>1. QueueHead = base[d] + n[d]  BY ZenonT(30), <1>2, QueueHeadIs DEF Delivered
  <2>2. base[d] \in Nat /\ n[d] \in Nat  BY ZenonT(30) DEF TypeOK
  <2> QED BY <1>2, <2>1, <2>2 DEF Batch
<1>3. state[SlotOf(pos)] \in {"READY", "DRAINING"}
  BY ZenonT(30), <1>1, <1>2 DEF RingInv, WindowFull
<1> QED BY ZenonT(30), <1>1, <1>3, SlotOfType

\* A step that moves neither read_head nor a batch that has left the queue keeps its head.
LEMMA QueueHeadKept ==
  ASSUME RingInv, read_head' = read_head,
         \A e \in Drainers : Delivered(e)' <=> Delivered(e),
         \A e \in Drainers : Delivered(e) => base'[e] = base[e] /\ n'[e] = n[e]
  PROVE  QueueHead' = QueueHead
<1>1. CASE \E d \in Drainers : Delivered(d)
  <2> PICK d \in Drainers : Delivered(d)  BY <1>1
  <2>1. \A e \in Drainers \ {d} : ~Delivered(e)  BY ZenonT(30), DeliveredAlone DEF Delivered, Holding
  <2>2. QueueHead = base[d] + n[d]  BY ZenonT(30), <2>1, QueueHeadOf
  <2>3. QueueHead' = base'[d] + n'[d]  BY ZenonT(30), <2>1, QueueHeadOfNext
  <2> QED BY ZenonT(30), <2>2, <2>3
<1>2. CASE ~ \E d \in Drainers : Delivered(d)
  BY ZenonT(30), <1>2 DEF QueueHead
<1> QED BY <1>1, <1>2

-----------------------------------------------------------------------------
(* The queue: what a step does to it                                       *)

\* Nothing, ...
Quiet ==
    /\ QueueHead' = QueueHead /\ write_head' = write_head /\ durable' = durable
    /\ \A pos \in QueueHead .. write_head - 1 : payload'[SlotOf(pos)] = payload[SlotOf(pos)]

\* ... backend b's event is appended, ...
Appends(b) ==
    /\ QueueHead' = QueueHead /\ write_head' = write_head + 1 /\ durable' = durable
    /\ payload' = payload /\ payload[SlotOf(write_head)] = Event(b)
    /\ write_head < QueueHead + RingCapacity
    /\ pc[b] = "advance" /\ pc' = [pc EXCEPT ![b] = "idle"] /\ sent' = sent

\* ... everything queued is discarded, ...
Discards ==
    /\ QueueHead < write_head
    /\ QueueHead' = write_head /\ UNCHANGED <<write_head, payload, durable, pc, sent>>

\* ... or the events up to position h - 1 become durable.
Delivers(h) ==
    /\ h \in QueueHead + 1 .. write_head
    /\ QueueHead' = h /\ write_head' = write_head /\ payload' = payload
    /\ durable' = durable \cup {Collected(pos) : pos \in QueueHead .. h - 1}
    /\ UNCHANGED <<pc, sent>>

\* A step that leaves heads, drains, payloads and tables alone does nothing to the queue.
LEMMA QuietFrame ==
  ASSUME RingInv, UNCHANGED <<write_head, read_head, payload, dpcVars, durable>>
  PROVE  Quiet
<1>1. UNCHANGED <<write_head, read_head, payload, dpc, base, n, durable>>
  BY ZenonT(30) DEF dpcVars
<1>2. \A e \in Drainers : Delivered(e)' <=> Delivered(e)
  BY ZenonT(30), <1>1 DEF Delivered, Freeing
<1>3. QueueHead' = QueueHead
  BY ZenonT(30), <1>1, <1>2, QueueHeadKept
<1> QED BY ZenonT(30), <1>1, <1>3 DEF Quiet

\* A producer fills a slot that is not queued.
LEMMA QueueWriteSlot ==
  ASSUME TypeOK, RingInv, SlotOwned, NEW b \in Backends, WriteSlot(b)
  PROVE  Quiet
<1>1. /\ UNCHANGED <<write_head, read_head, dpc, base, n, durable>>
      /\ pc[b] = "write" /\ payload' = [payload EXCEPT ![SlotOf(w[b])] = Event(b)]
  BY ZenonT(30) DEF WriteSlot, dpcVars, histVars
<1>2. \A e \in Drainers : Delivered(e)' <=> Delivered(e)
  BY ZenonT(30), <1>1 DEF Delivered, Freeing
<1>3. QueueHead' = QueueHead
  BY ZenonT(30), <1>1, <1>2, QueueHeadKept
<1>4. state[SlotOf(w[b])] = "WRITING"
  BY ZenonT(30), <1>1 DEF SlotOwned
<1>5. ASSUME NEW pos \in QueueHead .. write_head - 1
      PROVE  payload'[SlotOf(pos)] = payload[SlotOf(pos)]
  <2>1. SlotOf(pos) \in Slots /\ state[SlotOf(pos)] \in {"READY", "DRAINING"}
    BY ZenonT(30), QueuedSlots
  <2>2. SlotOf(pos) # SlotOf(w[b])
    BY <2>1, <1>4
  <2>3. DOMAIN payload = Slots
    BY DEF TypeOK
  <2> QED BY <2>1, <2>2, <2>3, <1>1
<1> QED BY ZenonT(30), <1>1, <1>3, <1>5 DEF Quiet

\* write_head moves over the event of the producer that moves it, or not at all.
LEMMA QueueAdvance ==
  ASSUME TypeOK, RingInv, OwnEvent, NEW b \in Backends, AdvanceWriteHead(b)
  PROVE  Quiet \/ Appends(b)
<1>1. /\ UNCHANGED <<read_head, payload, dpc, base, n, durable, sent>>
      /\ pc[b] = "advance" /\ pc' = [pc EXCEPT ![b] = "idle"] /\ write_head' = AdvancedHead(b)
  BY ZenonT(30) DEF AdvanceWriteHead, Goto, dpcVars
<1>2. \A e \in Drainers : Delivered(e)' <=> Delivered(e)
  BY ZenonT(30), <1>1 DEF Delivered, Freeing
<1>3. QueueHead' = QueueHead
  BY ZenonT(30), <1>1, <1>2, QueueHeadKept
<1>4. CASE write_head # w[b]
  BY ZenonT(30), <1>1, <1>3, <1>4 DEF Quiet, AdvancedHead
<1>5. CASE write_head = w[b]
  <2>1. payload[SlotOf(write_head)] = Event(b)
    BY ZenonT(30), <1>1, <1>5 DEF OwnEvent
  <2>2. w[b] < read_head + RingCapacity
    BY ZenonT(30), <1>1 DEF RingInv, Admitted
  <2>3. write_head < QueueHead + RingCapacity
    BY <2>2, <1>5, QueueHeadInWindow, RingAssumption
  <2>4. write_head' = write_head + 1
    BY ZenonT(30), <1>1, <1>5 DEF AdvancedHead
  <2> QED BY ZenonT(30), <1>1, <1>3, <2>1, <2>3, <2>4 DEF Appends
<1> QED BY <1>4, <1>5

LEMMA QueueProducer ==
  ASSUME TypeOK, RingInv, SlotOwned, OwnEvent, NEW b \in Backends, Producer(b)
  PROVE  Quiet \/ Appends(b)
<1>1. CASE WriteSlot(b)  BY <1>1, QueueWriteSlot
<1>2. CASE AdvanceWriteHead(b)  BY <1>2, QueueAdvance
<1>3. CASE PublishStart(b) \/ ReadWriteHead(b) \/ ReadReadHead(b) \/ BlockRetry(b) \/ BlockGiveUp(b)
  <2>1. UNCHANGED <<write_head, read_head, payload, dpcVars, durable>>
    BY ZenonT(30), <1>3 DEF PublishStart, ReadWriteHead, ReadReadHead, BlockRetry, BlockGiveUp, ringVars, histVars
  <2> QED BY <2>1, QuietFrame
<1>4. CASE ReserveSlot(b) \/ MarkReady(b)
  <2>1. UNCHANGED <<write_head, read_head, payload, dpcVars, durable>>
    BY ZenonT(30), <1>4 DEF ReserveSlot, MarkReady, histVars
  <2> QED BY <2>1, QuietFrame
<1> QED BY <1>1, <1>2, <1>3, <1>4 DEF Producer

\* Collecting, failing, emptying the slots and aborting do nothing to the queue ...
LEMMA QueueQuietDrain ==
  ASSUME TypeOK, RingInv, NEW d \in Drainers,
         Collect(d) \/ PersistError(d) \/ ReleaseSlots(d) \/ AbortBatch(d)
  PROVE  Quiet
<1>1. UNCHANGED <<write_head, read_head, payload, durable>>
  BY ZenonT(30) DEF Collect, PersistError, ReleaseSlots, AbortBatch, ringVars, histVars
<1>2. /\ dpc \in [Drainers -> {"none", "persist", "release", "release_head", "abort", "drop_head"}]
      /\ base \in [Drainers -> Nat] /\ n \in [Drainers -> Nat]
  BY ZenonT(30) DEF TypeOK
<1>3. \A e \in Drainers \ {d} : dpc'[e] = dpc[e] /\ base'[e] = base[e] /\ n'[e] = n[e]
  <2>1. CASE Collect(d)
    BY <2>1, <1>2 DEF Collect
  <2>2. CASE PersistError(d)
    BY <2>2, <1>2 DEF PersistError
  <2>3. CASE ReleaseSlots(d)
    BY <2>3, <1>2 DEF ReleaseSlots
  <2>4. CASE AbortBatch(d)
    BY <2>4, <1>2 DEF AbortBatch, DrainOver
  <2> QED BY <2>1, <2>2, <2>3, <2>4
<1>4. /\ Delivered(d)' <=> Delivered(d)
      /\ Delivered(d) => base'[d] = base[d] /\ n'[d] = n[d]
  <2>1. CASE Collect(d)
    <3>1. dpc[d] = "none" /\ dpc'[d] \in {"none", "persist"}
      BY <2>1, <1>2 DEF Collect
    <3> QED BY <3>1 DEF Delivered, Freeing
  <2>2. CASE PersistError(d)
    <3>1. dpc[d] = "persist" /\ dpc'[d] = "abort"
      BY <2>2, <1>2 DEF PersistError, AfterError
    <3> QED BY <3>1 DEF Delivered, Freeing
  <2>3. CASE ReleaseSlots(d)
    <3>1. dpc[d] = "release" /\ dpc'[d] = "release_head" /\ UNCHANGED <<base, n>>
      BY <2>3, <1>2 DEF ReleaseSlots
    <3> QED BY <3>1 DEF Delivered, Freeing
  <2>4. CASE AbortBatch(d)
    <3>1. dpc[d] = "abort" /\ dpc'[d] = "none"
      BY <2>4, <1>2 DEF AbortBatch, DrainOver
    <3> QED BY <3>1 DEF Delivered, Freeing
  <2> QED BY <2>1, <2>2, <2>3, <2>4
<1>5. \A e \in Drainers : /\ Delivered(e)' <=> Delivered(e)
                          /\ Delivered(e) => base'[e] = base[e] /\ n'[e] = n[e]
  BY ZenonT(30), <1>3, <1>4 DEF Delivered, Freeing
<1>6. QueueHead' = QueueHead
  BY ZenonT(30), <1>1, <1>5, QueueHeadKept
<1> QED BY ZenonT(30), <1>1, <1>6 DEF Quiet

\* ... the durable write takes the batch off the queue ...
LEMMA QueuePersist ==
  ASSUME TypeOK, RingInv, Copied, NEW d \in Drainers, PersistOk(d)
  PROVE  Delivers(base[d] + n[d])
<1>1. /\ dpc[d] = "persist" /\ dpc' = [dpc EXCEPT ![d] = "release"]
      /\ durable' = durable \cup events[d]
      /\ UNCHANGED <<write_head, read_head, payload, pc, sent, base, n>>
  BY ZenonT(30) DEF PersistOk, ringVars, pubVars
<1>2. Holding(d) /\ ~Delivered(d)
  BY <1>1 DEF Holding, Delivered, Freeing
<1>3. \A e \in Drainers \ {d} : ~Delivered(e)
  BY ZenonT(30), <1>2, DeliveredAlone
<1>4. QueueHead = read_head /\ base[d] = read_head /\ n[d] > 0 /\ base[d] + n[d] <= write_head
  BY ZenonT(30), <1>2, QueueHeadIs DEF RingInv, BatchExclusive
<1>5. base[d] \in Nat /\ n[d] \in Nat /\ write_head \in Nat
  BY ZenonT(30) DEF TypeOK
<1>6. dpc'[d] = "release" /\ \A e \in Drainers \ {d} : dpc'[e] = dpc[e]
  BY <1>1 DEF TypeOK
<1>7. Delivered(d)' /\ \A e \in Drainers \ {d} : ~Delivered(e)'
  BY ZenonT(30), <1>3, <1>6 DEF Delivered, Freeing
<1>8. QueueHead' = base[d] + n[d]
  BY ZenonT(30), <1>1, <1>7, QueueHeadOfNext
<1>9. events[d] = {Collected(pos) : pos \in QueueHead .. (base[d] + n[d]) - 1}
  <2>1. Batch(d) = QueueHead .. (base[d] + n[d]) - 1
    BY <1>4, <1>5 DEF Batch
  <2> QED BY ZenonT(30), <1>1, <2>1 DEF Copied
<1>10. base[d] + n[d] \in QueueHead + 1 .. write_head
  BY <1>4, <1>5
<1>11. durable' = durable \cup {Collected(pos) : pos \in QueueHead .. (base[d] + n[d]) - 1}
  BY ZenonT(30), <1>1, <1>9
<1>12. UNCHANGED <<write_head, payload, pc, sent>>
  BY ZenonT(30), <1>1
<1> QED BY ZenonT(30), <1>8, <1>10, <1>11, <1>12 DEF Delivers

\* ... and read_head follows.
LEMMA QueueReleaseHead ==
  ASSUME TypeOK, RingInv, NEW d \in Drainers, ReleaseHead(d)
  PROVE  Quiet
<1>1. /\ dpc[d] = "release_head" /\ dpc' = [dpc EXCEPT ![d] = "none"]
      /\ read_head' = base[d] + n[d] /\ UNCHANGED <<write_head, payload, durable>>
  BY ZenonT(30) DEF ReleaseHead, DrainOver, histVars
<1>2. Freeing(d) /\ Delivered(d)
  BY <1>1 DEF Freeing, Delivered
<1>3. \A e \in Drainers \ {d} : ~Delivered(e)
  BY ZenonT(30), <1>2, DeliveredAlone
<1>4. QueueHead = base[d] + n[d]
  BY ZenonT(30), <1>2, QueueHeadIs
<1>5. dpc'[d] = "none" /\ \A e \in Drainers \ {d} : dpc'[e] = dpc[e]
  BY <1>1 DEF TypeOK
<1>6. \A e \in Drainers : ~Delivered(e)'
  <2>1. ~Delivered(d)'  BY <1>5 DEF Delivered, Freeing
  <2>2. \A e \in Drainers \ {d} : ~Delivered(e)'  BY ZenonT(30), <1>3, <1>5 DEF Delivered, Freeing
  <2> QED BY ZenonT(30), <2>1, <2>2
<1>7. QueueHead' = read_head'
  BY ZenonT(30), <1>6 DEF QueueHead
<1> QED BY ZenonT(30), <1>1, <1>4, <1>7 DEF Quiet

LEMMA QueueDrain ==
  ASSUME TypeOK, RingInv, Copied, NEW d \in Drainers, Drain(d)
  PROVE  Quiet \/ \E h \in Nat : Delivers(h)
<1>1. CASE PersistOk(d)
  <2>1. base[d] + n[d] \in Nat  BY DEF TypeOK
  <2> QED BY ZenonT(30), <1>1, <2>1, QueuePersist
<1>2. CASE ReleaseHead(d)  BY <1>2, QueueReleaseHead
<1>3. CASE Collect(d) \/ PersistError(d) \/ ReleaseSlots(d) \/ AbortBatch(d)
  BY ZenonT(30), <1>3, QueueQuietDrain
<1> QED BY <1>1, <1>2, <1>3 DEF Drain

\* FLUSHALL between drains empties the whole window: no slot in it stops the sweep.
LEMMA QueueDropSlots ==
  ASSUME TypeOK, RingInv, NEW b \in Backends, NoBatchInFlight, DropSlots(b)
  PROVE  Discards
<1>0. b \in Drainers  BY DEF Drainers
<1>1. /\ dpc' = [dpc EXCEPT ![b] = "drop_head"]
      /\ UNCHANGED <<write_head, read_head, payload, durable, pc, sent>>
  BY ZenonT(30) DEF DropSlots, pubVars
<1>2. PICK k \in 1 .. RingCapacity :
        Droppable(k) /\ base' = [base EXCEPT ![b] = read_head] /\ n' = [n EXCEPT ![b] = k]
  BY ZenonT(30) DEF DropSlots
<1>3. \A e \in Drainers : dpc[e] = "none"
  BY ZenonT(30) DEF NoBatchInFlight
<1>4. \A e \in Drainers : ~Delivered(e) /\ ~Freeing(e)
  BY <1>3 DEF Delivered, Freeing
<1>5. QueueHead = read_head
  BY ZenonT(30), <1>4 DEF QueueHead
<1>6. /\ read_head \in Nat /\ write_head \in Nat /\ write_head <= read_head + RingCapacity
      /\ dpc \in [Drainers -> {"none", "persist", "release", "release_head", "abort", "drop_head"}]
      /\ base \in [Drainers -> Nat] /\ n \in [Drainers -> Nat]
  BY ZenonT(30) DEF TypeOK, RingInv, NoOverrun
<1>7. dpc'[b] = "drop_head" /\ \A e \in Drainers \ {b} : dpc'[e] = dpc[e]
  BY <1>0, <1>1, <1>6
<1>8. Delivered(b)' /\ \A e \in Drainers \ {b} : ~Delivered(e)'
  <2>1. Delivered(b)'  BY <1>7 DEF Delivered, Freeing
  <2>2. \A e \in Drainers \ {b} : ~Delivered(e)'  BY ZenonT(30), <1>4, <1>7 DEF Delivered, Freeing
  <2> QED BY <2>1, <2>2
<1>9. base'[b] = read_head /\ n'[b] = k
  BY <1>0, <1>2, <1>6
<1>10. QueueHead' = read_head + k
  BY ZenonT(30), <1>0, <1>8, <1>9, QueueHeadOfNext
<1>11. \A pos \in read_head .. write_head - 1 : state[SlotOf(pos)] \in {"READY", "DRAINING"}
  BY ZenonT(30), <1>4 DEF RingInv, WindowFull
<1>12. read_head + k = write_head
  <2>1. /\ read_head + k <= write_head
        /\ \/ read_head + k = write_head \/ k = RingCapacity
           \/ state[SlotOf(read_head + k)] \notin {"READY", "DRAINING"}
    BY ZenonT(30), <1>2 DEF Droppable
  <2>2. CASE k = RingCapacity
    BY <1>6, <2>1, <2>2, RingAssumption
  <2>3. CASE state[SlotOf(read_head + k)] \notin {"READY", "DRAINING"}
    <3>1. read_head + k \notin read_head .. write_head - 1
      BY ZenonT(30), <1>11, <2>3
    <3> QED BY <1>6, <2>1, <3>1, RingAssumption
  <2> QED BY <2>1, <2>2, <2>3
<1>13. QueueHead < write_head
  BY <1>5, <1>6, <1>12
<1> QED BY ZenonT(30), <1>1, <1>10, <1>12, <1>13 DEF Discards

\* ... and then read_head follows.
LEMMA QueueDropHead ==
  ASSUME TypeOK, RingInv, NEW b \in Backends, DropHead(b)
  PROVE  Quiet
<1>0. b \in Drainers  BY DEF Drainers
<1>1. /\ dpc[b] = "drop_head" /\ dpc' = [dpc EXCEPT ![b] = "none"]
      /\ read_head' = base[b] + n[b] /\ UNCHANGED <<write_head, payload, durable>>
  BY ZenonT(30) DEF DropHead, DrainOver, histVars
<1>2. Freeing(b) /\ Delivered(b)
  BY <1>1 DEF Freeing, Delivered
<1>3. \A e \in Drainers \ {b} : ~Delivered(e)
  BY ZenonT(30), <1>0, <1>2, DeliveredAlone
<1>4. QueueHead = base[b] + n[b]
  BY ZenonT(30), <1>0, <1>2, QueueHeadIs
<1>5. dpc'[b] = "none" /\ \A e \in Drainers \ {b} : dpc'[e] = dpc[e]
  BY <1>0, <1>1 DEF TypeOK
<1>6. \A e \in Drainers : ~Delivered(e)'
  <2>1. ~Delivered(b)'  BY <1>5 DEF Delivered, Freeing
  <2>2. \A e \in Drainers \ {b} : ~Delivered(e)'  BY ZenonT(30), <1>3, <1>5 DEF Delivered, Freeing
  <2> QED BY ZenonT(30), <2>1, <2>2
<1>7. QueueHead' = read_head'
  BY ZenonT(30), <1>6 DEF QueueHead
<1> QED BY ZenonT(30), <1>1, <1>4, <1>7 DEF Quiet

-----------------------------------------------------------------------------
(* The queue: slots, payloads and copies                                   *)

\* Nobody becomes an owner, and no WRITING slot is taken away.
LEMMA OwnedFrame ==
  ASSUME TypeOK, SlotOwned,
         \A c \in Backends : pc'[c] \in {"write", "ready"} => pc[c] \in {"write", "ready"} /\ w'[c] = w[c],
         \A s \in Slots : state[s] = "WRITING" => state'[s] = "WRITING"
  PROVE  SlotOwned'
<1>1. \A c \in Backends : SlotOf(w[c]) \in Slots
  BY SlotOfType DEF TypeOK
<1>2. ASSUME NEW b \in Backends, pc'[b] \in {"write", "ready"}
      PROVE  /\ state'[SlotOf(w'[b])] = "WRITING"
             /\ \A c \in Backends \ {b} :
                  pc'[c] \in {"write", "ready"} => SlotOf(w'[c]) # SlotOf(w'[b])
  <2>1. /\ state[SlotOf(w[b])] = "WRITING" /\ w'[b] = w[b]
        /\ \A c \in Backends \ {b} : pc[c] \in {"write", "ready"} => SlotOf(w[c]) # SlotOf(w[b])
    BY ZenonT(30), <1>2 DEF SlotOwned
  <2> QED BY ZenonT(30), <2>1, <1>1
<1> QED BY ZenonT(30), <1>2 DEF SlotOwned, SlotOf

\* Nobody completes a payload, and nothing of what the producers wrote changes.
LEMMA OwnEventFrame ==
  ASSUME OwnEvent, UNCHANGED <<payload, write_head>>,
         \A c \in Backends : pc'[c] \in {"ready", "advance"} =>
           pc'[c] = pc[c] /\ w'[c] = w[c] /\ sent'[c] = sent[c]
  PROVE  OwnEvent'
<1>1. ASSUME NEW b \in Backends, pc'[b] = "ready" \/ (pc'[b] = "advance" /\ w'[b] = write_head')
      PROVE  payload'[SlotOf(w'[b])] = Event(b)'
  <2>1. pc'[b] = pc[b] /\ w'[b] = w[b] /\ sent'[b] = sent[b]
    BY <1>1
  <2>2. payload[SlotOf(w[b])] = Event(b)
    BY ZenonT(30), <1>1, <2>1 DEF OwnEvent
  <2> QED BY ZenonT(30), <2>1, <2>2 DEF Event
<1> QED BY ZenonT(30), <1>1 DEF OwnEvent, SlotOf

\* The facts about types that the steps of a producer need.
LEMMA ProducerTypes ==
  ASSUME TypeOK
  PROVE  /\ pc \in [Backends -> {"idle", "read_w", "read_r", "reserve", "write",
                                 "ready", "advance", "full"}]
         /\ w \in [Backends -> Nat] /\ sent \in [Backends -> Nat]
         /\ state \in [Slots -> {"EMPTY", "WRITING", "READY", "DRAINING"}]
         /\ DOMAIN payload = Slots /\ write_head \in Nat
         /\ \A c \in Backends : SlotOf(w[c]) \in Slots
<1>1. /\ pc \in [Backends -> {"idle", "read_w", "read_r", "reserve", "write",
                              "ready", "advance", "full"}]
      /\ w \in [Backends -> Nat] /\ sent \in [Backends -> Nat]
      /\ state \in [Slots -> {"EMPTY", "WRITING", "READY", "DRAINING"}]
      /\ payload \in [Slots -> Events \cup {NoEvent}] /\ write_head \in Nat
  BY ZenonT(30) DEF TypeOK
<1> QED BY <1>1, SlotOfType

\* Steps of a producer that touch neither slots nor payloads.
LEMMA OwnedLocal ==
  ASSUME TypeOK, SlotOwned, OwnEvent, NEW b \in Backends,
         PublishStart(b) \/ ReadWriteHead(b) \/ ReadReadHead(b) \/ BlockRetry(b) \/ BlockGiveUp(b)
  PROVE  SlotOwned' /\ OwnEvent'
<1>1. UNCHANGED <<state, payload, write_head>>
  BY ZenonT(30) DEF PublishStart, ReadWriteHead, ReadReadHead, BlockRetry, BlockGiveUp, ringVars
<1>2. /\ pc'[b] \in {"idle", "read_w", "read_r", "reserve", "full"}
      /\ \A c \in Backends \ {b} : pc'[c] = pc[c] /\ w'[c] = w[c] /\ sent'[c] = sent[c]
  <2>1. CASE PublishStart(b)  BY <2>1, ProducerTypes DEF PublishStart, Goto
  <2>2. CASE ReadWriteHead(b)  BY <2>2, ProducerTypes DEF ReadWriteHead, Goto
  <2>3. CASE ReadReadHead(b)  BY <2>3, ProducerTypes DEF ReadReadHead, Goto
  <2>4. CASE BlockRetry(b)  BY <2>4, ProducerTypes DEF BlockRetry, Goto
  <2>5. CASE BlockGiveUp(b)  BY <2>5, ProducerTypes DEF BlockGiveUp, Goto
  <2> QED BY <2>1, <2>2, <2>3, <2>4, <2>5
<1>3. \A c \in Backends : pc'[c] \in {"write", "ready", "advance"} =>
        pc'[c] = pc[c] /\ w'[c] = w[c] /\ sent'[c] = sent[c]
  BY <1>2
<1>4. SlotOwned'  BY <1>1, <1>3, OwnedFrame
<1>5. OwnEvent'  BY <1>1, <1>3, OwnEventFrame
<1> QED BY <1>4, <1>5

\* The CAS EMPTY -> WRITING makes the producer the owner of the slot.
LEMMA OwnedReserve ==
  ASSUME TypeOK, SlotOwned, OwnEvent, NEW b \in Backends, ReserveSlot(b)
  PROVE  SlotOwned' /\ OwnEvent'
<1>1. UNCHANGED <<payload, write_head, w, sent>>
  BY ZenonT(30) DEF ReserveSlot
<1>2. /\ pc'[b] \in {"idle", "read_w", "write"}
      /\ \A c \in Backends \ {b} : pc'[c] = pc[c]
  BY ProducerTypes DEF ReserveSlot, Goto
<1>3. OwnEvent'
  BY <1>1, <1>2, OwnEventFrame
<1>4. CASE pc'[b] # "write"
  <2>1. state' = state
    BY <1>4, ProducerTypes DEF ReserveSlot, Goto
  <2>2. \A c \in Backends : pc'[c] \in {"write", "ready"} => pc'[c] = pc[c] /\ w'[c] = w[c]
    BY <1>1, <1>2, <1>4
  <2> QED BY <1>3, <2>1, <2>2, OwnedFrame
<1>5. CASE pc'[b] = "write"
  <2>1. state[SlotOf(w[b])] = "EMPTY" /\ state' = [state EXCEPT ![SlotOf(w[b])] = "WRITING"]
    BY <1>5, ProducerTypes DEF ReserveSlot, Reservable, Goto
  <2>2. state'[SlotOf(w[b])] = "WRITING"
        /\ \A s \in Slots : state[s] = "WRITING" => state'[s] = "WRITING" /\ s # SlotOf(w[b])
    BY <2>1, ProducerTypes
  <2>3. \A c \in Backends \ {b} : pc'[c] \in {"write", "ready"} =>
          state[SlotOf(w[c])] = "WRITING" /\ pc[c] \in {"write", "ready"}
    BY ZenonT(30), <1>2 DEF SlotOwned
  <2>4. \A c \in Backends \ {b} : pc'[c] \in {"write", "ready"} =>
          state'[SlotOf(w[c])] = "WRITING" /\ SlotOf(w[c]) # SlotOf(w[b])
    BY ZenonT(30), <2>2, <2>3, ProducerTypes
  <2>5. \A c, e \in Backends : pc'[c] \in {"write", "ready"} /\ pc'[e] \in {"write", "ready"} /\ c # e
          => SlotOf(w[c]) # SlotOf(w[e])
    BY ZenonT(30), <2>3, <2>4 DEF SlotOwned
  <2>6. \A c \in Backends : pc'[c] \in {"write", "ready"} => state'[SlotOf(w[c])] = "WRITING"
    BY ZenonT(30), <2>2, <2>4
  <2>7. SlotOwned'
    BY ZenonT(30), <1>1, <2>5, <2>6 DEF SlotOwned, SlotOf
  <2> QED BY <1>3, <2>7
<1> QED BY <1>4, <1>5

\* Only the owner writes a payload, and the slot of an event about to be queued
\* is READY: it has no owner.
LEMMA OwnedWrite ==
  ASSUME TypeOK, RingInv, SlotOwned, OwnEvent, NEW b \in Backends, WriteSlot(b)
  PROVE  SlotOwned' /\ OwnEvent'
<1>1. /\ UNCHANGED <<state, write_head, w, sent>>
      /\ pc[b] = "write" /\ pc' = [pc EXCEPT ![b] = "ready"]
      /\ payload' = [payload EXCEPT ![SlotOf(w[b])] = Event(b)]
  BY ZenonT(30) DEF WriteSlot, Goto
<1>2. pc'[b] = "ready" /\ \A c \in Backends \ {b} : pc'[c] = pc[c]
  BY <1>1, ProducerTypes
<1>3. SlotOwned'
  BY <1>1, <1>2, OwnedFrame
<1>4. /\ payload'[SlotOf(w[b])] = Event(b)
      /\ \A s \in Slots : s # SlotOf(w[b]) => payload'[s] = payload[s]
  BY <1>1, ProducerTypes
<1>5. state[SlotOf(w[b])] = "WRITING"
  BY ZenonT(30), <1>1 DEF SlotOwned
<1>6. ASSUME NEW c \in Backends, c # b, pc[c] = "ready" \/ (pc[c] = "advance" /\ w[c] = write_head)
      PROVE  payload'[SlotOf(w[c])] = Event(c)
  <2>1. payload[SlotOf(w[c])] = Event(c)
    BY ZenonT(30), <1>6 DEF OwnEvent
  <2>2. CASE pc[c] = "ready"
    <3>1. SlotOf(w[c]) # SlotOf(w[b])
      BY ZenonT(30), <1>1, <1>6, <2>2 DEF SlotOwned
    <3> QED BY ZenonT(30), <3>1, <2>1, <1>4, ProducerTypes
  <2>3. CASE pc[c] = "advance" /\ w[c] = write_head
    <3>1. state[SlotOf(w[c])] = "READY"
      BY ZenonT(30), <2>3 DEF RingInv, AdvanceReady
    <3>2. SlotOf(w[c]) # SlotOf(w[b])
      BY <3>1, <1>5
    <3> QED BY ZenonT(30), <3>2, <2>1, <1>4, ProducerTypes
  <2> QED BY <1>6, <2>2, <2>3
<1>7. \A c \in Backends : pc'[c] = "ready" \/ (pc'[c] = "advance" /\ w'[c] = write_head') =>
        payload'[SlotOf(w'[c])] = Event(c)'
  BY ZenonT(30), <1>1, <1>2, <1>4, <1>6 DEF Event
<1>8. OwnEvent'
  BY ZenonT(30), <1>7 DEF OwnEvent, SlotOf
<1> QED BY <1>3, <1>8

\* The CAS WRITING -> READY succeeds; the payload is the producer's.
LEMMA OwnedMarkReady ==
  ASSUME TypeOK, SlotOwned, OwnEvent, NEW b \in Backends, MarkReady(b)
  PROVE  SlotOwned' /\ OwnEvent'
<1>1. UNCHANGED <<write_head, payload, w, sent>> /\ pc[b] = "ready"
  BY ZenonT(30) DEF MarkReady
<1>2. state[SlotOf(w[b])] = "WRITING" /\ payload[SlotOf(w[b])] = Event(b)
  BY ZenonT(30), <1>1 DEF SlotOwned, OwnEvent
<1>3. pc' = [pc EXCEPT ![b] = "advance"] /\ state' = [state EXCEPT ![SlotOf(w[b])] = "READY"]
  BY ZenonT(30), <1>2 DEF MarkReady, Goto
<1>4. pc'[b] = "advance" /\ \A c \in Backends \ {b} : pc'[c] = pc[c]
  BY <1>3, ProducerTypes
<1>5. \A s \in Slots : s # SlotOf(w[b]) => state'[s] = state[s]
  BY <1>3, ProducerTypes
<1>6. ASSUME NEW c \in Backends, pc'[c] \in {"write", "ready"}
      PROVE  /\ state'[SlotOf(w[c])] = "WRITING"
             /\ \A e \in Backends \ {c} : pc'[e] \in {"write", "ready"} => SlotOf(w[e]) # SlotOf(w[c])
  <2>1. c # b /\ pc[c] \in {"write", "ready"}
    BY <1>4, <1>6
  <2>2. \A e \in Backends : pc'[e] \in {"write", "ready"} => pc[e] \in {"write", "ready"}
    BY <1>1, <1>4
  <2>3. state[SlotOf(w[c])] = "WRITING" /\ SlotOf(w[c]) # SlotOf(w[b])
    BY ZenonT(30), <1>1, <2>1 DEF SlotOwned
  <2>4. \A e \in Backends \ {c} : pc[e] \in {"write", "ready"} => SlotOf(w[e]) # SlotOf(w[c])
    BY ZenonT(30), <2>1 DEF SlotOwned
  <2>5. state'[SlotOf(w[c])] = "WRITING"
    BY ZenonT(30), <2>3, <1>5, ProducerTypes
  <2> QED BY ZenonT(30), <2>2, <2>4, <2>5
<1>7. SlotOwned'
  BY ZenonT(30), <1>1, <1>6 DEF SlotOwned, SlotOf
<1>8. \A c \in Backends : pc'[c] = "ready" \/ (pc'[c] = "advance" /\ w'[c] = write_head') =>
        payload'[SlotOf(w'[c])] = Event(c)'
  BY ZenonT(30), <1>1, <1>2, <1>4 DEF Event, OwnEvent
<1>9. OwnEvent'
  BY ZenonT(30), <1>8 DEF OwnEvent, SlotOf
<1> QED BY <1>7, <1>9

\* When write_head moves, it leaves every other producer's position behind.
LEMMA OwnedAdvance ==
  ASSUME TypeOK, RingInv, SlotOwned, OwnEvent, NEW b \in Backends, AdvanceWriteHead(b)
  PROVE  SlotOwned' /\ OwnEvent'
<1>1. /\ UNCHANGED <<state, payload, w, sent>>
      /\ pc[b] = "advance" /\ pc' = [pc EXCEPT ![b] = "idle"] /\ write_head' = AdvancedHead(b)
  BY ZenonT(30) DEF AdvanceWriteHead, Goto
<1>2. pc'[b] = "idle" /\ \A c \in Backends \ {b} : pc'[c] = pc[c]
  BY <1>1, ProducerTypes
<1>3. SlotOwned'
  BY <1>1, <1>2, OwnedFrame
<1>4. ASSUME NEW c \in Backends, pc[c] = "advance", w[c] = write_head'
      PROVE  w[c] = write_head
  <2>1. w[c] <= write_head
    BY ZenonT(30), <1>4 DEF RingInv, Admitted
  <2>2. write_head' = write_head \/ write_head' = write_head + 1
    BY <1>1 DEF AdvancedHead
  <2> QED BY <1>4, <2>1, <2>2, ProducerTypes
<1>5. \A c \in Backends : pc'[c] = "ready" \/ (pc'[c] = "advance" /\ w'[c] = write_head') =>
        pc'[c] = pc[c] /\ (pc[c] = "ready" \/ (pc[c] = "advance" /\ w[c] = write_head))
  BY <1>1, <1>2, <1>4
<1>6. \A c \in Backends : pc'[c] = "ready" \/ (pc'[c] = "advance" /\ w'[c] = write_head') =>
        payload'[SlotOf(w'[c])] = Event(c)'
  BY ZenonT(30), <1>1, <1>5 DEF Event, OwnEvent
<1>7. OwnEvent'
  BY ZenonT(30), <1>6 DEF OwnEvent, SlotOf
<1> QED BY <1>3, <1>7

LEMMA OwnedProducer ==
  ASSUME TypeOK, RingInv, SlotOwned, OwnEvent, NEW b \in Backends, Producer(b)
  PROVE  SlotOwned' /\ OwnEvent'
BY ZenonT(30), OwnedLocal, OwnedReserve, OwnedWrite, OwnedMarkReady, OwnedAdvance DEF Producer

\* A drain takes READY slots and frees its own: no owner loses a slot.
LEMMA DrainSparesWriting ==
  ASSUME TypeOK, RingInv, NEW d \in Drainers, Drain(d), NEW s \in Slots, state[s] = "WRITING"
  PROVE  state'[s] = "WRITING"
<1>1. CASE Collect(d)
  <2>1. PICK k \in 0 .. MaxBatch :
          /\ Collectable(k)
          /\ state' = [t \in Slots |-> IF \E pos \in read_head .. read_head + k - 1 : t = SlotOf(pos)
                                       THEN CollectedState ELSE state[t]]
    BY ZenonT(30), <1>1 DEF Collect
  <2>2. \A pos \in read_head .. read_head + k - 1 : s # SlotOf(pos)
    BY ZenonT(30), <2>1 DEF Collectable
  <2> QED BY ZenonT(30), <2>1, <2>2
<1>2. CASE ReleaseSlots(d) \/ AbortBatch(d)
  <2>1. Holding(d)
    BY <1>2 DEF ReleaseSlots, AbortBatch, Holding
  <2>2. s \notin BatchSlots(d)
    <3> SUFFICES ASSUME s \in BatchSlots(d) PROVE FALSE  OBVIOUS
    <3>1. state[s] = "DRAINING"  BY ZenonT(30), <2>1 DEF RingInv, BatchExclusive
    <3> QED BY <3>1
  <2>3. \E freed : state' = [t \in Slots |-> IF t \in BatchSlots(d) THEN freed ELSE state[t]]
    BY ZenonT(30), <1>2 DEF ReleaseSlots, AbortBatch
  <2> QED BY ZenonT(30), <2>2, <2>3
<1>3. CASE PersistOk(d) \/ PersistError(d) \/ ReleaseHead(d)
  BY ZenonT(30), <1>3 DEF PersistOk, PersistError, ReleaseHead, ringVars
<1> QED BY <1>1, <1>2, <1>3 DEF Drain

\* What a drain does to the publish of its process: it may resume or end it.
LEMMA DrainResumes ==
  ASSUME TypeOK, DrainInPublish, NEW d \in Drainers, Drain(d)
  PROVE  /\ \A c \in Backends \ {d} : pc'[c] = pc[c] /\ dpc'[c] = dpc[c]
         /\ d \in Backends => /\ SyncFlush /\ pc[d] = "full"
                              /\ \/ pc'[d] = "full"
                                 \/ dpc'[d] = "none" /\ pc'[d] \in {"idle", "read_w"}
<1>1. /\ dpc \in [Drainers -> {"none", "persist", "release", "release_head", "abort", "drop_head"}]
      /\ Backends \subseteq Drainers /\ Bgw \notin Backends /\ Drainers = Backends \cup {Bgw}
  BY ZenonT(30), RingAssumption DEF TypeOK, Drainers
<1>2. \A c \in Backends \ {d} : dpc'[c] = dpc[c]
  <2>1. \E place : dpc' = [dpc EXCEPT ![d] = place]
    BY ZenonT(30) DEF Drain, Collect, PersistOk, PersistError, ReleaseSlots, ReleaseHead, AbortBatch, DrainOver
  <2> QED BY <1>1, <2>1
<1>3. CASE Collect(d)
  <2>1. d \in Backends => SyncFlush /\ pc[d] = "full"
    BY <1>1, <1>3 DEF Collect, DrainWanted
  <2>2. PICK k \in 0 .. MaxBatch :
          /\ dpc' = [dpc EXCEPT ![d] = IF k = 0 THEN "none" ELSE "persist"]
          /\ IF k = 0 THEN ResumePublish(d) ELSE UNCHANGED <<pc, spin>>
    BY ZenonT(30), <1>3 DEF Collect
  <2>3. CASE k = 0
    <3>1. dpc'[d] = "none"  BY <1>1, <2>2, <2>3
    <3> QED BY <1>1, <1>2, <2>1, <2>2, <2>3, <3>1, ProducerTypes DEF ResumePublish, Goto
  <2>4. CASE k # 0
    BY <1>2, <2>1, <2>2, <2>4
  <2> QED BY <2>3, <2>4
<1>4. CASE PersistOk(d) \/ PersistError(d) \/ ReleaseSlots(d)
  <2>1. pc' = pc /\ dpc[d] \notin {"none", "drop_head"}
    BY <1>4 DEF PersistOk, PersistError, ReleaseSlots, pubVars
  <2>2. d \in Backends => SyncFlush /\ pc[d] = "full"
    BY ZenonT(30), <2>1 DEF DrainInPublish
  <2> QED BY ZenonT(30), <1>2, <2>1, <2>2
<1>5. CASE ReleaseHead(d) \/ AbortBatch(d)
  <2>1. dpc[d] \notin {"none", "drop_head"} /\ dpc'[d] = "none"
    BY <1>1, <1>5 DEF ReleaseHead, AbortBatch, DrainOver
  <2>2. d \in Backends => SyncFlush /\ pc[d] = "full"
    BY ZenonT(30), <2>1 DEF DrainInPublish
  <2>3. IF d = Bgw THEN pc' = pc ELSE \E place \in {"idle", "read_w"} : pc' = [pc EXCEPT ![d] = place]
    BY <1>5 DEF ReleaseHead, AbortBatch, ResumePublish, Goto
  <2> QED BY <1>1, <1>2, <2>1, <2>2, <2>3, ProducerTypes
<1> QED BY <1>3, <1>4, <1>5 DEF Drain

LEMMA OwnedDrain ==
  ASSUME TypeOK, RingInv, SlotOwned, OwnEvent, DrainInPublish, NEW d \in Drainers, Drain(d)
  PROVE  SlotOwned' /\ OwnEvent' /\ DrainInPublish'
<1>1. UNCHANGED <<write_head, payload, w, sent>>
  BY ZenonT(30) DEF Drain, Collect, PersistOk, PersistError, ReleaseSlots, ReleaseHead, AbortBatch,
                    ringVars, pubVars
<1>2. \A c \in Backends : pc'[c] \in {"write", "ready", "advance"} => pc'[c] = pc[c]
  BY DrainResumes
<1>3. SlotOwned'
  BY <1>1, <1>2, DrainSparesWriting, OwnedFrame
<1>4. OwnEvent'
  BY <1>1, <1>2, OwnEventFrame
<1>5. DrainInPublish'
  <2>1. ASSUME NEW c \in Backends, dpc'[c] \notin {"none", "drop_head"} PROVE SyncFlush /\ pc'[c] = "full"
    <3>1. CASE c = d  BY <2>1, <3>1, DrainResumes
    <3>2. CASE c # d  BY ZenonT(30), <2>1, <3>2, DrainResumes DEF DrainInPublish
    <3> QED BY <3>1, <3>2
  <2> QED BY ZenonT(30), <2>1 DEF DrainInPublish
<1> QED BY <1>3, <1>4, <1>5

\* A publish that waits for its own drain takes no step.
LEMMA DrainInPublishProducer ==
  ASSUME TypeOK, DrainInPublish, NEW b \in Backends, Producer(b)
  PROVE  DrainInPublish'
<1>1. dpc' = dpc
  BY ZenonT(30) DEF Producer, PublishStart, ReadWriteHead, ReadReadHead, ReserveSlot, WriteSlot, MarkReady,
                    AdvanceWriteHead, BlockRetry, BlockGiveUp, dpcVars
<1>2. \A c \in Backends \ {b} : pc'[c] = pc[c]
  <2>1. \E place : pc' = [pc EXCEPT ![b] = place]
    BY ZenonT(30) DEF Producer, PublishStart, ReadWriteHead, ReadReadHead, ReserveSlot, WriteSlot, MarkReady,
                      AdvanceWriteHead, BlockRetry, BlockGiveUp, Goto
  <2> QED BY <2>1, ProducerTypes
<1>3. ~(SyncFlush /\ pc[b] = "full")
  BY DEF Producer, PublishStart, ReadWriteHead, ReadReadHead, ReserveSlot, WriteSlot, MarkReady,
         AdvanceWriteHead, BlockRetry, BlockGiveUp
<1> QED BY ZenonT(30), <1>1, <1>2, <1>3 DEF DrainInPublish

\* A batch being written is queued, ...
LEMMA BatchQueued ==
  ASSUME TypeOK, RingInv, NEW d \in Drainers, dpc[d] = "persist", NEW pos \in Batch(d)
  PROVE  pos \in QueueHead .. write_head - 1
<1>1. Holding(d) /\ ~Delivered(d)
  BY DEF Holding, Delivered, Freeing
<1>2. QueueHead = read_head /\ base[d] = read_head /\ base[d] + n[d] <= write_head
  BY ZenonT(30), <1>1, QueueHeadIs DEF RingInv, BatchExclusive
<1>3. base[d] \in Nat /\ n[d] \in Nat /\ write_head \in Nat
  BY ZenonT(30) DEF TypeOK
<1> QED BY <1>2, <1>3 DEF Batch

\* ... so a producer does not write into what the drain has copied.
LEMMA CopiedProducer ==
  ASSUME TypeOK, RingInv, SlotOwned, OwnEvent, Copied, NEW b \in Backends, Producer(b)
  PROVE  Copied'
<1>1. UNCHANGED <<dpc, base, n, events>>
  BY ZenonT(30) DEF Producer, PublishStart, ReadWriteHead, ReadReadHead, ReserveSlot, WriteSlot, MarkReady,
                    AdvanceWriteHead, BlockRetry, BlockGiveUp, dpcVars
<1>2. \A pos \in QueueHead .. write_head - 1 : payload'[SlotOf(pos)] = payload[SlotOf(pos)]
  BY ZenonT(30), QueueProducer DEF Quiet, Appends
<1>3. ASSUME NEW d \in Drainers, dpc'[d] = "persist"
      PROVE  events'[d] = {Collected(pos)' : pos \in Batch(d)'}
  <2>1. events[d] = {Collected(pos) : pos \in Batch(d)}
    BY ZenonT(30), <1>1, <1>3 DEF Copied
  <2>2. \A pos \in Batch(d) : Collected(pos)' = Collected(pos)
    BY ZenonT(30), <1>1, <1>2, <1>3, BatchQueued DEF Collected, SlotOf
  <2>3. Batch(d)' = Batch(d)
    BY ZenonT(30), <1>1 DEF Batch
  <2>4. {Collected(pos)' : pos \in Batch(d)'} = {Collected(pos) : pos \in Batch(d)}
    BY <2>2, <2>3
  <2> QED BY ZenonT(30), <1>1, <2>1, <2>4
<1> QED BY ZenonT(30), <1>3 DEF Copied

LEMMA CopiedDrain ==
  ASSUME TypeOK, Copied, NEW d \in Drainers, Drain(d)
  PROVE  Copied'
<1>1. payload' = payload
  BY ZenonT(30) DEF Drain, Collect, PersistOk, PersistError, ReleaseSlots, ReleaseHead, AbortBatch, ringVars
<1>2. /\ dpc \in [Drainers -> {"none", "persist", "release", "release_head", "abort", "drop_head"}]
      /\ base \in [Drainers -> Nat] /\ n \in [Drainers -> Nat] /\ DOMAIN events = Drainers
  BY DEF TypeOK
<1>3. \A pos : Collected(pos)' = Collected(pos)
  BY ZenonT(30), <1>1 DEF Collected, SlotOf
<1>4. \A e \in Drainers \ {d} : dpc'[e] = dpc[e] /\ base'[e] = base[e] /\ n'[e] = n[e] /\ events'[e] = events[e]
  <2>1. CASE Collect(d)
    <3>1. PICK k, taken : /\ base' = [base EXCEPT ![d] = read_head] /\ n' = [n EXCEPT ![d] = k]
                          /\ events' = [events EXCEPT ![d] = taken]
                          /\ dpc' = [dpc EXCEPT ![d] = IF k = 0 THEN "none" ELSE "persist"]
      BY ZenonT(30), <2>1 DEF Collect
    <3> QED BY <1>2, <3>1
  <2>2. CASE PersistOk(d) \/ PersistError(d) \/ ReleaseSlots(d)
    BY <1>2, <2>2 DEF PersistOk, PersistError, ReleaseSlots
  <2>3. CASE ReleaseHead(d) \/ AbortBatch(d)
    BY <1>2, <2>3 DEF ReleaseHead, AbortBatch, DrainOver
  <2> QED BY <2>1, <2>2, <2>3 DEF Drain
<1>5. ASSUME dpc'[d] = "persist" PROVE events'[d] = {Collected(pos) : pos \in Batch(d)'}
  <2>1. CASE Collect(d)
    <3>1. PICK k \in 0 .. MaxBatch :
            /\ base' = [base EXCEPT ![d] = read_head] /\ n' = [n EXCEPT ![d] = k]
            /\ events' = [events EXCEPT ![d] = {Collected(pos) : pos \in read_head .. read_head + k - 1}]
      BY ZenonT(30), <2>1 DEF Collect
    <3>2. base'[d] = read_head /\ n'[d] = k
      BY <1>2, <3>1
    <3>3. events'[d] = {Collected(pos) : pos \in read_head .. read_head + k - 1}
      BY ZenonT(30), <1>2, <3>1
    <3> QED BY ZenonT(30), <3>2, <3>3 DEF Batch
  <2>2. CASE ~Collect(d)
    BY <1>2, <1>5, <2>2 DEF Drain, PersistOk, PersistError, AfterError, ReleaseSlots, ReleaseHead, AbortBatch, DrainOver
  <2> QED BY <2>1, <2>2
<1>6. ASSUME NEW e \in Drainers, dpc'[e] = "persist"
      PROVE  events'[e] = {Collected(pos)' : pos \in Batch(e)'}
  <2>1. events'[e] = {Collected(pos) : pos \in Batch(e)'}
    BY ZenonT(30), <1>4, <1>5, <1>6 DEF Copied, Batch
  <2> QED BY <2>1, <1>3
<1> QED BY ZenonT(30), <1>6 DEF Copied

\* FLUSHALL empties READY slots only: no owner loses a slot, and nothing is copied.
LEMMA OwnedFlushall ==
  ASSUME TypeOK, RingInv, SlotOwned, OwnEvent, DrainInPublish, Copied, NEW b \in Backends, QuietFlushall(b)
  PROVE  SlotOwned' /\ OwnEvent' /\ DrainInPublish' /\ Copied'
<1>0. b \in Drainers /\ Backends \subseteq Drainers  BY DEF Drainers
<1>1. UNCHANGED <<write_head, payload, pc, w, sent>>
  BY ZenonT(30) DEF QuietFlushall, DropSlots, DropHead, pubVars
<1>2. /\ dpc \in [Drainers -> {"none", "persist", "release", "release_head", "abort", "drop_head"}]
      /\ base \in [Drainers -> Nat] /\ n \in [Drainers -> Nat] /\ DOMAIN events = Drainers
  BY DEF TypeOK
<1>3. dpc'[b] \in {"none", "drop_head"} /\ \A e \in Drainers \ {b} : dpc'[e] = dpc[e]
  <2>1. \E place \in {"none", "drop_head"} : dpc' = [dpc EXCEPT ![b] = place]
    BY ZenonT(30) DEF QuietFlushall, DropSlots, DropHead, DrainOver
  <2> QED BY <1>0, <1>2, <2>1
<1>4. \A e \in Drainers \ {b} : base'[e] = base[e] /\ n'[e] = n[e] /\ events'[e] = events[e]
  <2>1. CASE DropSlots(b)  BY <1>2, <2>1 DEF DropSlots
  <2>2. CASE DropHead(b)  BY <1>2, <2>2 DEF DropHead, DrainOver
  <2> QED BY <2>1, <2>2 DEF QuietFlushall
<1>5. \A s \in Slots : state[s] = "WRITING" => state'[s] = "WRITING"
  <2>1. CASE DropSlots(b)
    <3>1. PICK k \in 1 .. RingCapacity :
            /\ Droppable(k)
            /\ state' = [t \in Slots |-> IF \E pos \in read_head .. read_head + k - 1 : t = SlotOf(pos)
                                         THEN "EMPTY" ELSE state[t]]
      BY ZenonT(30), <2>1 DEF DropSlots
    <3>2. \A s \in Slots : state[s] = "WRITING" => \A pos \in read_head .. read_head + k - 1 : s # SlotOf(pos)
      BY <3>1 DEF Droppable
    <3> QED BY ZenonT(30), <3>1, <3>2
  <2>2. CASE DropHead(b)  BY ZenonT(30), <2>2 DEF DropHead
  <2> QED BY <2>1, <2>2 DEF QuietFlushall
<1>6. SlotOwned'  BY <1>1, <1>5, OwnedFrame
<1>7. OwnEvent'  BY <1>1, OwnEventFrame
<1>8. DrainInPublish'
  <2>1. \A c \in Backends : dpc'[c] \notin {"none", "drop_head"} => dpc[c] \notin {"none", "drop_head"}
    BY <1>0, <1>3
  <2> QED BY ZenonT(30), <1>1, <2>1 DEF DrainInPublish
<1>9. Copied'
  <2>1. \A pos : Collected(pos)' = Collected(pos)
    BY ZenonT(30), <1>1 DEF Collected, SlotOf
  <2>2. ASSUME NEW e \in Drainers, dpc'[e] = "persist"
        PROVE  events'[e] = {Collected(pos)' : pos \in Batch(e)'}
    <3>1. e # b  BY <1>3, <2>2
    <3>2. dpc'[e] = dpc[e] /\ base'[e] = base[e] /\ n'[e] = n[e] /\ events'[e] = events[e]
      BY ZenonT(30), <1>3, <1>4, <3>1
    <3>3. events'[e] = {Collected(pos) : pos \in Batch(e)'}
      BY ZenonT(30), <2>2, <3>2 DEF Copied, Batch
    <3> QED BY <2>1, <3>3
  <2> QED BY ZenonT(30), <2>2 DEF Copied
<1> QED BY <1>6, <1>7, <1>8, <1>9

-----------------------------------------------------------------------------
(* The queue: the order of the events                                      *)

\* The queue's own steps neither add nor lose a placed event, ...
LEMMA PlacedKept ==
  ASSUME TypeOK, RingInv, NEW h \in Nat, Quiet \/ Delivers(h)
  PROVE  Placed' = Placed
<1>1. CASE Quiet
  <2>1. \A pos \in QueueHead .. write_head - 1 : Collected(pos)' = Collected(pos)
    BY ZenonT(30), <1>1 DEF Quiet, Collected, SlotOf
  <2>2. QueueHead' .. write_head' - 1 = QueueHead .. write_head - 1 /\ durable' = durable
    BY ZenonT(30), <1>1 DEF Quiet
  <2>3. {Collected(pos)' : pos \in QueueHead' .. write_head' - 1}
          = {Collected(pos) : pos \in QueueHead .. write_head - 1}
    BY ZenonT(30), <2>1, <2>2
  <2> QED BY ZenonT(30), <2>2, <2>3 DEF Placed
<1>2. CASE Delivers(h)
  <2>1. \A pos : Collected(pos)' = Collected(pos)
    BY ZenonT(30), <1>2 DEF Delivers, Collected, SlotOf
  <2>2. /\ h \in QueueHead + 1 .. write_head /\ QueueHead' = h /\ write_head' = write_head
        /\ durable' = durable \cup {Collected(pos) : pos \in QueueHead .. h - 1}
    BY ZenonT(30), <1>2 DEF Delivers
  <2>3. QueueHead .. write_head - 1 = (QueueHead .. h - 1) \cup (h .. write_head - 1)
    BY <2>2, QueueHeadInWindow
  <2>4. {Collected(pos) : pos \in QueueHead .. write_head - 1}
          = {Collected(pos) : pos \in QueueHead .. h - 1} \cup {Collected(pos) : pos \in h .. write_head - 1}
    BY ZenonT(30), <2>3
  <2>5. Placed' = durable' \cup {Collected(pos)' : pos \in h .. write_head - 1}
    BY ZenonT(30), <2>2 DEF Placed
  <2>6. {Collected(pos)' : pos \in h .. write_head - 1} = {Collected(pos) : pos \in h .. write_head - 1}
    BY <2>1
  <2> QED BY ZenonT(30), <2>2, <2>4, <2>5, <2>6 DEF Placed
<1> QED BY <1>1, <1>2

\* ... and a publish adds its own, behind all others.
LEMMA PlacedAppended ==
  ASSUME TypeOK, RingInv, NEW b \in Backends, Appends(b)
  PROVE  Placed' = Placed \cup {<<write_head, Event(b)>>}
<1>1. \A pos : Collected(pos)' = Collected(pos)
  BY ZenonT(30) DEF Appends, Collected, SlotOf
<1>2. /\ QueueHead' = QueueHead /\ write_head' = write_head + 1 /\ durable' = durable
      /\ Collected(write_head) = <<write_head, Event(b)>>
  BY ZenonT(30) DEF Appends, Collected
<1>3. QueueHead' .. write_head' - 1 = (QueueHead .. write_head - 1) \cup {write_head}
  BY <1>2, QueueHeadInWindow
<1>4. {Collected(pos)' : pos \in QueueHead' .. write_head' - 1}
        = {Collected(pos) : pos \in QueueHead .. write_head - 1} \cup {<<write_head, Event(b)>>}
  BY <1>1, <1>2, <1>3
<1> QED BY ZenonT(30), <1>2, <1>4 DEF Placed

\* How a step counts the events a backend has started to publish.
Counts(c) ==
    \/ sent'[c] = sent[c] /\ (pc'[c] # "idle" => pc[c] # "idle")
    \/ sent'[c] = sent[c] + 1 /\ sent[c] < MaxPublishes

LEMMA StepCounts ==
  ASSUME TypeOK, RingInv, QueueInv, FlushallNext
  PROVE  \A c \in Backends : Counts(c)
<1>1. ASSUME NEW b \in Backends, Producer(b) PROVE \A c \in Backends : Counts(c)
  <2>1. \A c \in Backends \ {b} : pc'[c] = pc[c] /\ sent'[c] = sent[c]
    <3>1. \E place : pc' = [pc EXCEPT ![b] = place]
      BY ZenonT(30), <1>1 DEF Producer, PublishStart, ReadWriteHead, ReadReadHead, ReserveSlot, WriteSlot, MarkReady,
                        AdvanceWriteHead, BlockRetry, BlockGiveUp, Goto
    <3>2. sent' = sent \/ sent' = [sent EXCEPT ![b] = @ + 1]
      BY ZenonT(30), <1>1 DEF Producer, PublishStart, ReadWriteHead, ReadReadHead, ReserveSlot, WriteSlot, MarkReady,
                        AdvanceWriteHead, BlockRetry, BlockGiveUp
    <3> QED BY <3>1, <3>2, ProducerTypes
  <2>2. CASE PublishStart(b)
    <3>1. sent'[b] = sent[b] + 1 /\ sent[b] < MaxPublishes
      BY <2>2, ProducerTypes DEF PublishStart
    <3> QED BY ZenonT(30), <2>1, <3>1 DEF Counts
  <2>3. CASE ~PublishStart(b)
    <3>1. sent' = sent /\ pc[b] # "idle"
      BY <1>1, <2>3 DEF Producer, ReadWriteHead, ReadReadHead, ReserveSlot, WriteSlot, MarkReady,
                        AdvanceWriteHead, BlockRetry, BlockGiveUp
    <3> QED BY ZenonT(30), <2>1, <3>1 DEF Counts
  <2> QED BY <2>2, <2>3
<1>2. ASSUME NEW d \in Drainers, Drain(d) PROVE \A c \in Backends : Counts(c)
  <2>1. sent' = sent
    BY ZenonT(30), <1>2 DEF Drain, Collect, PersistOk, PersistError, ReleaseSlots, ReleaseHead, AbortBatch, pubVars
  <2>2. \A c \in Backends : pc'[c] # "idle" => pc[c] # "idle"
    <3>1. DrainInPublish  BY DEF QueueInv
    <3> QED BY <1>2, <3>1, DrainResumes
  <2> QED BY ZenonT(30), <2>1, <2>2 DEF Counts
<1>3. ASSUME NEW b \in Backends, QuietFlushall(b) PROVE \A c \in Backends : Counts(c)
  BY ZenonT(30), <1>3 DEF QuietFlushall, DropSlots, DropHead, pubVars, Counts
<1> QED BY ZenonT(30), <1>1, <1>2, <1>3 DEF FlushallNext, CoreNext

\* What is durable has left the queue.
LEMMA DurableBehind ==
  ASSUME TypeOK, RingInv, PlacedBefore, NEW h \in Nat, Quiet \/ Delivers(h) \/ Discards
  PROVE  \A r \in durable' : r[1] < QueueHead'
<1> SUFFICES ASSUME NEW r \in durable' PROVE r[1] < QueueHead'  OBVIOUS
<1>1. QueueHead \in Nat /\ write_head \in Nat  BY QueueHeadInWindow
<1>2. r \in durable => r[1] < QueueHead /\ r[1] \in 0 .. write_head - 1
  BY ZenonT(30) DEF PlacedBefore, Placed
<1>3. CASE Quiet  BY ZenonT(30), <1>2, <1>3 DEF Quiet
<1>4. CASE Discards
  <2>1. QueueHead < write_head /\ QueueHead' = write_head /\ r \in durable  BY ZenonT(30), <1>4 DEF Discards
  <2> QED BY <1>1, <1>2, <2>1
<1>5. CASE Delivers(h)
  <2>1. h \in QueueHead + 1 .. write_head /\ QueueHead' = h
    BY ZenonT(30), <1>5 DEF Delivers
  <2>2. CASE r \in durable  BY <1>1, <1>2, <2>1, <2>2
  <2>3. CASE r \notin durable
    <3>1. PICK pos \in QueueHead .. h - 1 : r = Collected(pos)
      BY ZenonT(30), <1>5, <2>3 DEF Delivers
    <3>2. r[1] = pos  BY <3>1 DEF Collected
    <3> QED BY <1>1, <2>1, <3>2
  <2> QED BY <2>2, <2>3
<1> QED BY <1>3, <1>4, <1>5

\* The order survives a step that places no event ...
LEMMA OrderKept ==
  ASSUME TypeOK, RingInv, PlacedOnce, PlacedInOrder, PlacedBefore, NEW h \in Nat,
         Quiet \/ Delivers(h) \/ Discards, \A c \in Backends : Counts(c)
  PROVE  PlacedOnce' /\ PlacedInOrder' /\ PlacedBefore'
<1>1. Placed' \subseteq Placed
  <2>1. CASE Quiet \/ Delivers(h)  BY ZenonT(30), <2>1, PlacedKept
  <2>2. CASE Discards
    <3>1. QueueHead' = write_head /\ write_head' = write_head /\ durable' = durable
      BY ZenonT(30), <2>2 DEF Discards
    <3>2. QueueHead' .. write_head' - 1 = {}  BY <3>1, QueueHeadInWindow
    <3> QED BY <3>1, <3>2 DEF Placed
  <2> QED BY <2>1, <2>2
<1>2. write_head' = write_head  BY ZenonT(30) DEF Quiet, Delivers, Discards
<1>3. sent \in [Backends -> Nat] /\ MaxPublishes \in Nat  BY ZenonT(30), RingAssumption DEF TypeOK
<1>4. ASSUME NEW r \in Placed
      PROVE  /\ r[1] \in 0 .. write_head' - 1 /\ r[2] \in Events
             /\ r[2][2] <= sent'[r[2][1]]
             /\ pc'[r[2][1]] # "idle" => r[2][2] < sent'[r[2][1]]
  <2>1. /\ r[1] \in 0 .. write_head - 1 /\ r[2] \in Events
        /\ r[2][2] <= sent[r[2][1]]
        /\ pc[r[2][1]] # "idle" => r[2][2] < sent[r[2][1]]
    BY ZenonT(30) DEF PlacedBefore
  <2>2. r[2][1] \in Backends /\ r[2][2] \in Nat  BY <2>1 DEF Events
  <2>3. Counts(r[2][1])  BY ZenonT(30), <2>2
  <2> QED BY <1>2, <1>3, <2>1, <2>2, <2>3 DEF Counts
<1>5. \A r \in durable' : r[1] < QueueHead'  BY DurableBehind
<1>6. ASSUME NEW b \in Backends PROVE sent'[b] <= MaxPublishes /\ (pc'[b] # "idle" => sent'[b] > 0)
  <2>1. sent[b] <= MaxPublishes /\ (pc[b] # "idle" => sent[b] > 0) /\ Counts(b)
    BY ZenonT(30) DEF PlacedBefore
  <2> QED BY <1>3, <2>1 DEF Counts
<1>7. PlacedBefore'  BY ZenonT(30), <1>1, <1>4, <1>5, <1>6 DEF PlacedBefore
<1>8. PlacedOnce' /\ PlacedInOrder'  BY ZenonT(30), <1>1 DEF PlacedOnce, PlacedInOrder
<1> QED BY <1>7, <1>8

\* ... and over one that places an event: it is the backend's last.
LEMMA OrderAppended ==
  ASSUME TypeOK, RingInv, PlacedOnce, PlacedInOrder, PlacedBefore, NEW b \in Backends, Appends(b)
  PROVE  PlacedOnce' /\ PlacedInOrder' /\ PlacedBefore'
<1> DEFINE new == <<write_head, Event(b)>>
<1>1. Placed' = Placed \cup {new}  BY PlacedAppended
<1>2. /\ write_head' = write_head + 1 /\ QueueHead' = QueueHead /\ durable' = durable /\ sent' = sent
      /\ pc[b] = "advance" /\ pc' = [pc EXCEPT ![b] = "idle"]
  BY ZenonT(30) DEF Appends
<1>3. pc'[b] = "idle" /\ \A c \in Backends \ {b} : pc'[c] = pc[c]
  BY <1>2, ProducerTypes
<1>4. sent \in [Backends -> Nat] /\ write_head \in Nat  BY ProducerTypes
<1>5. new[1] = write_head /\ new[2] = <<b, sent[b]>> /\ new[2] \in Events /\ new[2][1] = b /\ new[2][2] = sent[b]
  BY <1>4 DEF Event, Events
<1>6. \A r \in Placed : /\ r[1] \in 0 .. write_head - 1 /\ r[2] \in Events
                        /\ r[2][2] <= sent[r[2][1]]
                        /\ pc[r[2][1]] # "idle" => r[2][2] < sent[r[2][1]]
  BY ZenonT(30) DEF PlacedBefore
<1> HIDE DEF new
<1>7. \A r \in Placed : r[1] < write_head /\ r[1] # write_head /\ ~(write_head < r[1])
  BY <1>4, <1>6
<1>8. \A r \in Placed : r[2][1] = b => r[2][2] < sent[b]
  BY ZenonT(30), <1>2, <1>6
<1>9. PlacedOnce'
  <2>1. \A r1, r2 \in Placed' : r1[1] = r2[1] => r1 = r2
    BY ZenonT(30), <1>1, <1>5, <1>7 DEF PlacedOnce
  <2> QED BY ZenonT(30), <2>1 DEF PlacedOnce
<1>10. PlacedInOrder'
  <2>1. \A r1, r2 \in Placed' : r1[2][1] = r2[2][1] /\ r1[1] < r2[1] => r1[2][2] < r2[2][2]
    <3> SUFFICES ASSUME NEW r1 \in Placed', NEW r2 \in Placed', r1[2][1] = r2[2][1], r1[1] < r2[1]
                 PROVE  r1[2][2] < r2[2][2]
      OBVIOUS
    <3>1. CASE r1 \in Placed /\ r2 \in Placed  BY ZenonT(30), <3>1 DEF PlacedInOrder
    <3>2. CASE r1 \in Placed /\ r2 = new  BY ZenonT(30), <3>2, <1>5, <1>8
    <3>3. CASE r1 = new /\ r2 \in Placed  BY ZenonT(30), <3>3, <1>5, <1>7
    <3>4. CASE r1 = new /\ r2 = new  BY <3>4, <1>4, <1>5
    <3> QED BY ZenonT(30), <1>1, <3>1, <3>2, <3>3, <3>4
  <2> QED BY ZenonT(30), <2>1 DEF PlacedInOrder
<1>11. ASSUME NEW r \in Placed'
       PROVE  /\ r[1] \in 0 .. write_head' - 1 /\ r[2] \in Events
              /\ r[2][2] <= sent'[r[2][1]]
              /\ pc'[r[2][1]] # "idle" => r[2][2] < sent'[r[2][1]]
  <2>1. CASE r \in Placed
    <3>1. /\ r[1] \in 0 .. write_head - 1 /\ r[2] \in Events /\ r[2][2] <= sent[r[2][1]]
          /\ pc[r[2][1]] # "idle" => r[2][2] < sent[r[2][1]]
      BY ZenonT(30), <2>1, <1>6
    <3>2. r[2][1] \in Backends  BY <3>1 DEF Events
    <3>3. pc'[r[2][1]] # "idle" => pc[r[2][1]] # "idle"  BY ZenonT(30), <3>2, <1>3
    <3>4. r[1] \in 0 .. write_head' - 1  BY <3>1, <1>2, <1>4
    <3> QED BY ZenonT(30), <3>1, <3>3, <3>4, <1>2
  <2>2. CASE r = new  BY <2>2, <1>2, <1>3, <1>4, <1>5
  <2> QED BY <2>1, <2>2, <1>1
<1>12. \A c \in Backends : sent'[c] <= MaxPublishes /\ (pc'[c] # "idle" => sent'[c] > 0)
  BY ZenonT(30), <1>2, <1>3 DEF PlacedBefore
<1>13. \A r \in durable' : r[1] < QueueHead'
  BY ZenonT(30), <1>2 DEF PlacedBefore
<1>14. PlacedBefore'
  BY ZenonT(30), <1>11, <1>12, <1>13 DEF PlacedBefore
<1> QED BY <1>9, <1>10, <1>14

\* What a step of publishing, draining or FLUSHALL does to the queue.
LEMMA QueueStep ==
  ASSUME TypeOK, RingInv, QueueInv, FlushallNext
  PROVE  \/ \E h \in Nat : Quiet \/ Delivers(h) \/ Discards
         \/ \E b \in Backends : Appends(b)
<1>1. SlotOwned /\ OwnEvent /\ Copied  BY ZenonT(30) DEF QueueInv
<1>2. CASE \E b \in Backends : Producer(b)  BY ZenonT(30), <1>1, <1>2, QueueProducer, 0 \in Nat
<1>3. CASE \E d \in Drainers : Drain(d)  BY ZenonT(30), <1>1, <1>3, QueueDrain, 0 \in Nat
<1>4. CASE \E b \in Backends : QuietFlushall(b)
  BY ZenonT(30), <1>4, QueueDropSlots, QueueDropHead, 0 \in Nat DEF QuietFlushall
<1> QED BY <1>2, <1>3, <1>4 DEF FlushallNext, CoreNext

\* Publishing, draining and FLUSHALL preserve the invariant of the queue.
LEMMA QueueNext ==
  ASSUME TypeOK, RingInv, QueueInv, FlushallNext
  PROVE  QueueInv'
<1>1. /\ SlotOwned /\ OwnEvent /\ DrainInPublish /\ Copied
      /\ PlacedOnce /\ PlacedInOrder /\ PlacedBefore
  BY ZenonT(30) DEF QueueInv
<1>2. SlotOwned' /\ OwnEvent' /\ DrainInPublish' /\ Copied'
  <2>1. CASE \E b \in Backends : Producer(b)
    BY ZenonT(30), <1>1, <2>1, OwnedProducer, DrainInPublishProducer, CopiedProducer
  <2>2. CASE \E d \in Drainers : Drain(d)
    BY ZenonT(30), <1>1, <2>2, OwnedDrain, CopiedDrain
  <2>3. CASE \E b \in Backends : QuietFlushall(b)
    BY ZenonT(30), <1>1, <2>3, OwnedFlushall
  <2> QED BY <2>1, <2>2, <2>3 DEF FlushallNext, CoreNext
<1>3. PlacedOnce' /\ PlacedInOrder' /\ PlacedBefore'
  <2>1. ASSUME NEW h \in Nat, Quiet \/ Delivers(h) \/ Discards
        PROVE  PlacedOnce' /\ PlacedInOrder' /\ PlacedBefore'
    BY <1>1, <2>1, StepCounts, OrderKept
  <2>2. ASSUME NEW b \in Backends, Appends(b)
        PROVE  PlacedOnce' /\ PlacedInOrder' /\ PlacedBefore'
    BY <1>1, <2>2, OrderAppended
  <2> QED BY ZenonT(30), <2>1, <2>2, QueueStep
<1> QED BY ZenonT(30), <1>2, <1>3 DEF QueueInv

LEMMA QueueStutter ==
  ASSUME QueueInv, UNCHANGED vars
  PROVE  QueueInv' /\ QueueHead' = QueueHead
<1>1. UNCHANGED <<write_head, read_head, state, payload, pc, w, sent, dpc, base, n, events, durable>>
  BY ZenonT(30) DEF vars, ringVars, pubVars, dpcVars, histVars
<1>2. QueueHead' = QueueHead
  BY ZenonT(30), <1>1 DEF QueueHead, Delivered, Freeing
<1>3. Placed' = Placed
  BY ZenonT(30), <1>1, <1>2 DEF Placed, Collected, SlotOf
<1>4. PlacedOnce' /\ PlacedInOrder' /\ PlacedBefore'
  BY ZenonT(30), <1>1, <1>2, <1>3 DEF QueueInv, PlacedOnce, PlacedInOrder, PlacedBefore
<1>5. SlotOwned' /\ OwnEvent'
  BY ZenonT(30), <1>1 DEF QueueInv, SlotOwned, OwnEvent, Event, SlotOf
<1>6. DrainInPublish' /\ Copied'
  BY ZenonT(30), <1>1 DEF QueueInv, DrainInPublish, Copied, Collected, Batch, SlotOf
<1> QED BY ZenonT(30), <1>2, <1>4, <1>5, <1>6 DEF QueueInv

LEMMA QueueInit == Init => QueueInv /\ QueueHead = 0
<1> SUFFICES ASSUME Init PROVE QueueInv /\ QueueHead = 0  OBVIOUS
<1>1. /\ write_head = 0 /\ read_head = 0 /\ durable = {}
      /\ \A b \in Backends : pc[b] = "idle" /\ sent[b] = 0
      /\ \A d \in Drainers : dpc[d] = "none"
  BY DEF Init
<1>2. QueueHead = 0
  <2>1. \A d \in Drainers : ~Delivered(d)  BY <1>1 DEF Delivered, Freeing
  <2> QED BY ZenonT(30), <2>1, <1>1 DEF QueueHead
<1>3. Placed = {}
  <2>1. QueueHead .. write_head - 1 = {}  BY <1>1, <1>2
  <2> QED BY <2>1, <1>1 DEF Placed
<1>4. SlotOwned /\ OwnEvent
  BY <1>1 DEF SlotOwned, OwnEvent
<1>5. DrainInPublish /\ Copied
  <2>1. Backends \subseteq Drainers  BY DEF Drainers
  <2> QED BY <1>1, <2>1 DEF DrainInPublish, Copied
<1>6. PlacedOnce /\ PlacedInOrder /\ PlacedBefore
  BY <1>1, <1>3, RingAssumption DEF PlacedOnce, PlacedInOrder, PlacedBefore
<1> QED BY <1>2, <1>4, <1>5, <1>6 DEF QueueInv

-----------------------------------------------------------------------------
(* The queue: the theorems                                                 *)

\* Whatever publishes, drains and FLUSHALLs between drains do, every slot being filled
\* has one owner, a batch is what its slots hold, and events keep the order of their
\* publishing.
THEOREM QueueInvariant == FlushallSpec => [](TypeOK /\ RingInv /\ QueueInv)
<1>1. Init => TypeOK /\ RingInv /\ QueueInv
  BY RingInit, QueueInit
<1>2. (TypeOK /\ RingInv /\ QueueInv) /\ [FlushallNext]_vars => (TypeOK /\ RingInv /\ QueueInv)'
  <2> SUFFICES ASSUME TypeOK, RingInv, QueueInv, [FlushallNext]_vars
               PROVE  TypeOK' /\ RingInv' /\ QueueInv'
    OBVIOUS
  <2>1. [Next]_vars  BY DEF Next, FlushallNext
  <2>2. TypeOK' /\ RingInv'  BY <2>1, TypeNext, RingNext
  <2>3. QueueInv'  BY QueueNext, QueueStutter
  <2> QED BY <2>2, <2>3
<1> QED BY <1>1, <1>2, PTL DEF FlushallSpec

\* An event becomes durable at one position only, and the events of a backend in
\* the order of its publishes, though other producers and drainers interleave with
\* the CASes of publish and a failed batch is collected again.
THEOREM DurableOrder == FlushallSpec => []DurableInOrder
<1>1. TypeOK /\ RingInv /\ QueueInv => DurableInOrder
  BY ZenonT(30) DEF QueueInv, PlacedOnce, PlacedInOrder, Placed, DurableInOrder
<1> QED BY <1>1, QueueInvariant, PTL

\* The queue as the abstract specification sees it.
QueueItems == [pos \in QueueHead .. write_head - 1 |-> payload[SlotOf(pos)]]

\* The initial ring is the empty queue, ...
LEMMA QueueInitRefines == Init => Queue!Init
<1> SUFFICES ASSUME Init PROVE Queue!Init  OBVIOUS
<1>1. QueueHead = 0 /\ write_head = 0 /\ durable = {}
  BY QueueInit DEF Init
<1>2. QueueHead .. write_head - 1 = {}  BY <1>1
<1> QED BY <1>1, <1>2 DEF Queue!Init

\* ... and every step is an enqueue, a delivery of a prefix, a discard, or nothing.
LEMMA QueueNextRefines ==
  ASSUME TypeOK, RingInv, QueueInv, [FlushallNext]_vars
  PROVE  [Queue!Next]_(Queue!vars)
<1>0. QueueHead \in Nat /\ write_head \in Nat /\ QueueHead <= write_head
  BY QueueHeadInWindow
<1>1. CASE UNCHANGED vars
  <2>1. QueueHead' = QueueHead /\ UNCHANGED <<write_head, payload, durable>>
    BY ZenonT(30), <1>1, QueueStutter DEF vars, ringVars, histVars
  <2> QED BY <2>1 DEF Queue!vars, SlotOf
<1>2. CASE Quiet
  <2>1. QueueHead' = QueueHead /\ write_head' = write_head /\ durable' = durable
    BY <1>2 DEF Quiet
  <2>2. \A pos \in QueueHead .. write_head - 1 : payload'[SlotOf(pos)] = payload[SlotOf(pos)]
    BY <1>2 DEF Quiet
  <2>3. QueueItems' = QueueItems
    BY <2>1, <2>2 DEF QueueItems, SlotOf
  <2> QED BY <2>1, <2>3 DEF Queue!vars, QueueItems
<1>3. ASSUME NEW b \in Backends, Appends(b) PROVE Queue!Next
  <2>1. Event(b) \in Backends \X (1 .. MaxPublishes)
    <3>1. pc[b] = "advance"  BY ZenonT(30), <1>3 DEF Appends
    <3>2. sent[b] <= MaxPublishes /\ sent[b] > 0  BY <3>1 DEF QueueInv, PlacedBefore
    <3>3. sent[b] \in Nat  BY ProducerTypes
    <3> QED BY <3>2, <3>3, RingAssumption DEF Event
  <2>2. /\ QueueHead' = QueueHead /\ write_head' = write_head + 1 /\ durable' = durable
        /\ payload' = payload /\ payload[SlotOf(write_head)] = Event(b)
        /\ write_head < QueueHead + RingCapacity
    BY ZenonT(30), <1>3 DEF Appends
  <2>3. QueueItems' = [pos \in QueueHead .. write_head |->
                         IF pos = write_head THEN Event(b) ELSE QueueItems[pos]]
    BY <1>0, <2>2 DEF QueueItems, SlotOf
  <2>4. Queue!Enqueue(Event(b))
    BY <2>2, <2>3 DEF Queue!Enqueue, QueueItems
  <2> QED BY <2>1, <2>4 DEF Queue!Next
<1>4. ASSUME NEW h \in Nat, Delivers(h) PROVE Queue!Next
  <2>1. /\ h \in QueueHead + 1 .. write_head /\ QueueHead' = h /\ write_head' = write_head /\ payload' = payload
        /\ durable' = durable \cup {Collected(pos) : pos \in QueueHead .. h - 1}
    BY ZenonT(30), <1>4 DEF Delivers
  <2>2. QueueItems' = [pos \in h .. write_head - 1 |-> QueueItems[pos]]
    BY <1>0, <2>1 DEF QueueItems, SlotOf
  <2>3. \A pos \in QueueHead .. h - 1 : QueueItems[pos] = payload[SlotOf(pos)]
    BY <1>0, <2>1 DEF QueueItems
  <2>4. {Collected(pos) : pos \in QueueHead .. h - 1} = {<<pos, QueueItems[pos]>> : pos \in QueueHead .. h - 1}
    BY <2>3 DEF Collected
  <2>5. Queue!Deliver(h)
    BY ZenonT(30), <2>1, <2>2, <2>4 DEF Queue!Deliver, QueueItems
  <2> QED BY <2>1, <2>5 DEF Queue!Next
<1>5. ASSUME Discards PROVE Queue!Next
  <2>1. QueueHead < write_head /\ QueueHead' = write_head /\ UNCHANGED <<write_head, payload, durable>>
    BY ZenonT(30), <1>5 DEF Discards
  <2>2. QueueItems' = [pos \in write_head .. write_head - 1 |-> QueueItems[pos]]
    BY <1>0, <2>1 DEF QueueItems, SlotOf
  <2>3. Queue!Discard
    BY <2>1, <2>2 DEF Queue!Discard, QueueItems
  <2> QED BY <2>1, <2>3 DEF Queue!Next
<1> QED BY ZenonT(30), <1>1, <1>2, <1>3, <1>4, <1>5, QueueStep

\* The dirty-ring implements a bounded FIFO queue: publish appends, a drain's durable
\* write takes a prefix, FLUSHALL between drains discards everything, and nothing else
\* that was accepted is lost, doubled, reordered or overwritten, for every number of
\* backends, drainers and slots and every batch size.
THEOREM RingImplementsQueue == FlushallSpec => ImplementsQueue
<1>1. TypeOK /\ RingInv /\ QueueInv /\ [FlushallNext]_vars => [Queue!Next]_(Queue!vars)
  BY QueueNextRefines
<1> QED BY <1>1, QueueInitRefines, QueueInvariant, PTL DEF FlushallSpec, ImplementsQueue, Queue!Spec
=============================================================================
