----------------------------- MODULE EventQueue -----------------------------
(***************************************************************************)
(* What the dirty-ring promises the rest of the extension: a bounded FIFO  *)
(* queue.  An accepted event keeps its position and its contents until a   *)
(* drain writes a prefix of the queue to the durable tables, or FLUSHALL   *)
(* discards everything queued.  Nothing is lost, doubled or reordered.     *)
(***************************************************************************)
EXTENDS Integers

CONSTANTS Item, Capacity

VARIABLES
    head, tail,     \* queued positions: head .. tail - 1
    item,           \* item[pos]: the event queued at pos
    delivered       \* <<position, event>> written to the durable tables

vars == <<head, tail, item, delivered>>

Init ==
    /\ head = 0 /\ tail = 0
    /\ item = [pos \in {} |-> pos]
    /\ delivered = {}

Enqueue(e) ==
    /\ tail < head + Capacity
    /\ tail' = tail + 1
    /\ item' = [pos \in head .. tail |-> IF pos = tail THEN e ELSE item[pos]]
    /\ UNCHANGED <<head, delivered>>

\* A drain makes the events up to position h - 1 durable, in one transaction.
Deliver(h) ==
    /\ head' = h
    /\ delivered' = delivered \cup {<<pos, item[pos]>> : pos \in head .. h - 1}
    /\ item' = [pos \in h .. tail - 1 |-> item[pos]]
    /\ UNCHANGED tail

\* FLUSHALL discards everything queued.
Discard ==
    /\ head' = tail
    /\ item' = [pos \in tail .. tail - 1 |-> item[pos]]
    /\ UNCHANGED <<tail, delivered>>

Next ==
    \/ \E e \in Item : Enqueue(e)
    \/ \E h \in head + 1 .. tail : Deliver(h)
    \/ head < tail /\ Discard

Spec == Init /\ [][Next]_vars
=============================================================================
