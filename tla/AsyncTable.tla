----------------------------- MODULE AsyncTable -----------------------------
(***************************************************************************)
(* storage_mode = shared with persistence_mode = async_table: the commands *)
(* of pg_redis.c on the shared keyspace (shared_store.c, kv_store.c), the  *)
(* events they publish, and the drains that apply them to the tables.      *)
(*                                                                         *)
(* A command that works on a scratch copy takes its key's partition lock   *)
(* twice, to copy the entry and to write it back, and publishes with no    *)
(* lock.  HSET and HDEL change the entry in place and publish under the    *)
(* lock, which they give up while the ring is full.  The ring is the FIFO  *)
(* queue that DirtyRing implements, and a drain's three phases are one     *)
(* step here.  Entries do not expire: see the README for TTLs.             *)
(***************************************************************************)
EXTENDS Tables, FiniteSets, FiniteSetsExt

CONSTANTS
    Backends, Nobody,
    MaxBatch,        \* ASYNC_DRAIN_BATCH_MAX
    Configs,         \* settings and workloads, see config
    MaxCommands      \* bound: commands one backend starts

ASSUME AsyncAssumption ==
    /\ Nobody \notin Backends
    /\ NoRow \notin Nat
    /\ MaxBatch \in Nat \ {0}
    /\ \A c \in Configs :
        /\ c.sync \in BOOLEAN /\ c.ring \in Nat \ {0}
        /\ c.fields \subseteq Fields /\ c.values \subseteq Nat
    /\ MaxCommands \in Nat

VARIABLES
    config,      \* the server's settings and the workload, which do not change
    mem,         \* the shared keyspace: PgRedisSharedEntry of each key
    plock,       \* holder of the partition lock of each key
    ring,        \* published events not yet drained
    db,          \* the durable tables
    undo,        \* undo[b]: what rolling back b's open transaction restores
    pc, cmd,     \* a backend's place in its command, and the command
    scratch,     \* its private copy of the entry
    out,         \* events it still has to publish
    started,     \* commands it has started
    disturbed    \* history: ABORT (a command gave up), UNDONE (drained rows were
                 \* rolled back), FLUSHALL, DEL

vars == <<config, mem, plock, ring, db, undo, pc, cmd, scratch, out, started, disturbed>>

SyncFlush == config.sync        \* pg_redis.async_full_action = 'sync_flush'
RingCapacity == config.ring     \* pg_redis.dirty_ring_size
Commands == config.commands     \* the commands the workload uses
Values == config.values         \* scalar values: small numbers; NoRow is the empty string

(***************************************************************************)
(* Entries.                                                                *)
(***************************************************************************)
NoEntry == [type |-> "none", val |-> NoRow, hash |-> [f \in Fields |-> NoRow], list |-> <<>>]
Fresh == [NoEntry EXCEPT !.type = "STRING"]
Row(e) == <<e.type, e.val>>

NoCmd == [op |-> "none", key |-> NoRow, field |-> NoRow, val |-> NoRow]
Cmds ==
    [op : Commands \cap {"HSET"}, key : Keys, field : config.fields, val : Values]
        \cup [op : Commands \cap {"HDEL"}, key : Keys, field : config.fields, val : {NoRow}]
        \cup [op : Commands \cap {"SET", "LPUSH", "RPUSH"}, key : Keys, field : {NoRow}, val : Values]
        \cup [op : Commands \cap {"INCR", "LPOP", "RPOP", "EXPIRE", "DEL"},
              key : Keys, field : {NoRow}, val : {NoRow}]

\* The commands that pg_redis_store_upsert prepares a scratch for; the other
\* scratch commands look the key up.
Upserting == {"SET", "INCR", "LPUSH", "RPUSH"}
Looking == {"LPOP", "RPOP", "EXPIRE"}

\* Type checks and misses: the command ends, with or without an error,
\* before it changes the scratch.
Rejects(op, e) ==
    \/ e.type = "none" /\ op \in Looking
    \/ op = "INCR" /\ (e.type \in {"HASH", "LIST"} \/ (e.type = "STRING" /\ e.val = NoRow))
    \/ op \in {"LPUSH", "RPUSH"} /\ e.type \notin {"none", "LIST"}
    \/ op \in {"LPOP", "RPOP"} /\ (e.type # "LIST" \/ e.list = <<>>)

\* The command's change to its scratch copy.
SetTo(v) == [Fresh EXCEPT !.val = v]
Incremented(e) == [NoEntry EXCEPT !.type = "INT", !.val = IF e.type = "none" THEN 1 ELSE e.val + 1]
Pushed(op, e, v) ==
    [e EXCEPT !.type = "LIST", !.list = IF op = "LPUSH" THEN <<v>> \o @ ELSE Append(@, v)]
Popped(op, e) == [e EXCEPT !.list = IF op = "LPOP" THEN Tail(@) ELSE SubSeq(@, 1, Len(@) - 1)]

Mutated(op, e, v) ==
    CASE op = "SET" -> SetTo(v)
      [] op = "INCR" -> Incremented(e)
      [] op \in {"LPUSH", "RPUSH"} -> Pushed(op, e, v)
      [] op \in {"LPOP", "RPOP"} -> Popped(op, e)
      [] op = "EXPIRE" -> e

\* The ords of a shared list of n items: every writeback rebuilds it by
\* pg_redis_shared_list_rpush, which numbers from 0.
RebuiltOrds(n) == [i \in 1 .. n |-> i - 1]

\* The ord of a pushed item.
PushOrd(op, n) ==
    IF n = 0 THEN 0 ELSE IF op = "LPUSH" THEN RebuiltOrds(n)[1] - 1 ELSE RebuiltOrds(n)[n] + 1

\* The fields a hash holds.
Held(hash) == {f \in Fields : hash[f] # NoRow}

\* mark_dirty's events.  A scratch list starts out with the ords of the rebuilt
\* one; the fields of a scratch hash are all dirty, since pg_redis_hash_set put
\* them there.
Deltas(op, k, e, new, v) ==
    LET parent == Ev("KEY_UPSERT", k, "-", Row(new))
        n == Len(e.list)
    IN  CASE op \in {"LPUSH", "RPUSH"} -> <<parent, Ev("ITEM_INSERT", k, PushOrd(op, n), v)>>
          [] op = "LPOP"  -> <<parent, Ev("ITEM_DELETE", k, RebuiltOrds(n)[1], NoRow)>>
          [] op = "RPOP"  -> <<parent, Ev("ITEM_DELETE", k, RebuiltOrds(n)[n], NoRow)>>
          [] op = "EXPIRE" -> FoldSet(LAMBDA f, acc : Append(acc, Ev("FIELD_UPSERT", k, f, e.hash[f])),
                                      <<parent>>, Held(e.hash))
          [] OTHER        -> <<parent>>

(***************************************************************************)
(* Initially the keyspace, the ring and the tables are empty.              *)
(***************************************************************************)
NoUndo == [keys |-> {}, old |-> EmptyDb]

Init ==
    /\ config \in Configs
    /\ mem = [k \in Keys |-> NoEntry]
    /\ plock = [k \in Keys |-> Nobody]
    /\ ring = <<>>
    /\ db = EmptyDb
    /\ undo = [b \in Backends |-> NoUndo]
    /\ pc = [b \in Backends |-> "idle"]
    /\ cmd = [b \in Backends |-> NoCmd]
    /\ scratch = [b \in Backends |-> NoEntry]
    /\ out = [b \in Backends |-> <<>>]
    /\ started = [b \in Backends |-> 0]
    /\ disturbed = {}

Key(b) == cmd[b].key

Start(b, c) ==
    /\ pc[b] = "idle"
    /\ started[b] < MaxCommands
    /\ started' = [started EXCEPT ![b] = @ + 1]
    /\ cmd' = [cmd EXCEPT ![b] = c]
    /\ pc' = [pc EXCEPT ![b] = c.op]
    /\ UNCHANGED <<mem, plock, ring, db, undo, scratch, out, disturbed>>

(***************************************************************************)
(* Scratch commands: SET, INCR, pushes, pops and EXPIRE.                   *)
(***************************************************************************)

\* pg_redis_shared_store_upsert or _lookup_raw under the partition lock, then
\* the command's work on the copy.  An upsert of a missing key leaves an
\* empty STRING entry for everybody to see.
Prepare(b) ==
    LET k == Key(b)
        op == cmd[b].op
        e == mem[k]
        new == Mutated(op, e, cmd[b].val)
    IN  /\ pc[b] \in Upserting \cup Looking
        /\ plock[k] = Nobody
        /\ mem' = [mem EXCEPT ![k] = IF e.type = "none" /\ op \in Upserting THEN Fresh ELSE e]
        /\ \/ /\ Rejects(op, e)
              /\ pc' = [pc EXCEPT ![b] = "idle"]
              /\ UNCHANGED <<scratch, out>>
           \/ /\ ~Rejects(op, e)
              /\ scratch' = [scratch EXCEPT ![b] = new]
              /\ out' = [out EXCEPT ![b] = Deltas(op, k, e, new, cmd[b].val)]
              /\ pc' = [pc EXCEPT ![b] = "writeback"]
        /\ UNCHANGED <<plock, ring, db, undo, cmd, started, disturbed>>

\* pg_redis_shared_store_writeback.  A hash entry keeps the fields that it has
\* and receives those of the scratch; any other entry is replaced.
Written(e, new) ==
    IF e.type = "HASH" /\ new.type = "HASH"
    THEN [e EXCEPT !.hash = [f \in Fields |-> IF f \in Held(new.hash) THEN new.hash[f] ELSE @[f]]]
    ELSE new

Writeback(b) ==
    /\ pc[b] = "writeback"
    /\ plock[Key(b)] = Nobody
    /\ mem' = [mem EXCEPT ![Key(b)] = Written(@, scratch[b])]
    /\ pc' = [pc EXCEPT ![b] = "publish"]
    /\ UNCHANGED <<plock, ring, db, undo, cmd, scratch, out, started, disturbed>>

(***************************************************************************)
(* HSET, HDEL and DEL change the entry in place.                           *)
(***************************************************************************)
\* Mutant: the field event goes first.
MutHsetEvents(c, e) == <<Ev("FIELD_UPSERT", c.key, c.field, c.val), Ev("KEY_UPSERT", c.key, "-", Row(e))>>
HsetEvents(c, e) ==
    <<Ev("KEY_UPSERT", c.key, "-", Row(e)), Ev("FIELD_UPSERT", c.key, c.field, c.val)>>

HashSet(b) ==
    LET k == Key(b)
        e == [mem[k] EXCEPT !.type = "HASH", !.hash[cmd[b].field] = cmd[b].val]
    IN  /\ pc[b] = "HSET"
        /\ plock[k] = Nobody
        /\ \/ /\ mem[k].type \in {"none", "HASH"}
              /\ mem' = [mem EXCEPT ![k] = e]
              /\ out' = [out EXCEPT ![b] = HsetEvents(cmd[b], e)]
              /\ plock' = [plock EXCEPT ![k] = b]
              /\ pc' = [pc EXCEPT ![b] = "publish"]
           \/ /\ mem[k].type \notin {"none", "HASH"}
              /\ pc' = [pc EXCEPT ![b] = "idle"]
              /\ UNCHANGED <<mem, out, plock>>
        /\ UNCHANGED <<ring, db, undo, cmd, scratch, started, disturbed>>

HashDel(b) ==
    LET k == Key(b)
        f == cmd[b].field
    IN  /\ pc[b] = "HDEL"
        /\ plock[k] = Nobody
        /\ \/ /\ mem[k].type = "HASH" /\ mem[k].hash[f] # NoRow
              /\ mem' = [mem EXCEPT ![k].hash[f] = NoRow]
              /\ out' = [out EXCEPT ![b] = <<Ev("FIELD_DELETE", k, f, NoRow)>>]
              /\ plock' = [plock EXCEPT ![k] = b]
              /\ pc' = [pc EXCEPT ![b] = "publish"]
           \/ /\ mem[k].type # "HASH" \/ mem[k].hash[f] = NoRow
              /\ pc' = [pc EXCEPT ![b] = "idle"]
              /\ UNCHANGED <<mem, out, plock>>
        /\ UNCHANGED <<ring, db, undo, cmd, scratch, started, disturbed>>

\* DEL, EXPIRE with seconds <= 0: store_remove returns from its shared branch
\* before it reaches mark_deleted.
Del(b) ==
    /\ pc[b] = "DEL"
    /\ plock[Key(b)] = Nobody
    /\ mem' = [mem EXCEPT ![Key(b)] = NoEntry]
    /\ pc' = [pc EXCEPT ![b] = "idle"]
    /\ disturbed' = disturbed \cup {"DEL"}
    /\ UNCHANGED <<plock, ring, db, undo, cmd, scratch, out, started>>

(***************************************************************************)
(* Publishing, and backpressure when the ring is full.                     *)
(***************************************************************************)
\* Mutant: room for one more.
MutRingFull == Len(ring) > RingCapacity
RingFull == Len(ring) >= RingCapacity

Unlocked(b) == [k \in Keys |-> IF plock[k] = b THEN Nobody ELSE plock[k]]

Publish(b) ==
    /\ pc[b] = "publish"
    /\ ~RingFull
    /\ ring' = Append(ring, Head(out[b]))
    /\ out' = [out EXCEPT ![b] = Tail(@)]
    /\ \/ Len(out[b]) = 1 /\ plock' = Unlocked(b) /\ pc' = [pc EXCEPT ![b] = "idle"]
       \/ Len(out[b]) > 1 /\ UNCHANGED <<plock, pc>>
    /\ UNCHANGED <<mem, db, undo, cmd, scratch, started, disturbed>>

\* The partition lock, if held, is released before the drain or the sleep.
FindFull(b) ==
    /\ pc[b] = "publish"
    /\ RingFull
    /\ plock' = Unlocked(b)
    /\ pc' = [pc EXCEPT ![b] = "full"]
    /\ UNCHANGED <<mem, ring, db, undo, cmd, scratch, out, started, disturbed>>

\* After the wait HSET runs its whole mutation again; HDEL only takes the lock
\* back; the others hold no lock.  Mutant: HSET carries on with its next event.
MutResumed(b) == IF cmd[b].op \in {"HSET", "HDEL"} THEN "relock" ELSE "publish"
Resumed(b) == CASE cmd[b].op = "HSET" -> "HSET" [] cmd[b].op = "HDEL" -> "relock" [] OTHER -> "publish"

Relock(b) ==
    /\ pc[b] = "relock"
    /\ plock[Key(b)] = Nobody
    /\ plock' = [plock EXCEPT ![Key(b)] = b]
    /\ pc' = [pc EXCEPT ![b] = "publish"]
    /\ UNCHANGED <<mem, ring, db, undo, cmd, scratch, out, started, disturbed>>

BlockWait(b) ==
    /\ pc[b] = "full"
    /\ ~SyncFlush
    /\ ~RingFull
    /\ pc' = [pc EXCEPT ![b] = Resumed(b)]
    /\ UNCHANGED <<mem, plock, ring, db, undo, cmd, scratch, out, started, disturbed>>

(***************************************************************************)
(* Drains and transactions.                                                *)
(***************************************************************************)
Batch == SubSeq(ring, 1, IF Len(ring) < MaxBatch THEN Len(ring) ELSE MaxBatch)
Rest == SubSeq(ring, Len(Batch) + 1, Len(ring))
KeysOf(batch) == {batch[i].key : i \in DOMAIN batch}

\* Row locks: a drain waits for an open transaction that wrote its rows.
RowsFree(b, keys) == \A c \in Backends \ {b} : undo[c].keys \cap keys = {}

\* The tables with the rows of some keys as they are in old.
Restore(new, old, keys) ==
    [store |-> [k \in Keys |-> IF k \in keys THEN old.store[k] ELSE new.store[k]],
     hf    |-> [kf \in Keys \X Fields |-> IF kf[1] \in keys THEN old.hf[kf] ELSE new.hf[kf]],
     li    |-> [ko \in Keys \X Ords |-> IF ko[1] \in keys THEN old.li[ko] ELSE new.li[ko]]]

\* An error or ROLLBACK ends b's transaction; its drains' writes are undone.
Aborted(b) ==
    /\ db' = Restore(db, undo[b].old, undo[b].keys)
    /\ undo' = [undo EXCEPT ![b] = NoUndo]
    /\ out' = [out EXCEPT ![b] = <<>>]
    /\ pc' = [pc EXCEPT ![b] = "idle"]
    /\ disturbed' = disturbed \cup {IF undo[b] = NoUndo THEN "ABORT" ELSE "UNDONE"}

\* The background worker: a transaction of its own.  A failing batch stays.
BgwDrain ==
    /\ ring # <<>>
    /\ RowsFree(Nobody, KeysOf(Batch))
    /\ ~PlansFail(db, Batch)
    /\ db' = RunPlans(db, Batch)
    /\ ring' = Rest
    /\ UNCHANGED <<mem, plock, undo, pc, cmd, scratch, out, started, disturbed>>

\* sync_drain: a subtransaction of the backend's transaction.  The slots are
\* released at once, the rows are committed with the transaction.
SyncDrain(b) ==
    /\ pc[b] = "full"
    /\ SyncFlush
    /\ RowsFree(b, KeysOf(Batch))
    /\ ~PlansFail(db, Batch)
    /\ db' = RunPlans(db, Batch)
    /\ ring' = Rest
    /\ undo' = [undo EXCEPT ![b] = [keys |-> @.keys \cup KeysOf(Batch),
                                    old  |-> Restore(db, @.old, @.keys)]]
    /\ pc' = [pc EXCEPT ![b] = Resumed(b)]
    /\ UNCHANGED <<mem, plock, cmd, scratch, out, started, disturbed>>

\* The drain's error is thrown again; block mode's budget runs out.  The
\* command's change of the keyspace stays, its events are not published.
GiveUp(b) ==
    /\ pc[b] = "full"
    /\ \/ ~SyncFlush
       \/ SyncFlush /\ RowsFree(b, KeysOf(Batch)) /\ PlansFail(db, Batch)
    /\ Aborted(b)
    /\ UNCHANGED <<mem, plock, ring, cmd, scratch, started>>

Commit(b) ==
    /\ pc[b] = "idle"
    /\ undo[b].keys # {}
    /\ undo' = [undo EXCEPT ![b] = NoUndo]
    /\ UNCHANGED <<mem, plock, ring, db, pc, cmd, scratch, out, started, disturbed>>

Rollback(b) ==
    /\ "ROLLBACK" \in Commands
    /\ pc[b] = "idle"
    /\ undo[b].keys # {}
    /\ Aborted(b)
    /\ UNCHANGED <<mem, plock, ring, cmd, scratch, started>>

(***************************************************************************)
(* FLUSHALL: the keyspace under all partition locks, then the ring, then   *)
(* the tables (whose exclusive lock waits for every open transaction).     *)
(***************************************************************************)
FlushReset(b) ==
    /\ "FLUSHALL" \in Commands
    /\ pc[b] = "idle"
    /\ undo[b] = NoUndo
    /\ started[b] < MaxCommands
    /\ \A k \in Keys : plock[k] = Nobody
    /\ mem' = [k \in Keys |-> NoEntry]
    /\ started' = [started EXCEPT ![b] = @ + 1]
    /\ pc' = [pc EXCEPT ![b] = "drop"]
    /\ disturbed' = disturbed \cup {"FLUSHALL"}
    /\ UNCHANGED <<plock, ring, db, undo, cmd, scratch, out>>

FlushDrop(b) ==
    /\ pc[b] = "drop"
    /\ ring' = <<>>
    /\ pc' = [pc EXCEPT ![b] = "truncate"]
    /\ UNCHANGED <<mem, plock, db, undo, cmd, scratch, out, started, disturbed>>

FlushTruncate(b) ==
    /\ pc[b] = "truncate"
    /\ \A c \in Backends : undo[c] = NoUndo
    /\ db' = Truncate
    /\ pc' = [pc EXCEPT ![b] = "idle"]
    /\ UNCHANGED <<mem, plock, ring, undo, cmd, scratch, out, started, disturbed>>

Command(b) ==
    \/ \E c \in Cmds : Start(b, c)
    \/ Prepare(b) \/ Writeback(b)
    \/ HashSet(b) \/ HashDel(b) \/ Del(b)
    \/ Publish(b) \/ FindFull(b) \/ Relock(b) \/ BlockWait(b)
    \/ SyncDrain(b) \/ GiveUp(b)

Step ==
    \/ \E b \in Backends :
        \/ Command(b)
        \/ Commit(b) \/ Rollback(b)
        \/ FlushReset(b) \/ FlushDrop(b) \/ FlushTruncate(b)
    \/ BgwDrain

Next == Step /\ UNCHANGED config

Spec == Init /\ [][Next]_vars

(***************************************************************************)
(* Properties.                                                             *)
(***************************************************************************)

\* The variables keep their types; a backend holds at most the lock of the
\* key its command works on.
TypeOK ==
    /\ \A k \in Keys : mem[k].type \in {"none", "STRING", "INT", "HASH", "LIST"}
    /\ plock \in [Keys -> Backends \cup {Nobody}]
    /\ Len(ring) <= RingCapacity
    /\ \A b \in Backends :
        /\ pc[b] \in {"idle", "writeback", "publish", "full", "relock", "drop", "truncate"}
                        \cup {c.op : c \in Cmds}
        /\ pc[b] \in {"publish", "relock"} => out[b] # <<>>
        /\ started[b] \in 0 .. MaxCommands

\* Whatever the interleaving of publishers, a field or item event in the ring
\* finds its parent row: the row is in the table, or the row's event is ahead
\* in the ring (parents are published before children).  So no drain fails on
\* a foreign key, wherever the batches are cut and whatever HSETs gave up their
\* lock or their command half-way; unless drained rows are rolled back, or
\* FLUSHALL runs beside the commands.
ParentFirst ==
    disturbed \cap {"UNDONE", "FLUSHALL"} = {} => \A i \in DOMAIN ring :
        ring[i].op \in {"FIELD_UPSERT", "ITEM_INSERT"} =>
            \/ db.store[ring[i].key] # NoRow
            \/ \E j \in 1 .. i - 1 : ring[j].op = "KEY_UPSERT" /\ ring[j].key = ring[i].key

\* The next batch can always be applied: no event in it breaks a constraint of
\* the tables, which would make this drain and every later one fail
\* (types.h: an item's ord is stable and mirrored to pgredis.list_items.ord).
DrainNeverFails == ~PlansFail(db, Batch)

\* What a cold-start load would make of the tables.  A hash or list row with
\* no children is not loaded.
ItemOrds(k) == {o \in Ords : db.li[<<k, o>>] # NoRow}
Recovered(k) ==
    LET row == db.store[k]
        nth(i) == CHOOSE o \in ItemOrds(k) : Cardinality({p \in ItemOrds(k) : p < o}) = i - 1
        e == IF row = NoRow THEN NoEntry
             ELSE [type |-> row[1], val |-> row[2],
                   hash |-> [f \in Fields |-> IF row[1] = "HASH" THEN db.hf[<<k, f>>] ELSE NoRow],
                   list |-> IF row[1] # "LIST" THEN <<>>
                            ELSE [i \in 1 .. Cardinality(ItemOrds(k)) |-> db.li[<<k, nth(i)>>]]]
    IN  e
Visible(e) ==
    IF \/ e.type = "HASH" /\ \A f \in Fields : e.hash[f] = NoRow
       \/ e.type = "LIST" /\ e.list = <<>>
    THEN NoEntry ELSE e

Quiet ==
    /\ ring = <<>>
    /\ \A b \in Backends : pc[b] = "idle" /\ undo[b] = NoUndo

\* When every command has returned, every transaction has ended and the ring
\* is drained, a cold start would bring back exactly the keyspace in memory.
Converged == Quiet => \A k \in Keys : Visible(Recovered(k)) = Visible(mem[k])

\* The commands that change an entry in place and publish under the same lock,
\* or publish nothing.
InPlace == Commands \subseteq {"HSET", "DEL", "ROLLBACK", "FLUSHALL"}

\* Hashes survive a cold start at any quiet moment, as long as no command gives
\* up and no FLUSHALL runs beside them: exactly, if nobody used DEL.  HSET changes
\* the entry and publishes under one lock, and starts over after it gave the lock
\* up (pg_redis_shared_store_hash_set_atomic: "per-key write ordering is
\* preserved").  DEL publishes no event, so the rows of a deleted hash stay; but
\* they never cost a hash that is written again a field or its value.
Recoverable ==
    InPlace /\ disturbed \subseteq {"DEL"} /\ Quiet =>
        \A k \in Keys :
            /\ disturbed = {} => Visible(Recovered(k)) = Visible(mem[k])
            /\ \A f \in Held(mem[k].hash) : Recovered(k).hash[f] = mem[k].hash[f]
=============================================================================
