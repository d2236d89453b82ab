---------------------------- MODULE SessionFlush ----------------------------
(***************************************************************************)
(* storage_mode = session with persistence_mode = sync_table: every        *)
(* session keeps a private keyspace (kv_store.c, hash_value.c, list.c) and *)
(* records what changed in a dirty-set and in pending deletes, which       *)
(* run_flush writes to the tables at XACT_EVENT_PRE_COMMIT.  A commit whose*)
(* flush fails and a rollback drop the records and make the next command   *)
(* load the tables into the keyspace once more.                            *)
(*                                                                         *)
(* A command runs inside the session's transaction and touches only the    *)
(* session's memory, so it is one step, its lazy load included.            *)
(***************************************************************************)
EXTENDS Tables, FiniteSets, FiniteSetsExt

CONSTANTS
    Sessions,
    Workloads        \* what is checked together, see workload

ASSUME SessionAssumption ==
    /\ NoRow \notin Nat
    /\ \A w \in Workloads : w.sessions \subseteq Sessions /\ w.fields \subseteq Fields /\ w.limit \in Nat

VARIABLES
    workload,    \* which sessions run which commands on which fields
    store,       \* store[s][k]: PgRedisEntry of the session's keyspace
    dirty,       \* the chain from dirty_head: keys of entries to upsert
    pdel,        \* pending_deletes: keys of rows to delete
    loaded,      \* persistence_loaded
    db,          \* the durable tables
    count,       \* commands run so far; also the value the next one writes
    mine,        \* history: values written by the session's open transaction
    undone       \* history: values written by transactions that aborted

vars == <<workload, store, dirty, pdel, loaded, db, count, mine, undone>>

Commands == workload.commands      \* the commands the workload uses
MaxCommands == workload.limit      \* bound: commands all sessions run

(***************************************************************************)
(* Entries.  An item carries its ord and pending_insert; in_set is         *)
(* in_dirty_set.  min_ord and max_ord are always those of head and tail.   *)
(***************************************************************************)
NoEntry ==
    [type |-> "none", val |-> NoRow, in_set |-> FALSE,
     hash |-> [f \in Fields |-> NoRow], fdirty |-> {}, tomb |-> {},
     list |-> <<>>, dels |-> {}]

\* pg_redis_entry_release_value: the payload goes, and its records with it.
\* Mutant: only the type is reset.
MutReleased(e) == [e EXCEPT !.type = "STRING"]
Released(e) == [NoEntry EXCEPT !.type = "STRING", !.in_set = e.in_set]

Item(ord, val, pending) == [ord |-> ord, val |-> val, pending |-> pending]

\* pg_redis_list_lpush and _rpush.  Mutant: the ord is the list's length.
MutPushOrd(e, left) == Len(e.list)
PushOrd(e, left) ==
    IF e.list = <<>> THEN 0
    ELSE IF left THEN Head(e.list).ord - 1 ELSE e.list[Len(e.list)].ord + 1

Pushed(e, left, v) ==
    LET item == Item(PushOrd(e, left), v, TRUE)
        base == IF e.type = "LIST" THEN e ELSE Released(e)
    IN  [base EXCEPT !.type = "LIST",
                     !.list = IF left THEN <<item>> \o @ ELSE Append(@, item)]

\* record_pending_delete: only a durable item needs a delete.
PendingDelete(item) == IF item.pending THEN {} ELSE {item.ord}

Popped(e, left) ==
    LET n == Len(e.list)
    IN  [e EXCEPT !.list = IF left THEN Tail(@) ELSE SubSeq(@, 1, n - 1),
                  !.dels = @ \cup PendingDelete(e.list[IF left THEN 1 ELSE n])]

\* pg_redis_hash_set and _del
FieldSet(e, f, v) ==
    LET base == IF e.type = "HASH" THEN e ELSE Released(e)
    IN  [base EXCEPT !.type = "HASH", !.hash[f] = v, !.fdirty = @ \cup {f}]

\* Mutant: no tombstone is recorded.
MutTombstone(e, f) == e.tomb
Tombstone(e, f) == e.tomb \cup {f}
FieldDel(e, f) == [e EXCEPT !.hash[f] = NoRow, !.fdirty = @ \ {f}, !.tomb = Tombstone(e, f)]

(***************************************************************************)
(* do_load: what the rows of a key do to the entry in memory.              *)
(***************************************************************************)
RowFields(d, k) == {f \in Fields : d.hf[<<k, f>>] # NoRow}
RowOrds(d, k) == {o \in Ords : d.li[<<k, o>>] # NoRow}

\* ORDER BY s.key, l.ord
RowItems(d, k) ==
    LET nth(i) == CHOOSE o \in RowOrds(d, k) : Cardinality({p \in RowOrds(d, k) : p < o}) = i - 1
    IN  [i \in 1 .. Cardinality(RowOrds(d, k)) |-> Item(nth(i), d.li[<<k, nth(i)>>], FALSE)]

LoadHash(d, k, e) ==
    LET base == IF e.type = "HASH" THEN e ELSE Released(e)
    IN  [base EXCEPT !.type = "HASH", !.fdirty = {},
                     !.hash = [f \in Fields |-> IF f \in RowFields(d, k) THEN d.hf[<<k, f>>] ELSE @[f]]]

LoadList(d, k, e) ==
    LET base == IF e.type = "LIST" THEN e ELSE Released(e)
    IN  [base EXCEPT !.type = "LIST", !.list = @ \o RowItems(d, k)]

LoadEntry(d, k, e) ==
    LET row == d.store[k]
    IN  CASE row = NoRow -> e
          [] row # NoRow /\ row[1] = "HASH" -> IF RowFields(d, k) = {} THEN e ELSE LoadHash(d, k, e)
          [] row # NoRow /\ row[1] = "LIST" -> IF RowOrds(d, k) = {} THEN e ELSE LoadList(d, k, e)
          [] OTHER -> [Released(e) EXCEPT !.type = row[1], !.val = row[2]]

\* The entry a command finds after ensure_loaded.
Found(s, k) == IF loaded[s] THEN store[s][k] ELSE LoadEntry(db, k, store[s][k])

(***************************************************************************)
(* Commands.                                                               *)
(***************************************************************************)
Init ==
    /\ workload \in Workloads
    /\ store = [s \in Sessions |-> [k \in Keys |-> NoEntry]]
    /\ dirty = [s \in Sessions |-> {}]
    /\ pdel = [s \in Sessions |-> {}]
    /\ loaded = [s \in Sessions |-> FALSE]
    /\ db = EmptyDb
    /\ count = 0
    /\ mine = [s \in Sessions |-> {}]
    /\ undone = {}

\* A workload without "RECREATE" does not write a key again in the
\* transaction that deleted it.
Runs(s, k, op) ==
    /\ op \in Commands
    /\ count < MaxCommands
    /\ k \in pdel[s] => "RECREATE" \in Commands

\* mark_dirty: an entry already in the dirty-set is left where it is.
MarkDirty(s, k, e) ==
    /\ store' = [store EXCEPT ![s] = [j \in Keys |-> IF j = k THEN [e EXCEPT !.in_set = TRUE] ELSE Found(s, j)]]
    /\ dirty' = [dirty EXCEPT ![s] = IF e.in_set THEN @ ELSE @ \cup {k}]
    /\ loaded' = [loaded EXCEPT ![s] = TRUE]
    /\ count' = count + 1
    /\ mine' = [mine EXCEPT ![s] = @ \cup {count + 1}]
    /\ UNCHANGED <<pdel, db, undone>>

Set(s, k) ==
    /\ Runs(s, k, "SET")
    /\ MarkDirty(s, k, [Released(Found(s, k)) EXCEPT !.val = count + 1])

Incr(s, k) ==
    LET e == Found(s, k)
    IN  /\ Runs(s, k, "INCR")
        /\ e.type \in {"none", "STRING", "INT"}
        /\ MarkDirty(s, k, [Released(e) EXCEPT !.type = "INT",
                                               !.val = IF e.type = "none" THEN 1 ELSE e.val + 1])

HSet(s, k, f) ==
    /\ Runs(s, k, "HSET")
    /\ Found(s, k).type \in {"none", "HASH"}
    /\ MarkDirty(s, k, FieldSet(Found(s, k), f, count + 1))

HDel(s, k, f) ==
    LET e == Found(s, k)
    IN  /\ Runs(s, k, "HDEL")
        /\ e.type = "HASH"
        /\ e.hash[f] # NoRow
        /\ MarkDirty(s, k, FieldDel(e, f))

Push(s, k, left) ==
    /\ Runs(s, k, IF left THEN "LPUSH" ELSE "RPUSH")
    /\ Found(s, k).type \in {"none", "LIST"}
    /\ PushOrd(Found(s, k), left) \in Ords
    /\ MarkDirty(s, k, Pushed(Found(s, k), left, count + 1))

Pop(s, k, left) ==
    LET e == Found(s, k)
    IN  /\ Runs(s, k, IF left THEN "LPOP" ELSE "RPOP")
        /\ e.type = "LIST"
        /\ e.list # <<>>
        /\ MarkDirty(s, k, Popped(e, left))

\* EXPIRE: the entry is flushed again; the time itself is not modelled.
Expire(s, k) ==
    /\ Runs(s, k, "EXPIRE")
    /\ Found(s, k).type # "none"
    /\ MarkDirty(s, k, Found(s, k))

\* DEL, EXPIRE with seconds <= 0 and the eviction of an expired entry
Del(s, k) ==
    /\ Runs(s, k, "DEL")
    /\ Found(s, k).type # "none"
    /\ store' = [store EXCEPT ![s] = [j \in Keys |-> IF j = k THEN NoEntry ELSE Found(s, j)]]
    /\ dirty' = [dirty EXCEPT ![s] = @ \ {k}]
    /\ pdel' = [pdel EXCEPT ![s] = @ \cup {k}]
    /\ loaded' = [loaded EXCEPT ![s] = TRUE]
    /\ count' = count + 1
    /\ UNCHANGED <<db, mine, undone>>

\* A command that fails its checks still has loaded the keyspace.
Read(s) ==
    /\ ~loaded[s]
    /\ store' = [store EXCEPT ![s] = [k \in Keys |-> Found(s, k)]]
    /\ loaded' = [loaded EXCEPT ![s] = TRUE]
    /\ UNCHANGED <<dirty, pdel, db, count, mine, undone>>

(***************************************************************************)
(* run_flush at pre-commit, and the end of the transaction.                *)
(***************************************************************************)
\* The vectors of a batch hold their elements in some order.
Queued(S) == FoldSet(LAMBDA ev, acc : Append(acc, ev), <<>>, S)

\* Mutant: no parent row for a collection.
MutParentUpsert(k, e) == IF e.type \in {"HASH", "LIST"} THEN <<>> ELSE <<Ev("KEY_UPSERT", k, "-", <<e.type, e.val>>)>>
ParentUpsert(k, e) == <<Ev("KEY_UPSERT", k, "-", <<e.type, e.val>>)>>

EntryEvents(k, e) ==
    LET pending == SelectSeq(e.list, LAMBDA i : i.pending)
    IN  ParentUpsert(k, e)
            \o Queued({Ev("FIELD_UPSERT", k, f, e.hash[f]) : f \in e.fdirty})
            \o Queued({Ev("FIELD_DELETE", k, f, NoRow) : f \in e.tomb})
            \o Queued({Ev("ITEM_DELETE", k, o, NoRow) : o \in e.dels})
            \o [i \in DOMAIN pending |-> Ev("ITEM_INSERT", k, pending[i].ord, pending[i].val)]

\* The tombstone of a key that is also dirty is dropped.
Deletes(s) == pdel[s] \ dirty[s]

FlushBatch(s) ==
    FoldSet(LAMBDA k, acc : acc \o EntryEvents(k, store[s][k]), <<>>, dirty[s])
        \o Queued({Ev("KEY_DELETE", k, "-", NoRow) : k \in Deletes(s)})

\* Collecting the batch clears the flags of fields and items.
Collected(e) ==
    [e EXCEPT !.fdirty = {}, !.list = [i \in DOMAIN @ |-> [@[i] EXCEPT !.pending = FALSE]]]

Flushed(e) == [Collected(e) EXCEPT !.in_set = FALSE, !.tomb = {}, !.dels = {}]

\* The entries on the dirty chain change.
ChainBecomes(s, new) ==
    store' = [store EXCEPT ![s] = [k \in Keys |-> IF k \in dirty[s] THEN new[k] ELSE @[k]]]

Open(s) == dirty[s] # {} \/ pdel[s] # {}

\* pg_redis_dirty_clear.  Mutant: the chain is kept.
MutCleared(s) == dirty[s]
Cleared(s) == {}

Ended(s) ==
    /\ dirty' = [dirty EXCEPT ![s] = {}]
    /\ pdel' = [pdel EXCEPT ![s] = {}]
    /\ mine' = [mine EXCEPT ![s] = {}]
    /\ UNCHANGED count

Commit(s) ==
    /\ Open(s)
    /\ ~PlansFail(db, FlushBatch(s))
    /\ db' = RunPlans(db, FlushBatch(s))
    /\ ChainBecomes(s, [k \in Keys |-> Flushed(store[s][k])])
    /\ Ended(s)
    /\ UNCHANGED <<loaded, undone>>

\* The flush's error aborts the transaction: run_flush has taken the chain, so
\* pg_redis_dirty_clear finds it empty.
CommitFails(s) ==
    /\ Open(s)
    /\ PlansFail(db, FlushBatch(s))
    /\ ChainBecomes(s, [k \in Keys |-> Collected(store[s][k])])
    /\ Ended(s)
    /\ loaded' = [loaded EXCEPT ![s] = FALSE]
    /\ undone' = undone \cup mine[s]
    /\ UNCHANGED db

\* ROLLBACK, or any error in the transaction.
Unlinked(e) == [e EXCEPT !.in_set = FALSE]
Rollback(s) ==
    /\ "ROLLBACK" \in Commands
    /\ count < MaxCommands
    /\ ChainBecomes(s, [k \in Keys |-> Unlinked(store[s][k])])
    /\ dirty' = [dirty EXCEPT ![s] = Cleared(s)]
    /\ pdel' = [pdel EXCEPT ![s] = {}]
    /\ mine' = [mine EXCEPT ![s] = {}]
    /\ loaded' = [loaded EXCEPT ![s] = FALSE]
    /\ undone' = undone \cup mine[s]
    /\ count' = count + 1
    /\ UNCHANGED db

\* FLUSHALL, committed at once.
Flushall(s) ==
    /\ "FLUSHALL" \in Commands
    /\ ~Open(s)
    /\ count < MaxCommands
    /\ store' = [store EXCEPT ![s] = [k \in Keys |-> NoEntry]]
    /\ loaded' = [loaded EXCEPT ![s] = TRUE]
    /\ db' = Truncate
    /\ count' = count + 1
    /\ UNCHANGED <<dirty, pdel, mine, undone>>

Step ==
    \E s \in workload.sessions :
        \/ \E k \in Keys :
            \/ Set(s, k) \/ Incr(s, k) \/ Expire(s, k) \/ Del(s, k)
            \/ \E f \in workload.fields : HSet(s, k, f) \/ HDel(s, k, f)
            \/ \E left \in BOOLEAN : Push(s, k, left) \/ Pop(s, k, left)
        \/ Read(s) \/ Commit(s) \/ CommitFails(s) \/ Rollback(s) \/ Flushall(s)

Next == Step /\ UNCHANGED workload

Spec == Init /\ [][Next]_vars

(***************************************************************************)
(* Properties.                                                             *)
(***************************************************************************)

\* The variables keep their types: records of changes belong to an entry of
\* the matching type.
TypeOK ==
    /\ count \in 0 .. MaxCommands
    /\ \A s \in workload.sessions :
        /\ dirty[s] \subseteq Keys /\ pdel[s] \subseteq Keys
        /\ loaded[s] \in BOOLEAN
        /\ \A k \in Keys :
            LET e == store[s][k]
            IN  /\ e.type \in {"none", "STRING", "INT", "HASH", "LIST"}
                /\ e.type # "HASH" => e.fdirty = {} /\ e.tomb = {}
                /\ e.type # "LIST" => e.list = <<>> /\ e.dels = {}

\* What a client can see of an entry, and what a later load would need: an
\* empty hash or list leaves only a parent row, which is not loaded.
Visible(e) ==
    IF \/ e.type = "none"
       \/ e.type = "HASH" /\ \A f \in Fields : e.hash[f] = NoRow
       \/ e.type = "LIST" /\ e.list = <<>>
    THEN <<"none">>
    ELSE <<e.type, e.val, e.hash, [i \in DOMAIN e.list |-> <<e.list[i].ord, e.list[i].val>>]>>

\* The tables hold what the session has in memory.
Matches(s, d) == \A k \in Keys : Visible(LoadEntry(d, k, NoEntry)) = Visible(Found(s, k))

\* One session works at a time, rolls nothing back and writes no key again in
\* the transaction that deleted it.
Orderly == Cardinality(workload.sessions) = 1 /\ Commands \cap {"RECREATE", "ROLLBACK"} = {}

\* Committing the open transaction now would make the tables equal to the
\* session's keyspace: the dirty-set, the dirty fields, the tombstones and the
\* pending inserts and deletes together record every change.
RecordsComplete == \A s \in workload.sessions : Matches(s, RunPlans(db, FlushBatch(s)))

\* At any point of an orderly session's transaction its records are complete.
FlushExact == Orderly => RecordsComplete

\* in_dirty_set says exactly that the entry is on the dirty chain; an entry
\* that only claims to be there is skipped by mark_dirty and never flushed.
DirtyTracked == \A s \in workload.sessions, k \in Keys : store[s][k].in_set <=> k \in dirty[s]

\* Along a list the ords ascend, so that reading the rows ORDER BY ord gives the
\* list back and the ends carry the smallest and the largest ord.
ListsAscend ==
    \A s \in workload.sessions, k \in Keys :
        LET l == Found(s, k).list
        IN  \A i \in 1 .. Len(l) - 1 : l[i].ord < l[i + 1].ord

\* That is so in an orderly session, whatever it pushes, pops and reloads.
OrdsAscend == Orderly => ListsAscend

\* Whatever other sessions have committed meanwhile, a flush fails for one
\* reason only: another session inserted a list item with the same ord.  A
\* child row never misses its parent, and an orderly session never fails to
\* commit (popped ords are deleted before they are reused).
FailureIsOrdClash ==
    \A s \in workload.sessions :
        PlansFail(db, FlushBatch(s)) =>
            ~Orderly /\ ~InsertUnique(ItemDelete(db.li, FlushBatch(s)), FlushBatch(s))

\* A value that only transactions which rolled back have written is in no row
\* of store (test/sql/persistence.sql: "durable row must not survive") ...
NoUndoneScalar == \A k \in Keys : db.store[k] # NoRow => db.store[k][2] \notin undone

\* ... nor in a row of hash_fields or list_items.
NoUndoneRow ==
    /\ NoUndoneScalar
    /\ \A kf \in Keys \X Fields : db.hf[kf] \notin undone
    /\ \A ko \in Keys \X Ords : db.li[ko] \notin undone

\* Between transactions, the command after a rollback finds the durable state.
Resynced == \A s \in workload.sessions : ~Open(s) => Matches(s, db)
=============================================================================
