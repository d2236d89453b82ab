----------------------------- MODULE SharedHash -----------------------------
(***************************************************************************)
(* The hash of one key in shared memory (shared_hash.c): an open-addressed *)
(* table with linear probing and tombstones that doubles when it is more   *)
(* than 7/10 in use and halves when less than 1/8 holds fields.  Every     *)
(* allocation may fail.  Values are not empty: each takes a chunk.         *)
(*                                                                         *)
(* HSET, HDEL, HGET and the removal of the key run under the key's         *)
(* partition lock, one at a time.  EXPIRE takes the lock twice: to copy    *)
(* the entry and, in surgical_apply_hash, to write the copy back field by  *)
(* field.  The table pointer it works on is a local copy, stored in the    *)
(* entry at the end; `stored` says whether the entry points to the table.  *)
(***************************************************************************)
EXTENDS Integers, FiniteSets, FiniteSetsExt

CONSTANTS
    Fields, Values, NoField, NoValue,
    Hash,            \* hash_bytes of each field
    InitBuckets,     \* PG_REDIS_SHARED_HASH_INIT_BUCKETS
    MaxCopy          \* bound: fields of a hash that EXPIRE copies

ASSUME HashAssumption ==
    /\ NoField \notin Fields
    /\ NoValue \notin Values
    /\ Hash \in [Fields -> Nat]
    /\ InitBuckets \in Nat \ {0, 1}
    /\ MaxCopy \in Nat

VARIABLES
    present,         \* the key has an entry in the keyspace
    table,           \* the table: bucket_count, buckets, occupied, tombstones
    field_count,     \* se->value.hash.field_count
    stored,          \* the entry's pointer is the pointer to the table
    chunks,          \* live chunks of shared memory that belong to the hash
    copy,            \* fields of EXPIRE's copy still to write back
    applying,        \* how EXPIRE, holding the lock, writes it back, or "no"
    count,           \* its local field count
    torn,            \* surgical_apply_hash has ended in an error
    reply            \* what the last command returned

vars == <<present, table, field_count, stored, chunks, copy, applying, count, torn, reply>>

Bucket(s, f, v) == [state |-> s, field |-> f, value |-> v]
Free == Bucket("EMPTY", NoField, NoValue)
Grave == Bucket("TOMBSTONE", NoField, NoValue)

\* A bucket_count of 0 stands for InvalidDsaPointer.
AllocTable(n) ==
    [bucket_count |-> n, buckets |-> [i \in 0 .. n - 1 |-> Free],
     occupied |-> 0, tombstones |-> 0]
NoTable == AllocTable(0)

(***************************************************************************)
(* The operations of shared_hash.c.                                        *)
(***************************************************************************)

\* Mutant: the search stops at a tombstone, as it does at an empty bucket.
Ends(b, f) == b.state = "EMPTY" \/ b.field = f

\* find_bucket: the bucket of f or, if there is none, the bucket for it: the
\* first tombstone on the way to an empty bucket, or that bucket; -1 if the
\* table is saturated.
FindBucket(t, f) ==
    LET at(i) == (Hash[f] + i) % t.bucket_count
        steps == 0 .. t.bucket_count - 1
        ends  == {i \in steps : Ends(t.buckets[at(i)], f)}
        last  == IF ends = {} THEN t.bucket_count ELSE Min(ends)
        tombs == {i \in steps : i < last /\ t.buckets[at(i)].state = "TOMBSTONE"}
        found == ends # {} /\ t.buckets[at(last)].field = f
    IN [was_found |-> found,
        idx |-> IF ~found /\ tombs # {} THEN at(Min(tombs))
                ELSE IF ends # {} THEN at(last) ELSE -1]

\* A new field in the bucket find_bucket chose.  Mutant: the tombstone that is
\* reused is still counted.
MutInsert(t, i, f, v) ==
    [t EXCEPT !.buckets[i] = Bucket("OCCUPIED", f, v), !.occupied = @ + 1]
Insert(t, i, f, v) ==
    [t EXCEPT !.buckets[i] = Bucket("OCCUPIED", f, v),
              !.occupied = @ + 1,
              !.tombstones = IF t.buckets[i].state = "TOMBSTONE" THEN @ - 1 ELSE @]

\* rehash_table: the fields move, in bucket order, to a fresh table.  Mutant:
\* the last bucket is forgotten.
MutVisited(t) == t.bucket_count - 1
Visited(t) == t.bucket_count
Moved(t, b) ==
    IF b.state = "OCCUPIED" THEN Insert(t, FindBucket(t, b.field).idx, b.field, b.value) ELSE t
Rehash(t, n) ==
    LET filled[i \in 0 .. t.bucket_count] ==
          IF i = 0 THEN AllocTable(n) ELSE Moved(filled[i - 1], t.buckets[i - 1])
    IN filled[Visited(t)]

\* Mutant: tombstones do not count as buckets in use.
MutShouldGrow(t) == (t.occupied + 1) * 10 > t.bucket_count * 7
ShouldGrow(t) == (t.occupied + t.tombstones + 1) * 10 > t.bucket_count * 7

ShouldShrink(t) == t.bucket_count > InitBuckets /\ t.occupied * 8 < t.bucket_count

\* The table pg_redis_shared_hash_set works on: the first table, or one twice
\* as large, or the one there is.
Grown(t) ==
    IF t.bucket_count = 0 THEN AllocTable(InitBuckets)
    ELSE IF ShouldGrow(t) THEN Rehash(t, 2 * t.bucket_count)
    ELSE t

\* The value overwritten in place, or a new field.
Stored(t, f, v) ==
    LET b == FindBucket(t, f)
    IN IF b.was_found THEN [t EXCEPT !.buckets[b.idx].value = v]
       ELSE Insert(t, b.idx, f, v)

\* pg_redis_shared_hash_del up to the shrink.  Mutant: the bucket becomes
\* empty, which cuts the probe chains through it.
MutErased(t, f) ==
    [t EXCEPT !.buckets[FindBucket(t, f).idx] = Free, !.occupied = @ - 1]
Erased(t, f) ==
    [t EXCEPT !.buckets[FindBucket(t, f).idx] = Grave,
              !.occupied = @ - 1, !.tombstones = @ + 1]

Occupied(t) == {i \in DOMAIN t.buckets : t.buckets[i].state = "OCCUPIED"}
ValueOf(t, f) ==
    IF t.bucket_count = 0 \/ t.occupied = 0 THEN NoValue
    ELSE LET b == FindBucket(t, f) IN IF b.was_found THEN t.buckets[b.idx].value ELSE NoValue

\* Chunks that an HSET allocates less those it frees (a rehash allocates one
\* table and frees one).  Mutant: the value that is overwritten is not freed.
MutSetChunks(old) == IF old = NoValue THEN 2 ELSE 1
SetChunks(old) == IF old = NoValue THEN 2 ELSE 0
NewTable(t) == IF t.bucket_count = 0 THEN 1 ELSE 0

\* The chunks pg_redis_shared_hash_free frees.
HashFree(t) ==
    IF t.bucket_count = 0 THEN 0
    ELSE 1 + 2 * Cardinality(Occupied(t))

(***************************************************************************)
(* The commands.                                                           *)
(***************************************************************************)
Init ==
    /\ present = FALSE
    /\ table = NoTable
    /\ field_count = 0
    /\ stored = TRUE
    /\ chunks = 0
    /\ copy = {}
    /\ applying = "no"
    /\ count = 0
    /\ torn = FALSE
    /\ reply = "none"

expireVars == <<stored, copy, applying, count, torn>>
Unlocked == applying = "no" /\ ~torn

Hset(f, v) ==
    /\ Unlocked
    /\ present' = TRUE
    /\ table' = Stored(Grown(table), f, v)
    /\ LET old == ValueOf(table, f)
       IN /\ chunks' = chunks + NewTable(table) + SetChunks(old)
          /\ field_count' = field_count + IF old = NoValue THEN 1 ELSE 0
          /\ reply' = IF old = NoValue THEN "new" ELSE "old"
    /\ UNCHANGED expireVars

\* An allocation fails: the table's, or after it the field's or the value's.
HsetFails ==
    /\ Unlocked
    /\ present' = TRUE
    /\ \/ Grown(table) # table /\ UNCHANGED <<table, chunks>>
       \/ table' = Grown(table) /\ chunks' = chunks + NewTable(table)
    /\ reply' = "error"
    /\ UNCHANGED <<field_count, expireVars>>

\* A shrink that is due may fail for lack of memory.
Hdel(f) ==
    /\ Unlocked
    /\ ValueOf(table, f) # NoValue
    /\ chunks' = chunks - 2
    /\ LET t == Erased(table, f)
       IN \/ table' = t
          \/ ShouldShrink(t) /\ table' = Rehash(t, t.bucket_count \div 2)
    /\ field_count' = field_count - 1
    /\ reply' = "removed"
    /\ UNCHANGED <<present, expireVars>>

HdelMissing(f) ==
    /\ Unlocked
    /\ ValueOf(table, f) = NoValue
    /\ reply' = "missing"
    /\ UNCHANGED <<present, table, field_count, chunks, expireVars>>

Hget(f) ==
    /\ Unlocked
    /\ reply' = IF ValueOf(table, f) = NoValue THEN "missing" ELSE "found"
    /\ UNCHANGED <<present, table, field_count, chunks, expireVars>>

\* The key is removed: pg_redis_shared_entry_release_payloads.
Remove ==
    /\ Unlocked
    /\ present
    /\ present' = FALSE
    /\ table' = NoTable
    /\ chunks' = chunks - HashFree(table)
    /\ field_count' = 0
    /\ UNCHANGED <<expireVars, reply>>

(***************************************************************************)
(* EXPIRE: pg_redis_shared_hash_materialize marks every field of the copy  *)
(* dirty, so pg_redis_shared_store_writeback writes all of them back.      *)
(***************************************************************************)
\* Mutant: buckets that hold no field are copied too.
MutCopied(t) == {<<t.buckets[i].field, t.buckets[i].value>> : i \in DOMAIN t.buckets}
Copied(t) == {<<t.buckets[i].field, t.buckets[i].value>> : i \in Occupied(t)}

Expire ==
    /\ Unlocked
    /\ present
    /\ copy = {}
    /\ Cardinality(Occupied(table)) <= MaxCopy
    /\ copy' = Copied(table)
    /\ UNCHANGED <<present, table, field_count, stored, chunks, applying, count, torn, reply>>

BeginApply ==
    /\ Unlocked
    /\ copy # {}
    /\ applying' = IF present THEN "surgical" ELSE "populate"
    /\ count' = IF present THEN field_count ELSE 0
    /\ present' = TRUE
    /\ UNCHANGED <<table, field_count, stored, chunks, copy, torn, reply>>

ApplyField(f, v) ==
    /\ applying # "no"
    /\ <<f, v>> \in copy
    /\ table' = Stored(Grown(table), f, v)
    /\ stored' = (stored /\ Grown(table) = table)
    /\ LET old == ValueOf(table, f)
       IN /\ chunks' = chunks + NewTable(table) + SetChunks(old)
          /\ count' = count + IF old = NoValue THEN 1 ELSE 0
    /\ copy' = copy \ {<<f, v>>}
    /\ UNCHANGED <<present, field_count, applying, torn, reply>>

EndApply ==
    /\ applying # "no"
    /\ copy = {}
    /\ stored' = TRUE
    /\ field_count' = count
    /\ applying' = "no"
    /\ count' = 0
    /\ UNCHANGED <<present, table, chunks, copy, torn, reply>>

ApplyStops ==
    /\ copy # {}
    /\ copy' = {}
    /\ applying' = "no"
    /\ count' = 0
    /\ UNCHANGED <<present, reply>>

\* PG_CATCH frees the table that was being built.
PopulateFails ==
    /\ applying = "populate"
    /\ ApplyStops
    /\ table' = NoTable
    /\ stored' = TRUE
    /\ chunks' = chunks - HashFree(table)
    /\ UNCHANGED <<field_count, torn>>

\* surgical_apply_hash has no PG_CATCH: neither the pointer nor the count is
\* stored.  If the table has moved, the entry points to freed memory and what
\* the key's next command does is undefined: the model stops here.
SurgicalFails ==
    /\ applying = "surgical"
    /\ ApplyStops
    /\ torn' = TRUE
    /\ \/ Grown(table) # table /\ UNCHANGED <<table, stored, chunks>>
       \/ /\ table' = Grown(table)
          /\ stored' = (stored /\ Grown(table) = table)
          /\ chunks' = chunks + NewTable(table)
    /\ UNCHANGED field_count

Next ==
    \/ \E f \in Fields : Hdel(f) \/ HdelMissing(f) \/ Hget(f)
    \/ \E f \in Fields, v \in Values : Hset(f, v) \/ ApplyField(f, v)
    \/ HsetFails \/ Remove
    \/ Expire \/ BeginApply \/ EndApply \/ PopulateFails \/ SurgicalFails

Spec == Init /\ [][Next]_vars

(***************************************************************************)
(* Properties.                                                             *)
(***************************************************************************)

\* The variables keep their types.
TypeOK ==
    /\ table.bucket_count \in Nat
    /\ \A i \in 0 .. table.bucket_count - 1 :
        table.buckets[i].state \in {"EMPTY", "OCCUPIED", "TOMBSTONE"}
    /\ DOMAIN table.buckets = 0 .. table.bucket_count - 1
    /\ {field_count, chunks, count} \subseteq Nat
    /\ {present, stored, torn} \subseteq BOOLEAN
    /\ copy \subseteq Fields \X Values
    /\ applying \in {"no", "surgical", "populate"}

\* Every field in the table is found, in its own bucket: the probe chain from
\* its home bucket is never cut, and no field is in the table twice.
Reachable ==
    \A i \in Occupied(table) :
        LET b == FindBucket(table, table.buckets[i].field) IN b.was_found /\ b.idx = i

\* There is always an empty bucket to end a search, so no table is ever
\* reported saturated.
EmptyRemains == table.bucket_count > 0 => \E i \in DOMAIN table.buckets : table.buckets[i] = Free

\* The counters on which growing, shrinking and HLEN rest are exact; only the
\* entry's own count is lost if surgical_apply_hash ends in an error.
CountsExact ==
    /\ table.occupied = Cardinality(Occupied(table))
    /\ table.tombstones = Cardinality({i \in DOMAIN table.buckets : table.buckets[i] = Grave})
    /\ applying = "no" /\ ~torn => field_count = table.occupied

\* Every chunk of the hash can be reached from its table, so that freeing the
\* table frees them all, whatever failed on the way.
NoLeak == chunks = HashFree(table)

\* When nobody holds the lock, the entry points to the table, not to one that a
\* rehash has freed.
SlotCurrent == applying = "no" => stored

\* The table, with its rehashes and tombstones and allocations that fail,
\* behaves like a map: what a bucket holds is the value of its field, and every
\* reply is the map's.
Contents ==
    LET bucket(f) == CHOOSE i \in DOMAIN table.buckets : table.buckets[i].field = f
        held == {table.buckets[i].field : i \in DOMAIN table.buckets}
    IN [f \in Fields |-> IF f \in held THEN table.buckets[bucket(f)].value ELSE NoValue]
Abstract == INSTANCE FieldMap WITH map <- Contents
ImplementsMap == Abstract!Spec
=============================================================================
