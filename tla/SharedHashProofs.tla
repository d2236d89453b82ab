-------------------------- MODULE SharedHashProofs --------------------------
(***************************************************************************)
(* The commands of a shared hash keep the table sound, count its fields    *)
(* and chunks exactly, and implement the map of FieldMap.  HashInv adds to *)
(* Sound and Roomy how the table relates to the entry's field_count and to *)
(* the chunks allocated, in each phase of a surgical update.               *)
(***************************************************************************)
EXTENDS SharedHashTableProofs

----------------------------------------------------------------------------
(* The operations *)

\* u is t with room for one more field.
GrownTo(t, u) ==
    /\ Sound(u) /\ u.bucket_count > 0 /\ u.occupied = t.occupied /\ Copied(u) = Copied(t)
    /\ u.occupied + u.tombstones + 1 < u.bucket_count

LEMMA GrownSound ==
  ASSUME NEW t, Sound(t), Roomy(t)
  PROVE  GrownTo(t, Grown(t))
<1>1. /\ Shaped(t) /\ t.bucket_count \in Nat /\ t.occupied \in Nat /\ t.tombstones \in Nat
      /\ DOMAIN t.buckets = 0 .. t.bucket_count - 1 /\ t.occupied = Cardinality(Occupied(t))
  BY TableFacts DEF Sound, Counting
<1>2. CASE t.bucket_count = 0
  <2>1. Grown(t) = AllocTable(InitBuckets)  BY <1>2 DEF Grown
  <2>2. InitBuckets \in Nat /\ InitBuckets > 1  BY HashAssumption
  <2>3. Occupied(t) = {}  BY <1>1, <1>2 DEF Occupied
  <2>4. t.occupied = 0 /\ Copied(t) = {}  BY <1>1, <2>3, FS_EmptySet DEF Copied
  <2>5. /\ Sound(AllocTable(InitBuckets)) /\ Copied(AllocTable(InitBuckets)) = {}
        /\ AllocTable(InitBuckets).bucket_count = InitBuckets
        /\ AllocTable(InitBuckets).occupied = 0 /\ AllocTable(InitBuckets).tombstones = 0
    BY <2>2, AllocSound
  <2> QED BY <2>1, <2>2, <2>4, <2>5 DEF GrownTo
<1>3. CASE t.bucket_count > 0 /\ ShouldGrow(t)
  <2>1. Grown(t) = Rehash(t, 2 * t.bucket_count)  BY <1>3 DEF Grown
  <2>2. t.occupied + 1 < 2 * t.bucket_count /\ 2 * t.bucket_count \in Nat  BY <1>1, <1>3 DEF Roomy
  <2>3. t.occupied < 2 * t.bucket_count  BY <1>1, <2>2
  <2>4. Rehashed(t, Rehash(t, 2 * t.bucket_count), 2 * t.bucket_count)  BY <2>2, <2>3, RehashSound
  <2> HIDE DEF GrownTo
  <2>5. PICK u : u = Rehash(t, 2 * t.bucket_count)  OBVIOUS
  <2>6. GrownTo(t, u)  BY <1>1, <1>3, <2>2, <2>4, <2>5 DEF GrownTo, Rehashed
  <2> QED BY <2>1, <2>5, <2>6
<1>4. CASE t.bucket_count > 0 /\ ~ShouldGrow(t)
  <2>1. Grown(t) = t  BY <1>4 DEF Grown
  <2>2. t.occupied + t.tombstones + 1 < t.bucket_count  BY <1>1, <1>4 DEF ShouldGrow
  <2> QED BY <1>4, <2>1, <2>2 DEF GrownTo
<1> QED BY <1>1, <1>2, <1>3, <1>4

\* u is t with v as the value of f, and still with an empty bucket.
Put(t, u, f, v) ==
    /\ Sound(u) /\ Roomy(u) /\ u.bucket_count > 0
    /\ u.occupied = IF Has(t, f) THEN t.occupied ELSE t.occupied + 1
    /\ Copied(u) = Without(t, f) \cup {<<f, v>>}

LEMMA StoreSound ==
  ASSUME NEW t, Sound(t), t.bucket_count > 0, t.occupied + t.tombstones + 1 < t.bucket_count,
         NEW f \in Fields, NEW v \in Values
  PROVE  Put(t, Stored(t, f, v), f, v)
<1>1. t.bucket_count \in Nat /\ t.occupied \in Nat /\ t.tombstones \in Nat  BY TableFacts DEF Sound
<1>2. CASE Has(t, f)
  <2>1. PICK i \in Occupied(t) : t.buckets[i].field = f  BY <1>2 DEF Has
  <2>2. FindBucket(t, f).was_found /\ FindBucket(t, f).idx = i  BY <2>1, FindPresent
  <2>3. PICK u : u = [t EXCEPT !.buckets[i].value = v]  BY ZenonT(30)
  <2>4. Stored(t, f, v) = u  BY <2>2, <2>3 DEF Stored
  <2>5. Overwritten(t, u, f, v)  BY <2>1, <2>3, OverwriteSound
  <2>6. Roomy(u)  BY <1>1, <2>5 DEF Overwritten, Roomy
  <2> QED BY <1>2, <2>4, <2>5, <2>6 DEF Put, Overwritten
<1>3. CASE ~Has(t, f)
  <2>1. Roomy(t)  BY <1>1 DEF Roomy
  <2>2. PICK u : u = Insert(t, FindBucket(t, f).idx, f, v)  OBVIOUS
  <2>3. ~FindBucket(t, f).was_found /\ Inserted(t, u, f, v)  BY <1>3, <2>1, <2>2, AddField
  <2>4. Stored(t, f, v) = u  BY <2>2, <2>3 DEF Stored
  <2>5. u.tombstones \in Nat  BY <2>3, TableFacts DEF Inserted, Sound
  <2>6. Roomy(u)  BY <1>1, <2>3, <2>5 DEF Inserted, Roomy
  <2>7. Without(t, f) = Copied(t)  BY <1>3, HasCopied DEF Without
  <2> QED BY <1>3, <2>3, <2>4, <2>6, <2>7 DEF Put, Inserted
<1> QED BY <1>2, <1>3

\* pg_redis_shared_hash_set.
LEMMA SetSound ==
  ASSUME NEW t, Sound(t), Roomy(t), NEW f \in Fields, NEW v \in Values
  PROVE  Put(t, Stored(Grown(t), f, v), f, v)
<1>1. PICK u : u = Grown(t)  OBVIOUS
<1>2. GrownTo(t, u)  BY <1>1, GrownSound
<1>3. Put(u, Stored(u, f, v), f, v)  BY <1>2, StoreSound DEF GrownTo
<1>4. Has(u, f) <=> Has(t, f)  BY <1>2, HasCopied DEF GrownTo
<1>5. Without(u, f) = Without(t, f)  BY <1>2 DEF GrownTo, Without
<1> QED BY <1>1, <1>2, <1>3, <1>4, <1>5 DEF Put, GrownTo

\* pg_redis_shared_hash_del, with or without the shrink.
Taken(t, u, f) ==
    /\ Sound(u) /\ Roomy(u) /\ u.bucket_count > 0
    /\ u.occupied = t.occupied - 1 /\ Copied(u) = Without(t, f)

LEMMA DelSound ==
  ASSUME NEW t, Sound(t), Roomy(t), NEW f \in Fields, Has(t, f)
  PROVE  /\ t.bucket_count > 0 /\ t.occupied > 0 /\ Taken(t, Erased(t, f), f)
         /\ ShouldShrink(Erased(t, f)) =>
              Taken(t, Rehash(Erased(t, f), Erased(t, f).bucket_count \div 2), f)
<1>1. PICK u : u = Erased(t, f)  OBVIOUS
<1>2. Removed(t, u, f)  BY <1>1, EraseSound
<1>3. /\ t.bucket_count \in Nat /\ t.occupied \in Nat /\ t.tombstones \in Nat /\ u.occupied \in Nat
      /\ u.tombstones \in Nat /\ DOMAIN t.buckets = 0 .. t.bucket_count - 1
  BY <1>2, TableFacts DEF Sound, Removed
<1>4. t.bucket_count > 0 /\ t.occupied > 0
  <2>1. PICK i : i \in 0 .. t.bucket_count - 1  BY <1>3 DEF Has, Occupied
  <2> QED BY <1>2, <1>3, <2>1 DEF Removed
<1>5. Taken(t, u, f)
  <2>1. Roomy(u)  BY <1>2, <1>3 DEF Roomy, Removed
  <2> QED BY <1>2, <1>4, <2>1 DEF Taken, Removed
<1>6. ASSUME ShouldShrink(u) PROVE Taken(t, Rehash(u, u.bucket_count \div 2), f)
  <2>1. PICK n : n = u.bucket_count \div 2  OBVIOUS
  <2>2. u.bucket_count \in Nat /\ u.bucket_count > 1 /\ u.occupied * 8 < u.bucket_count
    BY <1>2, <1>3, <1>6, HashAssumption DEF ShouldShrink, Removed
  <2>3. n \in Nat /\ n > 0 /\ u.occupied < n  BY <1>3, <2>1, <2>2
  <2>4. PICK w : w = Rehash(u, n)  OBVIOUS
  <2>5. Rehashed(u, w, n)  BY <1>2, <2>3, <2>4, RehashSound DEF Removed
  <2>6. Roomy(w)  BY <1>3, <2>3, <2>5 DEF Roomy, Rehashed
  <2> QED BY <1>2, <2>1, <2>3, <2>4, <2>5, <2>6 DEF Taken, Removed, Rehashed
<1> QED BY <1>1, <1>4, <1>5, <1>6

\* What HGET reads.
LEMMA ValueFacts ==
  ASSUME NEW t, Sound(t), Roomy(t), NEW f \in Fields
  PROVE  /\ Has(t, f) => ValueOf(t, f) \in Values /\ <<f, ValueOf(t, f)>> \in Copied(t)
         /\ ~Has(t, f) => ValueOf(t, f) = NoValue
         /\ Has(t, f) <=> ValueOf(t, f) # NoValue
<1>1. /\ t.bucket_count \in Nat /\ DOMAIN t.buckets = 0 .. t.bucket_count - 1
      /\ \A i \in 0 .. t.bucket_count - 1 : t.buckets[i] \in BucketSet
  BY TableFacts DEF Sound
<1>2. ASSUME Has(t, f) PROVE ValueOf(t, f) \in Values /\ <<f, ValueOf(t, f)>> \in Copied(t)
  <2>1. PICK i \in Occupied(t) : t.buckets[i].field = f  BY <1>2 DEF Has
  <2>2. FindBucket(t, f).was_found /\ FindBucket(t, f).idx = i  BY <2>1, FindPresent
  <2>3. t.bucket_count > 0 /\ t.occupied > 0  BY <1>2, DelSound
  <2>4. ValueOf(t, f) = t.buckets[i].value  BY <1>1, <2>2, <2>3 DEF ValueOf
  <2>5. t.buckets[i].value \in Values  BY <1>1, BucketFacts DEF Occupied
  <2> QED BY <2>1, <2>4, <2>5 DEF Copied
<1>3. ASSUME ~Has(t, f) PROVE ValueOf(t, f) = NoValue
  <2>1. CASE t.bucket_count = 0  BY <2>1 DEF ValueOf
  <2>2. CASE t.bucket_count > 0
    <3>1. ~FindBucket(t, f).was_found  BY <1>3, <2>2, FindAbsent
    <3> QED BY <3>1 DEF ValueOf
  <2> QED BY <1>1, <2>1, <2>2
<1> QED BY <1>2, <1>3, HashAssumption

----------------------------------------------------------------------------
(* The invariant *)

\* The table is sound and has an empty bucket; the counts that the entry and
\* EXPIRE keep, and the chunks, are those of the table.
HashInv ==
    /\ TypeOK
    /\ Sound(table) /\ Roomy(table)
    /\ NoLeak
    /\ ~present => table.occupied = 0
    /\ applying = "no" /\ ~torn => field_count = table.occupied
    /\ applying # "no" => present /\ ~torn /\ count = table.occupied
    /\ applying = "populate" => field_count = 0

\* The chunks of a table follow from its counter.
LEMMA ChunkFacts ==
  ASSUME NEW t, Sound(t)
  PROVE  /\ t.bucket_count \in Nat /\ t.occupied \in Nat
         /\ t.bucket_count = 0 => t.occupied = 0
         /\ HashFree(t) = IF t.bucket_count = 0 THEN 0 ELSE 1 + 2 * t.occupied
<1>1. /\ t.bucket_count \in Nat /\ t.occupied \in Nat /\ DOMAIN t.buckets = 0 .. t.bucket_count - 1
      /\ t.occupied = Cardinality(Occupied(t))
  BY TableFacts DEF Sound, Counting
<1>2. ASSUME t.bucket_count = 0 PROVE t.occupied = 0
  <2>1. Occupied(t) = {}  BY <1>1, <1>2 DEF Occupied
  <2> QED BY <1>1, <2>1, FS_EmptySet
<1> QED BY <1>1, <1>2 DEF HashFree

\* The types of a sound table's buckets.
LEMMA TypeFacts ==
  ASSUME NEW t, Sound(t)
  PROVE  /\ t.bucket_count \in Nat
         /\ \A i \in 0 .. t.bucket_count - 1 : t.buckets[i].state \in {"EMPTY", "OCCUPIED", "TOMBSTONE"}
         /\ DOMAIN t.buckets = 0 .. t.bucket_count - 1
<1>1. /\ t.bucket_count \in Nat /\ DOMAIN t.buckets = 0 .. t.bucket_count - 1
      /\ \A i \in 0 .. t.bucket_count - 1 : t.buckets[i] \in BucketSet
  BY TableFacts DEF Sound
<1>2. ASSUME NEW i \in 0 .. t.bucket_count - 1
      PROVE  t.buckets[i].state \in {"EMPTY", "OCCUPIED", "TOMBSTONE"}
  <2>1. t.buckets[i] \in BucketSet  BY <1>1
  <2> QED BY <2>1, BucketFacts
<1> QED BY <1>1, <1>2

\* What EXPIRE copies.
LEMMA CopiedType ==
  ASSUME NEW t, Sound(t)
  PROVE  Copied(t) \subseteq Fields \X Values
<1> SUFFICES ASSUME NEW p \in Copied(t) PROVE p \in Fields \X Values  OBVIOUS
<1>1. PICK i \in Occupied(t) : p = <<t.buckets[i].field, t.buckets[i].value>>  BY DEF Copied
<1>2. t.buckets[i] \in BucketSet /\ t.buckets[i].state = "OCCUPIED"  BY TableFacts DEF Sound, Occupied
<1>3. t.buckets[i].field \in Fields /\ t.buckets[i].value \in Values  BY <1>2, BucketFacts
<1> QED BY <1>1, <1>3

LEMMA NoTableFacts ==
  /\ Sound(NoTable) /\ Roomy(NoTable) /\ NoTable.occupied = 0 /\ NoTable.bucket_count = 0
  /\ HashFree(NoTable) = 0 /\ Copied(NoTable) = {}
<1>1. 0 \in Nat  OBVIOUS
<1>2. Sound(NoTable) /\ NoTable.occupied = 0 /\ NoTable.bucket_count = 0 /\ Copied(NoTable) = {}
  BY <1>1, AllocSound DEF NoTable
<1> QED BY <1>2, ChunkFacts DEF Roomy

LEMMA InitHashInv == Init => HashInv
<1> SUFFICES ASSUME Init PROVE HashInv  OBVIOUS
<1> USE DEF Init
<1>1. Sound(table) /\ Roomy(table) /\ table.occupied = 0 /\ HashFree(table) = 0  BY NoTableFacts
<1>2. TypeOK
  <2>1. {field_count, chunks, count} \subseteq Nat /\ copy \subseteq Fields \X Values  OBVIOUS
  <2>2. {present, stored, torn} \subseteq BOOLEAN  BY Zenon
  <2>3. applying \in {"no", "surgical", "populate"}  OBVIOUS
  <2> HIDE DEF Init
  <2> QED BY <1>1, <2>1, <2>2, <2>3, TypeFacts, Zenon DEF TypeOK
<1> QED BY <1>1, <1>2 DEF HashInv, NoLeak

\* HSET and EXPIRE's write-back of one field.
LEMMA PutInv ==
  ASSUME HashInv, NEW f \in Fields, NEW v \in Values,
         table' = Stored(Grown(table), f, v),
         chunks' = chunks + NewTable(table) + SetChunks(ValueOf(table, f))
  PROVE  /\ Sound(table)' /\ Roomy(table)' /\ NoLeak' /\ chunks' \in Nat
         /\ table'.occupied = table.occupied + IF ValueOf(table, f) = NoValue THEN 1 ELSE 0
<1>1. Sound(table) /\ Roomy(table) /\ chunks = HashFree(table)  BY DEF HashInv, NoLeak
<1>2. PICK u : u = Stored(Grown(table), f, v)  OBVIOUS
<1>3. Put(table, u, f, v)  BY <1>1, <1>2, SetSound
<1>4. Has(table, f) <=> ValueOf(table, f) # NoValue  BY ZenonT(30), <1>1, ValueFacts
<1>5. /\ u.occupied \in Nat /\ table.occupied \in Nat /\ table.bucket_count \in Nat /\ u.bucket_count > 0
      /\ u.occupied = table.occupied + IF ValueOf(table, f) = NoValue THEN 1 ELSE 0
  <2>1. Sound(u)  BY <1>3 DEF Put
  <2>2. u.occupied \in Nat /\ table.occupied \in Nat /\ table.bucket_count \in Nat  BY <1>1, <2>1, ChunkFacts
  <2> QED BY <1>3, <1>4, <2>2 DEF Put
<1>6. HashFree(u) = 1 + 2 * u.occupied
  <2>1. Sound(u)  BY <1>3 DEF Put
  <2> QED BY <1>5, <2>1, ChunkFacts
<1>7. chunks' = HashFree(u) /\ chunks' \in Nat
  <2>1. HashFree(table) = IF table.bucket_count = 0 THEN 0 ELSE 1 + 2 * table.occupied  BY <1>1, ChunkFacts
  <2>2. table.bucket_count = 0 => table.occupied = 0  BY <1>1, ChunkFacts
  <2> QED BY <1>1, <1>5, <1>6, <2>1, <2>2 DEF NewTable, SetChunks
<1>8. table' = u  BY <1>2
<1> QED BY <1>3, <1>5, <1>7, <1>8 DEF Put, NoLeak

\* A table that grows for a command that then fails.
LEMMA GrowInv ==
  ASSUME HashInv, table' = Grown(table), chunks' = chunks + NewTable(table)
  PROVE  /\ Sound(table)' /\ Roomy(table)' /\ NoLeak' /\ chunks' \in Nat
         /\ table'.occupied = table.occupied
<1>1. Sound(table) /\ Roomy(table) /\ chunks = HashFree(table)  BY DEF HashInv, NoLeak
<1>2. PICK u : u = Grown(table)  OBVIOUS
<1>3. GrownTo(table, u)  BY <1>1, <1>2, GrownSound
<1>4. Sound(u) /\ u.bucket_count > 0 /\ u.occupied = table.occupied  BY <1>3 DEF GrownTo
<1>5. Roomy(u)
  <2>1. u.occupied \in Nat /\ u.tombstones \in Nat /\ u.bucket_count \in Nat  BY <1>4, TableFacts DEF Sound
  <2> QED BY <1>3, <2>1 DEF GrownTo, Roomy
<1>6. chunks' = HashFree(u) /\ chunks' \in Nat
  <2>1. HashFree(table) = IF table.bucket_count = 0 THEN 0 ELSE 1 + 2 * table.occupied  BY <1>1, ChunkFacts
  <2>2. table.bucket_count = 0 => table.occupied = 0  BY <1>1, ChunkFacts
  <2>3. HashFree(u) = 1 + 2 * u.occupied /\ u.occupied \in Nat  BY <1>4, ChunkFacts
  <2> QED BY <1>1, <1>4, <2>1, <2>2, <2>3 DEF NewTable
<1>7. table' = u  BY <1>2
<1> QED BY <1>4, <1>5, <1>6, <1>7 DEF NoLeak

\* HDEL.
LEMMA TakeInv ==
  ASSUME HashInv, NEW f \in Fields, ValueOf(table, f) # NoValue,
         \/ table' = Erased(table, f)
         \/ ShouldShrink(Erased(table, f)) /\ table' = Rehash(Erased(table, f), Erased(table, f).bucket_count \div 2),
         chunks' = chunks - 2
  PROVE  /\ Sound(table)' /\ Roomy(table)' /\ NoLeak' /\ chunks' \in Nat
         /\ table.occupied > 0 /\ table'.occupied = table.occupied - 1
<1>1. Sound(table) /\ Roomy(table) /\ chunks = HashFree(table)  BY DEF HashInv, NoLeak
<1>2. Has(table, f)  BY ZenonT(30), <1>1, ValueFacts
<1>3. PICK u : u = table'  OBVIOUS
<1>4. table.bucket_count > 0 /\ table.occupied > 0 /\ Taken(table, u, f)  BY <1>1, <1>2, <1>3, DelSound
<1>5. Sound(u) /\ Roomy(u) /\ u.bucket_count > 0 /\ u.occupied = table.occupied - 1  BY <1>4 DEF Taken
<1>6. chunks' = HashFree(u) /\ chunks' \in Nat
  <2>1. /\ HashFree(table) = IF table.bucket_count = 0 THEN 0 ELSE 1 + 2 * table.occupied
        /\ table.occupied \in Nat /\ table.bucket_count \in Nat
    BY <1>1, ChunkFacts
  <2>2. HashFree(u) = 1 + 2 * u.occupied /\ u.occupied \in Nat  BY <1>5, ChunkFacts
  <2> QED BY <1>1, <1>4, <1>5, <2>1, <2>2
<1> QED BY <1>3, <1>4, <1>5, <1>6 DEF NoLeak

\* What every step has to show.
LEMMA HashInvFrom ==
  ASSUME Sound(table)', Roomy(table)', NoLeak',
         (field_count \in Nat)', (chunks \in Nat)', (count \in Nat)',
         ({present, stored, torn} \subseteq BOOLEAN)', (copy \subseteq Fields \X Values)',
         (applying \in {"no", "surgical", "populate"})',
         (~present => table.occupied = 0)',
         (applying = "no" /\ ~torn => field_count = table.occupied)',
         (applying # "no" => present /\ ~torn /\ count = table.occupied)',
         (applying = "populate" => field_count = 0)'
  PROVE  HashInv'
<1>1. PICK u : u = table'  OBVIOUS
<1>2. Sound(u)  BY <1>1
<1>3. /\ u.bucket_count \in Nat
      /\ \A i \in 0 .. u.bucket_count - 1 : u.buckets[i].state \in {"EMPTY", "OCCUPIED", "TOMBSTONE"}
      /\ DOMAIN u.buckets = 0 .. u.bucket_count - 1
  BY <1>2, TypeFacts
<1>4. ({field_count, chunks, count} \subseteq Nat)'  OBVIOUS
<1>5. TypeOK'  BY <1>1, <1>3, <1>4, Zenon DEF TypeOK
<1> QED BY <1>5, Zenon DEF HashInv

LEMMA NextHashInv == HashInv /\ [Next]_vars => HashInv'
<1> SUFFICES ASSUME HashInv, [Next]_vars PROVE HashInv'  OBVIOUS
<1>1. /\ Sound(table) /\ Roomy(table) /\ NoLeak /\ table.occupied \in Nat
      /\ field_count \in Nat /\ chunks \in Nat /\ count \in Nat
      /\ copy \subseteq Fields \X Values /\ applying \in {"no", "surgical", "populate"}
  <2>1. Sound(table) /\ Roomy(table) /\ NoLeak  BY DEF HashInv
  <2>2. table.occupied \in Nat  BY <2>1, ChunkFacts
  <2> QED BY <2>1, <2>2 DEF HashInv, TypeOK
<1>2. present \in BOOLEAN /\ stored \in BOOLEAN /\ torn \in BOOLEAN  BY Zenon DEF HashInv, TypeOK
<1>3. /\ ~present => table.occupied = 0
      /\ applying = "no" /\ ~torn => field_count = table.occupied
      /\ applying # "no" => present /\ ~torn /\ count = table.occupied
      /\ applying = "populate" => field_count = 0
  BY DEF HashInv
<1>4. ASSUME NEW f \in Fields, NEW v \in Values, Hset(f, v) PROVE HashInv'
  <2>1. /\ Sound(table)' /\ Roomy(table)' /\ NoLeak' /\ chunks' \in Nat
        /\ table'.occupied = table.occupied + IF ValueOf(table, f) = NoValue THEN 1 ELSE 0
    BY <1>4, PutInv DEF Hset
  <2>2. /\ applying = "no" /\ ~torn /\ field_count' = field_count + IF ValueOf(table, f) = NoValue THEN 1 ELSE 0
        /\ present' = TRUE
        /\ stored' = stored /\ copy' = copy /\ applying' = applying /\ count' = count /\ torn' = torn
    BY <1>4 DEF Hset, Unlocked, expireVars
  <2>3. ({present, stored, torn} \subseteq BOOLEAN)'  BY <1>2, <2>2, Zenon
  <2>4. field_count' \in Nat /\ field_count' = table'.occupied  BY <1>1, <1>3, <2>1, <2>2
  <2> QED BY <1>1, <2>1, <2>2, <2>3, <2>4, HashInvFrom
<1>5. ASSUME HsetFails PROVE HashInv'
  <2>1. /\ Sound(table)' /\ Roomy(table)' /\ NoLeak' /\ chunks' \in Nat /\ table'.occupied = table.occupied
    <3>1. CASE UNCHANGED <<table, chunks>>  BY <1>1, <3>1 DEF NoLeak
    <3>2. CASE table' = Grown(table) /\ chunks' = chunks + NewTable(table)  BY <3>2, GrowInv
    <3> QED BY <1>5, <3>1, <3>2 DEF HsetFails
  <2>2. /\ applying = "no" /\ ~torn /\ field_count' = field_count /\ present' = TRUE
        /\ stored' = stored /\ copy' = copy /\ applying' = applying /\ count' = count /\ torn' = torn
    BY <1>5 DEF HsetFails, Unlocked, expireVars
  <2>3. ({present, stored, torn} \subseteq BOOLEAN)'  BY <1>2, <2>2, Zenon
  <2> QED BY <1>1, <1>3, <2>1, <2>2, <2>3, HashInvFrom
<1>6. ASSUME NEW f \in Fields, Hdel(f) PROVE HashInv'
  <2>1. /\ Sound(table)' /\ Roomy(table)' /\ NoLeak' /\ chunks' \in Nat
        /\ table.occupied > 0 /\ table'.occupied = table.occupied - 1
    BY <1>6, TakeInv DEF Hdel
  <2>2. /\ applying = "no" /\ ~torn /\ field_count' = field_count - 1 /\ present' = present
        /\ stored' = stored /\ copy' = copy /\ applying' = applying /\ count' = count /\ torn' = torn
    BY <1>6 DEF Hdel, Unlocked, expireVars
  <2>3. ({present, stored, torn} \subseteq BOOLEAN)'  BY <1>2, <2>2, Zenon
  <2>4. field_count' \in Nat /\ field_count' = table'.occupied /\ present  BY <1>1, <1>3, <2>1, <2>2
  <2> QED BY <1>1, <2>1, <2>2, <2>3, <2>4, HashInvFrom
<1>7. ASSUME UNCHANGED <<present, table, field_count, chunks, expireVars>> PROVE HashInv'
  <2>1. /\ table' = table /\ chunks' = chunks /\ field_count' = field_count /\ present' = present
        /\ stored' = stored /\ copy' = copy /\ applying' = applying /\ count' = count /\ torn' = torn
    BY <1>7 DEF expireVars
  <2>2. ({present, stored, torn} \subseteq BOOLEAN)'  BY <1>2, <2>1, Zenon
  <2>3. Sound(table)' /\ Roomy(table)' /\ NoLeak'  BY <1>1, <2>1 DEF NoLeak
  <2> QED BY <1>1, <1>3, <2>1, <2>2, <2>3, HashInvFrom
<1>8. ASSUME Remove PROVE HashInv'
  <2>1. /\ table' = NoTable /\ chunks' = chunks - HashFree(table) /\ field_count' = 0 /\ present' = FALSE
        /\ applying = "no" /\ ~torn
        /\ stored' = stored /\ copy' = copy /\ applying' = applying /\ count' = count /\ torn' = torn
    BY <1>8 DEF Remove, Unlocked, expireVars
  <2>2. ({present, stored, torn} \subseteq BOOLEAN)'  BY <1>2, <2>1, Zenon
  <2>3. Sound(table)' /\ Roomy(table)' /\ table'.occupied = 0 /\ HashFree(table)' = 0  BY <2>1, NoTableFacts
  <2>4. chunks' = 0 /\ NoLeak'  BY <1>1, <2>1, <2>3 DEF NoLeak
  <2> QED BY <1>1, <2>1, <2>2, <2>3, <2>4, HashInvFrom
<1>9. ASSUME Expire PROVE HashInv'
  <2>1. /\ table' = table /\ chunks' = chunks /\ field_count' = field_count /\ present' = present
        /\ stored' = stored /\ copy' = Copied(table) /\ applying' = applying /\ count' = count /\ torn' = torn
    BY <1>9 DEF Expire
  <2>2. ({present, stored, torn} \subseteq BOOLEAN)'  BY <1>2, <2>1, Zenon
  <2>3. Sound(table)' /\ Roomy(table)' /\ NoLeak'  BY <1>1, <2>1 DEF NoLeak
  <2>4. Copied(table) \subseteq Fields \X Values  BY <1>1, CopiedType
  <2> QED BY <1>1, <1>3, <2>1, <2>2, <2>3, <2>4, HashInvFrom
<1>10. ASSUME BeginApply PROVE HashInv'
  <2>1. /\ table' = table /\ chunks' = chunks /\ field_count' = field_count /\ present' = TRUE
        /\ stored' = stored /\ copy' = copy /\ torn' = torn /\ applying = "no" /\ ~torn
        /\ applying' = IF present THEN "surgical" ELSE "populate"
        /\ count' = IF present THEN field_count ELSE 0
    BY <1>10 DEF BeginApply, Unlocked
  <2>2. ({present, stored, torn} \subseteq BOOLEAN)'  BY <1>2, <2>1, Zenon
  <2>3. Sound(table)' /\ Roomy(table)' /\ NoLeak'  BY <1>1, <2>1 DEF NoLeak
  <2>4. /\ applying' \in {"surgical", "populate"} /\ count' = table.occupied
        /\ applying' = "populate" => field_count = 0
    BY <1>3, <2>1
  <2> QED BY <1>1, <2>1, <2>2, <2>3, <2>4, HashInvFrom
<1>11. ASSUME NEW f \in Fields, NEW v \in Values, ApplyField(f, v) PROVE HashInv'
  <2>1. /\ Sound(table)' /\ Roomy(table)' /\ NoLeak' /\ chunks' \in Nat
        /\ table'.occupied = table.occupied + IF ValueOf(table, f) = NoValue THEN 1 ELSE 0
    BY <1>11, PutInv DEF ApplyField
  <2>2. /\ applying # "no" /\ count' = count + IF ValueOf(table, f) = NoValue THEN 1 ELSE 0
        /\ present' = present /\ field_count' = field_count /\ applying' = applying /\ torn' = torn
        /\ stored' = (stored /\ Grown(table) = table) /\ copy' = copy \ {<<f, v>>}
    BY <1>11 DEF ApplyField
  <2>3. ({present, stored, torn} \subseteq BOOLEAN)'  BY <1>2, <2>2, Zenon
  <2>4. count' \in Nat /\ count' = table'.occupied  BY <1>1, <1>3, <2>1, <2>2
  <2> QED BY <1>1, <1>3, <2>1, <2>2, <2>3, <2>4, HashInvFrom
<1>12. ASSUME EndApply PROVE HashInv'
  <2>1. /\ table' = table /\ chunks' = chunks /\ field_count' = count /\ present' = present
        /\ stored' = TRUE /\ copy' = copy /\ torn' = torn /\ applying # "no"
        /\ applying' = "no" /\ count' = 0
    BY <1>12 DEF EndApply
  <2>2. ({present, stored, torn} \subseteq BOOLEAN)'  BY <1>2, <2>1, Zenon
  <2>3. Sound(table)' /\ Roomy(table)' /\ NoLeak'  BY <1>1, <2>1 DEF NoLeak
  <2> QED BY <1>1, <1>3, <2>1, <2>2, <2>3, HashInvFrom
<1>13. ASSUME PopulateFails PROVE HashInv'
  <2>1. /\ table' = NoTable /\ chunks' = chunks - HashFree(table) /\ field_count' = field_count
        /\ present' = present /\ applying = "populate" /\ torn' = torn
        /\ stored' = TRUE /\ copy' = {} /\ applying' = "no" /\ count' = 0
    BY <1>13 DEF PopulateFails, ApplyStops
  <2>2. ({present, stored, torn} \subseteq BOOLEAN)'  BY <1>2, <2>1, Zenon
  <2>3. Sound(table)' /\ Roomy(table)' /\ table'.occupied = 0 /\ HashFree(table)' = 0  BY <2>1, NoTableFacts
  <2>4. chunks' = 0 /\ NoLeak'  BY <1>1, <2>1, <2>3 DEF NoLeak
  <2> QED BY <1>1, <1>3, <2>1, <2>2, <2>3, <2>4, HashInvFrom
<1>14. ASSUME SurgicalFails PROVE HashInv'
  <2>1. /\ Sound(table)' /\ Roomy(table)' /\ NoLeak' /\ chunks' \in Nat /\ table'.occupied = table.occupied
    <3>1. CASE UNCHANGED <<table, stored, chunks>>  BY <1>1, <3>1 DEF NoLeak
    <3>2. CASE table' = Grown(table) /\ chunks' = chunks + NewTable(table)  BY <3>2, GrowInv
    <3> QED BY <1>14, <3>1, <3>2 DEF SurgicalFails
  <2>2. /\ field_count' = field_count /\ present' = present /\ applying = "surgical"
        /\ copy' = {} /\ applying' = "no" /\ count' = 0 /\ torn' = TRUE
    BY <1>14 DEF SurgicalFails, ApplyStops
  <2>3. stored' = stored \/ stored' = (stored /\ Grown(table) = table)  BY <1>14, Zenon DEF SurgicalFails
  <2>4. ({present, stored, torn} \subseteq BOOLEAN)'  BY <1>2, <2>2, <2>3, Zenon
  <2> QED BY <1>1, <1>3, <2>1, <2>2, <2>4, HashInvFrom
<1>15. CASE UNCHANGED vars  BY <1>7, <1>15 DEF vars, expireVars
<1>16. ASSUME NEW f \in Fields, HdelMissing(f) \/ Hget(f) PROVE HashInv'
  BY <1>7, <1>16 DEF HdelMissing, Hget
<1> QED
  BY <1>4, <1>5, <1>6, <1>8, <1>9, <1>10, <1>11, <1>12, <1>13, <1>14, <1>15, <1>16 DEF Next

----------------------------------------------------------------------------
(* The theorems *)

\* HashInv holds in every state of every run.
THEOREM HashInvariant == Spec => []HashInv
<1>1. Init => HashInv  BY InitHashInv
<1>2. HashInv /\ [Next]_vars => HashInv'  BY NextHashInv
<1> QED BY <1>1, <1>2, PTL DEF Spec

\* The variables keep their types.
THEOREM HashTypeCorrect == Spec => []TypeOK
<1>1. HashInv => TypeOK  BY DEF HashInv
<1> QED BY <1>1, HashInvariant, PTL

\* find_bucket finds every field, in its own bucket: no insertion, removal,
\* growth or shrink cuts a probe chain or stores a field twice, whatever the
\* fields hash to and however many there are.
THEOREM FieldsReachable == Spec => []Reachable
<1>1. HashInv => Reachable
  <2> SUFFICES ASSUME HashInv, NEW i \in Occupied(table)
               PROVE  /\ FindBucket(table, table.buckets[i].field).was_found
                      /\ FindBucket(table, table.buckets[i].field).idx = i
    BY DEF Reachable
  <2>1. Sound(table)  BY DEF HashInv
  <2>2. table.buckets[i] \in BucketSet  BY <2>1, TableFacts DEF Sound, Occupied
  <2>3. table.buckets[i].field \in Fields  BY <2>2, BucketFacts DEF Occupied
  <2> QED BY <2>1, <2>3, FindPresent
<1> QED BY <1>1, HashInvariant, PTL

\* A search that does not find its field ends at an empty bucket: the table is
\* never saturated, because growth counts the tombstones and a shrink leaves
\* room.
THEOREM NeverSaturated == Spec => []EmptyRemains
<1>1. HashInv => EmptyRemains
  <2> SUFFICES ASSUME HashInv, table.bucket_count > 0
               PROVE  \E i \in DOMAIN table.buckets : table.buckets[i] = Free
    BY DEF EmptyRemains
  <2>1. Sound(table) /\ Roomy(table)  BY DEF HashInv
  <2>2. DOMAIN table.buckets = 0 .. table.bucket_count - 1  BY <2>1, TableFacts DEF Sound
  <2> QED BY <2>1, <2>2, EmptyBucket
<1> QED BY <1>1, HashInvariant, PTL

\* occupied, tombstones and the entry's field_count are exact, except for the
\* last one after surgical_apply_hash has ended in an error.
THEOREM HashCountsExact == Spec => []CountsExact
<1>1. HashInv => CountsExact  BY DEF HashInv, CountsExact, Sound, Counting, Graves
<1> QED BY <1>1, HashInvariant, PTL

\* Freeing the table frees every chunk of the hash, whichever allocations have
\* failed.
THEOREM HashNeverLeaks == Spec => []NoLeak
<1>1. HashInv => NoLeak  BY DEF HashInv
<1> QED BY <1>1, HashInvariant, PTL

----------------------------------------------------------------------------
(* The refinement *)

\* The map that a table stands for.
MapOf(t) ==
    LET bucket(f) == CHOOSE i \in DOMAIN t.buckets : t.buckets[i].field = f
        held == {t.buckets[i].field : i \in DOMAIN t.buckets}
    IN [f \in Fields |-> IF f \in held THEN t.buckets[bucket(f)].value ELSE NoValue]

\* It is the map that HGET reads.
LEMMA MapIsValueOf ==
  ASSUME NEW t, Sound(t), Roomy(t)
  PROVE  MapOf(t) = [f \in Fields |-> ValueOf(t, f)]
<1> DEFINE bucket(f) == CHOOSE i \in DOMAIN t.buckets : t.buckets[i].field = f
           held == {t.buckets[i].field : i \in DOMAIN t.buckets}
           value(f) == IF f \in held THEN t.buckets[bucket(f)].value ELSE NoValue
<1>1. /\ t.bucket_count \in Nat /\ DOMAIN t.buckets = 0 .. t.bucket_count - 1
      /\ \A i \in DOMAIN t.buckets : t.buckets[i] \in BucketSet
  BY TableFacts DEF Sound
<1>2. ASSUME NEW f \in Fields, NEW i \in DOMAIN t.buckets, t.buckets[i].field = f PROVE i \in Occupied(t)
  BY <1>1, <1>2, BucketFacts DEF Occupied
<1>3. ASSUME NEW f \in Fields PROVE value(f) = ValueOf(t, f)
  <2>1. CASE f \in held
    <3>1. PICK i \in DOMAIN t.buckets : t.buckets[i].field = f  BY <2>1
    <3>2. bucket(f) \in DOMAIN t.buckets /\ t.buckets[bucket(f)].field = f  BY <3>1
    <3>3. PICK j : j = bucket(f)  OBVIOUS
    <3>4. j \in Occupied(t) /\ t.buckets[j].field = f  BY ZenonT(30), <1>2, <3>2, <3>3
    <3>5. FindBucket(t, f).was_found /\ FindBucket(t, f).idx = j  BY <3>4, FindPresent
    <3>6. Has(t, f)  BY <3>4 DEF Has
    <3>7. t.bucket_count > 0 /\ t.occupied > 0  BY <3>6, DelSound
    <3>8. ValueOf(t, f) = t.buckets[j].value  BY <1>1, <3>5, <3>7 DEF ValueOf
    <3> HIDE DEF bucket, held
    <3> QED BY <2>1, <3>3, <3>8
  <2>2. CASE f \notin held
    <3>1. ~Has(t, f)  BY <2>2 DEF Has, Occupied
    <3>2. ValueOf(t, f) = NoValue  BY ZenonT(30), <3>1, ValueFacts
    <3> HIDE DEF bucket, held
    <3> QED BY <2>2, <3>2
  <2> HIDE DEF held
  <2> QED BY <2>1, <2>2
<1>4. MapOf(t) = [f \in Fields |-> value(f)]  BY DEF MapOf
<1> HIDE DEF value
<1> QED BY <1>3, <1>4

\* Two tables that hold the same value of f, or both none.
LEMMA SameValue ==
  ASSUME NEW t, Sound(t), Roomy(t), NEW u, Sound(u), Roomy(u), NEW f \in Fields,
         \A v : <<f, v>> \in Copied(u) <=> <<f, v>> \in Copied(t)
  PROVE  ValueOf(u, f) = ValueOf(t, f)
<1>1. ASSUME NEW w, Sound(w), Roomy(w), NEW v, <<f, v>> \in Copied(w) PROVE v = ValueOf(w, f)
  <2>1. PICK i \in Occupied(w) : <<f, v>> = <<w.buckets[i].field, w.buckets[i].value>>  BY <1>1 DEF Copied
  <2>2. w.buckets[i].field = f /\ w.buckets[i].value = v  BY <2>1
  <2>3. Has(w, f)  BY <2>2 DEF Has
  <2>4. FindBucket(w, f).was_found /\ FindBucket(w, f).idx = i  BY <1>1, <2>2, FindPresent
  <2>5. w.bucket_count > 0 /\ w.occupied > 0  BY <1>1, <2>3, DelSound
  <2>6. w.bucket_count \in Nat /\ w.occupied \in Nat  BY <1>1, ChunkFacts
  <2> QED BY <2>2, <2>4, <2>5, <2>6 DEF ValueOf
<1>2. CASE Has(t, f)
  <2>1. <<f, ValueOf(t, f)>> \in Copied(t)  BY <1>2, ValueFacts
  <2>2. <<f, ValueOf(t, f)>> \in Copied(u)  BY <2>1
  <2> QED BY <1>1, <2>2
<1>3. CASE Has(u, f)
  <2>1. <<f, ValueOf(u, f)>> \in Copied(u)  BY <1>3, ValueFacts
  <2>2. <<f, ValueOf(u, f)>> \in Copied(t)  BY <2>1
  <2> QED BY <1>1, <2>2
<1>4. CASE ~Has(t, f) /\ ~Has(u, f)  BY ZenonT(30), <1>4, ValueFacts
<1> QED BY <1>2, <1>3, <1>4

\* Tables that hold the same fields and values stand for the same map.
LEMMA SameMap ==
  ASSUME NEW t, Sound(t), Roomy(t), NEW u, Sound(u), Roomy(u), Copied(u) = Copied(t)
  PROVE  MapOf(u) = MapOf(t)
<1>1. \A f \in Fields : ValueOf(u, f) = ValueOf(t, f)  BY SameValue
<1> QED BY <1>1, MapIsValueOf

LEMMA PutMap ==
  ASSUME NEW t, Sound(t), Roomy(t), NEW u, NEW f \in Fields, NEW v \in Values, Put(t, u, f, v)
  PROVE  MapOf(u) = [MapOf(t) EXCEPT ![f] = v]
<1>1. Sound(u) /\ Roomy(u) /\ Copied(u) = Without(t, f) \cup {<<f, v>>}  BY DEF Put
<1>2. ValueOf(u, f) = v
  <2>1. Has(u, f)
    <3>1. <<f, v>> \in Copied(u) /\ <<f, v>>[1] = f  BY <1>1
    <3> QED BY <3>1, HasCopied
  <2>2. <<f, ValueOf(u, f)>> \in Copied(u)  BY <1>1, <2>1, ValueFacts
  <2>3. <<f, ValueOf(u, f)>> \notin Without(t, f)  BY DEF Without
  <2> QED BY <1>1, <2>2, <2>3
<1>3. ASSUME NEW g \in Fields, g # f PROVE ValueOf(u, g) = ValueOf(t, g)
  <2>1. ASSUME NEW w PROVE <<g, w>> \in Copied(u) <=> <<g, w>> \in Copied(t)
    <3>1. <<g, w>> # <<f, v>> /\ <<g, w>>[1] # f  BY <1>3
    <3> QED BY <1>1, <3>1 DEF Without
  <2> QED BY <1>1, <2>1, SameValue
<1>4. MapOf(u) = [g \in Fields |-> ValueOf(u, g)] /\ MapOf(t) = [g \in Fields |-> ValueOf(t, g)]
  BY <1>1, MapIsValueOf
<1> QED BY <1>2, <1>3, <1>4

LEMMA TakenMap ==
  ASSUME NEW t, Sound(t), Roomy(t), NEW u, NEW f \in Fields, Taken(t, u, f)
  PROVE  MapOf(u) = [MapOf(t) EXCEPT ![f] = NoValue]
<1>1. Sound(u) /\ Roomy(u) /\ Copied(u) = Without(t, f)  BY DEF Taken
<1>2. ValueOf(u, f) = NoValue
  <2>1. ~Has(u, f)  BY <1>1, HasCopied DEF Without
  <2> QED BY ZenonT(30), <1>1, <2>1, ValueFacts
<1>3. ASSUME NEW g \in Fields, g # f PROVE ValueOf(u, g) = ValueOf(t, g)
  <2>1. ASSUME NEW w PROVE <<g, w>> \in Copied(u) <=> <<g, w>> \in Copied(t)
    <3>1. <<g, w>>[1] # f  BY <1>3
    <3> QED BY <1>1, <3>1 DEF Without
  <2> QED BY <1>1, <2>1, SameValue
<1>4. MapOf(u) = [g \in Fields |-> ValueOf(u, g)] /\ MapOf(t) = [g \in Fields |-> ValueOf(t, g)]
  BY <1>1, MapIsValueOf
<1> QED BY <1>2, <1>3, <1>4

\* The table of a key that has no hash stands for the empty map.
LEMMA NoTableMap == MapOf(NoTable) = Abstract!None
<1>1. \A f \in Fields : ValueOf(NoTable, f) = NoValue  BY NoTableFacts DEF ValueOf
<1>2. MapOf(NoTable) = [f \in Fields |-> ValueOf(NoTable, f)]  BY NoTableFacts, MapIsValueOf
<1> QED BY <1>1, <1>2 DEF Abstract!None

LEMMA ContentsFacts == Contents = MapOf(table) /\ Contents' = MapOf(table')
BY DEF Contents, MapOf

LEMMA InitRefines == Init => Abstract!Init
<1> SUFFICES ASSUME Init PROVE Abstract!Init  OBVIOUS
<1>1. Contents = Abstract!None  BY ContentsFacts, NoTableMap DEF Init
<1> QED BY <1>1 DEF Abstract!Init, Init

LEMMA NextRefines == HashInv /\ [Next]_vars => [Abstract!Next]_<<Contents, reply>>
<1> SUFFICES ASSUME HashInv, [Next]_vars PROVE Abstract!Next \/ UNCHANGED <<Contents, reply>>  OBVIOUS
<1>1. Sound(table) /\ Roomy(table)  BY DEF HashInv
<1>2. Contents = [f \in Fields |-> ValueOf(table, f)]  BY <1>1, ContentsFacts, MapIsValueOf
<1>3. ASSUME NEW f \in Fields, NEW v \in Values, table' = Stored(Grown(table), f, v)
      PROVE  Contents' = [Contents EXCEPT ![f] = v]
  <2>1. Put(table, Stored(Grown(table), f, v), f, v)  BY <1>1, SetSound
  <2>2. MapOf(table') = [MapOf(table) EXCEPT ![f] = v]  BY <1>1, <1>3, <2>1, PutMap
  <2> QED BY <2>2, ContentsFacts
<1>4. ASSUME table' = Grown(table) PROVE Contents' = Contents
  <2>1. GrownTo(table, Grown(table))  BY <1>1, GrownSound
  <2>2. PICK u : u = Grown(table)  OBVIOUS
  <2>3. Sound(u) /\ Copied(u) = Copied(table)  BY <2>1, <2>2 DEF GrownTo
  <2>4. Roomy(u)
    <3>1. u.occupied \in Nat /\ u.tombstones \in Nat /\ u.bucket_count \in Nat  BY <2>3, TableFacts DEF Sound
    <3> QED BY <2>1, <2>2, <3>1 DEF GrownTo, Roomy
  <2>5. MapOf(u) = MapOf(table)  BY <1>1, <2>3, <2>4, SameMap
  <2> QED BY <1>4, <2>2, <2>5, ContentsFacts
<1>5. ASSUME table' = table PROVE Contents' = Contents  BY <1>5, ContentsFacts
<1>6. ASSUME NEW f \in Fields, NEW v \in Values, Hset(f, v) PROVE Abstract!Next
  <2>1. Contents' = [Contents EXCEPT ![f] = v]  BY <1>3, <1>6 DEF Hset
  <2>2. Contents[f] = ValueOf(table, f)  BY <1>2
  <2>3. reply' = IF ValueOf(table, f) = NoValue THEN "new" ELSE "old"  BY <1>6 DEF Hset
  <2>4. reply' \in {"new", "old"} /\ (reply' = "new" <=> Contents[f] = NoValue)  BY <2>2, <2>3
  <2>5. Abstract!Hset(f, v)  BY <2>1, <2>4 DEF Abstract!Hset
  <2> QED BY <2>5 DEF Abstract!Next
<1>7. ASSUME HsetFails PROVE Abstract!Next
  <2>1. Contents' = Contents  BY <1>4, <1>5, <1>7 DEF HsetFails
  <2>2. Abstract!Fails  BY <1>7, <2>1 DEF HsetFails, Abstract!Fails
  <2> QED BY <2>2 DEF Abstract!Next
<1>8. ASSUME NEW f \in Fields, Hdel(f) PROVE Abstract!Next
  <2>1. Has(table, f)  BY ZenonT(30), <1>1, <1>8, ValueFacts DEF Hdel
  <2>2. PICK u : u = table'  OBVIOUS
  <2>3. Taken(table, u, f)  BY <1>1, <1>8, <2>1, <2>2, DelSound DEF Hdel
  <2>4. Contents' = [Contents EXCEPT ![f] = NoValue]  BY <1>1, <2>2, <2>3, TakenMap, ContentsFacts
  <2>5. Contents[f] # NoValue  BY <1>2, <1>8 DEF Hdel
  <2>6. reply' = "removed"  BY <1>8 DEF Hdel
  <2>7. Abstract!Hdel(f)  BY <2>4, <2>5, <2>6 DEF Abstract!Hdel
  <2> QED BY <2>7 DEF Abstract!Next
<1>9. ASSUME NEW f \in Fields, HdelMissing(f) PROVE Abstract!Next
  <2>1. Contents' = Contents /\ reply' = "missing"  BY <1>5, <1>9 DEF HdelMissing
  <2>2. Contents[f] = NoValue  BY <1>2, <1>9 DEF HdelMissing
  <2>3. [Contents EXCEPT ![f] = NoValue] = Contents  BY <1>2, <2>2
  <2>4. Abstract!Hdel(f)  BY <2>1, <2>2, <2>3 DEF Abstract!Hdel
  <2> QED BY <2>4 DEF Abstract!Next
<1>10. ASSUME NEW f \in Fields, Hget(f) PROVE Abstract!Next
  <2>1. Contents' = Contents  BY <1>5, <1>10 DEF Hget
  <2>2. Contents[f] = ValueOf(table, f)  BY <1>2
  <2>3. reply' = IF ValueOf(table, f) = NoValue THEN "missing" ELSE "found"  BY <1>10 DEF Hget
  <2>4. reply' \in {"found", "missing"} /\ (reply' = "missing" <=> Contents[f] = NoValue)  BY <2>2, <2>3
  <2>5. Abstract!Hget(f)  BY <2>1, <2>4 DEF Abstract!Hget
  <2> QED BY <2>5 DEF Abstract!Next
<1>11. ASSUME table' = NoTable, reply' = reply PROVE Abstract!Next
  <2>1. Contents' = Abstract!None  BY <1>11, ContentsFacts, NoTableMap
  <2>2. Abstract!Remove  BY <1>11, <2>1 DEF Abstract!Remove
  <2> QED BY <2>2 DEF Abstract!Next
<1>12. ASSUME NEW f \in Fields, NEW v \in Values, ApplyField(f, v) PROVE Abstract!Next
  <2>1. Contents' = [Contents EXCEPT ![f] = v]  BY <1>3, <1>12 DEF ApplyField
  <2>2. Abstract!Rewrite(f, v)  BY <1>12, <2>1 DEF ApplyField, Abstract!Rewrite
  <2> QED BY <2>2 DEF Abstract!Next
<1>13. ASSUME table' = table \/ table' = Grown(table), reply' = reply PROVE UNCHANGED <<Contents, reply>>
  BY <1>4, <1>5, <1>13
<1>14. CASE Remove \/ PopulateFails  BY <1>11, <1>14 DEF Remove, PopulateFails, ApplyStops
<1>15. CASE Expire \/ BeginApply \/ EndApply \/ SurgicalFails \/ UNCHANGED vars
  BY <1>13, <1>15 DEF Expire, BeginApply, EndApply, SurgicalFails, ApplyStops, vars
<1> QED BY <1>6, <1>7, <1>8, <1>9, <1>10, <1>12, <1>14, <1>15 DEF Next

\* The table of shared_hash.c implements a map: with its collisions, rehashes,
\* tombstones and failing allocations, HSET, HDEL, HGET, the removal of the key
\* and EXPIRE's write-back change and read it as a map of any fields and values.
THEOREM HashImplementsMap == Spec => ImplementsMap
<1> USE DEF Spec, ImplementsMap, Abstract!Spec, Abstract!vars
<1> QED BY InitRefines, NextRefines, InitHashInv, NextHashInv, PTL
=============================================================================
