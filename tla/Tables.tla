------------------------------- MODULE Tables -------------------------------
(***************************************************************************)
(* The durable tables pgredis.store, hash_fields and list_items, and the   *)
(* six array-form SPI statements that persistence.c runs on them, always   *)
(* in the same order, from async_drain and from run_flush.                 *)
(*                                                                         *)
(* A table is a function from its primary key to a row or NoRow.  The      *)
(* children's foreign key to store is ON DELETE CASCADE.  A statement that *)
(* breaks a constraint raises an error, and then none of the six has an    *)
(* effect: the enclosing (sub)transaction is rolled back.                  *)
(***************************************************************************)
EXTENDS Integers, Sequences

CONSTANTS
    Keys, Fields, Ords,   \* keys, hash fields and list ordinals in play
    NoRow                 \* no row with this primary key

\* Events of the dirty-ring (PgRedisEventType), which are also the unit in
\* which run_flush collects its dirty set.  sub is a field, an ord or "-".
Ev(op, key, sub, val) == [op |-> op, key |-> key, sub |-> sub, val |-> val]

EmptyDb ==
    [store |-> [k \in Keys |-> NoRow],
     hf    |-> [kf \in Keys \X Fields |-> NoRow],
     li    |-> [ko \in Keys \X Ords |-> NoRow]]

\* The events of one kind that concern a row, by their position in the batch.
At(batch, op, key, sub) ==
    {i \in DOMAIN batch : batch[i].op = op /\ batch[i].key = key /\ batch[i].sub = sub}

Latest(I) == CHOOSE i \in I : \A j \in I : j <= i

\* SELECT DISTINCT ON (...) ... ORDER BY ..., i DESC: the last event wins.
Upserted(old, batch, I) == IF I = {} THEN old ELSE batch[Latest(I)].val

\* SQL_STORE_UPSERT
StoreUpsert(store, batch) ==
    [k \in Keys |-> Upserted(store[k], batch, At(batch, "KEY_UPSERT", k, "-"))]

\* SQL_HASH_FIELD_DELETE, then SQL_HASH_FIELD_UPSERT
HashFields(hf, batch) ==
    [kf \in Keys \X Fields |->
        Upserted(IF At(batch, "FIELD_DELETE", kf[1], kf[2]) # {} THEN NoRow ELSE hf[kf],
                 batch, At(batch, "FIELD_UPSERT", kf[1], kf[2]))]

\* SQL_LIST_ITEM_DELETE
ItemDelete(li, batch) ==
    [ko \in Keys \X Ords |->
        IF At(batch, "ITEM_DELETE", ko[1], ko[2]) # {} THEN NoRow ELSE li[ko]]

\* SQL_LIST_ITEM_INSERT, which has no ON CONFLICT clause
ItemInsert(li, batch) ==
    [ko \in Keys \X Ords |-> Upserted(li[ko], batch, At(batch, "ITEM_INSERT", ko[1], ko[2]))]

\* The primary key of list_items: the ord is free, and inserted once.
InsertUnique(li, batch) ==
    \A ko \in Keys \X Ords :
        LET I == At(batch, "ITEM_INSERT", ko[1], ko[2])
        IN  I = {} \/ (li[ko] = NoRow /\ \A i, j \in I : i = j)

\* The foreign keys of hash_fields and list_items.
ParentsPresent(store, batch) ==
    \A i \in DOMAIN batch :
        batch[i].op \in {"FIELD_UPSERT", "ITEM_INSERT"} => store[batch[i].key] # NoRow

\* SQL_STORE_DELETE, and ON DELETE CASCADE
StoreDelete(db, batch) ==
    LET gone(k) == At(batch, "KEY_DELETE", k, "-") # {}
    IN  [store |-> [k \in Keys |-> IF gone(k) THEN NoRow ELSE db.store[k]],
         hf    |-> [kf \in Keys \X Fields |-> IF gone(kf[1]) THEN NoRow ELSE db.hf[kf]],
         li    |-> [ko \in Keys \X Ords |-> IF gone(ko[1]) THEN NoRow ELSE db.li[ko]]]

\* The statements of a batch, in the code's order: parent upserts, field
\* deletes, field upserts, item deletes, item inserts, parent deletes.
PlansFail(db, batch) ==
    \/ ~ParentsPresent(StoreUpsert(db.store, batch), batch)
    \/ ~InsertUnique(ItemDelete(db.li, batch), batch)

RunPlans(db, batch) ==
    StoreDelete([store |-> StoreUpsert(db.store, batch),
                 hf    |-> HashFields(db.hf, batch),
                 li    |-> ItemInsert(ItemDelete(db.li, batch), batch)], batch)

\* TRUNCATE TABLE pgredis.store CASCADE (FLUSHALL)
Truncate == EmptyDb
=============================================================================
