------------------------------ MODULE Scalars ------------------------------
(***************************************************************************)
(* Strings, integers and their expiry in storage_mode = session with       *)
(* persistence_mode = sync_table: SET, GET, DEL, EXISTS, EXPIRE, TTL, INCR,*)
(* DECR, KEYS, SAVE, FLUSHALL and the ttl_cleanup job (pg_redis.c, ttl.c)  *)
(* on the private keyspace (kv_store.c), its flush at pre-commit and its   *)
(* load (persistence.c), with values stored as in Values.                  *)
(*                                                                         *)
(* One session at a time works on the tables; it may disconnect, and       *)
(* connect anew with an empty memory.  A command touches only its session's*)
(* memory, so it is one step, its lazy load included; EXPIRE and TTL read  *)
(* the clock twice, and it may move in between.                            *)
(***************************************************************************)
EXTENDS Values, FiniteSets

CONSTANTS
    Keys,
    Texts,           \* the strings the workload SETs
    Seconds,         \* the arguments of EXPIRE
    TicksPerSecond,  \* ticks of the clock in a second
    Aborts,          \* the values of aborts the workload has
    MaxTime,         \* bound: the clock
    IntRange         \* bound: the integers INCR and DECR may reach

ASSUME ScalarAssumption ==
    /\ Texts \subseteq Seq(Glyphs) /\ \A s \in Texts : Len(s) < Base * (Base * (Base * Base))
    /\ Seconds \subseteq Int
    /\ TicksPerSecond \in Nat \ {0}
    /\ Aborts \subseteq {"none", "heard", "all"}
    /\ MaxTime \in Nat \ {0}
    /\ IntRange \subseteq Int64

VARIABLES
    now,         \* GetCurrentTimestamp
    store,       \* store[k]: PgRedisEntry of the session, or NoEntry
    dirty,       \* the chain from dirty_head
    pdel,        \* pending_deletes
    truncated,   \* the open transaction has truncated the tables
    loaded,      \* persistence_loaded
    since,       \* while not loaded: when that began
    registered,  \* persistence_initialized: the transaction callback is there
    rows,        \* pgredis.store, as committed
    reply,       \* the last reply, with the command and its key
    aborts       \* which transactions with work in them may abort

vars == <<now, store, dirty, pdel, truncated, loaded, since, registered, rows, reply, aborts>>

(***************************************************************************)
(* Entries and rows.  has_expire is exp # 0.                               *)
(***************************************************************************)
NoEntry == [type |-> "none", str |-> Nil, int |-> 0, exp |-> 0]
String(s, exp) == [type |-> "STRING", str |-> s, int |-> 0, exp |-> exp]
Integer(v, exp) == [type |-> "INT", str |-> Nil, int |-> v, exp |-> exp]

NoRow == [type |-> "none", value |-> Tlv("none", <<>>), exp |-> 0]

\* The row run_flush writes for an entry.
Row(e) == [type |-> e.type, exp |-> e.exp,
           value |-> IF e.type = "INT" THEN EncodeInt(e.int) ELSE EncodeString(e.str)]

\* pg_redis_entry_is_expired
IsExpired(e, t) == e.exp # 0 /\ t >= e.exp

TextOf(e) == IF e.type = "INT" THEN FormatInt64(e.int) ELSE e.str

(***************************************************************************)
(* The lazy load.  now() in its WHERE clause is the start of the           *)
(* transaction: some moment after the session ceased to be loaded.         *)
(***************************************************************************)
Selected(k, begin) == rows[k] # NoRow /\ (rows[k].exp = 0 \/ rows[k].exp > begin)

Decodes(row) == IF row.type = "INT" THEN DecodesInt(row.value) ELSE DecodesString(row.value)
Decoded(row) ==
    IF row.type = "INT" THEN Integer(DecodeInt(row.value), row.exp)
    ELSE String(DecodeString(row.value), row.exp)

\* load_strings_and_ints, which removes the key of a row it cannot decode
LoadEntry(k, begin) ==
    IF ~Selected(k, begin) THEN store[k]
    ELSE IF Decodes(rows[k]) THEN Decoded(rows[k]) ELSE NoEntry

\* The keyspace after ensure_loaded.
Memories == IF loaded THEN {store} ELSE {[k \in Keys |-> LoadEntry(k, t)] : t \in since .. now}
Undecodable == IF loaded THEN {} ELSE {k \in Keys : Selected(k, since) /\ ~Decodes(rows[k])}

(***************************************************************************)
(* Commands.  A command that ends well leaves memory mem, has marked the   *)
(* keys D dirty and has removed the keys G.                                *)
(***************************************************************************)
Init ==
    /\ now = 1
    /\ store = [k \in Keys |-> NoEntry]
    /\ dirty = {} /\ pdel = {} /\ truncated = FALSE
    /\ loaded = FALSE /\ since = 1 /\ registered = FALSE
    /\ rows = [k \in Keys |-> NoRow]
    /\ reply = <<"NONE">>
    /\ aborts \in Aborts

Open == dirty # {} \/ pdel # {} \/ truncated

\* pg_redis_store_remove takes the keys of G off the dirty chain.
\* Mutant: they stay on it.
MutUnlinked(G) == dirty
Unlinked(G) == dirty \ G

Without(mem, G) == [k \in Keys |-> IF k \in G THEN NoEntry ELSE mem[k]]

Done(mem, D, G, r) ==
    /\ store' = Without(mem, G)
    /\ dirty' = Unlinked(G) \cup D
    /\ pdel' = pdel \cup G \cup Undecodable
    /\ loaded' = TRUE /\ since' = 1 /\ registered' = TRUE
    /\ reply' = r
    /\ UNCHANGED <<truncated, rows, aborts>>

\* What pg_redis_store_lookup evicts on its way.
Evicted(mem, k, t) == IF IsExpired(mem[k], t) THEN {k} ELSE {}

\* The entry pg_redis_store_upsert hands out: an expired one is fresh.
\* Mutant: it keeps the expiry that has passed.
MutUpserted(e) == IF IsExpired(e, now) THEN [NoEntry EXCEPT !.exp = e.exp] ELSE e
Upserted(e) == IF IsExpired(e, now) THEN NoEntry ELSE e

Set(k, s) ==
    \E mem \in Memories :
        /\ Done([mem EXCEPT ![k] = String(s, Upserted(@).exp)], {k}, {}, <<"SET", k>>)
        /\ UNCHANGED now

Get(k) ==
    \E mem \in Memories :
        LET G == Evicted(mem, k, now)
        IN  /\ Done(mem, {}, G, <<"GET", k, TextOf(Without(mem, G)[k])>>)
            /\ UNCHANGED now

Exists(k) ==
    \E mem \in Memories :
        LET G == Evicted(mem, k, now)
        IN  /\ Done(mem, {}, G, <<"EXISTS", k, YesNo(Without(mem, G)[k] # NoEntry)>>)
            /\ UNCHANGED now

\* DEL does not ask whether the entry has expired.
Del(k) ==
    \E mem \in Memories :
        /\ Done(mem, {}, IF mem[k] = NoEntry THEN {} ELSE {k}, <<"DEL", k, YesNo(mem[k] # NoEntry)>>)
        /\ UNCHANGED now

\* The two readings of the clock.
Readings == {t \in {now, now + 1} : t <= MaxTime}

\* pg_redis_set_expire_seconds, then mark_dirty
Expire(k, n) ==
    \E mem \in Memories, t \in Readings :
        LET G == Evicted(mem, k, now)
            e == Without(mem, G)[k]
            r == <<"EXPIRE", k, YesNo(e # NoEntry)>>
        IN  /\ now' = t
            /\ IF e = NoEntry THEN Done(mem, {}, G, r)
               ELSE IF n <= 0 THEN Done(mem, {}, {k}, r)
               ELSE Done([mem EXCEPT ![k].exp = t + n * TicksPerSecond], {k}, {}, r)

\* Round up to the next second.
SecondsLeft(e, t) == (e.exp - t + TicksPerSecond - 1) \div TicksPerSecond

\* pg_redis_ttl_seconds evicts at either reading.
Ttl(k) ==
    \E mem \in Memories, t \in Readings :
        LET G == Evicted(mem, k, now) \cup Evicted(mem, k, t)
            e == Without(mem, G)[k]
        IN  /\ now' = t
            /\ Done(mem, {}, G, <<"TTL", k, IF e = NoEntry THEN -2
                                            ELSE IF e.exp = 0 THEN -1 ELSE SecondsLeft(e, t)>>)

\* incrdecr
Incr(k, d) ==
    \E mem \in Memories :
        LET e == Upserted(mem[k])
            old == IF e.type = "INT" THEN e.int ELSE IF e = NoEntry THEN 0 ELSE ParseInt64(e.str)
            new == Add(old, d)
        IN  /\ e.type = "STRING" => Parses(e.str)
            /\ new \in IntRange
            /\ Done([mem EXCEPT ![k] = Integer(new, e.exp)], {k}, {}, <<"INCR", k, new>>)
            /\ UNCHANGED now

\* XACT_EVENT_ABORT, if the callback is there to hear it.  Mutant: the keyspace
\* still counts as loaded.
MutLoadedAfterAbort(heard) == loaded
LoadedAfterAbort(heard) == loaded /\ ~heard

Aborted(heard) ==
    /\ dirty' = IF heard THEN {} ELSE dirty
    /\ pdel' = IF heard THEN {} ELSE pdel
    /\ loaded' = LoadedAfterAbort(heard)
    /\ since' = IF heard THEN now ELSE since
    /\ truncated' = FALSE
    /\ registered' = heard
    /\ UNCHANGED <<now, rows, aborts>>

\* "value at key is not an integer" aborts the transaction.
IncrFails(k) ==
    \E mem \in Memories :
        LET e == Upserted(mem[k])
        IN  /\ e.type = "STRING" /\ ~Parses(e.str)
            /\ aborts # "none" \/ ~Open
            /\ store' = mem
            /\ reply' = <<"NOTANINT", k>>
            /\ Aborted(TRUE)

Shown(mem) == {k \in Keys : mem[k] # NoEntry /\ ~IsExpired(mem[k], now)}
Entry(e) == [text |-> TextOf(e), exp |-> e.exp]

KeyList == \E mem \in Memories : Done(mem, {}, {}, <<"KEYS", Shown(mem)>>) /\ UNCHANGED now

\* pg_redis_persistence_save_snapshot: the row that goes to pgredis.snapshots
Save ==
    \E mem \in Memories :
        /\ Done(mem, {}, {}, <<"SAVE", [k \in Keys |-> Entry(IF k \in Shown(mem) THEN mem[k] ELSE NoEntry)]>>)
        /\ UNCHANGED now

\* RUN_JOB of ttl_cleanup: pg_redis_ttl_sweep
Sweep ==
    \E mem \in Memories :
        /\ Done(mem, {}, {k \in Keys : IsExpired(mem[k], now)}, reply)
        /\ UNCHANGED now

\* pg_redis_store_reset and TRUNCATE; it neither loads nor registers.
Flushall ==
    /\ store' = [k \in Keys |-> NoEntry]
    /\ dirty' = {} /\ pdel' = {} /\ truncated' = TRUE
    /\ loaded' = TRUE /\ since' = 1
    /\ reply' = <<"FLUSHALL">>
    /\ UNCHANGED <<now, registered, rows, aborts>>

(***************************************************************************)
(* The end of a transaction, of a session, and the clock.                  *)
(***************************************************************************)
\* run_flush, and the commit of what it and TRUNCATE did.
Commit ==
    /\ Open
    /\ rows' = [k \in Keys |-> IF k \in dirty THEN Row(store[k])
                               ELSE IF k \in pdel \/ truncated THEN NoRow ELSE rows[k]]
    /\ dirty' = {} /\ pdel' = {} /\ truncated' = FALSE
    /\ UNCHANGED <<now, store, loaded, since, registered, reply, aborts>>

Rollback ==
    /\ Open
    /\ aborts = "all" \/ (aborts = "heard" /\ registered)
    /\ Aborted(registered)
    /\ UNCHANGED <<store, reply>>

\* The client disconnects, and the next session begins.
Reconnect ==
    /\ ~Open
    /\ store' = [k \in Keys |-> NoEntry]
    /\ loaded' = FALSE /\ since' = now /\ registered' = FALSE
    /\ UNCHANGED <<now, dirty, pdel, truncated, rows, reply, aborts>>

Tick ==
    /\ now < MaxTime
    /\ now' = now + 1
    /\ UNCHANGED <<store, dirty, pdel, truncated, loaded, since, registered, rows, reply, aborts>>

Next ==
    \/ \E k \in Keys :
        \/ \E s \in Texts : Set(k, s)
        \/ \E n \in Seconds : Expire(k, n)
        \/ \E d \in {1, -1} : Incr(k, d)
        \/ Get(k) \/ Exists(k) \/ Del(k) \/ Ttl(k) \/ IncrFails(k)
    \/ KeyList \/ Save \/ Sweep \/ Flushall
    \/ Commit \/ Rollback \/ Reconnect \/ Tick

Spec == Init /\ [][Next]_vars

(***************************************************************************)
(* Properties.                                                             *)
(***************************************************************************)
EntryOk(e) ==
    \/ e = NoEntry
    \/ e.type = "STRING" /\ e.str \in Texts /\ e.int = 0
    \/ e.type = "INT" /\ e.str = Nil /\ e.int \in IntRange

\* The variables keep their types; what is dirty is in memory, and every row
\* decodes as the type it names.
TypeOK ==
    /\ now \in 1 .. MaxTime /\ since \in 1 .. now
    /\ \A k \in Keys : EntryOk(store[k]) /\ store[k].exp \in Nat
    /\ dirty \subseteq {k \in Keys : store[k] # NoEntry} /\ pdel \subseteq Keys
    /\ {truncated, loaded, registered} \subseteq BOOLEAN
    /\ \A k \in Keys : rows[k] # NoRow => rows[k].type \in {"STRING", "INT"} /\ Decodes(rows[k])

\* What the session's next command finds under k, as a client sees it.
Visible(e, t) == Entry(IF IsExpired(e, t) THEN NoEntry ELSE e)
View(k) == Visible(IF loaded THEN store[k] ELSE LoadEntry(k, now), now)

\* Sessions that work one after the other, and roll back no work, see one map
\* with expiry: entries evicted late or by the sweep, integers cached as such,
\* tombstones, the encoding of the rows, commits, disconnects and loads never
\* show in a reply.  (A run with rollbacks is mapped to a map nobody uses.)
Map == [k \in Keys |-> IF aborts = "none" THEN View(k) ELSE Entry(NoEntry)]
Clock == IF aborts = "none" THEN now ELSE 1
LastReply == IF aborts = "none" THEN reply ELSE <<"NONE">>

TM == INSTANCE TtlMap WITH map <- Map, now <- Clock, reply <- LastReply

ImplementsTtlMap == TM!Spec

\* The comment on XACT_EVENT_ABORT, "Force a re-load next time so the in-memory
\* view re-syncs with the (rolled-back) durable state": between transactions,
\* whatever was rolled back, a session sees every live row as it is in the
\* table.  (Not so when FLUSHALL is all the session has run: then nobody has
\* registered the callback, and its rollback goes unheard.)
DurableSeen ==
    ~Open => \A k \in Keys :
                rows[k] # NoRow /\ ~IsExpired(rows[k], now) => View(k) = Entry(Decoded(rows[k]))
=============================================================================
