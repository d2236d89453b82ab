------------------------------ MODULE ColdLoad ------------------------------
(***************************************************************************)
(* Cold start in shared mode (persistence.c, load_if_needed): the first    *)
(* command of every backend takes part in the `loaded` state machine       *)
(* (0 unloaded, 1 loading, 2 loaded).  The backend that swaps 0 to 1 loads *)
(* the tables into the shared keyspace row by row, the others poll; a      *)
(* watchdog takes the role away from a loader that takes too long.         *)
(*                                                                         *)
(* A row is a pair of a key and a field; Whole is the only field of a      *)
(* string.  Rows start in the tables with the value "old"; commands write  *)
(* "new", which drains bring to the tables later.                          *)
(***************************************************************************)
EXTENDS Integers, FiniteSets

CONSTANTS
    Backends,
    StringKeys, HashKeys, Fields, Whole,
    MaxWrites,       \* bound: writing commands
    MaxFails,        \* bound: loads that end in an error
    MaxDeaths,       \* bound: backends terminated while they load
    MaxFlushes       \* bound: FLUSHALLs

ASSUME LoadAssumption ==
    /\ Whole \notin Fields
    /\ StringKeys \cap HashKeys = {}
    /\ {MaxWrites, MaxFails, MaxDeaths, MaxFlushes} \subseteq Nat

VARIABLES
    loaded,          \* header->loaded
    attempt,         \* last_load_attempt: "never", "recent" or "expired" (30 s)
    ploaded,         \* persistence_loaded of each backend
    pc,              \* its place in load_if_needed (or FLUSHALL)
    todo,            \* rows its load still has to visit: <<row, value>>
    scratch,         \* the entry it is about to write back, with its key
    mem,             \* the shared keyspace: type and fields of each key
    tables,          \* the durable rows
    ring,            \* rows with an event in the dirty-ring
    writes, fails, deaths, flushes

loadVars == <<loaded, attempt, ploaded, pc, todo, scratch>>
boundVars == <<writes, fails, deaths, flushes>>
vars == <<loadVars, mem, tables, ring, boundVars>>

Keys == StringKeys \cup HashKeys
Rows == (StringKeys \X {Whole}) \cup (HashKeys \X Fields)
NoValues == [f \in Fields \cup {Whole} |-> "none"]
Entries == [type : {"none", "STRING", "HASH"}, fields : [Fields \cup {Whole} -> {"none", "old", "new"}]]
NoEntry == [type |-> "none", fields |-> NoValues]
Fresh == [type |-> "STRING", fields |-> NoValues]
NoScratch == [row |-> <<>>, entry |-> NoEntry]

Init ==
    /\ loaded = 0
    /\ attempt = "never"
    /\ ploaded = [b \in Backends |-> FALSE]
    /\ pc = [b \in Backends |-> "idle"]
    /\ todo = [b \in Backends |-> {}]
    /\ scratch = [b \in Backends |-> NoScratch]
    /\ mem = [k \in Keys |-> NoEntry]
    /\ tables = [r \in Rows |-> "old"]
    /\ ring = {}
    /\ writes = 0 /\ fails = 0 /\ deaths = 0 /\ flushes = 0

Goto(b, place) == pc' = [pc EXCEPT ![b] = place]

(***************************************************************************)
(* load_if_needed.                                                         *)
(***************************************************************************)
ReadLoaded(b) ==
    /\ pc[b] = "idle"
    /\ ~ploaded[b]
    /\ \/ loaded = 2 /\ ploaded' = [ploaded EXCEPT ![b] = TRUE] /\ UNCHANGED pc
       \/ loaded = 0 /\ Goto(b, "cas") /\ UNCHANGED ploaded
       \/ loaded = 1 /\ Goto(b, "wait") /\ UNCHANGED ploaded
    /\ UNCHANGED <<loaded, attempt, todo, scratch, mem, tables, ring, boundVars>>

\* Mutant: the flag is written without comparing.
MutWins == TRUE
Wins == loaded = 0

BecomeLoader(b) ==
    /\ pc[b] = "cas"
    /\ \/ Wins /\ loaded' = 1 /\ Goto(b, "stamp")
       \/ ~Wins /\ Goto(b, "idle") /\ UNCHANGED loaded
    /\ UNCHANGED <<attempt, ploaded, todo, scratch, mem, tables, ring, boundVars>>

\* The time of the attempt is written after the swap.  The queries of the load
\* run on the snapshot of the calling statement.
StampAttempt(b) ==
    /\ pc[b] = "stamp"
    /\ attempt' = "recent"
    /\ todo' = [todo EXCEPT ![b] = {<<r, tables[r]>> : r \in {q \in Rows : tables[q] # "none"}}]
    /\ Goto(b, "load")
    /\ UNCHANGED <<loaded, ploaded, scratch, mem, tables, ring, boundVars>>

\* load_strings_and_ints, then load_hashes: pg_redis_store_upsert gives the
\* loader a scratch copy, which it changes.
Filled(e, k, f, v) ==
    IF k \in StringKeys THEN [Fresh EXCEPT !.fields[Whole] = v]
    ELSE [type   |-> "HASH",
          fields |-> [IF e.type = "HASH" THEN e.fields ELSE NoValues EXCEPT ![f] = v]]

LoadRow(b, k, f, v) ==
    /\ pc[b] = "load"
    /\ <<<<k, f>>, v>> \in todo[b]
    /\ k \in HashKeys => \A t \in todo[b] : t[1][1] \in HashKeys
    /\ mem' = [mem EXCEPT ![k] = IF @.type = "none" THEN Fresh ELSE @]
    /\ scratch' = [scratch EXCEPT ![b] = [row |-> <<k, f>>, entry |-> Filled(mem[k], k, f, v)]]
    /\ todo' = [todo EXCEPT ![b] = @ \ {<<<<k, f>>, v>>}]
    /\ Goto(b, "writeback")
    /\ UNCHANGED <<loaded, attempt, ploaded, tables, ring, boundVars>>

\* pg_redis_shared_store_writeback: a hash entry that is there receives the
\* scratch's dirty fields, and load_hashes has just made them clean.
\* Mutant: nothing is written over an entry that is there.
MutWritten(e, new) == e
Written(e, new) == IF e.type = "HASH" /\ new.type = "HASH" THEN e ELSE new

WritebackRow(b) ==
    /\ pc[b] = "writeback"
    /\ mem' = [mem EXCEPT ![scratch[b].row[1]] = Written(@, scratch[b].entry)]
    /\ scratch' = [scratch EXCEPT ![b] = NoScratch]
    /\ Goto(b, "load")
    /\ UNCHANGED <<loaded, attempt, ploaded, todo, tables, ring, boundVars>>

\* Mutant: the flag is raised by two, as if the claim had left it at 0.
MutLoadedMark == loaded + 2
LoadedMark == 2

LoadDone(b) ==
    /\ pc[b] = "load"
    /\ todo[b] = {}
    /\ loaded' = LoadedMark
    /\ ploaded' = [ploaded EXCEPT ![b] = TRUE]
    /\ Goto(b, "idle")
    /\ UNCHANGED <<attempt, todo, scratch, mem, tables, ring, boundVars>>

LoadStops(b) ==
    /\ pc[b] \in {"load", "writeback"}
    /\ todo' = [todo EXCEPT ![b] = {}]
    /\ scratch' = [scratch EXCEPT ![b] = NoScratch]
    /\ Goto(b, "idle")
    /\ UNCHANGED <<attempt, ploaded, mem, tables, ring>>

\* PG_CATCH gives the role back.
LoadFails(b) ==
    /\ fails < MaxFails
    /\ LoadStops(b)
    /\ loaded' = 0
    /\ fails' = fails + 1
    /\ UNCHANGED <<writes, deaths, flushes>>

\* A terminated backend exits without running PG_CATCH; a new one replaces it.
LoadDies(b) ==
    /\ deaths < MaxDeaths
    /\ LoadStops(b)
    /\ deaths' = deaths + 1
    /\ UNCHANGED <<loaded, writes, fails, flushes>>

\* A waiting backend reads the time of the attempt, and steals the role with a
\* second atomic operation.  Mutant: nothing is ever overdue.
MutOverdue == FALSE
Overdue == attempt = "expired"

Poll(b) ==
    /\ pc[b] = "wait"
    /\ Goto(b, IF Overdue THEN "steal" ELSE "idle")
    /\ UNCHANGED <<loaded, attempt, ploaded, todo, scratch, mem, tables, ring, boundVars>>

Steal(b) ==
    /\ pc[b] = "steal"
    /\ loaded' = IF loaded = 1 THEN 0 ELSE loaded
    /\ Goto(b, "idle")
    /\ UNCHANGED <<attempt, ploaded, todo, scratch, mem, tables, ring, boundVars>>

\* Thirty seconds pass.  A backend that is loading never takes that long: what
\* is shown below holds, or fails, even then.
Loading(b) == pc[b] \in {"load", "writeback"}
WatchdogExpires ==
    /\ attempt = "recent"
    /\ \A b \in Backends : ~Loading(b)
    /\ attempt' = "expired"
    /\ UNCHANGED <<loaded, ploaded, pc, todo, scratch, mem, tables, ring, boundVars>>

(***************************************************************************)
(* The rest of the system.                                                 *)
(***************************************************************************)

\* SET or HSET, by a backend that has passed load_if_needed.
Write(b, k, f) ==
    /\ pc[b] = "idle"
    /\ ploaded[b]
    /\ <<k, f>> \in Rows
    /\ writes < MaxWrites
    /\ k \in HashKeys => mem[k].type # "STRING"
    /\ mem' = [mem EXCEPT ![k] = Filled(@, k, f, "new")]
    /\ ring' = ring \cup {<<k, f>>}
    /\ writes' = writes + 1
    /\ UNCHANGED <<loadVars, tables, fails, deaths, flushes>>

Drain ==
    /\ ring # {}
    /\ tables' = [r \in Rows |-> IF r \in ring THEN "new" ELSE tables[r]]
    /\ ring' = {}
    /\ UNCHANGED <<loadVars, mem, boundVars>>

\* FLUSHALL does not call load_if_needed: it resets the keyspace, drops the
\* ring, truncates the tables (waiting for the table locks of a load's queries)
\* and declares the keyspace loaded.
FlushReset(b) ==
    /\ pc[b] = "idle"
    /\ flushes < MaxFlushes
    /\ flushes' = flushes + 1
    /\ mem' = [k \in Keys |-> NoEntry]
    /\ Goto(b, "drop")
    /\ UNCHANGED <<loaded, attempt, ploaded, todo, scratch, tables, ring, writes, fails, deaths>>

FlushDrop(b) ==
    /\ pc[b] = "drop"
    /\ ring' = {}
    /\ Goto(b, "truncate")
    /\ UNCHANGED <<loaded, attempt, ploaded, todo, scratch, mem, tables, boundVars>>

FlushTables(b) ==
    /\ pc[b] = "truncate"
    /\ \A c \in Backends : ~Loading(c)
    /\ tables' = [r \in Rows |-> "none"]
    /\ ploaded' = [ploaded EXCEPT ![b] = TRUE]
    /\ loaded' = 2
    /\ Goto(b, "idle")
    /\ UNCHANGED <<attempt, todo, scratch, mem, ring, boundVars>>

LoadStep(b) ==
    \/ ReadLoaded(b) \/ BecomeLoader(b) \/ StampAttempt(b)
    \/ \E r \in Rows, v \in {"old", "new"} : LoadRow(b, r[1], r[2], v)
    \/ WritebackRow(b) \/ LoadDone(b)
    \/ Poll(b) \/ Steal(b)

Next ==
    \/ \E b \in Backends :
        \/ LoadStep(b)
        \/ LoadFails(b) \/ LoadDies(b)
        \/ \E r \in Rows : Write(b, r[1], r[2])
        \/ FlushReset(b) \/ FlushDrop(b) \/ FlushTables(b)
    \/ WatchdogExpires
    \/ Drain

Spec == Init /\ [][Next]_vars

\* A backend in the middle of a command goes on, and time passes.
Fairness ==
    /\ \A b \in Backends : WF_vars(LoadStep(b) \/ FlushDrop(b) \/ FlushTables(b))
    /\ WF_vars(WatchdogExpires)
LiveSpec == Spec /\ Fairness

(***************************************************************************)
(* Properties.                                                             *)
(***************************************************************************)

\* The variables keep their types.
TypeOK ==
    /\ loaded \in 0 .. 2
    /\ attempt \in {"never", "recent", "expired"}
    /\ ploaded \in [Backends -> BOOLEAN]
    /\ pc \in [Backends -> {"idle", "cas", "stamp", "load", "writeback", "wait", "steal",
                        "drop", "truncate"}]
    /\ todo \in [Backends -> SUBSET (Rows \X {"old", "new"})]
    /\ scratch \in [Backends -> [row : Rows \cup {<<>>}, entry : Entries]]
    /\ mem \in [Keys -> Entries]
    /\ tables \in [Rows -> {"none", "old", "new"}]
    /\ ring \subseteq Rows
    /\ {writes, fails, deaths, flushes} \subseteq Nat

\* At most one backend at a time loads the tables, and nobody uses the keyspace
\* before the load is complete (load_if_needed: the winner of the swap runs the
\* load, the others poll until they observe 2).
OneLoader ==
    /\ \A b, c \in Backends : Loading(b) /\ Loading(c) => b = c
    /\ \A b, c \in Backends : ~(Loading(b) /\ ploaded[c])

\* The keyspace is loaded, nobody is loading and the ring is drained.
Settled == loaded = 2 /\ ring = {} /\ \A b \in Backends : pc[b] \in {"idle", "wait"}
Held(r) == mem[r[1]].fields[r[2]]

\* Then the keyspace holds what the tables hold: the load brought every row,
\* and it put no row back over a later write.
LoadedAgrees == Settled => \A r \in Rows : Held(r) = tables[r]

\* No load has failed, no loader was terminated and no FLUSHALL was issued.
Undisturbed == fails + deaths + flushes = 0

\* As long as nothing disturbs the load, whatever commands and drains run beside
\* it, one backend loads and the others stay out of the keyspace.
SoleLoader == Undisturbed => OneLoader

\* A field of a hash that the load left out because it had brought another.
LeftOut(r) ==
    /\ r[1] \in HashKeys /\ Held(r) = "none" /\ tables[r] = "old"
    /\ \E f \in Fields \ {r[2]} : mem[r[1]].fields[f] # "none"

\* An undisturbed load restores the tables and nothing else: every string, and
\* at least one field of every hash (load_fields.cfg: it may be only one).
LoadRestores == Undisturbed /\ Settled => \A r \in Rows : Held(r) = tables[r] \/ LeftOut(r)

\* Every backend gets past load_if_needed, even if loads fail and loaders die:
\* a failed loader gives the role back, a dead one loses it to the watchdog.
EventuallyLoaded == \A b \in Backends : <>ploaded[b]
=============================================================================
