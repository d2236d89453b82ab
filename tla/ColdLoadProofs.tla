--------------------------- MODULE ColdLoadProofs ---------------------------
(***************************************************************************)
(* Proofs about ColdLoad, for every set of backends, keys and fields: what *)
(* an undisturbed load guarantees.                                         *)
(***************************************************************************)
EXTENDS ColdLoad, TLAPS

Loader(b) == pc[b] \in {"stamp", "load", "writeback"}

\* The life of the flag when nothing disturbs the load.  A loader holds the
\* flag at 1, and the watchdog cannot expire before the flag is 2 for good.
Flag ==
    /\ \A b \in Backends : pc[b] \notin {"drop", "truncate"}
    /\ \A b \in Backends : Loader(b) => loaded = 1
    /\ \A b, c \in Backends : Loader(b) /\ Loader(c) => b = c
    /\ \A b \in Backends : ploaded[b] \/ pc[b] = "steal" => loaded = 2
    /\ \A b \in Backends : pc[b] = "stamp" => attempt = "never"
    /\ \A b \in Backends : Loading(b) => attempt = "recent"
    /\ loaded = 0 => attempt = "never"
    /\ loaded = 1 /\ attempt # "never" => \E b \in Backends : Loading(b)
    /\ attempt = "expired" => loaded = 2

\* Row r has been restored, or left out because its hash was there.
Good(r) == Held(r) = tables[r] \/ LeftOut(r)

\* The entry a loader is about to write back.
Prepared(b) ==
    LET r == scratch[b].row
        e == scratch[b].entry
    IN  /\ r \in Rows
        /\ e.type = IF r[1] \in HashKeys THEN "HASH" ELSE "STRING"
        /\ e.fields[r[2]] = "old"
        /\ \A f \in Fields \cup {Whole} : e.fields[f] # "new"

\* What the keyspace holds when nothing disturbs the load: nothing before it,
\* old values while it runs, and afterwards what the tables hold or the ring
\* brings them.
Restored ==
    /\ attempt = "never" => \A k \in Keys : mem[k] = NoEntry
    /\ loaded # 2 => /\ ring = {} /\ \A r \in Rows : tables[r] = "old"
                     /\ \A k \in Keys, f \in Fields \cup {Whole} : mem[k].fields[f] # "new"
    /\ \A r \in Rows : tables[r] # "none"
    /\ \A k \in Keys : mem[k].type = "none" => mem[k].fields = NoValues
    /\ \A k \in HashKeys :
         IF mem[k].type = "HASH" THEN \E f \in Fields : mem[k].fields[f] # "none"
         ELSE mem[k].fields = NoValues
    /\ \A b \in Backends : \A t \in todo[b] : pc[b] \in {"load", "writeback"} => t[2] = "old"
    /\ \A b \in Backends : pc[b] = "writeback" => Prepared(b)
    /\ \A b \in Backends : Loading(b) => \A r \in Rows :
         \/ <<r, "old">> \in todo[b]
         \/ pc[b] = "writeback" /\ scratch[b].row = r
         \/ Good(r)
    /\ \A r \in ring : Held(r) = "new"
    /\ loaded = 2 => \A r \in Rows : r \in ring \/ Good(r)

LoadInv ==
    /\ TypeOK
    /\ \A b \in Backends : pc[b] = "writeback" => scratch[b].row \in Rows
    /\ Undisturbed => Flag /\ Restored

----------------------------------------------------------------------------
(* Rows and entries *)

LEMMA RowFacts ==
  ASSUME NEW r \in Rows
  PROVE  /\ r = <<r[1], r[2]>> /\ r[1] \in Keys /\ r[2] \in Fields \cup {Whole}
         /\ r[1] \in HashKeys => r[2] \in Fields
         /\ r[1] \notin HashKeys => r[1] \in StringKeys /\ r[2] = Whole
BY LoadAssumption DEF Rows, Keys

LEMMA EntryFacts ==
  /\ NoEntry \in Entries /\ Fresh \in Entries /\ NoScratch.entry \in Entries /\ NoScratch.row = <<>>
  /\ NoValues \in [Fields \cup {Whole} -> {"none", "old", "new"}]
  /\ \A f \in Fields \cup {Whole} : NoValues[f] = "none"
  /\ NoEntry.type = "none" /\ NoEntry.fields = NoValues
  /\ Fresh.type = "STRING" /\ Fresh.fields = NoValues
BY DEF NoEntry, Fresh, NoScratch, NoValues, Entries

\* What a load or a command writes into an entry: one field changes, unless
\* the entry was not a hash and becomes one.
FilledBy(n, e, r, v) ==
    /\ n \in Entries
    /\ n.type = IF r[1] \in HashKeys THEN "HASH" ELSE "STRING"
    /\ n.fields[r[2]] = v
    /\ \A f \in (Fields \cup {Whole}) \ {r[2]} :
         n.fields[f] = IF r[1] \in HashKeys /\ e.type = "HASH" THEN e.fields[f] ELSE "none"

LEMMA FilledFacts ==
  ASSUME NEW e \in Entries, NEW r \in Rows, NEW v \in {"old", "new"}
  PROVE  FilledBy(Filled(e, r[1], r[2], v), e, r, v)
<1>1. CASE r[1] \in HashKeys
  <2>1. r[1] \notin StringKeys /\ r[2] \in Fields  BY <1>1, RowFacts, LoadAssumption
  <2>2. Filled(e, r[1], r[2], v) =
          [type |-> "HASH", fields |-> [IF e.type = "HASH" THEN e.fields ELSE NoValues EXCEPT ![r[2]] = v]]
    BY <2>1 DEF Filled
  <2>3. (IF e.type = "HASH" THEN e.fields ELSE NoValues) \in [Fields \cup {Whole} -> {"none", "old", "new"}]
    BY EntryFacts DEF Entries
  <2> QED BY <1>1, <2>1, <2>2, <2>3, EntryFacts DEF Entries, FilledBy
<1>2. CASE r[1] \notin HashKeys
  <2>1. r[1] \in StringKeys /\ r[2] = Whole  BY <1>2, RowFacts
  <2>2. Filled(e, r[1], r[2], v) = [type |-> "STRING", fields |-> [NoValues EXCEPT ![Whole] = v]]
    BY <2>1 DEF Filled, Fresh
  <2> QED BY <1>2, <2>1, <2>2, EntryFacts DEF Entries, FilledBy
<1> QED BY <1>1, <1>2

----------------------------------------------------------------------------
(* Types *)

LEMMA TypeStep ==
  ASSUME TypeOK, Next,
         \A b \in Backends : pc[b] = "writeback" => scratch[b].row \in Rows
  PROVE  /\ TypeOK'
         /\ \A b \in Backends : pc'[b] = "writeback" => scratch'[b].row \in Rows
<1> DEFINE Places == {"idle", "cas", "stamp", "load", "writeback", "wait", "steal", "drop", "truncate"}
           ScratchSet == [row : Rows \cup {<<>>}, entry : Entries]
           Keep == \A b \in Backends : pc'[b] = "writeback" => scratch'[b].row \in Rows
<1> USE DEF TypeOK
<1>1. ASSUME NEW b \in Backends, ReadLoaded(b) PROVE TypeOK' /\ Keep
  <2>1. UNCHANGED <<loaded, attempt, todo, scratch, mem, tables, ring, boundVars>>  BY <1>1 DEF ReadLoaded
  <2>2. pc' \in [Backends -> Places] /\ \A c \in Backends : pc'[c] = "writeback" => pc[c] = "writeback"
    BY ZenonT(30), <1>1 DEF ReadLoaded, Goto
  <2>3. ploaded' \in [Backends -> BOOLEAN]  BY ZenonT(30), <1>1 DEF ReadLoaded
  <2> QED BY <2>1, <2>2, <2>3 DEF boundVars
<1>2. ASSUME NEW b \in Backends, BecomeLoader(b) PROVE TypeOK' /\ Keep
  <2>1. UNCHANGED <<attempt, ploaded, todo, scratch, mem, tables, ring, boundVars>>  BY <1>2 DEF BecomeLoader
  <2>2. pc' \in [Backends -> Places] /\ \A c \in Backends : pc'[c] = "writeback" => pc[c] = "writeback"
    BY <1>2 DEF BecomeLoader, Goto
  <2>3. loaded' \in 0 .. 2  BY <1>2 DEF BecomeLoader
  <2> QED BY <2>1, <2>2, <2>3 DEF boundVars
<1>3. ASSUME NEW b \in Backends, StampAttempt(b) PROVE TypeOK' /\ Keep
  <2>1. UNCHANGED <<loaded, ploaded, scratch, mem, tables, ring, boundVars>> /\ attempt' = "recent"
    BY <1>3 DEF StampAttempt
  <2>2. pc' \in [Backends -> Places] /\ \A c \in Backends : pc'[c] = "writeback" => pc[c] = "writeback"
    BY <1>3 DEF StampAttempt, Goto
  <2>3. {<<r, tables[r]>> : r \in {q \in Rows : tables[q] # "none"}} \in SUBSET (Rows \X {"old", "new"})
    OBVIOUS
  <2>4. todo' \in [Backends -> SUBSET (Rows \X {"old", "new"})]  BY <1>3, <2>3 DEF StampAttempt
  <2> QED BY <2>1, <2>2, <2>4 DEF boundVars
<1>4. ASSUME NEW b \in Backends, NEW r \in Rows, NEW v \in {"old", "new"}, LoadRow(b, r[1], r[2], v)
      PROVE  TypeOK' /\ Keep
  <2>1. UNCHANGED <<loaded, attempt, ploaded, tables, ring, boundVars>>  BY <1>4 DEF LoadRow
  <2>2. r = <<r[1], r[2]>> /\ r[1] \in Keys  BY RowFacts
  <2>3. Filled(mem[r[1]], r[1], r[2], v) \in Entries  BY <2>2, FilledFacts DEF FilledBy
  <2>4. scratch' = [scratch EXCEPT ![b] = [row |-> r, entry |-> Filled(mem[r[1]], r[1], r[2], v)]]
    BY ZenonT(30), <1>4, <2>2 DEF LoadRow
  <2>5. scratch' \in [Backends -> ScratchSet] /\ scratch'[b].row \in Rows /\ \A c \in Backends \ {b} : scratch'[c] = scratch[c]
    BY <2>3, <2>4
  <2>6. pc' \in [Backends -> Places] /\ \A c \in Backends \ {b} : pc'[c] = pc[c]  BY <1>4 DEF LoadRow, Goto
  <2>7. mem' \in [Keys -> Entries]  BY <1>4, <2>2, EntryFacts DEF LoadRow
  <2>8. todo' \in [Backends -> SUBSET (Rows \X {"old", "new"})]  BY <1>4 DEF LoadRow
  <2> QED BY <2>1, <2>5, <2>6, <2>7, <2>8 DEF boundVars
<1>5. ASSUME NEW b \in Backends, WritebackRow(b) PROVE TypeOK' /\ Keep
  <2>1. UNCHANGED <<loaded, attempt, ploaded, todo, tables, ring, boundVars>>  BY <1>5 DEF WritebackRow
  <2>2. scratch[b].row[1] \in Keys /\ scratch[b].entry \in Entries  BY <1>5, RowFacts DEF WritebackRow
  <2>3. mem' \in [Keys -> Entries]  BY <1>5, <2>2 DEF WritebackRow, Written
  <2>4. NoScratch \in ScratchSet  BY EntryFacts DEF NoScratch
  <2>5. scratch' \in [Backends -> ScratchSet] /\ \A c \in Backends \ {b} : scratch'[c] = scratch[c]
    BY <1>5, <2>4 DEF WritebackRow
  <2>6. pc' \in [Backends -> Places] /\ pc'[b] = "load" /\ \A c \in Backends \ {b} : pc'[c] = pc[c]
    BY <1>5 DEF WritebackRow, Goto
  <2> QED BY <2>1, <2>3, <2>5, <2>6 DEF boundVars
<1>6. ASSUME NEW b \in Backends, LoadDone(b) PROVE TypeOK' /\ Keep
  <2>1. UNCHANGED <<attempt, todo, scratch, mem, tables, ring, boundVars>> /\ loaded' = 2
    BY <1>6 DEF LoadDone, LoadedMark
  <2>2. pc' \in [Backends -> Places] /\ \A c \in Backends : pc'[c] = "writeback" => pc[c] = "writeback"
    BY <1>6 DEF LoadDone, Goto
  <2>3. ploaded' \in [Backends -> BOOLEAN]  BY <1>6 DEF LoadDone
  <2> QED BY <2>1, <2>2, <2>3 DEF boundVars
<1>7. ASSUME NEW b \in Backends, Poll(b) \/ Steal(b) PROVE TypeOK' /\ Keep
  <2>1. UNCHANGED <<attempt, ploaded, todo, scratch, mem, tables, ring, boundVars>> /\ loaded' \in 0 .. 2
    BY <1>7 DEF Poll, Steal
  <2>2. pc' \in [Backends -> Places] /\ \A c \in Backends : pc'[c] = "writeback" => pc[c] = "writeback"
    BY <1>7 DEF Poll, Steal, Goto
  <2> QED BY <2>1, <2>2 DEF boundVars
<1>8. ASSUME NEW b \in Backends, LoadFails(b) \/ LoadDies(b) PROVE TypeOK' /\ Keep
  <2>1. LoadStops(b) /\ loaded' \in 0 .. 2 /\ {writes', fails', deaths', flushes'} \subseteq Nat
    BY <1>8 DEF LoadFails, LoadDies
  <2>2. UNCHANGED <<attempt, ploaded, mem, tables, ring>>  BY <2>1 DEF LoadStops
  <2>3. NoScratch \in ScratchSet  BY EntryFacts DEF NoScratch
  <2>4. scratch' \in [Backends -> ScratchSet] /\ \A c \in Backends \ {b} : scratch'[c] = scratch[c]
    BY <2>1, <2>3 DEF LoadStops
  <2>5. pc' \in [Backends -> Places] /\ pc'[b] = "idle" /\ \A c \in Backends \ {b} : pc'[c] = pc[c]
    BY <2>1 DEF LoadStops, Goto
  <2>6. todo' \in [Backends -> SUBSET (Rows \X {"old", "new"})]  BY <2>1 DEF LoadStops
  <2> QED BY <2>1, <2>2, <2>4, <2>5, <2>6
<1>9. ASSUME NEW b \in Backends, NEW r \in Rows, Write(b, r[1], r[2]) PROVE TypeOK' /\ Keep
  <2>1. UNCHANGED <<loaded, attempt, ploaded, pc, todo, scratch, tables, fails, deaths, flushes>> /\ writes' \in Nat
    BY <1>9 DEF Write, loadVars
  <2>2. r = <<r[1], r[2]>> /\ r[1] \in Keys  BY RowFacts
  <2>3. mem' \in [Keys -> Entries]  BY <1>9, <2>2, FilledFacts DEF Write, FilledBy
  <2>4. ring' \subseteq Rows  BY ZenonT(30), <1>9, <2>2 DEF Write
  <2> QED BY <2>1, <2>3, <2>4
<1>10. ASSUME NEW b \in Backends, FlushReset(b) \/ FlushDrop(b) \/ FlushTables(b) PROVE TypeOK' /\ Keep
  <2>1. UNCHANGED <<attempt, todo, scratch, writes, fails, deaths>> /\ loaded' \in 0 .. 2 /\ flushes' \in Nat
    BY <1>10 DEF FlushReset, FlushDrop, FlushTables, boundVars
  <2>2. pc' \in [Backends -> Places] /\ \A c \in Backends : pc'[c] = "writeback" => pc[c] = "writeback"
    BY ZenonT(30), <1>10 DEF FlushReset, FlushDrop, FlushTables, Goto
  <2>3. ploaded' \in [Backends -> BOOLEAN]  BY ZenonT(30), <1>10 DEF FlushReset, FlushDrop, FlushTables
  <2>4. tables' \in [Rows -> {"none", "old", "new"}]  BY <1>10 DEF FlushReset, FlushDrop, FlushTables
  <2>5. ring' \subseteq Rows  BY <1>10 DEF FlushReset, FlushDrop, FlushTables
  <2>6. mem' \in [Keys -> Entries]  BY <1>10, EntryFacts DEF FlushReset, FlushDrop, FlushTables
  <2> QED BY <2>1, <2>2, <2>3, <2>4, <2>5, <2>6
<1>11. CASE WatchdogExpires \/ Drain
  <2>1. UNCHANGED <<loaded, ploaded, pc, todo, scratch, mem, boundVars>>
        /\ attempt' \in {"never", "recent", "expired"}
    BY <1>11 DEF WatchdogExpires, Drain, loadVars
  <2>2. tables' \in [Rows -> {"none", "old", "new"}] /\ ring' \subseteq Rows
    BY <1>11 DEF WatchdogExpires, Drain
  <2> QED BY <2>1, <2>2 DEF boundVars
<1> QED BY ZenonT(30), <1>1, <1>2, <1>3, <1>4, <1>5, <1>6, <1>7, <1>8, <1>9, <1>10, <1>11 DEF Next, LoadStep

----------------------------------------------------------------------------
(* The flag *)

\* The steps that do not disturb a load.
CalmStep ==
    \/ \E b \in Backends :
        \/ LoadStep(b)
        \/ \E r \in Rows : Write(b, r[1], r[2])
        \/ FlushDrop(b) \/ FlushTables(b)
    \/ WatchdogExpires
    \/ Drain

LEMMA CalmSteps ==
  ASSUME TypeOK, Next, Undisturbed'
  PROVE  Undisturbed /\ CalmStep
<1>1. fails \in Nat /\ deaths \in Nat /\ flushes \in Nat  BY DEF TypeOK
<1>2. ASSUME NEW b \in Backends, LoadFails(b) \/ LoadDies(b) \/ FlushReset(b) PROVE FALSE
  BY <1>1, <1>2 DEF LoadFails, LoadDies, FlushReset, Undisturbed
<1>3. CalmStep  BY <1>2 DEF Next, CalmStep
<1>4. UNCHANGED <<fails, deaths, flushes>>
  <2>1. ASSUME NEW b \in Backends, LoadStep(b) PROVE UNCHANGED boundVars
    BY ZenonT(30), <2>1 DEF LoadStep, ReadLoaded, BecomeLoader, StampAttempt, LoadRow, WritebackRow, LoadDone, Poll, Steal
  <2>2. ASSUME NEW b \in Backends, NEW r \in Rows, Write(b, r[1], r[2]) PROVE UNCHANGED <<fails, deaths, flushes>>
    BY <2>2 DEF Write
  <2>3. ASSUME NEW b \in Backends, FlushDrop(b) \/ FlushTables(b) PROVE UNCHANGED boundVars
    BY <2>3 DEF FlushDrop, FlushTables
  <2>4. CASE WatchdogExpires \/ Drain  BY <2>4 DEF WatchdogExpires, Drain, boundVars
  <2> QED BY <1>3, <2>1, <2>2, <2>3, <2>4 DEF CalmStep, boundVars
<1> QED BY <1>3, <1>4 DEF Undisturbed

LEMMA FlagStep ==
  ASSUME TypeOK, Flag, CalmStep
  PROVE  Flag'
<1> USE DEF TypeOK, Flag, Loader, Loading
<1>1. ASSUME NEW b \in Backends, ReadLoaded(b) PROVE Flag'
  <2>1. UNCHANGED <<loaded, attempt>>  BY <1>1 DEF ReadLoaded
  <2>2. CASE loaded = 2 /\ ploaded' = [ploaded EXCEPT ![b] = TRUE] /\ UNCHANGED pc  BY <2>1, <2>2
  <2>3. CASE UNCHANGED ploaded /\ \E place \in {"cas", "wait"} : pc' = [pc EXCEPT ![b] = place]
    <3>1. PICK place \in {"cas", "wait"} : pc' = [pc EXCEPT ![b] = place]  BY ZenonT(30), <2>3
    <3>2. pc[b] = "idle"  BY <1>1 DEF ReadLoaded
    <3> QED BY <2>1, <2>3, <3>1, <3>2
  <2> QED BY <1>1, <2>2, <2>3 DEF ReadLoaded, Goto
<1>2. ASSUME NEW b \in Backends, BecomeLoader(b) PROVE Flag'
  <2>1. UNCHANGED <<attempt, ploaded>> /\ pc[b] = "cas"  BY <1>2 DEF BecomeLoader
  <2>2. CASE loaded = 0 /\ loaded' = 1 /\ pc' = [pc EXCEPT ![b] = "stamp"]
    <3>1. attempt = "never" /\ \A c \in Backends : ~Loader(c)  BY <2>2
    <3> QED BY <2>1, <2>2, <3>1
  <2>3. CASE loaded' = loaded /\ pc' = [pc EXCEPT ![b] = "idle"]  BY <2>1, <2>3
  <2> QED BY <1>2, <2>2, <2>3 DEF BecomeLoader, Wins, Goto
<1>3. ASSUME NEW b \in Backends, StampAttempt(b) PROVE Flag'
  <2>1. UNCHANGED <<loaded, ploaded>> /\ attempt' = "recent" /\ pc[b] = "stamp" /\ pc' = [pc EXCEPT ![b] = "load"]
    BY <1>3 DEF StampAttempt, Goto
  <2>2. loaded = 1 /\ \A c \in Backends \ {b} : ~Loader(c)  BY <2>1
  <2> QED BY <2>1, <2>2
<1>4. ASSUME NEW b \in Backends, pc[b] \in {"load", "writeback"}, UNCHANGED <<loaded, attempt, ploaded>>,
             NEW place \in {"load", "writeback"}, pc' = [pc EXCEPT ![b] = place]
      PROVE  Flag'
  BY <1>4
<1>5. ASSUME NEW b \in Backends, LoadDone(b) PROVE Flag'
  <2>1. /\ loaded' = 2 /\ ploaded' = [ploaded EXCEPT ![b] = TRUE] /\ attempt' = attempt
        /\ pc[b] = "load" /\ pc' = [pc EXCEPT ![b] = "idle"]
    BY <1>5 DEF LoadDone, LoadedMark, Goto
  <2>2. \A c \in Backends \ {b} : ~Loader(c)  BY <2>1
  <2> QED BY <2>1, <2>2
<1>6. ASSUME NEW b \in Backends, Poll(b) PROVE Flag'
  <2>1. UNCHANGED <<loaded, attempt, ploaded>> /\ pc[b] = "wait"  BY <1>6 DEF Poll
  <2>2. PICK place \in {"idle", "steal"} : pc' = [pc EXCEPT ![b] = place] /\ (place = "steal" => attempt = "expired")
    BY ZenonT(30), <1>6 DEF Poll, Overdue, Goto
  <2> QED BY <2>1, <2>2
<1>7. ASSUME NEW b \in Backends, Steal(b) PROVE Flag'
  <2>1. /\ UNCHANGED <<attempt, ploaded>> /\ pc[b] = "steal" /\ pc' = [pc EXCEPT ![b] = "idle"]
        /\ loaded' = IF loaded = 1 THEN 0 ELSE loaded
    BY <1>7 DEF Steal, Goto
  <2>2. loaded = 2 /\ loaded' = 2  BY <2>1
  <2> QED BY <2>1, <2>2
<1>8. ASSUME NEW b \in Backends, LoadStep(b) PROVE Flag'
  <2>1. ASSUME NEW r \in Rows, NEW v \in {"old", "new"}, LoadRow(b, r[1], r[2], v) PROVE Flag'
    BY <2>1, <1>4 DEF LoadRow, Goto
  <2>2. CASE WritebackRow(b)  BY <2>2, <1>4 DEF WritebackRow, Goto
  <2> HIDE DEF TypeOK, Flag, Loader, Loading
  <2> QED BY <1>8, <1>1, <1>2, <1>3, <1>5, <1>6, <1>7, <2>1, <2>2 DEF LoadStep
<1>9. CASE UNCHANGED <<loaded, attempt, ploaded, pc>>  BY <1>9
<1>10. CASE WatchdogExpires
  <2>1. UNCHANGED <<loaded, ploaded, pc>> /\ attempt = "recent" /\ attempt' = "expired"
    BY <1>10 DEF WatchdogExpires
  <2>2. \A b \in Backends : pc[b] \notin {"load", "writeback"}  BY <1>10 DEF WatchdogExpires
  <2>3. loaded = 2  BY <2>1, <2>2
  <2> QED BY <2>1, <2>2, <2>3
<1>11. ASSUME NEW b \in Backends, FlushDrop(b) \/ FlushTables(b) PROVE FALSE
  BY <1>11 DEF FlushDrop, FlushTables
<1>12. ASSUME NEW b \in Backends, NEW r \in Rows, Write(b, r[1], r[2]) PROVE UNCHANGED <<loaded, attempt, ploaded, pc>>
  BY <1>12 DEF Write, loadVars
<1>13. CASE Drain  BY <1>13, <1>9 DEF Drain, loadVars
<1> QED BY <1>8, <1>9, <1>10, <1>11, <1>12, <1>13 DEF CalmStep

----------------------------------------------------------------------------
(* The rows *)

\* Steps of the flag alone.
LEMMA RestoredKeep ==
  ASSUME Restored, UNCHANGED <<todo, scratch, mem, tables, ring>>,
         attempt' = "never" => attempt = "never", loaded' = 2 <=> loaded = 2,
         \A b \in Backends : pc'[b] \in {"load", "writeback"} => pc'[b] = pc[b]
  PROVE  Restored'
<1>1. \A r : Good(r)' <=> Good(r)  BY DEF Good, LeftOut, Held
<1>2. \A b : Prepared(b)' <=> Prepared(b)  BY DEF Prepared
<1>3. \A r : Held(r)' = Held(r)  BY DEF Held
<1> QED BY ZenonT(30), <1>1, <1>2, <1>3 DEF Restored, Loading

\* A row is restored or not whatever happens to the entries of other keys.
LEMMA GoodElsewhere ==
  ASSUME TypeOK, NEW k, NEW e, NEW r \in Rows, r[1] # k, mem' = [mem EXCEPT ![k] = e], tables' = tables
  PROVE  Held(r)' = Held(r) /\ (Good(r)' <=> Good(r))
<1>1. mem'[r[1]] = mem[r[1]]  BY RowFacts DEF TypeOK
<1> QED BY <1>1 DEF Good, LeftOut, Held

\* What Restored says while a load runs, ...
LEMMA DuringLoad ==
  ASSUME Restored, loaded # 2
  PROVE  /\ ring = {} /\ \A q \in Rows : tables[q] = "old"
         /\ \A q \in Keys, f \in Fields \cup {Whole} : mem[q].fields[f] # "new"
  BY ZenonT(30) DEF Restored

\* ... and what a step of the load has to show.
LEMMA StillLoading ==
  ASSUME attempt' # "never", loaded' # 2, ring' = {}, \A q \in Rows : tables'[q] = "old",
         \A q \in Keys, f \in Fields \cup {Whole} : mem'[q].fields[f] # "new",
         \A q \in Keys : mem'[q].type = "none" => mem'[q].fields = NoValues,
         \A q \in HashKeys : IF mem'[q].type = "HASH" THEN \E f \in Fields : mem'[q].fields[f] # "none"
                             ELSE mem'[q].fields = NoValues,
         \A c \in Backends : \A t \in todo'[c] : pc'[c] \in {"load", "writeback"} => t[2] = "old",
         \A c \in Backends : pc'[c] = "writeback" => Prepared(c)',
         \A c \in Backends : Loading(c)' => \A q \in Rows :
            <<q, "old">> \in todo'[c] \/ (pc'[c] = "writeback" /\ scratch'[c].row = q) \/ Good(q)'
  PROVE  Restored'
  BY DEF Restored

LEMMA RestoredStamp ==
  ASSUME TypeOK, Flag, Restored, NEW b \in Backends, StampAttempt(b)
  PROVE  Restored'
<1>1. /\ UNCHANGED <<loaded, scratch, mem, tables, ring>> /\ attempt' = "recent"
      /\ pc[b] = "stamp" /\ pc' = [pc EXCEPT ![b] = "load"]
      /\ todo' = [todo EXCEPT ![b] = {<<r, tables[r]>> : r \in {q \in Rows : tables[q] # "none"}}]
  BY DEF StampAttempt, Goto
<1>2. loaded = 1 /\ \A c \in Backends \ {b} : pc'[c] = pc[c] /\ ~Loading(c) /\ todo'[c] = todo[c]
  BY <1>1 DEF Flag, Loader, Loading, TypeOK
<1>3. \A r \in Rows : tables[r] = "old"  BY <1>2 DEF Restored
<1>4. todo'[b] = {<<r, "old">> : r \in Rows}  BY <1>1, <1>3 DEF TypeOK
<1>5. \A r \in Rows : <<r, "old">> \in todo'[b]  BY <1>4
<1>6. \A t \in todo'[b] : t[2] = "old"  BY <1>4
<1>7. \A r : Held(r)' = Held(r)  BY <1>1 DEF Held
<1>8. pc'[b] = "load"  BY <1>1 DEF TypeOK
<1>9. \A c \in Backends : pc'[c] \in {"load", "writeback"} => c = b  BY <1>2 DEF Loading
<1>10. \A c \in Backends : \A t \in todo'[c] : pc'[c] \in {"load", "writeback"} => t[2] = "old"  BY <1>6, <1>9
<1>11. \A c \in Backends : pc'[c] # "writeback"  BY <1>8, <1>9
<1>12. \A c \in Backends : Loading(c)' => \A r \in Rows : <<r, "old">> \in todo'[c]  BY ZenonT(30), <1>5, <1>9 DEF Loading
<1>13. /\ loaded' # 2 /\ attempt' # "never" /\ ring' = {} /\ \A q \in Rows : tables'[q] = "old"
       /\ \A q \in Keys, f \in Fields \cup {Whole} : mem'[q].fields[f] # "new"
  BY <1>1, <1>2, DuringLoad
<1>14. /\ \A q \in Keys : mem'[q].type = "none" => mem'[q].fields = NoValues
       /\ \A q \in HashKeys : IF mem'[q].type = "HASH" THEN \E f \in Fields : mem'[q].fields[f] # "none"
                              ELSE mem'[q].fields = NoValues
  BY ZenonT(30), <1>1 DEF Restored
<1> QED BY ZenonT(30), <1>10, <1>11, <1>12, <1>13, <1>14, StillLoading

\* pg_redis_store_upsert: the entry is there, still empty, and the scratch
\* copy has the row.
LEMMA RestoredLoadRow ==
  ASSUME TypeOK, Flag, Restored, NEW b \in Backends, NEW r \in Rows, NEW v \in {"old", "new"},
         LoadRow(b, r[1], r[2], v)
  PROVE  Restored'
<1> DEFINE k == r[1]
           e == IF mem[k].type = "none" THEN Fresh ELSE mem[k]
           n == Filled(mem[k], r[1], r[2], v)
<1>1. r = <<r[1], r[2]>> /\ k \in Keys /\ r[2] \in Fields \cup {Whole} /\ (k \in HashKeys => r[2] \in Fields)  BY RowFacts
<1>2. /\ UNCHANGED <<loaded, attempt, tables, ring>> /\ pc[b] = "load" /\ pc' = [pc EXCEPT ![b] = "writeback"]
      /\ <<r, v>> \in todo[b] /\ mem' = [mem EXCEPT ![k] = e]
      /\ scratch' = [scratch EXCEPT ![b] = [row |-> r, entry |-> n]]
      /\ todo' = [todo EXCEPT ![b] = todo[b] \ {<<r, v>>}]
  BY ZenonT(30), <1>1 DEF LoadRow, Goto
<1>3. v = "old"  BY <1>2 DEF Restored
<1>4. loaded = 1 /\ attempt = "recent" /\ \A c \in Backends \ {b} : pc'[c] = pc[c] /\ ~Loading(c)
  BY <1>2 DEF Flag, Loader, Loading, TypeOK
<1>5. mem[k] \in Entries /\ e.fields = mem[k].fields /\ (mem[k].type = "HASH" <=> e.type = "HASH") /\ e.type # "none"
  BY <1>1, EntryFacts DEF Restored, TypeOK
<1>6. \A q \in Keys : mem'[q].fields = mem[q].fields /\ (mem'[q].type = "HASH" <=> mem[q].type = "HASH")
                      /\ (mem'[q].type = "none" => mem[q].type = "none")
  BY <1>1, <1>2, <1>5 DEF TypeOK
<1>7. \A q \in Rows : Held(q)' = Held(q) /\ (Good(q)' <=> Good(q))
  <2> TAKE q \in Rows
  <2>1. mem'[q[1]].fields = mem[q[1]].fields  BY <1>6, RowFacts
  <2> QED BY <2>1, <1>2 DEF Good, LeftOut, Held
<1>8. FilledBy(n, mem[k], r, v)
  <2>1. mem[k] \in Entries  BY <1>5
  <2> QED BY <2>1, FilledFacts, Zenon
<1>9. scratch'[b].row = r /\ scratch'[b].entry = n /\ pc'[b] = "writeback" /\ todo'[b] = todo[b] \ {<<r, v>>}
      /\ \A c \in Backends \ {b} : todo'[c] = todo[c]
  BY <1>2 DEF TypeOK
<1> HIDE DEF e, n
<1>10. Prepared(b)'
  <2>1. ASSUME NEW f \in Fields \cup {Whole} PROVE n.fields[f] # "new"
    <3>1. mem[k].fields[f] # "new"  BY <1>1, <1>4 DEF Restored
    <3> QED BY <3>1, <1>3, <1>8 DEF FilledBy
  <2>2. n.fields[r[2]] = "old"  BY <1>3, <1>8 DEF FilledBy
  <2> QED BY <2>1, <2>2, <1>8, <1>9 DEF Prepared, FilledBy
<1>11. \A c \in Backends : pc'[c] \in {"load", "writeback"} => c = b  BY <1>4 DEF Loading
<1>12. \A c \in Backends : pc'[c] = "writeback" => Prepared(c)'  BY <1>10, <1>11
<1>13. \A c \in Backends : \A t \in todo'[c] : pc'[c] \in {"load", "writeback"} => t[2] = "old"
  BY <1>2, <1>9, <1>11 DEF Restored
<1>14. ASSUME NEW c \in Backends, Loading(c)', NEW q \in Rows
       PROVE  <<q, "old">> \in todo'[c] \/ (pc'[c] = "writeback" /\ scratch'[c].row = q) \/ Good(q)'
  <2>1. c = b  BY <1>14, <1>11 DEF Loading
  <2>2. <<q, "old">> \in todo[b] \/ Good(q)  BY <1>2 DEF Restored, Loading
  <2> QED BY <2>1, <2>2, <1>3, <1>7, <1>9
<1>15. \A q \in HashKeys : IF mem'[q].type = "HASH" THEN \E f \in Fields : mem'[q].fields[f] # "none"
                           ELSE mem'[q].fields = NoValues
  BY ZenonT(30), <1>6 DEF Restored, Keys
<1>16. \A q \in Keys : mem'[q].type = "none" => mem'[q].fields = NoValues  BY ZenonT(30), <1>6 DEF Restored
<1>17. loaded' # 2 /\ attempt' # "never"  BY <1>2, <1>4
<1>18. ring' = {} /\ \A q \in Rows : tables'[q] = "old"  BY <1>2, <1>4, DuringLoad
<1>19. \A q \in Keys, f \in Fields \cup {Whole} : mem'[q].fields[f] # "new"
  <2>1. \A q \in Keys, f \in Fields \cup {Whole} : mem[q].fields[f] # "new"  BY <1>4, DuringLoad
  <2> QED BY ZenonT(30), <2>1, <1>6
<1> QED BY ZenonT(30), <1>12, <1>13, <1>14, <1>15, <1>16, <1>17, <1>18, <1>19, StillLoading

\* pg_redis_shared_store_writeback: the row is restored, or its hash is there.
LEMMA RestoredWriteback ==
  ASSUME TypeOK, Flag, Restored, NEW b \in Backends, WritebackRow(b)
  PROVE  Restored'
<1>0. PICK r, n : r = scratch[b].row /\ n = scratch[b].entry  OBVIOUS
<1> DEFINE k == r[1]
           e == Written(mem[k], n)
           FieldSet == Fields \cup {Whole}
<1>1. /\ UNCHANGED <<loaded, attempt, todo, tables, ring>> /\ pc[b] = "writeback" /\ pc' = [pc EXCEPT ![b] = "load"]
      /\ mem' = [mem EXCEPT ![k] = e]
  BY <1>0 DEF WritebackRow, Goto
<1>2. /\ r \in Rows /\ n \in Entries /\ n.type = (IF k \in HashKeys THEN "HASH" ELSE "STRING")
      /\ n.fields[r[2]] = "old" /\ \A f \in FieldSet : n.fields[f] # "new"
  BY ZenonT(30), <1>0, <1>1 DEF Restored, Prepared, TypeOK
<1>3. r = <<r[1], r[2]>> /\ k \in Keys /\ r[2] \in FieldSet /\ (k \in HashKeys => r[2] \in Fields)
      /\ (k \notin HashKeys => k \in StringKeys /\ r[2] = Whole)
  BY <1>2, RowFacts
<1>4. loaded = 1 /\ attempt = "recent" /\ \A c \in Backends \ {b} : pc'[c] = pc[c] /\ ~Loading(c)
  BY <1>1 DEF Flag, Loader, Loading, TypeOK
<1>5. mem[k] \in Entries /\ mem'[k] = e /\ \A q \in Keys \ {k} : mem'[q] = mem[q]  BY <1>1, <1>3 DEF TypeOK
<1>6. e = IF k \in HashKeys /\ mem[k].type = "HASH" THEN mem[k] ELSE n
  BY <1>2 DEF Written
<1>7. CASE k \in HashKeys /\ mem[k].type = "HASH"
  <2>1. mem' = mem  BY ZenonT(30), <1>1, <1>6, <1>7 DEF TypeOK
  <2>2. \A q \in Rows : Held(q)' = Held(q) /\ (Good(q)' <=> Good(q))  BY <2>1, <1>1 DEF Good, LeftOut, Held
  <2>3. Good(r)
    <3>1. tables[r] = "old" /\ Held(r) # "new"  BY <1>2, <1>3, <1>4 DEF Restored, Held
    <3>2. CASE Held(r) = "none"
      <4>1. PICK f \in Fields : mem[k].fields[f] # "none"  BY <1>7 DEF Restored
      <4>2. f # r[2]  BY <4>1, <3>2 DEF Held
      <4> QED BY <3>1, <3>2, <4>1, <4>2, <1>7 DEF Good, LeftOut
    <3>3. CASE Held(r) # "none"
      <4>1. Held(r) \in {"none", "old", "new"}  BY <1>3, <1>5 DEF Held, Entries
      <4> QED BY <4>1, <3>1, <3>3 DEF Good
    <3> QED BY <3>2, <3>3
  <2>4. ASSUME NEW c \in Backends, Loading(c)', NEW q \in Rows
        PROVE  <<q, "old">> \in todo'[c] \/ (pc'[c] = "writeback" /\ scratch'[c].row = q) \/ Good(q)'
    <3>1. c = b  BY <2>4, <1>4 DEF Loading
    <3>2. <<q, "old">> \in todo[b] \/ q = r \/ Good(q)  BY ZenonT(30), <1>0, <1>1 DEF Restored, Loading
    <3> QED BY <3>1, <3>2, <2>2, <2>3, <1>1
  <2>5. \A c \in Backends : pc'[c] \in {"load", "writeback"} => c = b /\ pc'[c] = "load"
    BY <1>1, <1>4 DEF Loading, TypeOK
  <2>6. \A c \in Backends : \A t \in todo'[c] : pc'[c] \in {"load", "writeback"} => t[2] = "old"
    BY <2>5, <1>1 DEF Restored
  <2>7. \A c \in Backends : pc'[c] = "writeback" => Prepared(c)'  BY <2>5
  <2>8. /\ loaded' # 2 /\ attempt' # "never" /\ ring' = {} /\ \A q \in Rows : tables'[q] = "old"
        /\ \A q \in Keys, f \in FieldSet : mem'[q].fields[f] # "new"
    BY <2>1, <1>1, <1>4, DuringLoad
  <2>9. \A q \in Keys : mem'[q].type = "none" => mem'[q].fields = NoValues  BY ZenonT(30), <2>1 DEF Restored
  <2>10. \A q \in HashKeys : IF mem'[q].type = "HASH" THEN \E f \in Fields : mem'[q].fields[f] # "none"
                             ELSE mem'[q].fields = NoValues
    BY ZenonT(30), <2>1 DEF Restored
  <2> QED BY ZenonT(30), <2>4, <2>6, <2>7, <2>8, <2>9, <2>10, StillLoading
<1>8. CASE ~(k \in HashKeys /\ mem[k].type = "HASH")
  <2>1. mem'[k] = n  BY <1>5, <1>6, <1>8
  <2>2. \A q \in Rows : q[1] # k => Held(q)' = Held(q) /\ (Good(q)' <=> Good(q))  BY ZenonT(30), <1>1, GoodElsewhere
  <2>3. Good(r)'
    <3>1. tables'[r] = "old"  BY <1>1, <1>2, <1>4, DuringLoad
    <3>2. Held(r)' = "old"  BY <2>1, <1>2 DEF Held
    <3> QED BY <3>1, <3>2 DEF Good
  <2>4. ASSUME NEW q \in Rows, q[1] = k, q # r PROVE ~Good(q)
    <3>1. q = <<q[1], q[2]>> /\ (k \notin HashKeys => q[2] = Whole) /\ q[2] \in FieldSet  BY <2>4, RowFacts
    <3>2. k \in HashKeys  BY <3>1, <2>4, <1>3
    <3>3. mem[k].fields = NoValues  BY <3>2, <1>8 DEF Restored
    <3> QED BY <3>1, <3>3, <2>4, EntryFacts DEF Good, LeftOut, Held, Restored
  <2>5. ASSUME NEW c \in Backends, Loading(c)', NEW q \in Rows
        PROVE  <<q, "old">> \in todo'[c] \/ (pc'[c] = "writeback" /\ scratch'[c].row = q) \/ Good(q)'
    <3>1. c = b  BY <2>5, <1>4 DEF Loading
    <3>2. <<q, "old">> \in todo[b] \/ q = r \/ Good(q)  BY ZenonT(30), <1>0, <1>1 DEF Restored, Loading
    <3> QED BY <3>1, <3>2, <2>2, <2>3, <2>4, <1>1
  <2>6. \A c \in Backends : pc'[c] \in {"load", "writeback"} => c = b /\ pc'[c] = "load"
    BY <1>1, <1>4 DEF Loading, TypeOK
  <2>7. \A c \in Backends : \A t \in todo'[c] : pc'[c] \in {"load", "writeback"} => t[2] = "old"
    BY <2>6, <1>1 DEF Restored
  <2>8. \A c \in Backends : pc'[c] = "writeback" => Prepared(c)'  BY <2>6
  <2>9. \A q \in Keys : mem'[q].type = "none" => mem'[q].fields = NoValues
    BY ZenonT(30), <2>1, <1>2, <1>5 DEF Restored
  <2>10. \A q \in HashKeys : IF mem'[q].type = "HASH" THEN \E f \in Fields : mem'[q].fields[f] # "none"
                             ELSE mem'[q].fields = NoValues
    <3> TAKE q \in HashKeys
    <3>1. CASE q = k  BY <3>1, <2>1, <1>2, <1>3
    <3>2. CASE q # k  BY <3>2, <1>5 DEF Restored, Keys
    <3> QED BY <3>1, <3>2
  <2>11. \A q \in Keys, f \in FieldSet : mem'[q].fields[f] # "new"
    BY <2>1, <1>2, <1>4, <1>5 DEF Restored
  <2>12. loaded' # 2 /\ attempt' # "never" /\ ring' = {} /\ \A q \in Rows : tables'[q] = "old"
    BY <1>1, <1>4, DuringLoad
  <2> QED BY ZenonT(30), <2>5, <2>7, <2>8, <2>9, <2>10, <2>11, <2>12, StillLoading
<1> QED BY <1>7, <1>8

\* The last row has been visited: every row is restored or left out.
LEMMA RestoredDone ==
  ASSUME TypeOK, Flag, Restored, NEW b \in Backends, LoadDone(b)
  PROVE  Restored'
<1>1. /\ UNCHANGED <<attempt, todo, scratch, mem, tables, ring>> /\ loaded' = 2
      /\ pc[b] = "load" /\ todo[b] = {} /\ pc' = [pc EXCEPT ![b] = "idle"]
  BY DEF LoadDone, LoadedMark, Goto
<1>2. \A r \in Rows : Good(r)  BY ZenonT(30), <1>1 DEF Restored, Loading
<1>3. \A r : Held(r)' = Held(r) /\ (Good(r)' <=> Good(r))  BY <1>1 DEF Good, LeftOut, Held
<1>4. \A c \in Backends : pc'[c] \notin {"load", "writeback"}
  BY <1>1 DEF Flag, Loader, TypeOK
<1> QED BY ZenonT(30), <1>1, <1>2, <1>3, <1>4 DEF Restored, Loading

\* A command writes one row, and the ring takes it.  Its hash is a hash: no
\* other row of it is lost.
LEMMA RestoredWrite ==
  ASSUME TypeOK, Flag, Restored, NEW b \in Backends, NEW r \in Rows, Write(b, r[1], r[2])
  PROVE  Restored'
<1> DEFINE k == r[1]
           FieldSet == Fields \cup {Whole}
           n == Filled(mem[k], r[1], r[2], "new")
<1>1. /\ r = <<r[1], r[2]>> /\ k \in Keys /\ r[2] \in FieldSet /\ (k \in HashKeys => r[2] \in Fields)
      /\ (k \notin HashKeys => r[2] = Whole)
  BY RowFacts
<1>2. /\ UNCHANGED <<loaded, attempt, ploaded, pc, todo, scratch, tables>> /\ ploaded[b]
      /\ k \in HashKeys => mem[k].type # "STRING"
      /\ mem' = [mem EXCEPT ![k] = n] /\ ring' = ring \cup {r}
  BY <1>1 DEF Write, loadVars
<1>3. loaded = 2 /\ attempt # "never" /\ \A c \in Backends : ~Loading(c)
  <2>1. loaded = 2 /\ \A c \in Backends : ~Loader(c)  BY <1>2 DEF Flag
  <2>2. attempt # "never"
    <3> SUFFICES ASSUME attempt = "never" PROVE FALSE  OBVIOUS
    <3>1. mem[k] = NoEntry  BY <1>1 DEF Restored
    <3>2. Held(r) = "none" /\ \A f \in Fields : mem[k].fields[f] = "none"  BY <3>1, <1>1, EntryFacts DEF Held
    <3>3. r \in ring \/ Good(r)  BY <2>1 DEF Restored
    <3> QED BY <3>2, <3>3 DEF Restored, Good, LeftOut
  <2> QED BY <2>1, <2>2 DEF Loader, Loading
<1>4. mem[k] \in Entries  BY <1>1 DEF TypeOK
<1>5. FilledBy(n, mem[k], r, "new")  BY <1>4, FilledFacts, Zenon
<1> HIDE DEF n
<1>6. mem'[k] = n /\ \A q \in Keys \ {k} : mem'[q] = mem[q]  BY <1>1, <1>2 DEF TypeOK
<1>7. k \in HashKeys => mem[k].type = "HASH"
  <2> SUFFICES ASSUME k \in HashKeys, mem[k].type # "HASH" PROVE FALSE  OBVIOUS
  <2>1. mem[k].fields = NoValues  BY ZenonT(30) DEF Restored
  <2>2. Held(r) = "none" /\ \A f \in Fields : mem[k].fields[f] = "none"  BY <2>1, <1>1, EntryFacts DEF Held
  <2>3. r \in ring \/ Good(r)  BY <1>3 DEF Restored
  <2> QED BY <2>2, <2>3 DEF Restored, Good, LeftOut
<1>8. ASSUME NEW q \in Rows, q # r
      PROVE  Held(q)' = Held(q) /\ (Good(q) => Good(q)')
  <2>1. CASE q[1] # k  BY ZenonT(30), <2>1, <1>2, GoodElsewhere
  <2>2. CASE q[1] = k
    <3>1. q = <<q[1], q[2]>> /\ q[2] \in FieldSet /\ (k \notin HashKeys => q[2] = Whole)  BY <2>2, RowFacts
    <3>2. k \in HashKeys /\ q[2] # r[2]  BY <3>1, <2>2, <1>8, <1>1
    <3>3. Held(q)' = Held(q)  BY <3>1, <3>2, <2>2, <1>5, <1>6, <1>7 DEF Held, FilledBy
    <3>4. mem'[k].fields[r[2]] = "new" /\ r[2] \in Fields \ {q[2]}  BY <3>2, <1>1, <1>5, <1>6 DEF FilledBy
    <3> QED BY <3>3, <3>4, <2>2, <1>2 DEF Good, LeftOut
  <2> QED BY <2>1, <2>2
<1>9. Held(r)' = "new"  BY <1>5, <1>6 DEF Held, FilledBy
<1>10. \A q \in ring' : Held(q)' = "new"  BY ZenonT(30), <1>2, <1>8, <1>9 DEF Restored, TypeOK
<1>11. \A q \in Rows : q \in ring' \/ Good(q)'  BY ZenonT(30), <1>2, <1>3, <1>8 DEF Restored
<1>12. \A q \in Keys : mem'[q].type = "none" => mem'[q].fields = NoValues
  BY SMTT(30), <1>5, <1>6 DEF Restored, FilledBy
<1>13. \A q \in HashKeys : IF mem'[q].type = "HASH" THEN \E f \in Fields : mem'[q].fields[f] # "none"
                           ELSE mem'[q].fields = NoValues
  <2> TAKE q \in HashKeys
  <2>1. CASE q = k  BY <2>1, <1>1, <1>5, <1>6 DEF FilledBy
  <2>2. CASE q # k
    <3>1. mem'[q] = mem[q]  BY <2>2, <1>6 DEF Keys
    <3> QED BY ZenonT(30), <3>1 DEF Restored
  <2> QED BY <2>1, <2>2
<1>14. \A c \in Backends : pc'[c] \notin {"load", "writeback"}  BY <1>2, <1>3 DEF Loading
<1> QED BY ZenonT(30), <1>2, <1>3, <1>10, <1>11, <1>12, <1>13, <1>14 DEF Restored, Loading

\* A drain brings the tables what the ring holds.
LEMMA RestoredDrain ==
  ASSUME TypeOK, Flag, Restored, Drain
  PROVE  Restored'
<1>1. /\ UNCHANGED <<loaded, attempt, ploaded, pc, todo, scratch, mem>> /\ ring # {} /\ ring' = {}
      /\ tables' = [r \in Rows |-> IF r \in ring THEN "new" ELSE tables[r]]
  BY DEF Drain, loadVars
<1>2. loaded = 2  BY ZenonT(30), <1>1 DEF Restored
<1>3. \A b \in Backends : ~Loading(b)  BY <1>2 DEF Flag, Loader, Loading
<1>4. ASSUME NEW r \in Rows PROVE Good(r)' /\ tables'[r] # "none"
  <2>1. Held(r)' = Held(r)  BY ZenonT(30), <1>1 DEF Held
  <2>2. CASE r \in ring  BY <2>1, <2>2, <1>1 DEF Restored, Good
  <2>3. CASE r \notin ring
    <3>1. tables'[r] = tables[r] /\ Good(r)  BY ZenonT(30), <2>3, <1>1, <1>2 DEF Restored
    <3> QED BY ZenonT(30), <3>1, <2>1, <1>1 DEF Restored, Good, LeftOut
  <2> QED BY <2>2, <2>3
<1>5. \A c \in Backends : pc'[c] \notin {"load", "writeback"}  BY <1>1, <1>3 DEF Loading
<1> QED BY ZenonT(30), <1>1, <1>2, <1>4, <1>5 DEF Restored, Loading

LEMMA RestoredStep ==
  ASSUME TypeOK, Flag, Restored, CalmStep
  PROVE  Restored'
<1>1. ASSUME NEW b \in Backends, LoadStep(b) PROVE Restored'
  <2>1. CASE ReadLoaded(b) \/ BecomeLoader(b) \/ Poll(b) \/ Steal(b)
    <3>1. UNCHANGED <<attempt, todo, scratch, mem, tables, ring>>  BY <2>1 DEF ReadLoaded, BecomeLoader, Poll, Steal
    <3>2. loaded' = 2 <=> loaded = 2  BY <2>1 DEF ReadLoaded, BecomeLoader, Poll, Steal, Wins, Flag
    <3>3. \A c \in Backends : pc'[c] \in {"load", "writeback"} => pc'[c] = pc[c]
      BY <2>1 DEF ReadLoaded, BecomeLoader, Poll, Steal, Goto, TypeOK
    <3> QED BY <3>1, <3>2, <3>3, RestoredKeep
  <2>2. ASSUME NEW r \in Rows, NEW v \in {"old", "new"}, LoadRow(b, r[1], r[2], v) PROVE Restored'
    BY <2>2, RestoredLoadRow
  <2> QED BY <1>1, <2>1, <2>2, RestoredStamp, RestoredWriteback, RestoredDone DEF LoadStep
<1>2. ASSUME NEW b \in Backends, NEW r \in Rows, Write(b, r[1], r[2]) PROVE Restored'
  BY <1>2, RestoredWrite
<1>3. ASSUME NEW b \in Backends, FlushDrop(b) \/ FlushTables(b) PROVE FALSE
  BY <1>3 DEF FlushDrop, FlushTables, Flag
<1>4. CASE WatchdogExpires  BY <1>4, RestoredKeep DEF WatchdogExpires
<1> QED BY <1>1, <1>2, <1>3, <1>4, RestoredDrain DEF CalmStep

----------------------------------------------------------------------------
(* Theorems *)

LEMMA LoadInit ==
  ASSUME Init
  PROVE  LoadInv
<1>1. TypeOK
  <2>1. NoScratch \in [row : Rows \cup {<<>>}, entry : Entries]  BY EntryFacts DEF NoScratch
  <2> QED BY <2>1, EntryFacts DEF Init, TypeOK
<1>2. Flag  BY DEF Init, Flag, Loader, Loading
<1>3. Restored
  <2>1. \A k \in Keys : mem[k] = NoEntry  BY DEF Init
  <2>2. \A b \in Backends : pc[b] = "idle"  BY DEF Init
  <2>3. attempt = "never" /\ loaded = 0 /\ ring = {} /\ \A r \in Rows : tables[r] = "old"  BY DEF Init
  <2> QED BY <2>1, <2>2, <2>3, EntryFacts DEF Restored, Loading, Keys
<1> QED BY <1>1, <1>2, <1>3 DEF LoadInv, Init

\* Every state of load_if_needed, with the commands, drains and FLUSHALLs beside
\* it, satisfies the invariant behind the theorems below.
THEOREM LoadInvariant == Spec => []LoadInv
<1>1. Init => LoadInv  BY LoadInit
<1>2. LoadInv /\ [Next]_vars => LoadInv'
  <2> SUFFICES ASSUME LoadInv, [Next]_vars PROVE LoadInv'  OBVIOUS
  <2>1. CASE Next
    <3>1. TypeOK' /\ \A b \in Backends : pc'[b] = "writeback" => scratch'[b].row \in Rows
      BY <2>1, TypeStep DEF LoadInv
    <3>2. ASSUME Undisturbed' PROVE Flag' /\ Restored'
      BY <2>1, <3>2, CalmSteps, FlagStep, RestoredStep DEF LoadInv
    <3> QED BY <3>1, <3>2 DEF LoadInv
  <2>2. CASE UNCHANGED vars
    <3>1. UNCHANGED <<loaded, attempt, ploaded, pc, todo, scratch, mem, tables, ring, writes, fails, deaths, flushes>>
      BY <2>2 DEF vars, loadVars, boundVars
    <3>2. TypeOK' /\ (Undisturbed' <=> Undisturbed) /\ (Flag' <=> Flag)
      BY ZenonT(30), <3>1 DEF LoadInv, TypeOK, Undisturbed, Flag, Loader, Loading
    <3>3. Restored => Restored'  BY <3>1, RestoredKeep
    <3> QED BY <3>1, <3>2, <3>3 DEF LoadInv
  <2> QED BY <2>1, <2>2
<1> QED BY <1>1, <1>2, PTL DEF Spec

\* The variables keep their types, whatever fails, dies or is flushed.
THEOREM LoadTypeCorrect == Spec => []TypeOK
<1>1. LoadInv => TypeOK  BY DEF LoadInv
<1> QED BY <1>1, LoadInvariant, PTL

\* While no load fails or dies and there is no FLUSHALL, the swap of the flag
\* lets one backend load and keeps all others out (load_if_needed).
THEOREM OnlyOneLoads == Spec => []SoleLoader
<1>1. LoadInv => SoleLoader  BY DEF LoadInv, SoleLoader, OneLoader, Flag, Loader, Loading
<1> QED BY <1>1, LoadInvariant, PTL

\* An undisturbed load restores every string and, of every hash, what it does
\* not leave out; later writes and drains keep keyspace and tables in step.
THEOREM LoadIsFaithful == Spec => []LoadRestores
<1>1. LoadInv => LoadRestores  BY ZenonT(30) DEF LoadInv, LoadRestores, Settled, Restored, Good
<1> QED BY <1>1, LoadInvariant, PTL
=============================================================================
