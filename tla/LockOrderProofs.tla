--------------------------- MODULE LockOrderProofs ---------------------------
(***************************************************************************)
(* The LWLocks of the shared store cannot deadlock, for every number of    *)
(* partitions, backends and keys.  The argument is the one of ranked       *)
(* locks: LatchDiscipline says that FLUSHALL, the only one to wait with    *)
(* locks in hand, waits above everything it holds, so the holder of the    *)
(* highest partition held by anybody does not wait.                        *)
(***************************************************************************)
EXTENDS LockOrder, WellFoundedInduction, TLAPS

\* The part of TypeOK the argument needs.
LatchTypes ==
    /\ sync \in BOOLEAN
    /\ plock \in [Parts -> Backends \cup {Nobody}]
    /\ startup_lock \in Backends \cup {Nobody}
    /\ pc \in [Procs -> Places]
    /\ op \in [Backends -> {"none", "HSET", "SET", "FLUSHALL"}]
    /\ key \in [Backends -> Nat]
    /\ next \in [Backends -> Parts]

LatchInv == LatchTypes /\ LatchDiscipline /\ Ascending

\* A partition number, wherever the hash puts the key.
LEMMA PartitionInRange == \A k \in Nat : PartitionOf(k) \in Parts
  BY LockAssumption DEF PartitionOf, Parts

LEMMA LastPartition == \A i \in Parts : i + 1 = Partitions => 0 .. i = Parts
  BY LockAssumption DEF Parts

\* The highest of a set of partitions.
LEMMA HighestPartition ==
  ASSUME NEW H, H \subseteq Parts, H # {}
  PROVE  \E m \in H : \A i \in H : i <= m
<1> DEFINE T == {Partitions - 1 - i : i \in H}
<1>1. T \subseteq Nat /\ T # {}
  <2>1. ASSUME NEW i \in H PROVE Partitions - 1 - i \in Nat
    <3>1. i \in Parts
      OBVIOUS
    <3> QED BY <3>1, LockAssumption DEF Parts
  <2>2. PICK j \in H : TRUE
    OBVIOUS
  <2>3. Partitions - 1 - j \in T
    OBVIOUS
  <2> QED BY <2>1, <2>3
<1>2. PICK x \in T : \A y \in T : ~(<<y, x>> \in OpToRel(<, Nat))
  <2> HIDE DEF T
  <2> QED BY ZenonT(30), <1>1, WFMin, NatLessThanWellFounded
<1>3. \A y \in T : x <= y
  <2> SUFFICES ASSUME NEW y \in T PROVE x <= y
    OBVIOUS
  <2>1. x \in Nat /\ y \in Nat
    BY <1>1
  <2>2. ~(y < x)
    <3> HIDE DEF T
    <3> QED BY ZenonT(30), <1>2, <2>1 DEF OpToRel
  <2> QED BY <2>1, <2>2
<1>4. PICK m \in H : x = Partitions - 1 - m
  OBVIOUS
<1>5. \A i \in H : i <= m
  <2> SUFFICES ASSUME NEW i \in H PROVE i <= m
    OBVIOUS
  <2>1. x <= Partitions - 1 - i
    BY <1>3
  <2> QED BY <2>1, <1>4, LockAssumption DEF Parts
<1> QED BY <1>5

\* Whoever holds the highest partition is not stuck.
LEMMA HighestHolderRuns ==
  ASSUME LatchInv PROVE SomeHolderRuns
<1> DEFINE H == {i \in Parts : plock[i] # Nobody}
<1> SUFFICES ASSUME H # {} PROVE \E i \in Parts : plock[i] # Nobody /\ ~Stuck(plock[i])
  BY DEF SomeHolderRuns
<1>1. PICK m \in H : \A i \in H : i <= m
  <2>1. H \subseteq Parts
    OBVIOUS
  <2> HIDE DEF H
  <2> QED BY <2>1, HighestPartition
<1>2. m \in Parts /\ plock[m] \in Backends
  BY DEF LatchInv, LatchTypes
<1>3. ~Stuck(plock[m])
  <2> SUFFICES ASSUME pc[plock[m]] = "acquire", plock[next[plock[m]]] # Nobody PROVE FALSE
    BY DEF Stuck, InOrder
  <2>1. next[plock[m]] \in H
    BY <1>2 DEF LatchInv, LatchTypes
  <2>2. m \in Held(plock[m])
    BY <1>2 DEF Held
  <2>3. m \in 0 .. next[plock[m]] - 1
    BY ZenonT(30), <1>2, <2>2 DEF LatchInv, LatchDiscipline, Ascending
  <2>4. next[plock[m]] <= m
    BY <1>1, <2>1
  <2> QED BY <2>3, <2>4, <1>2, <2>1, LockAssumption DEF Parts
<1> QED BY <1>2, <1>3, LockAssumption DEF Procs

LEMMA InitLatch == Init => LatchInv
<1> SUFFICES ASSUME Init PROVE LatchInv
  OBVIOUS
<1>1. LatchTypes
  BY LockAssumption DEF Init, LatchTypes, Parts, Places
<1>2. \A b \in Backends : Held(b) = {}
  BY LockAssumption DEF Init, Held, Procs
<1> QED BY <1>1, <1>2, LockAssumption DEF LatchInv, LatchDiscipline, Ascending, Init, Procs

-----------------------------------------------------------------------------
(* A process whose step touches no lock and starts from a place where it   *)
(* holds none keeps the invariant.                                         *)

LEMMA QuietStep ==
  ASSUME LatchInv, LatchTypes', NEW p \in Procs,
         plock' = plock, startup_lock' = startup_lock,
         \A c \in Backends \ {p} : pc'[c] = pc[c] /\ next'[c] = next[c] /\ key'[c] = key[c],
         p \in Backends => /\ pc[p] \notin {"publish", "acquire", "release", "attaching"}
                           /\ pc'[p] \notin {"release", "attaching"}
                           /\ next'[p] = 0
  PROVE  LatchInv'
<1>1. \A c \in Backends : Held(c)' = Held(c)
  BY DEF Held
<1>2. p \in Backends => Held(p) = {} /\ startup_lock # p
  BY DEF LatchInv, LatchDiscipline, Ascending
<1>3. LatchDiscipline' /\ Ascending'
  <2> SUFFICES ASSUME NEW c \in Backends
               PROVE  /\ Held(c)' # {} => pc'[c] \in {"publish", "acquire", "release"}
                      /\ startup_lock' = c => pc'[c] = "attaching"
                      /\ pc'[c] = "publish" => Held(c)' \subseteq {PartitionOf(key'[c])}
                      /\ pc'[c] = "acquire" => Held(c)' = 0 .. next'[c] - 1
                      /\ pc'[c] = "release" => Held(c)' = Parts
                      /\ pc'[c] \notin {"acquire", "release"} => next'[c] = 0
    BY DEF LatchDiscipline, Ascending, PartitionOf
  <2>1. CASE c = p
    BY <1>1, <1>2, <2>1
  <2>2. CASE c # p
    BY <1>1, <2>2 DEF LatchInv, LatchDiscipline, Ascending
  <2> QED BY <2>1, <2>2
<1> QED BY <1>3 DEF LatchInv

\* Start, and the waits, sleeps and errors of a backend outside its locks.
LEMMA QuietBackend ==
  ASSUME LatchInv, NEW b \in Backends,
         \/ \E o \in {"HSET", "SET", "FLUSHALL"}, k \in Nat : Start(b, o, k)
         \/ BlockRetry(b) \/ BlockGiveUp(b) \/ CollectNothing(b) \/ Drop(b) \/ Truncate(b)
  PROVE  LatchInv'
<1> USE LockAssumption DEF LatchInv, LatchTypes, Ascending, Procs, Places
<1>0. 0 \in Parts
  BY DEF Parts
<1>1. ASSUME NEW o \in {"HSET", "SET", "FLUSHALL"}, NEW k \in Nat, Start(b, o, k) PROVE LatchInv'
  <2>1. LatchTypes'
    BY <1>1 DEF Start, Goto, latchVars, FirstPlace
  <2>2. \A c \in Backends \ {b} : pc'[c] = pc[c] /\ next'[c] = next[c] /\ key'[c] = key[c]
    BY <1>1 DEF Start, Goto, latchVars, FirstPlace
  <2>3. /\ plock' = plock /\ startup_lock' = startup_lock
        /\ pc[b] \notin {"publish", "acquire", "release", "attaching"}
        /\ pc'[b] \notin {"release", "attaching"} /\ next'[b] = 0
    BY ZenonT(30), <1>1 DEF Start, Goto, latchVars, FirstPlace
  <2> QED BY <2>1, <2>2, <2>3, QuietStep
<1>2. ASSUME BlockRetry(b) PROVE LatchInv'
  <2>1. LatchTypes'
    BY <1>2 DEF BlockRetry, Spun, Goto, Again, latchVars
  <2> QED BY ZenonT(30), <1>2, <2>1, QuietStep DEF BlockRetry, Spun, Goto, Again, latchVars
<1>3. ASSUME BlockGiveUp(b) PROVE LatchInv'
  <2>1. LatchTypes'
    BY <1>3, <1>0 DEF BlockGiveUp, Return, Goto, latchVars
  <2>2. \A c \in Backends \ {b} : pc'[c] = pc[c] /\ next'[c] = next[c] /\ key'[c] = key[c]
    BY <1>3 DEF BlockGiveUp, Return, Goto, latchVars
  <2>3. /\ plock' = plock /\ startup_lock' = startup_lock
        /\ pc[b] \notin {"publish", "acquire", "release", "attaching"}
        /\ pc'[b] \notin {"release", "attaching"} /\ next'[b] = 0
    BY <1>3 DEF BlockGiveUp, Return, Goto, latchVars
  <2> QED BY <2>1, <2>2, <2>3, QuietStep
<1>4. ASSUME CollectNothing(b) PROVE LatchInv'
  <2>1. LatchTypes' /\ pc[b] = "full"
    BY <1>4 DEF CollectNothing, DrainWanted, Goto, Again, latchVars, cmdVars
  <2> QED BY ZenonT(30), <1>4, <2>1, QuietStep DEF CollectNothing, Goto, Again, latchVars, cmdVars
<1>5. ASSUME Drop(b) PROVE LatchInv'
  <2>1. LatchTypes'
    BY ZenonT(30), <1>5 DEF Drop, Goto, latchVars, cmdVars
  <2> QED BY ZenonT(30), <1>5, <2>1, QuietStep DEF Drop, Goto, latchVars, cmdVars
<1>6. ASSUME Truncate(b) PROVE LatchInv'
  <2>1. LatchTypes'
    BY <1>6, <1>0 DEF Truncate, Return, Goto, latchVars
  <2>2. \A c \in Backends \ {b} : pc'[c] = pc[c] /\ next'[c] = next[c] /\ key'[c] = key[c]
    BY <1>6 DEF Truncate, Return, Goto, latchVars
  <2>3. /\ plock' = plock /\ startup_lock' = startup_lock
        /\ pc[b] \notin {"publish", "acquire", "release", "attaching"}
        /\ pc'[b] \notin {"release", "attaching"} /\ next'[b] = 0
    BY <1>6 DEF Truncate, Return, Goto, latchVars
  <2> QED BY <2>1, <2>2, <2>3, QuietStep
<1> QED BY ZenonT(30), <1>1, <1>2, <1>3, <1>4, <1>5, <1>6

\* Drains, ends of transactions and the deadlock detector.
LEMMA QuietProcess ==
  ASSUME LatchInv, NEW p \in Procs, Drain(p) \/ Commit(p) \/ BreakDeadlock(p)
  PROVE  LatchInv'
<1> USE LockAssumption DEF LatchInv, LatchTypes, Ascending, Procs, Places
<1>0. 0 \in Parts
  BY DEF Parts
<1>1. ASSUME Collect(p) PROVE LatchInv'
  <2>1. LatchTypes' /\ pc[p] \in {"idle", "full"}
    BY <1>1 DEF Collect, DrainWanted, Goto, latchVars, cmdVars
  <2> QED BY ZenonT(30), <1>1, <2>1, QuietStep DEF Collect, Goto, latchVars, cmdVars
<1>2. ASSUME OpenTables(p) PROVE LatchInv'
  <2>1. LatchTypes'
    BY <1>2 DEF OpenTables, latchVars, cmdVars
  <2> QED BY <1>2, <2>1, QuietStep DEF OpenTables, latchVars, cmdVars
<1>3. ASSUME Persist(p) PROVE LatchInv'
  <2>1. LatchTypes'
    BY <1>3 DEF Persist, Goto, latchVars, cmdVars
  <2> QED BY ZenonT(30), <1>3, <2>1, QuietStep DEF Persist, Goto, latchVars, cmdVars
<1>4. ASSUME Release(p) PROVE LatchInv'
  <2>1. LatchTypes'
    BY <1>4 DEF Release, Goto, Again, latchVars, cmdVars
  <2> QED BY ZenonT(30), <1>4, <2>1, QuietStep DEF Release, Goto, Again, latchVars, cmdVars
<1>5. ASSUME Commit(p) PROVE LatchInv'
  <2>1. LatchTypes' /\ pc[p] \in {"idle", "commit"}
    BY <1>5 DEF Commit, Goto, latchVars, cmdVars
  <2> QED BY <1>5, <2>1, QuietStep DEF Commit, Goto, latchVars, cmdVars
<1>6. ASSUME BreakDeadlock(p) PROVE LatchInv'
  <2>1. pc[p] \in {"persist", "truncate"}
    BY <1>6 DEF BreakDeadlock, BlockedOn
  <2>2. LatchTypes'
    <3>1. CASE p = Bgw
      BY <1>6, <3>1 DEF BreakDeadlock, Goto, latchVars, cmdVars
    <3>2. CASE p # Bgw
      <4>1. /\ pc' = [pc EXCEPT ![p] = "idle"] /\ key' = [key EXCEPT ![p] = 0]
            /\ next' = [next EXCEPT ![p] = 0] /\ op' = [op EXCEPT ![p] = "none"]
            /\ sync' = sync /\ plock' = plock /\ startup_lock' = startup_lock
        BY <1>6, <3>2 DEF BreakDeadlock, Return, Goto, latchVars
      <4> HIDE DEF Ascending
      <4> QED BY ZenonT(30), <1>0, <4>1
    <3> QED BY <3>1, <3>2
  <2>3. /\ plock' = plock /\ startup_lock' = startup_lock
        /\ p \in Backends => pc'[p] = "idle" /\ next'[p] = 0
        /\ \A c \in Backends \ {p} : pc'[c] = pc[c] /\ next'[c] = next[c] /\ key'[c] = key[c]
    <3>1. CASE p = Bgw
      BY <1>6, <3>1 DEF BreakDeadlock, Goto, latchVars, cmdVars
    <3>2. CASE p # Bgw
      BY <1>6, <1>0, <3>2 DEF BreakDeadlock, Return, Goto, latchVars
    <3> QED BY <3>1, <3>2
  <2> QED BY ZenonT(30), <2>1, <2>2, <2>3, QuietStep
<1> QED BY <1>1, <1>2, <1>3, <1>4, <1>5, <1>6 DEF Drain

-----------------------------------------------------------------------------
(* The steps that take or release a lock.                                  *)

\* startup_lock: taken with nothing in hand, released on both ways out.
LEMMA StartupSteps ==
  ASSUME LatchInv, NEW b \in Backends, LockStartup(b) \/ AttachDsa(b) \/ AttachError(b)
  PROVE  LatchInv'
<1> USE LockAssumption DEF LatchInv, LatchTypes, Ascending, Procs, Places
<1>0. 0 \in Parts
  BY DEF Parts
<1>1. LatchTypes'
  <2>1. CASE LockStartup(b)
    BY <2>1 DEF LockStartup, Goto, cmdVars
  <2>2. CASE AttachDsa(b)
    BY <2>2 DEF AttachDsa, Goto, FirstPlace, cmdVars
  <2>3. CASE AttachError(b)
    BY <1>0, <2>3 DEF AttachError, Return, Goto
  <2> QED BY <2>1, <2>2, <2>3
<1>2. /\ plock' = plock /\ Held(b) = {} /\ next'[b] = 0
      /\ startup_lock' = b => pc'[b] = "attaching"
      /\ pc'[b] \in {"attaching", "idle", "acquire", "lock"}
  <2>1. pc[b] \in {"attach", "attaching"}
    BY DEF LockStartup, AttachDsa, AttachError
  <2>2. Held(b) = {} /\ next[b] = 0
    BY <2>1 DEF LatchDiscipline
  <2>3. CASE LockStartup(b)
    BY <2>2, <2>3 DEF LockStartup, Goto, cmdVars
  <2>4. CASE AttachDsa(b)
    BY <2>2, <2>4 DEF AttachDsa, Goto, FirstPlace, cmdVars
  <2>5. CASE AttachError(b)
    BY <2>2, <2>5 DEF AttachError, Return, Goto
  <2> QED BY <2>3, <2>4, <2>5
<1>3. \A c \in Backends \ {b} :
        /\ pc'[c] = pc[c] /\ next'[c] = next[c] /\ key'[c] = key[c]
        /\ startup_lock' = c => startup_lock = c
  BY DEF LockStartup, AttachDsa, AttachError, Return, Goto, cmdVars
<1>4. \A c \in Backends : Held(c)' = Held(c)
  BY <1>2 DEF Held
<1>5. LatchDiscipline' /\ Ascending'
  <2> SUFFICES ASSUME NEW c \in Backends
               PROVE  /\ Held(c)' # {} => pc'[c] \in {"publish", "acquire", "release"}
                      /\ startup_lock' = c => pc'[c] = "attaching"
                      /\ pc'[c] = "publish" => Held(c)' \subseteq {PartitionOf(key'[c])}
                      /\ pc'[c] = "acquire" => Held(c)' = 0 .. next'[c] - 1
                      /\ pc'[c] = "release" => Held(c)' = Parts
                      /\ pc'[c] \notin {"acquire", "release"} => next'[c] = 0
    BY DEF LatchDiscipline, Ascending, PartitionOf
  <2>1. CASE c = b
    <3>1. Held(c)' = {}
      BY <1>2, <1>4, <2>1
    <3>2. next'[c] = 0
      BY <1>2, <2>1
    <3>3. 0 .. next'[c] - 1 = {}
      BY <3>2
    <3>4. pc'[c] \in {"attaching", "idle", "acquire", "lock"} /\ (startup_lock' = c => pc'[c] = "attaching")
      BY <1>2, <2>1
    <3> QED BY <3>1, <3>2, <3>3, <3>4
  <2>2. CASE c # b
    BY <1>3, <1>4, <2>2 DEF LatchDiscipline, Ascending
  <2> QED BY <2>1, <2>2
<1> QED BY <1>1, <1>5

\* A backend that changes the locks of its own only, and keeps what
\* LatchDiscipline asks of it, keeps it for everybody.
LEMMA OwnLocksStep ==
  ASSUME LatchInv, LatchTypes', NEW b \in Backends,
         startup_lock' = startup_lock, startup_lock # b,
         \A c \in Backends \ {b} : /\ pc'[c] = pc[c] /\ next'[c] = next[c] /\ key'[c] = key[c]
                                  /\ Held(c)' = Held(c),
         Held(b)' # {} => pc'[b] \in {"publish", "acquire", "release"},
         pc'[b] = "publish" => Held(b)' \subseteq {PartitionOf(key'[b])},
         pc'[b] = "acquire" => Held(b)' = 0 .. next'[b] - 1,
         pc'[b] = "release" => Held(b)' = Parts,
         pc'[b] \notin {"acquire", "release"} => next'[b] = 0
  PROVE  LatchInv'
<1>1. LatchDiscipline'
  BY DEF LatchInv, LatchDiscipline, PartitionOf
<1>2. Ascending'
  BY DEF LatchInv, Ascending
<1> QED BY <1>1, <1>2 DEF LatchInv

\* HSET and SET: the lock of the key, taken with nothing in hand.
LEMMA KeyLockSteps ==
  ASSUME LatchInv, NEW b \in Backends, Lock(b) \/ Publish(b) \/ FindFull(b)
  PROVE  LatchInv'
<1> DEFINE mine == PartitionOf(key[b])
<1> USE LockAssumption DEF LatchInv, LatchTypes, Procs, Places
<1>0. 0 \in Parts /\ mine \in Parts
  BY PartitionInRange DEF Parts
<1>1. ASSUME Lock(b) PROVE LatchInv'
  <2>1. LatchTypes'
    BY ZenonT(30), <1>0, <1>1 DEF Lock, HoldMine, Goto, cmdVars
  <2>2. Held(b) = {} /\ startup_lock # b /\ next[b] = 0
    BY <1>1 DEF Lock, LatchDiscipline, Ascending
  <2>3. /\ plock[mine] = Nobody
        /\ plock' = IF op[b] = "HSET" THEN [plock EXCEPT ![mine] = b] ELSE plock
    BY <1>1 DEF Lock, HoldMine, MyLock
  <2>4. /\ \A c \in Backends \ {b} : Held(c)' = Held(c)
        /\ Held(b)' \subseteq {mine}
        /\ Held(b)' # {} => op[b] = "HSET"
    BY <1>0, <2>2, <2>3 DEF Held
  <2>5. /\ key' = key /\ next' = next /\ startup_lock' = startup_lock
        /\ pc'[b] \in {"relock", "publish"} /\ (op[b] = "HSET" => pc'[b] = "publish")
        /\ \A c \in Backends \ {b} : pc'[c] = pc[c]
    BY <1>1 DEF Lock, Goto, cmdVars
  <2>6. PartitionOf(key'[b]) = mine
    BY <2>5
  <2> QED BY ZenonT(30), <2>1, <2>2, <2>4, <2>5, <2>6, OwnLocksStep
<1>2. ASSUME Publish(b) \/ FindFull(b) PROVE LatchInv'
  <2>2. Held(b) \subseteq {mine} /\ startup_lock # b /\ next[b] = 0
    BY <1>2 DEF Publish, FindFull, LatchDiscipline, Ascending
  <2>3. plock' = IF plock[mine] = b THEN [plock EXCEPT ![mine] = Nobody] ELSE plock
    BY <1>2 DEF Publish, FindFull, UnlockMine, HoldMine, MyLock
  <2>4. \A c \in Backends \ {b} : Held(c)' = Held(c)
    BY <1>0, <2>3 DEF Held
  <2>5. Held(b)' = {}
    BY <1>0, <2>2, <2>3 DEF Held
  <2>1. LatchTypes'
    <3>1. plock' \in [Parts -> Backends \cup {Nobody}]
      BY <1>0, <2>3
    <3>2. CASE Publish(b)
      BY <1>0, <3>1, <3>2 DEF Publish, Return, Goto
    <3>3. CASE FindFull(b)
      BY <3>1, <3>3 DEF FindFull, Goto, cmdVars
    <3> QED BY <1>2, <3>2, <3>3
  <2>6. /\ next'[b] = 0 /\ startup_lock' = startup_lock /\ pc'[b] \in {"idle", "full"}
        /\ \A c \in Backends \ {b} : pc'[c] = pc[c] /\ next'[c] = next[c] /\ key'[c] = key[c]
    BY <1>2, <2>2 DEF Publish, FindFull, Return, Goto, cmdVars
  <2> QED BY ZenonT(30), <2>1, <2>2, <2>4, <2>5, <2>6, OwnLocksStep
<1> QED BY <1>1, <1>2

\* FLUSHALL: one more partition, the next one up.
LEMMA LockNextStep ==
  ASSUME LatchInv, NEW b \in Backends, LockNext(b)
  PROVE  LatchInv'
<1> USE LockAssumption DEF LatchInv, LatchTypes, Procs, Places
<1>1. next[b] \in Parts /\ plock[next[b]] = Nobody /\ pc[b] = "acquire"
  BY DEF LockNext, InOrder
<1>2. plock' = [plock EXCEPT ![next[b]] = b] /\ plock'[next[b]] = b
  BY <1>1 DEF LockNext, InOrder
<1>3. Held(b)' = Held(b) \cup {next[b]}
  BY <1>1, <1>2 DEF Held
<1>4. Held(b) = 0 .. next[b] - 1 /\ startup_lock # b
  BY <1>1 DEF LatchDiscipline, Ascending
<1>5. Held(b)' = 0 .. next[b]
  BY <1>1, <1>3, <1>4 DEF Parts
<1>6. \A c \in Backends \ {b} : Held(c)' = Held(c)
  BY <1>1, <1>2 DEF Held
<1>7. /\ \A c \in Backends \ {b} : pc'[c] = pc[c] /\ next'[c] = next[c] /\ key'[c] = key[c]
      /\ startup_lock' = startup_lock
  BY DEF LockNext, Goto
<1>10. plock' \in [Parts -> Backends \cup {Nobody}]
  BY <1>1, <1>2
<1>8. CASE next[b] + 1 = Partitions
  <2>1. LatchTypes'
    BY <1>8, <1>10 DEF LockNext, Goto
  <2>2. pc'[b] = "release"
    BY <1>8 DEF LockNext, Goto
  <2>3. 0 .. next[b] = Parts
    BY <1>1, <1>8, LastPartition
  <2>4. Held(b)' = Parts
    BY <1>5, <2>3
  <2> QED BY ZenonT(30), <1>4, <1>6, <1>7, <2>1, <2>2, <2>4, OwnLocksStep
<1>9. CASE next[b] + 1 # Partitions
  <2>1. next[b] + 1 \in Parts
    BY <1>1, <1>9 DEF Parts
  <2>2. LatchTypes'
    BY <1>9, <1>10, <2>1 DEF LockNext
  <2>3. pc'[b] = "acquire" /\ next'[b] = next[b] + 1
    BY <1>1, <1>9 DEF LockNext
  <2>4. Held(b)' = 0 .. next'[b] - 1
    BY <1>1, <1>5, <2>3 DEF Parts
  <2> QED BY ZenonT(30), <1>4, <1>6, <1>7, <2>2, <2>3, <2>4, OwnLocksStep
<1> QED BY <1>8, <1>9

\* ... and all of them back.
LEMMA UnlockAllStep ==
  ASSUME LatchInv, NEW b \in Backends, UnlockAll(b)
  PROVE  LatchInv'
<1> USE LockAssumption DEF LatchInv, LatchTypes, Procs, Places
<1>1. pc[b] = "release" /\ Held(b) = Parts /\ startup_lock # b
  BY DEF UnlockAll, LatchDiscipline
<1>2. \A c \in Backends : Held(c)' = {}
  BY DEF UnlockAll, Held
<1>3. \A c \in Backends \ {b} : Held(c) = {}
  BY <1>1 DEF Held
<1>4. LatchTypes'
  BY DEF UnlockAll, Goto, Parts
<1>5. /\ pc'[b] = "drop" /\ next'[b] = 0 /\ startup_lock' = startup_lock
      /\ \A c \in Backends \ {b} : pc'[c] = pc[c] /\ next'[c] = next[c] /\ key'[c] = key[c]
  BY DEF UnlockAll, Goto
<1> QED BY ZenonT(30), <1>1, <1>2, <1>3, <1>4, <1>5, OwnLocksStep

-----------------------------------------------------------------------------
LEMMA StepLatch == LatchInv /\ [Next]_vars => LatchInv'
<1> SUFFICES ASSUME LatchInv, [Next]_vars PROVE LatchInv'
  OBVIOUS
<1>1. ASSUME NEW b \in Backends, NEW o \in {"HSET", "SET", "FLUSHALL"}, NEW k \in Nat, Start(b, o, k)
      PROVE  LatchInv'
  BY <1>1, QuietBackend
<1>2. ASSUME NEW b \in Backends, Step(b) PROVE LatchInv'
  <2>1. b \in Procs
    BY DEF Procs
  <2> QED BY <1>2, <2>1, QuietBackend, QuietProcess, StartupSteps, KeyLockSteps, LockNextStep,
             UnlockAllStep DEF Step
<1>3. ASSUME NEW p \in Procs, Drain(p) \/ Commit(p) \/ BreakDeadlock(p) PROVE LatchInv'
  BY <1>3, QuietProcess
<1>4. CASE UNCHANGED vars
  BY <1>4 DEF vars, latchVars, cmdVars, LatchInv, LatchTypes, LatchDiscipline, Ascending, Held,
              PartitionOf
<1>5. CASE Next
  <2>1. Bgw \in Procs
    BY DEF Procs
  <2>2. Commands[sync] \subseteq {"HSET", "SET", "FLUSHALL"}
    BY LockAssumption DEF LatchInv, LatchTypes
  <2>3. ASSUME NEW b \in Backends, NEW o \in Commands[sync] \ {"FLUSHALL"}, NEW k \in Keys, Start(b, o, k)
        PROVE  LatchInv'
    BY <1>1, <2>2, <2>3, LockAssumption
  <2>4. ASSUME NEW b \in Backends, Start(b, "FLUSHALL", 0) PROVE LatchInv'
    BY <1>1, <2>4
  <2> QED BY <1>2, <1>3, <1>5, <2>1, <2>3, <2>4 DEF Next
<1> QED BY <1>4, <1>5

\* Every state a cluster can reach satisfies the invariant behind the two
\* theorems below, for any number of partitions, backends and keys.
THEOREM LatchInvariant == Spec => []LatchInv
  BY InitLatch, StepLatch, PTL DEF Spec

\* No LWLock is held where the code drains, sleeps, truncates or runs SPI, and
\* FLUSHALL waits only above the partitions it holds (the contract asserted by
\* pg_redis_assert_no_pg_redis_lwlock_held).
THEOREM LatchesInOrder == Spec => []LatchDiscipline
<1>1. LatchInv => LatchDiscipline
  BY DEF LatchInv
<1> QED BY <1>1, LatchInvariant, PTL

\* The partition LWLocks never deadlock: some holder always runs.
THEOREM NoLatchDeadlock == Spec => []SomeHolderRuns
<1>1. LatchInv => SomeHolderRuns
  BY HighestHolderRuns
<1> QED BY <1>1, LatchInvariant, PTL

-----------------------------------------------------------------------------
(* The ring, as the lock argument sees it: its events, and how many of     *)
(* them, from the oldest, are DRAINING.                                    *)

RingTypes ==
    /\ ring \in Seq(Nat)
    /\ marked \in 0 .. Len(ring)
    /\ Len(ring) <= RingCapacity

LEMMA RingPublish ==
  ASSUME LatchTypes, RingTypes, NEW b \in Backends, Publish(b)
  PROVE  RingTypes'
<1>1. key[b] \in Nat /\ ring' = Append(ring, key[b]) /\ marked' = marked
  BY DEF Publish, LatchTypes
<1>2. ring' \in Seq(Nat) /\ Len(ring') = Len(ring) + 1 /\ Len(ring) \in Nat
  BY <1>1 DEF RingTypes
<1>3. Len(ring) < RingCapacity
  BY DEF Publish, HasRoom
<1> QED BY <1>1, <1>2, <1>3, LockAssumption DEF RingTypes

LEMMA RingCollect ==
  ASSUME RingTypes, NEW p \in Procs, Collect(p)
  PROVE  RingTypes'
<1>1. ring' = ring /\ marked' = Prefix
  BY DEF Collect
<1>2. Len(ring) \in Nat
  BY DEF RingTypes
<1>3. Prefix \in 0 .. Len(ring)
  BY <1>2, LockAssumption DEF Prefix
<1> QED BY <1>1, <1>3 DEF RingTypes

LEMMA RingRelease ==
  ASSUME RingTypes, NEW p \in Procs, Release(p)
  PROVE  RingTypes'
<1>1. CASE lost[p]
  BY <1>1 DEF Release, RingTypes
<1>2. CASE ~lost[p]
  <2>1. ring' = SubSeq(ring, marked + 1, Len(ring)) /\ marked' = 0
    BY <1>2 DEF Release
  <2>2. Len(ring) \in Nat /\ marked \in Nat /\ marked <= Len(ring)
    BY DEF RingTypes
  <2>3. ring' \in Seq(Nat) /\ Len(ring') = Len(ring) - marked
    BY <2>1, <2>2 DEF RingTypes
  <2> QED BY <2>1, <2>2, <2>3, LockAssumption DEF RingTypes
<1> QED BY <1>1, <1>2

LEMMA StepRing == LatchTypes /\ RingTypes /\ [Next]_vars => RingTypes'
<1> SUFFICES ASSUME LatchTypes, RingTypes, [Next]_vars PROVE RingTypes'
  OBVIOUS
<1>1. ASSUME ring' = ring, marked' = marked PROVE RingTypes'
  BY <1>1 DEF RingTypes
<1>2. ASSUME NEW b, NEW o, NEW k, Start(b, o, k) PROVE RingTypes'
  BY <1>1, <1>2 DEF Start, ringVars
<1>3. ASSUME NEW p \in Procs, Drain(p) PROVE RingTypes'
  <2>1. CASE OpenTables(p) \/ Persist(p)
    BY <1>1, <2>1 DEF OpenTables, Persist, ringVars
  <2> QED BY <1>3, <2>1, RingCollect, RingRelease DEF Drain
<1>4. ASSUME NEW p \in Procs, Commit(p) PROVE RingTypes'
  BY <1>1, <1>4 DEF Commit, ringVars
<1>5. ASSUME NEW p \in Procs, BreakDeadlock(p) PROVE RingTypes'
  <2>1. ring' = ring /\ (marked' = 0 \/ marked' = marked)
    BY <1>5 DEF BreakDeadlock
  <2>2. Len(ring) \in Nat
    BY DEF RingTypes
  <2> QED BY <2>1, <2>2 DEF RingTypes
<1>6. ASSUME NEW b \in Backends, Drop(b) PROVE RingTypes'
  <2>1. ring' = <<>> /\ marked' = 0
    BY <1>6 DEF Drop
  <2> QED BY <2>1, LockAssumption DEF RingTypes
<1>7. ASSUME NEW b \in Backends, LockStartup(b) \/ AttachDsa(b) \/ AttachError(b) PROVE RingTypes'
  BY <1>1, <1>7 DEF LockStartup, AttachDsa, AttachError, ringVars
<1>8. ASSUME NEW b \in Backends, Lock(b) \/ FindFull(b) \/ BlockRetry(b) \/ BlockGiveUp(b) \/ CollectNothing(b)
      PROVE  RingTypes'
  BY ZenonT(30), <1>1, <1>8 DEF Lock, FindFull, BlockRetry, BlockGiveUp, CollectNothing, ringVars
<1>9. ASSUME NEW b \in Backends, LockNext(b) \/ UnlockAll(b) \/ Truncate(b) PROVE RingTypes'
  BY <1>1, <1>9 DEF LockNext, UnlockAll, Truncate, ringVars
<1>10. ASSUME NEW b \in Backends, Step(b) PROVE RingTypes'
  <2>1. b \in Procs
    BY DEF Procs
  <2> QED BY <1>3, <1>6, <1>7, <1>8, <1>9, <1>10, <2>1, RingPublish DEF Step
<1>11. CASE UNCHANGED vars
  BY <1>1, <1>11 DEF vars, ringVars
<1>12. Bgw \in Procs
  BY DEF Procs
<1> QED BY <1>2, <1>3, <1>4, <1>5, <1>10, <1>11, <1>12 DEF Next

\* The variables keep their types, the ring never exceeds its capacity, and no
\* more events are DRAINING than there are (publish, collect_batch,
\* release_batch, abort_batch and FLUSHALL's drop).
THEOREM LockTypeCorrect == Spec => []TypeOK
<1>1. Init => RingTypes
  BY LockAssumption DEF Init, RingTypes
<1>2. LatchInv /\ RingTypes /\ [Next]_vars => (LatchInv /\ RingTypes)'
  BY StepLatch, StepRing DEF LatchInv
<1>3. LatchInv /\ RingTypes => TypeOK
  BY DEF LatchInv, LatchTypes, RingTypes, TypeOK
<1> QED BY InitLatch, <1>1, <1>2, <1>3, PTL DEF Spec
=============================================================================
