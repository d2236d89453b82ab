---------------------------- MODULE MCLockOrder ----------------------------
(* Small instances of LockOrder for TLC. *)
EXTENDS LockOrder

CONSTANTS b1, b2

MCBackends == {b1, b2}

\* HSET publishes under its lock, SET without: one in each setting, beside FLUSHALL.
MCCommands == [s \in BOOLEAN |-> IF s THEN {"SET", "FLUSHALL"} ELSE {"HSET", "FLUSHALL"}]
MCAttached == [s \in BOOLEAN |-> IF s THEN MCBackends ELSE {}]
SetCommands == [s \in BOOLEAN |-> {"SET"}]
=============================================================================
