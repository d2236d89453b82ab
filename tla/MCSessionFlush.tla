--------------------------- MODULE MCSessionFlush ---------------------------
(* Small instances of SessionFlush for TLC. *)
EXTENDS SessionFlush

CONSTANTS s1, s2, k1, f1, f2

MCSessions == {s1, s2}
SmallOrds == -8 .. 8

Workload(sessions, fields, limit, commands) ==
    [sessions |-> sessions, fields |-> fields, limit |-> limit, commands |-> commands]

\* One orderly session with every command; two sessions that delete and recreate
\* keys and roll back.
SoloAndPair ==
    {Workload({s1}, {f1, f2}, 7, {"SET", "INCR", "HSET", "HDEL", "LPUSH", "RPUSH", "LPOP", "RPOP",
                                  "EXPIRE", "DEL", "FLUSHALL"}),
     Workload({s1, s2}, {f1}, 5, {"SET", "HSET", "HDEL", "RPUSH", "LPUSH", "RPOP", "DEL", "RECREATE", "ROLLBACK"})}

Recreate == {Workload({s1}, {f1, f2}, 4, {"HSET", "DEL", "RECREATE"})}
HashRollback == {Workload({s1}, {f1, f2}, 4, {"HSET", "ROLLBACK"})}
ListRollback == {Workload({s1}, {f1}, 4, {"RPUSH", "ROLLBACK"})}
ScalarRollback == {Workload({s1}, {f1}, 4, {"SET", "ROLLBACK"})}
Pushes == {Workload({s1, s2}, {f1}, 4, {"RPUSH"})}
=============================================================================
