---------------------------- MODULE MCAsyncTable ----------------------------
(* Small instances of AsyncTable for TLC. *)
EXTENDS AsyncTable, TLC

CONSTANTS b1, b2, k1, k2, f1, f2

OneBackend == {b1}
TwoBackends == {b1, b2}
OneKey == {k1}
TwoKeys == {k1, k2}
TwoFields == {f1, f2}
SmallOrds == -3 .. 3

Config(sync, capacity, fields, values, commands) ==
    [sync |-> sync, ring |-> capacity, fields |-> fields, values |-> values, commands |-> commands]

\* Hashes, with backpressure by draining, and the ends of transactions; the
\* commands on keys of every type, with backpressure by waiting.
HashAndKeys ==
    {Config(TRUE, 2, {f1}, {1, 2}, {"HSET"}),
     Config(TRUE, 2, TwoFields, {1}, {"HSET", "DEL"}),
     Config(TRUE, 2, TwoFields, {1}, {"HSET", "ROLLBACK", "FLUSHALL"}),
     Config(FALSE, 2, TwoFields, {1}, {"SET", "HSET", "HDEL", "EXPIRE"}),
     Config(FALSE, 3, TwoFields, {1}, {"SET", "INCR", "HSET", "DEL"}),
     Config(FALSE, 3, TwoFields, {1}, {"HSET", "LPUSH", "RPOP"}),
     Config(FALSE, 3, TwoFields, {1}, {"SET", "RPUSH", "LPOP", "DEL"})}

Pushes == {Config(TRUE, 6, TwoFields, {1, 2}, {"RPUSH", "LPUSH"})}
FieldDeletes == {Config(TRUE, 3, TwoFields, {1}, {"HSET", "HDEL"})}
Sets == {Config(TRUE, 3, TwoFields, {1, 2}, {"SET"})}
Rollbacks == {Config(TRUE, 2, TwoFields, {1}, {"HSET", "ROLLBACK"})}
Flushalls == {Config(TRUE, 3, TwoFields, {1}, {"HSET", "FLUSHALL"})}
=============================================================================
