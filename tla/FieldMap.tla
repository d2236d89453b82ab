------------------------------ MODULE FieldMap ------------------------------
(***************************************************************************)
(* What the hash of one key promises to the commands that use it: a map    *)
(* from fields to values that HSET, HDEL, HGET and the removal of the key  *)
(* see as a whole.  A command that runs out of shared memory reports an    *)
(* error and leaves the map as it was.                                     *)
(***************************************************************************)
CONSTANTS Fields, Values, NoValue

VARIABLES
    map,             \* the value of each field, or NoValue
    reply            \* what the last command returned

vars == <<map, reply>>
None == [f \in Fields |-> NoValue]

Init == map = None /\ reply = "none"

Hset(f, v) ==
    /\ reply' \in {"new", "old"}
    /\ reply' = "new" <=> map[f] = NoValue
    /\ map' = [map EXCEPT ![f] = v]

Hdel(f) ==
    /\ reply' \in {"removed", "missing"}
    /\ reply' = "missing" <=> map[f] = NoValue
    /\ map' = [map EXCEPT ![f] = NoValue]

Hget(f) ==
    /\ reply' \in {"found", "missing"}
    /\ reply' = "missing" <=> map[f] = NoValue
    /\ UNCHANGED map

Fails == reply' = "error" /\ UNCHANGED map

Remove == UNCHANGED reply /\ map' = None

\* One field of a copy of the entry, which EXPIRE writes back.
Rewrite(f, v) == UNCHANGED reply /\ map' = [map EXCEPT ![f] = v]

Next ==
    \/ \E f \in Fields : Hdel(f) \/ Hget(f)
    \/ \E f \in Fields, v \in Values : Hset(f, v) \/ Rewrite(f, v)
    \/ Fails
    \/ Remove

Spec == Init /\ [][Next]_vars
=============================================================================
