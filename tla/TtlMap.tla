------------------------------- MODULE TtlMap -------------------------------
(***************************************************************************)
(* What a session is promised of its scalar keys: a map from keys to a     *)
(* text and an optional time of expiry, in which a key vanishes the moment *)
(* its time comes.  There is no memory, no table, no transaction, no cached*)
(* representation and no eviction here.                                    *)
(***************************************************************************)
EXTENDS Values

CONSTANTS
    Keys,
    Texts,           \* the texts clients SET
    Seconds,         \* the arguments of EXPIRE
    TicksPerSecond   \* ticks of the clock in a second

VARIABLES
    map,     \* map[k]: text and expiry (0: none), or Absent
    now,     \* the clock
    reply    \* the last reply, with the command and its key

Absent == [text |-> Nil, exp |-> 0]

Alive(m, t) == [k \in Keys |-> IF m[k].exp # 0 /\ m[k].exp <= t THEN Absent ELSE m[k]]

Init == map = [k \in Keys |-> Absent] /\ now = 1 /\ reply = <<"NONE">>

\* A command that runs at one moment.
Atomic(m, r) == map' = m /\ reply' = r /\ now' = now

Set(k, s) == Atomic([map EXCEPT ![k].text = s], <<"SET", k>>)
Get(k) == Atomic(map, <<"GET", k, map[k].text>>)
Exists(k) == Atomic(map, <<"EXISTS", k, YesNo(map[k] # Absent)>>)
KeyList == Atomic(map, <<"KEYS", {k \in Keys : map[k] # Absent}>>)
Save == Atomic(map, <<"SAVE", map>>)
Flushall == Atomic([k \in Keys |-> Absent], <<"FLUSHALL">>)

\* DEL may also say yes for a key whose time came before.
Del(k) ==
    \E gone \in {YesNo(map[k] # Absent), "yes"} :
        Atomic([map EXCEPT ![k] = Absent], <<"DEL", k, gone>>)

Incr(k, d) ==
    LET old == IF map[k] = Absent THEN FormatInt64(0) ELSE map[k].text
        sum == Add(ParseInt64(old), d)
    IN  IF Parses(old)
        THEN Atomic([map EXCEPT ![k].text = FormatInt64(sum)], <<"INCR", k, sum>>)
        ELSE Atomic(map, <<"NOTANINT", k>>)

\* The clock may move while EXPIRE and TTL run.
Expire(k, n) ==
    /\ now' >= now
    /\ map' = Alive(IF map[k] = Absent THEN map
                    ELSE IF n <= 0 THEN [map EXCEPT ![k] = Absent]
                    ELSE [map EXCEPT ![k].exp = now' + n * TicksPerSecond], now')
    /\ reply' = <<"EXPIRE", k, YesNo(map[k] # Absent)>>

\* The seconds left, rounded up.
SecondsLeft(left) ==
    CHOOSE r \in 1 .. left : (r - 1) * TicksPerSecond < left /\ left <= r * TicksPerSecond

Ttl(k) ==
    /\ now' >= now
    /\ map' = Alive(map, now')
    /\ reply' = <<"TTL", k, IF map'[k] = Absent THEN -2
                            ELSE IF map'[k].exp = 0 THEN -1 ELSE SecondsLeft(map'[k].exp - now')>>

Tick == now' > now /\ map' = Alive(map, now') /\ UNCHANGED reply

Next ==
    \/ \E k \in Keys :
        \/ Get(k) \/ Exists(k) \/ Del(k) \/ Ttl(k)
        \/ \E s \in Texts : Set(k, s)
        \/ \E n \in Seconds : Expire(k, n)
        \/ \E d \in {1, -1} : Incr(k, d)
    \/ KeyList \/ Save \/ Flushall \/ Tick

Spec == Init /\ [][Next]_<<map, now, reply>>
=============================================================================
