--------------------------- MODULE ScalarsProofs ---------------------------
(***************************************************************************)
(* Scalars implements TtlMap, for every set of keys and texts and however  *)
(* long the clock runs, and a rollback that is heard brings the session    *)
(* back to the table.                                                      *)
(*                                                                         *)
(* The argument: whatever is neither on the dirty chain nor in the pending *)
(* deletes is in memory what it is in the table, except that a key whose   *)
(* time has come may be missing on either side.  So a load finds nothing   *)
(* that the session did not know, and a commit writes nothing that changes *)
(* what it sees.  It rests on the layout of pgredis.store.value, which     *)
(* loses nothing: what encode_value writes, decode_string and decode_int   *)
(* read back, and neither takes the other's bytes for its own.             *)
(***************************************************************************)
EXTENDS Scalars, TLAPS

-----------------------------------------------------------------------------
(* One byte: the shift and the low digit make up the number again, and a   *)
(* number with one digit more loses one.                                   *)

LEMMA Digit ==
  \A u \in Nat : /\ Shr(u) \in Nat /\ u % Base \in 0 .. Base - 1
                 /\ u = (u % Base) + Base * Shr(u)
  BY BaseAssumption DEF Shr

LEMMA FewerDigits ==
  ASSUME NEW u \in Nat, NEW m \in Nat, u < Base * m
  PROVE  Shr(u) < m
<1>1. u = (u % Base) + Base * Shr(u) /\ Shr(u) \in Nat /\ u % Base >= 0
  BY Digit, BaseAssumption
<1>2. SUFFICES ASSUME m <= Shr(u) PROVE FALSE
  BY <1>1
<1>3. Base * m <= Base * Shr(u)
  BY <1>1, <1>2, BaseAssumption
<1> QED BY <1>1, <1>3, BaseAssumption

-----------------------------------------------------------------------------
(* Four and eight of them.                                                 *)

LEMMA PowersAreNatural ==
  /\ Pow7 \in Nat /\ Pow7 > 0 /\ Half \in Nat /\ Full \in Nat /\ Full = 2 * Half
  /\ Half > 0 /\ 8 < Base * (Base * (Base * Base))
<1> DEFINE p2 == Base * Base
           p3 == Base * p2
           p4 == Base * p3
           p5 == Base * p4
           p6 == Base * p5
           p7 == Base * p6
<1>0. Base \in Nat /\ Base >= 2
  BY BaseAssumption
<1>a. ASSUME NEW p \in Nat, NEW n \in Nat, p >= n PROVE Base * p \in Nat /\ Base * p >= 2 * n
  BY <1>0, <1>a
<1>2. p2 \in Nat /\ p2 >= 4
  BY <1>0, <1>a
<1>3. p3 \in Nat /\ p3 >= 8
  <2> HIDE DEF p2
  <2> QED BY <1>a, <1>2
<1>4. p4 \in Nat /\ p4 >= 16
  <2> HIDE DEF p3
  <2> QED BY <1>a, <1>3
<1>5. p5 \in Nat /\ p5 >= 32
  <2> HIDE DEF p4
  <2> QED BY <1>a, <1>4
<1>6. p6 \in Nat /\ p6 >= 64
  <2> HIDE DEF p5
  <2> QED BY <1>a, <1>5
<1>7. p7 \in Nat /\ p7 >= 128
  <2> HIDE DEF p6
  <2> QED BY <1>a, <1>6
<1>8. Pow7 = p7 /\ p4 = Base * (Base * (Base * Base))
  BY DEF Pow7
<1>9. Half = (Base \div 2) * Pow7 /\ Full = Base * Pow7
  BY DEF Half, Full
<1> HIDE DEF p7, p4
<1>10. Base \div 2 \in Nat /\ Base \div 2 >= 1 /\ Base = 2 * (Base \div 2)
  BY BaseAssumption
<1>11. ASSUME NEW h \in Nat, NEW p \in Nat, h >= 1, p >= 128
       PROVE  h * p \in Nat /\ h * p > 0 /\ (2 * h) * p = 2 * (h * p)
  BY <1>11
<1>12. Half \in Nat /\ Half > 0 /\ Full = 2 * Half
  <2> DEFINE h == Base \div 2
  <2>1. h \in Nat /\ h >= 1 /\ Base = 2 * h
    BY <1>10
  <2>2. h * Pow7 \in Nat /\ h * Pow7 > 0 /\ (2 * h) * Pow7 = 2 * (h * Pow7)
    <3> HIDE DEF h
    <3> QED BY <1>7, <1>8, <1>11, <2>1
  <2> QED BY <1>9, <2>1, <2>2
<1> QED BY <1>4, <1>7, <1>8, <1>12

LEMMA FourBytes ==
  ASSUME NEW u \in Nat, u < Base * (Base * (Base * Base))
  PROVE  GetLE4(PutLE4(u)) = u
<1> DEFINE q1 == Shr(u)
           q2 == Shr(q1)
           q3 == Shr(q2)
<1>0. Base \in Nat /\ Base * Base \in Nat /\ Base * (Base * Base) \in Nat
  BY BaseAssumption
<1>1. q1 \in Nat /\ q1 < Base * (Base * Base) /\ u = (u % Base) + Base * q1
  BY <1>0, Digit, FewerDigits
<1>2. q2 \in Nat /\ q2 < Base * Base /\ q1 = (q1 % Base) + Base * q2
  <2> HIDE DEF q1
  <2> QED BY ZenonT(30), <1>0, <1>1, Digit, FewerDigits
<1>3. q3 \in Nat /\ q3 < Base /\ q2 = (q2 % Base) + Base * q3
  <2> HIDE DEF q2
  <2> QED BY <1>0, <1>2, Digit, FewerDigits
<1>4. q3 % Base = q3
  <2> HIDE DEF q3
  <2> QED BY <1>0, <1>3
<1>5. PutLE4(u) = <<u % Base, q1 % Base, q2 % Base, q3 % Base>>
  BY DEF PutLE4
<1> HIDE DEF q1, q2, q3
<1> QED BY <1>1, <1>2, <1>3, <1>4, <1>5 DEF GetLE4

LEMMA EightBytes ==
  ASSUME NEW u \in Nat, u < Full
  PROVE  GetLE8(PutLE8(u)) = u
<1> DEFINE q1 == Shr(u)
           q2 == Shr(q1)
           q3 == Shr(q2)
           q4 == Shr(q3)
           q5 == Shr(q4)
           q6 == Shr(q5)
           q7 == Shr(q6)
           p2 == Base * Base
           p3 == Base * p2
           p4 == Base * p3
           p5 == Base * p4
           p6 == Base * p5
           p7 == Base * p6
<1>a. Base \in Nat /\ \A p \in Nat : Base * p \in Nat
  BY BaseAssumption
<1>b. p2 \in Nat /\ p3 \in Nat /\ p4 \in Nat /\ p5 \in Nat /\ p6 \in Nat /\ p7 \in Nat
  BY <1>a
<1>c. u < Base * p7
  BY DEF Full, Pow7
<1> HIDE DEF p7
<1>1. q1 \in Nat /\ q1 < p7 /\ u = (u % Base) + Base * q1
  BY <1>b, <1>c, Digit, FewerDigits
<1> USE DEF p7
<1> HIDE DEF p6
<1>2. q2 \in Nat /\ q2 < p6 /\ q1 = (q1 % Base) + Base * q2
  <2> HIDE DEF q1
  <2> QED BY <1>b, <1>1, Digit, FewerDigits
<1> USE DEF p6
<1> HIDE DEF p5
<1>3. q3 \in Nat /\ q3 < p5 /\ q2 = (q2 % Base) + Base * q3
  <2> HIDE DEF q2
  <2> QED BY <1>b, <1>2, Digit, FewerDigits
<1> USE DEF p5
<1> HIDE DEF p4
<1>4. q4 \in Nat /\ q4 < p4 /\ q3 = (q3 % Base) + Base * q4
  <2> HIDE DEF q3
  <2> QED BY <1>b, <1>3, Digit, FewerDigits
<1> USE DEF p4
<1> HIDE DEF p3
<1>5. q5 \in Nat /\ q5 < p3 /\ q4 = (q4 % Base) + Base * q5
  <2> HIDE DEF q4
  <2> QED BY <1>b, <1>4, Digit, FewerDigits
<1> USE DEF p3
<1> HIDE DEF p2
<1>6. q6 \in Nat /\ q6 < p2 /\ q5 = (q5 % Base) + Base * q6
  <2> HIDE DEF q5
  <2> QED BY <1>b, <1>5, Digit, FewerDigits
<1> USE DEF p2
<1>7. q7 \in Nat /\ q7 < Base /\ q6 = (q6 % Base) + Base * q7
  <2> HIDE DEF q6
  <2> QED BY <1>a, <1>6, Digit, FewerDigits
<1>8. q7 % Base = q7
  <2> HIDE DEF q7
  <2> QED BY <1>a, <1>7
<1>9. PutLE8(u) = <<u % Base, q1 % Base, q2 % Base, q3 % Base,
                    q4 % Base, q5 % Base, q6 % Base, q7 % Base>>
  BY DEF PutLE8
<1> HIDE DEF q1, q2, q3, q4, q5, q6, q7
<1> QED BY <1>1, <1>2, <1>3, <1>4, <1>5, <1>6, <1>7, <1>8, <1>9 DEF GetLE8

-----------------------------------------------------------------------------
\* pg_redis_decode_int reads back every int64 that pg_redis_encode_value has
\* written, the negative ones included, and decode_string refuses its tag.
THEOREM IntRoundTrip ==
  \A v \in Int64 : LET raw == EncodeInt(v)
                   IN  DecodesInt(raw) /\ DecodeInt(raw) = v /\ ~DecodesString(raw)
<1> SUFFICES ASSUME NEW v \in Int64
             PROVE  /\ DecodesInt(EncodeInt(v)) /\ DecodeInt(EncodeInt(v)) = v
                    /\ ~DecodesString(EncodeInt(v))
  OBVIOUS
<1> DEFINE u == Uint64(v)
           p == PutLE8(u)
<1>1. u \in Nat /\ u < Full /\ ToInt64(u) = v
  BY PowersAreNatural DEF Uint64, ToInt64, Int64
<1>2. Len(p) = 8
  BY DEF PutLE8
<1>3. GetLE8(p) = u
  <2> HIDE DEF u
  <2> QED BY <1>1, EightBytes
<1>4. GetLE4(PutLE4(8)) = 8
  BY PowersAreNatural, FourBytes
<1>5. EncodeInt(v) = [tag |-> "INT", len |-> PutLE4(8), payload |-> p]
  BY <1>2 DEF EncodeInt, Tlv
<1> HIDE DEF p, u
<1> QED BY <1>1, <1>2, <1>3, <1>4, <1>5 DEF DecodesInt, DecodeInt, DecodesString, HeaderOk

\* pg_redis_decode_string reads back every string whose length fits in the
\* four bytes of the header, and decode_int refuses its tag.
THEOREM StringRoundTrip ==
  ASSUME NEW S, NEW s \in Seq(S), Len(s) < Base * (Base * (Base * Base))
  PROVE  /\ DecodesString(EncodeString(s)) /\ DecodeString(EncodeString(s)) = s
         /\ ~DecodesInt(EncodeString(s))
<1>1. GetLE4(PutLE4(Len(s))) = Len(s)
  BY FourBytes
<1> QED BY <1>1 DEF DecodesString, DecodeString, DecodesInt, EncodeString, Tlv, HeaderOk

Entries == {String(s, x) : s \in Texts, x \in Nat} \cup {Integer(v, x) : v \in IntRange, x \in Nat}
Rows == {Row(e) : e \in Entries}

ScalarTypes ==
    /\ now \in Nat /\ since \in Nat /\ 1 <= since /\ since <= now
    /\ store \in [Keys -> Entries \cup {NoEntry}]
    /\ rows \in [Keys -> Rows \cup {NoRow}]
    /\ dirty \subseteq Keys /\ pdel \subseteq Keys
    /\ truncated \in BOOLEAN /\ loaded \in BOOLEAN
    /\ \A k \in dirty : store[k] # NoEntry

\* A session that has to load has no open work.
UnloadedIdle == ~loaded => dirty = {} /\ pdel = {} /\ ~truncated

LiveRow(k) == rows[k] # NoRow /\ ~IsExpired(rows[k], now)
Untouched(k) == k \notin dirty /\ k \notin pdel /\ ~truncated

\* A loaded session has every live row it has not touched ...
Seen(mem) == \A k \in Keys : Untouched(k) /\ LiveRow(k) => rows[k] = Row(mem[k]) /\ mem[k] # NoEntry

\* ... and what it has and is not dirty is a row it has not touched.
Exact(mem) == \A k \in Keys : k \notin dirty /\ mem[k] # NoEntry => rows[k] = Row(mem[k]) /\ Untouched(k)

ScalarInv ==
    /\ ScalarTypes /\ UnloadedIdle
    /\ aborts # "all" /\ loaded => Seen(store)
    /\ aborts = "none" => Exact(store)

-----------------------------------------------------------------------------
(* Entries and rows.                                                       *)

LEMMA EntryFacts ==
  ASSUME NEW e \in Entries
  PROVE  /\ e # NoEntry /\ e.exp \in Nat /\ Entry(e) # Entry(NoEntry)
         /\ Entry(e).exp = e.exp /\ Entry(e).text = TextOf(e)
         /\ Row(e) # NoRow /\ Row(e).exp = e.exp
         /\ Decodes(Row(e)) /\ Decoded(Row(e)) = e
<1>1. CASE \E s \in Texts, x \in Nat : e = String(s, x)
  <2>1. PICK s \in Texts, x \in Nat : e = String(s, x)
    BY <1>1
  <2>2. s \in Seq(Glyphs) /\ Len(s) < Base * (Base * (Base * Base))
    BY ScalarAssumption
  <2>3. DecodesString(EncodeString(s)) /\ DecodeString(EncodeString(s)) = s
    BY <2>2, StringRoundTrip
  <2>4. s # Nil
    <3>1. Len(s) = 1 => s[1] \in Glyphs
      BY <2>2
    <3> SUFFICES ASSUME s = Nil PROVE FALSE
      OBVIOUS
    <3>2. Len(s) = 1 /\ s[1].form = "nil"
      BY DEF Nil, Glyph
    <3> QED BY <3>1, <3>2 DEF Glyphs
  <2> QED BY <2>1, <2>3, <2>4 DEF String, NoEntry, Entry, TextOf, Row, NoRow, Decodes, Decoded
<1>2. CASE \E v \in IntRange, x \in Nat : e = Integer(v, x)
  <2>1. PICK v \in IntRange, x \in Nat : e = Integer(v, x)
    BY <1>2
  <2>2. DecodesInt(EncodeInt(v)) /\ DecodeInt(EncodeInt(v)) = v
    <3>1. v \in Int64
      BY ScalarAssumption
    <3> QED BY <3>1, IntRoundTrip
  <2>3. FormatInt64(v) # Nil
    BY DEF FormatInt64, Nil, Glyph
  <2> QED BY <2>1, <2>2, <2>3 DEF Integer, NoEntry, Entry, TextOf, Row, NoRow, Decodes, Decoded
<1> QED BY <1>1, <1>2 DEF Entries

LEMMA NoEntryFacts ==
  /\ NoEntry.exp = 0 /\ \A t : ~IsExpired(NoEntry, t)
  /\ Entry(NoEntry).exp = 0 /\ Entry(NoEntry).text = Nil /\ NoRow.exp = 0
  BY DEF NoEntry, IsExpired, Entry, TextOf, NoRow

LEMMA SinceFacts ==
  ASSUME ScalarInv
  PROVE  now \in Nat /\ since \in Nat /\ 1 <= since /\ since <= now /\ 1 <= now
  BY DEF ScalarInv, ScalarTypes

\* What the table holds and what the load makes of it.
LEMMA RowFacts ==
  ASSUME NEW r \in Rows
  PROVE  /\ r # NoRow /\ Decodes(r) /\ Decoded(r) \in Entries
         /\ Row(Decoded(r)) = r /\ Decoded(r).exp = r.exp /\ r.exp \in Nat
<1>1. PICK e \in Entries : r = Row(e)
  BY DEF Rows
<1> QED BY <1>1, EntryFacts

-----------------------------------------------------------------------------
(* The keyspace after the lazy load.                                       *)

LEMMA AfterLoad ==
  ASSUME ScalarInv, NEW mem \in Memories
  PROVE  /\ mem \in [Keys -> Entries \cup {NoEntry}] /\ Undecodable = {}
         /\ \A k \in dirty : mem[k] # NoEntry
         /\ aborts # "all" => Seen(mem)
         /\ aborts = "none" => Exact(mem)
         /\ aborts = "none" => \A k \in Keys : View(k) = Visible(mem[k], now)
<1> USE DEF ScalarInv, ScalarTypes
<1>1. CASE loaded
  BY <1>1 DEF Memories, Undecodable, View
<1>2. CASE ~loaded
  <2>1. PICK t \in since .. now : mem = [k \in Keys |-> LoadEntry(k, t)]
    BY <1>2 DEF Memories
  <2>2. dirty = {} /\ pdel = {} /\ ~truncated /\ t \in Nat /\ t <= now
    BY <1>2, <2>1 DEF UnloadedIdle
  <2>3. \A k \in Keys : rows[k] # NoRow =>
           /\ Decodes(rows[k]) /\ Decoded(rows[k]) \in Entries /\ Decoded(rows[k]) # NoEntry
           /\ Row(Decoded(rows[k])) = rows[k] /\ Decoded(rows[k]).exp = rows[k].exp /\ rows[k].exp \in Nat
    <3> TAKE k \in Keys
    <3> HAVE rows[k] # NoRow
    <3>1. rows[k] \in Rows
      OBVIOUS
    <3> QED BY <3>1, RowFacts, EntryFacts
  <2>4. Undecodable = {}
    BY <2>3 DEF Undecodable, Selected
  <2>5. \A k \in Keys : LoadEntry(k, t) = IF Selected(k, t) THEN Decoded(rows[k]) ELSE store[k]
    BY <2>3 DEF LoadEntry, Selected
  <2>6. mem \in [Keys -> Entries \cup {NoEntry}]
    BY <2>1, <2>3, <2>5 DEF Selected
  <2>7. Seen(mem)
    BY <2>1, <2>2, <2>3, <2>5 DEF Seen, LiveRow, Selected, IsExpired
  <2>8. ASSUME aborts = "none" PROVE Exact(mem)
    BY <2>1, <2>2, <2>3, <2>5, <2>8 DEF Exact, Untouched, Selected
  <2>9. ASSUME aborts = "none", NEW k \in Keys PROVE View(k) = Visible(mem[k], now)
    <3>1. store[k] # NoEntry => rows[k] = Row(store[k]) /\ rows[k] # NoRow /\ rows[k].exp = store[k].exp
      BY <2>2, <2>9, EntryFacts DEF Exact
    <3>2. LoadEntry(k, now) = IF Selected(k, now) THEN Decoded(rows[k]) ELSE store[k]
      BY <2>3 DEF LoadEntry, Selected
    <3>3. CASE Selected(k, now)
      <4>1. Selected(k, t)
        BY <2>2, <2>3, <3>3 DEF Selected
      <4> QED BY <1>2, <2>1, <2>5, <3>2, <3>3, <4>1 DEF View
    <3>4. CASE ~Selected(k, now)
      <4>1. View(k) = Entry(NoEntry)
        BY <1>2, <2>3, <3>1, <3>2, <3>4, NoEntryFacts DEF View, Visible, Selected, IsExpired
      <4>2. Visible(mem[k], now) = Entry(NoEntry)
        BY <2>1, <2>3, <2>5, <3>1, <3>4, NoEntryFacts DEF Visible, Selected, IsExpired
      <4> QED BY <4>1, <4>2
    <3> QED BY <3>3, <3>4
  <2> QED BY <2>2, <2>4, <2>6, <2>7, <2>8, <2>9
<1> QED BY <1>1, <1>2

-----------------------------------------------------------------------------
(* A command that ends well.                                               *)

LEMMA DoneStep ==
  ASSUME ScalarInv, NEW mem \in Memories,
         NEW mem2 \in [Keys -> Entries \cup {NoEntry}],
         NEW D \in SUBSET Keys, NEW G \in SUBSET Keys, NEW r,
         D \cap G = {},
         \A k \in D : mem2[k] # NoEntry,
         \A k \in Keys \ D : mem2[k] = mem[k],
         now' \in Nat, now <= now',
         Done(mem2, D, G, r)
  PROVE  /\ ScalarInv'
         /\ \A k \in Keys : View(k)' = Visible(Without(mem2, G)[k], now')
<1>1. /\ mem \in [Keys -> Entries \cup {NoEntry}] /\ Undecodable = {}
      /\ \A k \in dirty : mem[k] # NoEntry
      /\ aborts # "all" => Seen(mem)
      /\ aborts = "none" => Exact(mem)
  BY AfterLoad
<1>2. /\ store' = [k \in Keys |-> IF k \in G THEN NoEntry ELSE mem2[k]]
      /\ dirty' = (dirty \ G) \cup D /\ pdel' = pdel \cup G
      /\ loaded' = TRUE /\ since' = 1
      /\ truncated' = truncated /\ rows' = rows /\ aborts' = aborts
  BY <1>1 DEF Done, Without, Unlinked
<1>3. ScalarTypes'
  BY <1>1, <1>2 DEF ScalarInv, ScalarTypes
<1>4. ASSUME aborts # "all" PROVE Seen(store)'
  <2> SUFFICES ASSUME NEW k \in Keys, Untouched(k)', LiveRow(k)'
               PROVE  rows'[k] = Row(store'[k]) /\ store'[k] # NoEntry
    BY DEF Seen
  <2>1. k \notin G /\ k \notin D /\ Untouched(k)
    BY <1>2 DEF Untouched
  <2>2. rows[k] # NoRow => rows[k].exp \in Nat
    BY RowFacts DEF ScalarInv, ScalarTypes
  <2>3. LiveRow(k)
    BY <1>2, <2>2 DEF LiveRow, IsExpired, ScalarInv, ScalarTypes
  <2> QED BY <1>1, <1>2, <1>4, <2>1, <2>3 DEF Seen
<1>5. ASSUME aborts = "none" PROVE Exact(store)'
  BY <1>1, <1>2, <1>5 DEF Exact, Untouched
<1>6. UnloadedIdle'
  BY <1>2 DEF UnloadedIdle
<1>7. ScalarInv'
  BY <1>2, <1>3, <1>4, <1>5, <1>6 DEF ScalarInv
<1>8. \A k \in Keys : View(k)' = Visible(Without(mem2, G)[k], now')
  BY <1>2 DEF View, Without
<1> QED BY <1>7, <1>8

\* What upsert hands out, and what a lookup leaves.
LEMMA Fresh ==
  ASSUME NEW e \in Entries \cup {NoEntry}
  PROVE  /\ Upserted(e) \in Entries \cup {NoEntry} /\ Upserted(e).exp \in Nat
         /\ ~IsExpired(Upserted(e), now) /\ Visible(e, now) = Entry(Upserted(e))
         /\ Upserted(e) = NoEntry <=> Visible(e, now) = Entry(NoEntry)
  BY EntryFacts, NoEntryFacts DEF Upserted, Visible, IsExpired

LEMMA Lookup ==
  ASSUME NEW mem \in [Keys -> Entries \cup {NoEntry}], NEW k \in Keys
  PROVE  /\ Evicted(mem, k, now) \in SUBSET Keys
         /\ Without(mem, Evicted(mem, k, now)) = [mem EXCEPT ![k] = Upserted(@)]
  BY ZenonT(30) DEF Evicted, Without, Upserted

-----------------------------------------------------------------------------
(* The two kinds of command: one writes an entry, the other only removes.  *)

LEMMA WriteStep ==
  ASSUME ScalarInv, NEW mem \in Memories, NEW k \in Keys, NEW e \in Entries, NEW r,
         now' \in Nat, now <= now',
         Done([mem EXCEPT ![k] = e], {k}, {}, r)
  PROVE  /\ ScalarInv' /\ aborts' = aborts /\ reply' = r
         /\ aborts = "none" => \A j \in Keys : View(j) = Visible(mem[j], now)
         /\ View(k)' = Visible(e, now')
         /\ \A j \in Keys : j # k => View(j)' = Visible(mem[j], now')
<1> DEFINE mem2 == [mem EXCEPT ![k] = e]
<1>1. /\ mem \in [Keys -> Entries \cup {NoEntry}]
      /\ aborts = "none" => \A j \in Keys : View(j) = Visible(mem[j], now)
  BY AfterLoad
<1>2. /\ mem2 \in [Keys -> Entries \cup {NoEntry}] /\ mem2[k] = e
      /\ \A j \in Keys \ {k} : mem2[j] = mem[j]
      /\ Done(mem2, {k}, {}, r)
  BY <1>1
<1>3. aborts' = aborts /\ reply' = r
  BY DEF Done
<1> HIDE DEF mem2
<1>4. \A j \in {k} : mem2[j] # NoEntry
  BY <1>2, EntryFacts
<1>5. {k} \in SUBSET Keys /\ {} \in SUBSET Keys /\ {k} \cap {} = {}
  OBVIOUS
<1>6. ScalarInv' /\ \A j \in Keys : View(j)' = Visible(Without(mem2, {})[j], now')
  BY <1>2, <1>4, <1>5, DoneStep
<1>7. Without(mem2, {}) = mem2
  BY <1>2 DEF Without
<1> QED BY <1>1, <1>2, <1>3, <1>6, <1>7

LEMMA RemoveStep ==
  ASSUME ScalarInv, NEW mem \in Memories, NEW G \in SUBSET Keys, NEW r,
         now' \in Nat, now <= now',
         Done(mem, {}, G, r)
  PROVE  /\ ScalarInv' /\ aborts' = aborts /\ reply' = r
         /\ aborts = "none" => \A j \in Keys : View(j) = Visible(mem[j], now)
         /\ \A j \in Keys : View(j)' = Visible(IF j \in G THEN NoEntry ELSE mem[j], now')
<1>1. /\ mem \in [Keys -> Entries \cup {NoEntry}]
      /\ aborts = "none" => \A j \in Keys : View(j) = Visible(mem[j], now)
  BY AfterLoad
<1>2. aborts' = aborts /\ reply' = r
  BY DEF Done
<1>3. {} \in SUBSET Keys /\ {} \cap G = {} /\ \A j \in {} : mem[j] # NoEntry
  OBVIOUS
<1>4. ScalarInv' /\ \A j \in Keys : View(j)' = Visible(Without(mem, G)[j], now')
  BY <1>1, <1>3, DoneStep
<1> QED BY <1>1, <1>2, <1>4 DEF Without

-----------------------------------------------------------------------------
(* Each command keeps the invariant, and is the command of the same name of*)
(* TtlMap when nothing is rolled back.                                     *)

LEMMA SetStep ==
  ASSUME ScalarInv, NEW k \in Keys, NEW s \in Texts, Set(k, s)
  PROVE  ScalarInv' /\ (aborts = "none" => TM!Set(k, s))
<1>1. PICK mem \in Memories : /\ Done([mem EXCEPT ![k] = String(s, Upserted(@).exp)], {k}, {}, <<"SET", k>>)
                              /\ UNCHANGED now
  BY DEF Set
<1> DEFINE x == Upserted(mem[k]).exp
           e == String(s, x)
<1>2. mem \in [Keys -> Entries \cup {NoEntry}]
  BY AfterLoad
<1>3. Done([mem EXCEPT ![k] = e], {k}, {}, <<"SET", k>>) /\ now \in Nat /\ now' = now /\ now <= now'
  BY <1>1, <1>2 DEF ScalarInv, ScalarTypes
<1>4. x \in Nat /\ (x = 0 \/ now < x) /\ Visible(mem[k], now) = [text |-> TextOf(Upserted(mem[k])), exp |-> x]
  BY <1>2, <1>3, Fresh DEF Entry, IsExpired
<1> HIDE DEF x
<1>5. e \in Entries /\ Visible(e, now) = [text |-> s, exp |-> x]
  BY <1>3, <1>4 DEF Entries, IsExpired, String, Entry, TextOf, Visible
<1> HIDE DEF e
<1>6. /\ ScalarInv' /\ aborts' = aborts /\ reply' = <<"SET", k>>
      /\ aborts = "none" => \A j \in Keys : View(j) = Visible(mem[j], now)
      /\ View(k)' = Visible(e, now')
      /\ \A j \in Keys : j # k => View(j)' = Visible(mem[j], now')
  BY ZenonT(30), <1>3, <1>5, WriteStep
<1>7. ASSUME aborts = "none" PROVE TM!Set(k, s)
  <2>1. View(k)' = [View(k) EXCEPT !.text = s]
    BY <1>3, <1>4, <1>5, <1>6, <1>7
  <2>2. \A j \in Keys : j # k => View(j)' = View(j)
    BY <1>3, <1>6, <1>7
  <2> QED BY ZenonT(30), <1>3, <1>6, <1>7, <2>1, <2>2 DEF TM!Set, TM!Atomic, Map, Clock, LastReply
<1> QED BY <1>6, <1>7

\* A lookup at the present moment: what it finds, and that nothing else shows.
LEMMA LookupStep ==
  ASSUME ScalarInv, NEW mem \in Memories, NEW k \in Keys, NEW r, now' = now,
         Done(mem, {}, Evicted(mem, k, now), r)
  PROVE  /\ ScalarInv' /\ aborts' = aborts /\ reply' = r
         /\ Without(mem, Evicted(mem, k, now))[k] = Upserted(mem[k])
         /\ Upserted(mem[k]) \in Entries \cup {NoEntry}
         /\ aborts = "none" => /\ \A j \in Keys : View(j)' = View(j)
                               /\ View(k) = Entry(Upserted(mem[k]))
<1>1. mem \in [Keys -> Entries \cup {NoEntry}] /\ now \in Nat
  BY AfterLoad DEF ScalarInv, ScalarTypes
<1> DEFINE G == Evicted(mem, k, now)
<1>2. G \in SUBSET Keys /\ Without(mem, G)[k] = Upserted(mem[k])
  BY <1>1, Lookup
<1>3. \A j \in Keys : Visible(IF j \in G THEN NoEntry ELSE mem[j], now) = Visible(mem[j], now)
  BY NoEntryFacts DEF Evicted, Visible
<1> HIDE DEF G
<1>4. /\ ScalarInv' /\ aborts' = aborts /\ reply' = r
      /\ aborts = "none" => \A j \in Keys : View(j) = Visible(mem[j], now)
      /\ \A j \in Keys : View(j)' = Visible(IF j \in G THEN NoEntry ELSE mem[j], now')
  <2>1. now' \in Nat /\ now <= now' /\ Done(mem, {}, G, r)
    BY <1>1 DEF G
  <2> QED BY ZenonT(30), <1>2, <2>1, RemoveStep
<1>5. Upserted(mem[k]) \in Entries \cup {NoEntry} /\ Visible(mem[k], now) = Entry(Upserted(mem[k]))
  BY <1>1, Fresh
<1> QED BY <1>2, <1>3, <1>4, <1>5 DEF G

LEMMA GetStep ==
  ASSUME ScalarInv, NEW k \in Keys, Get(k)
  PROVE  ScalarInv' /\ (aborts = "none" => TM!Get(k))
<1>1. PICK mem \in Memories :
         /\ Done(mem, {}, Evicted(mem, k, now), <<"GET", k, TextOf(Without(mem, Evicted(mem, k, now))[k])>>)
         /\ UNCHANGED now
  BY DEF Get
<1>2. /\ ScalarInv' /\ aborts' = aborts /\ reply' = <<"GET", k, TextOf(Upserted(mem[k]))>>
      /\ aborts = "none" => /\ \A j \in Keys : View(j)' = View(j)
                            /\ View(k) = Entry(Upserted(mem[k]))
  BY <1>1, LookupStep
<1>3. aborts = "none" => View(k).text = TextOf(Upserted(mem[k]))
  BY <1>2 DEF Entry
<1> QED BY <1>1, <1>2, <1>3 DEF TM!Get, TM!Atomic, Map, Clock, LastReply

LEMMA AbsentFacts ==
  /\ TM!Absent = Entry(NoEntry)
  /\ \A e \in Entries \cup {NoEntry} : Entry(e) = TM!Absent <=> e = NoEntry
  BY EntryFacts, NoEntryFacts DEF TM!Absent, TM!Nil, TM!Glyph, Nil, Glyph, Entry

LEMMA ExistsStep ==
  ASSUME ScalarInv, NEW k \in Keys, Exists(k)
  PROVE  ScalarInv' /\ (aborts = "none" => TM!Exists(k))
<1>1. PICK mem \in Memories :
         /\ Done(mem, {}, Evicted(mem, k, now),
                 <<"EXISTS", k, YesNo(Without(mem, Evicted(mem, k, now))[k] # NoEntry)>>)
         /\ UNCHANGED now
  BY DEF Exists
<1>2. /\ ScalarInv' /\ aborts' = aborts /\ reply' = <<"EXISTS", k, YesNo(Upserted(mem[k]) # NoEntry)>>
      /\ Upserted(mem[k]) \in Entries \cup {NoEntry}
      /\ aborts = "none" => /\ \A j \in Keys : View(j)' = View(j)
                            /\ View(k) = Entry(Upserted(mem[k]))
  BY <1>1, LookupStep
<1>3. aborts = "none" => YesNo(Upserted(mem[k]) # NoEntry) = TM!YesNo(View(k) # TM!Absent)
  BY <1>2, AbsentFacts DEF YesNo, TM!YesNo
<1> QED BY <1>1, <1>2, <1>3 DEF TM!Exists, TM!Atomic, Map, Clock, LastReply

LEMMA DelStep ==
  ASSUME ScalarInv, NEW k \in Keys, Del(k)
  PROVE  ScalarInv' /\ (aborts = "none" => TM!Del(k))
<1>1. PICK mem \in Memories :
         /\ Done(mem, {}, IF mem[k] = NoEntry THEN {} ELSE {k}, <<"DEL", k, YesNo(mem[k] # NoEntry)>>)
         /\ now' = now
  BY DEF Del
<1> DEFINE G == IF mem[k] = NoEntry THEN {} ELSE {k}
           r == <<"DEL", k, YesNo(mem[k] # NoEntry)>>
<1>2. mem \in [Keys -> Entries \cup {NoEntry}] /\ now \in Nat
  BY AfterLoad DEF ScalarInv, ScalarTypes
<1>3. G \in SUBSET Keys /\ Done(mem, {}, G, r) /\ now' \in Nat /\ now <= now'
  BY <1>1, <1>2
<1>4. \A j \in Keys : (IF j \in G THEN NoEntry ELSE mem[j]) = IF j = k THEN NoEntry ELSE mem[j]
  OBVIOUS
<1> HIDE DEF G
<1>5. /\ ScalarInv' /\ aborts' = aborts /\ reply' = r
      /\ aborts = "none" => \A j \in Keys : View(j) = Visible(mem[j], now)
      /\ \A j \in Keys : View(j)' = Visible(IF j \in G THEN NoEntry ELSE mem[j], now')
  BY ZenonT(30), <1>3, RemoveStep
<1>6. ASSUME aborts = "none" PROVE TM!Del(k)
  <2>1. View(k)' = TM!Absent /\ \A j \in Keys : j # k => View(j)' = View(j)
    BY <1>1, <1>4, <1>5, <1>6, AbsentFacts, NoEntryFacts DEF Visible
  <2>2. YesNo(mem[k] # NoEntry) \in {TM!YesNo(View(k) # TM!Absent), "yes"}
    BY <1>2, <1>5, <1>6, AbsentFacts, NoEntryFacts DEF Visible, YesNo, TM!YesNo
  <2>3. TM!Atomic([Map EXCEPT ![k] = TM!Absent], <<"DEL", k, YesNo(mem[k] # NoEntry)>>)
    BY ZenonT(30), <1>1, <1>5, <1>6, <2>1 DEF TM!Atomic, Map, Clock, LastReply
  <2>4. Map[k] = View(k)
    BY <1>6 DEF Map
  <2> QED BY <2>2, <2>3, <2>4 DEF TM!Del
<1> QED BY <1>5, <1>6

\* KEYS and SAVE list the keys that show, and remove nothing.
LEMMA ListStep ==
  ASSUME ScalarInv, NEW mem \in Memories, NEW r, now' = now, Done(mem, {}, {}, r)
  PROVE  /\ ScalarInv' /\ aborts' = aborts /\ reply' = r
         /\ aborts = "none" =>
              /\ \A j \in Keys : View(j)' = View(j)
              /\ Shown(mem) = {j \in Keys : View(j) # TM!Absent}
              /\ \A j \in Keys : View(j) = Entry(IF j \in Shown(mem) THEN mem[j] ELSE NoEntry)
<1>1. mem \in [Keys -> Entries \cup {NoEntry}] /\ now \in Nat
  BY AfterLoad DEF ScalarInv, ScalarTypes
<1>2. {} \in SUBSET Keys /\ now' \in Nat /\ now <= now'
  BY <1>1
<1>3. /\ ScalarInv' /\ aborts' = aborts /\ reply' = r
      /\ aborts = "none" => \A j \in Keys : View(j) = Visible(mem[j], now)
      /\ \A j \in Keys : View(j)' = Visible(IF j \in {} THEN NoEntry ELSE mem[j], now')
  BY <1>2, RemoveStep
<1>4. \A j \in Keys : Visible(mem[j], now) = Entry(IF j \in Shown(mem) THEN mem[j] ELSE NoEntry)
  BY DEF Visible, Shown
<1>5. \A j \in Keys : j \in Shown(mem) <=> Visible(mem[j], now) # TM!Absent
  BY <1>1, <1>4, AbsentFacts DEF Shown
<1>6. Shown(mem) = {j \in Keys : Visible(mem[j], now) # TM!Absent}
  BY <1>5 DEF Shown
<1> QED BY <1>3, <1>4, <1>6

LEMMA KeyListStep ==
  ASSUME ScalarInv, KeyList
  PROVE  ScalarInv' /\ (aborts = "none" => TM!KeyList)
<1>1. PICK mem \in Memories : Done(mem, {}, {}, <<"KEYS", Shown(mem)>>) /\ now' = now
  BY DEF KeyList
<1>2. /\ ScalarInv' /\ aborts' = aborts /\ reply' = <<"KEYS", Shown(mem)>>
      /\ aborts = "none" => /\ \A j \in Keys : View(j)' = View(j)
                            /\ Shown(mem) = {j \in Keys : View(j) # TM!Absent}
  BY <1>1, ListStep
<1>3. aborts = "none" => Shown(mem) = {j \in Keys : Map[j] # TM!Absent}
  BY <1>2 DEF Map
<1> QED BY <1>1, <1>2, <1>3 DEF TM!KeyList, TM!Atomic, Map, Clock, LastReply

LEMMA SaveStep ==
  ASSUME ScalarInv, Save
  PROVE  ScalarInv' /\ (aborts = "none" => TM!Save)
<1> DEFINE Dump(mem) == [k \in Keys |-> Entry(IF k \in Shown(mem) THEN mem[k] ELSE NoEntry)]
<1>1. PICK mem \in Memories : Done(mem, {}, {}, <<"SAVE", Dump(mem)>>) /\ now' = now
  BY ZenonT(30) DEF Save
<1> HIDE DEF Dump
<1>2. /\ ScalarInv' /\ aborts' = aborts /\ reply' = <<"SAVE", Dump(mem)>>
      /\ aborts = "none" => /\ \A j \in Keys : View(j)' = View(j)
                            /\ \A j \in Keys : View(j) = Entry(IF j \in Shown(mem) THEN mem[j] ELSE NoEntry)
  BY <1>1, ListStep
<1>3. aborts = "none" => Dump(mem) = Map
  BY <1>2 DEF Map, Dump
<1> QED BY <1>1, <1>2, <1>3 DEF TM!Save, TM!Atomic, Map, Clock, LastReply

\* The sweep does not show.
LEMMA SweepStep ==
  ASSUME ScalarInv, Sweep
  PROVE  ScalarInv' /\ UNCHANGED <<Map, Clock, LastReply>>
<1>1. PICK mem \in Memories :
         Done(mem, {}, {k \in Keys : IsExpired(mem[k], now)}, reply) /\ now' = now
  BY ZenonT(30) DEF Sweep
<1> DEFINE G == {k \in Keys : IsExpired(mem[k], now)}
<1>2. now' \in Nat /\ now <= now' /\ G \in SUBSET Keys /\ Done(mem, {}, G, reply)
  BY <1>1 DEF ScalarInv, ScalarTypes
<1>3. \A j \in Keys : Visible(IF j \in G THEN NoEntry ELSE mem[j], now) = Visible(mem[j], now)
  BY NoEntryFacts DEF Visible
<1> HIDE DEF G
<1>4. /\ ScalarInv' /\ aborts' = aborts /\ reply' = reply
      /\ aborts = "none" => \A j \in Keys : View(j) = Visible(mem[j], now)
      /\ \A j \in Keys : View(j)' = Visible(IF j \in G THEN NoEntry ELSE mem[j], now')
  BY <1>2, RemoveStep
<1> QED BY <1>1, <1>3, <1>4 DEF Map, Clock, LastReply

LEMMA FlushallStep ==
  ASSUME ScalarInv, Flushall
  PROVE  ScalarInv' /\ (aborts = "none" => TM!Flushall)
<1>1. /\ store' = [k \in Keys |-> NoEntry]
      /\ dirty' = {} /\ pdel' = {} /\ truncated' = TRUE
      /\ loaded' = TRUE /\ since' = 1
      /\ reply' = <<"FLUSHALL">>
      /\ now' = now /\ rows' = rows /\ aborts' = aborts
  BY DEF Flushall
<1>2. ScalarTypes'
  <2>1. since' \in Nat /\ 1 <= since' /\ since' <= now'
    BY <1>1, SinceFacts
  <2> QED BY <1>1, <2>1 DEF ScalarInv, ScalarTypes
<1>3. UnloadedIdle' /\ Seen(store)' /\ Exact(store)'
  BY <1>1 DEF UnloadedIdle, Seen, Exact, Untouched
<1>4. \A j \in Keys : View(j)' = TM!Absent
  BY <1>1, AbsentFacts, NoEntryFacts DEF View, Visible
<1> QED BY <1>1, <1>2, <1>3, <1>4 DEF ScalarInv, TM!Flushall, TM!Atomic, Map, Clock, LastReply

\* incrdecr, on an integer, on a string that spells one, on an absent key
LEMMA IncrStep ==
  ASSUME ScalarInv, NEW k \in Keys, NEW d \in {1, -1}, Incr(k, d)
  PROVE  ScalarInv' /\ (aborts = "none" => TM!Incr(k, d))
<1> DEFINE Old(e) == IF e.type = "INT" THEN e.int ELSE IF e = NoEntry THEN 0 ELSE ParseInt64(e.str)
<1>1. PICK mem \in Memories :
         /\ Upserted(mem[k]).type = "STRING" => Parses(Upserted(mem[k]).str)
         /\ Add(Old(Upserted(mem[k])), d) \in IntRange
         /\ Done([mem EXCEPT ![k] = Integer(Add(Old(Upserted(mem[k])), d), Upserted(mem[k]).exp)], {k}, {},
                 <<"INCR", k, Add(Old(Upserted(mem[k])), d)>>)
         /\ now' = now
  BY ZenonT(30) DEF Incr
<1> DEFINE u == Upserted(mem[k])
           new == Add(Old(u), d)
           e == Integer(new, u.exp)
<1>2. mem \in [Keys -> Entries \cup {NoEntry}] /\ now \in Nat
  BY AfterLoad DEF ScalarInv, ScalarTypes
<1>3. /\ u \in Entries \cup {NoEntry} /\ u.exp \in Nat /\ ~IsExpired(u, now)
      /\ Visible(mem[k], now) = Entry(u)
  BY <1>2, Fresh
<1>4. /\ u.type = "STRING" => Parses(u.str)
      /\ new \in IntRange /\ new \in Int64 /\ Done([mem EXCEPT ![k] = e], {k}, {}, <<"INCR", k, new>>)
      /\ now' \in Nat /\ now <= now'
  BY <1>1, <1>2, ScalarAssumption
<1> HIDE DEF u
<1>5. LET text == IF Entry(u) = TM!Absent THEN FormatInt64(0) ELSE Entry(u).text
      IN  Parses(text) /\ ParseInt64(text) = Old(u)
  <2>1. Half \in Nat /\ Half > 0
    BY PowersAreNatural
  <2>2. CASE u = NoEntry
    BY <2>1, <2>2, AbsentFacts DEF NoEntry, FormatInt64, Glyph, Parses, ParseInt64, Int64
  <2>3. CASE \E s \in Texts, x \in Nat : u = String(s, x)
    <3>1. PICK s \in Texts, x \in Nat : u = String(s, x)
      BY <2>3
    <3>2. u \in Entries
      BY <3>1 DEF Entries
    <3> QED BY <1>4, <3>1, <3>2, EntryFacts, AbsentFacts DEF String, TextOf
  <2>4. CASE \E v \in IntRange, x \in Nat : u = Integer(v, x)
    <3>1. PICK v \in IntRange, x \in Nat : u = Integer(v, x)
      BY <2>4
    <3>2. u \in Entries
      BY <3>1 DEF Entries
    <3>3. Entry(u).text = FormatInt64(v) /\ Entry(u) # TM!Absent /\ Old(u) = v
      BY <3>1, <3>2, EntryFacts, AbsentFacts DEF Integer, TextOf
    <3>4. v \in Int64
      BY ScalarAssumption
    <3> QED BY <3>3, <3>4 DEF FormatInt64, Glyph, Parses, ParseInt64
  <2> QED BY <1>3, <2>2, <2>3, <2>4 DEF Entries
<1> HIDE DEF new
<1>6. e \in Entries /\ Visible(e, now) = [text |-> FormatInt64(new), exp |-> u.exp]
  BY <1>2, <1>3, <1>4 DEF Entries, IsExpired, Integer, Entry, TextOf, Visible
<1> HIDE DEF e
<1>7. /\ ScalarInv' /\ aborts' = aborts /\ reply' = <<"INCR", k, new>>
      /\ aborts = "none" => \A j \in Keys : View(j) = Visible(mem[j], now)
      /\ View(k)' = Visible(e, now')
      /\ \A j \in Keys : j # k => View(j)' = Visible(mem[j], now')
  BY ZenonT(30), <1>4, <1>6, WriteStep
<1>8. ASSUME aborts = "none" PROVE TM!Incr(k, d)
  <2> DEFINE old == IF Map[k] = TM!Absent THEN TM!FormatInt64(0) ELSE Map[k].text
  <2>1. Map[k] = Entry(u)
    BY <1>3, <1>7, <1>8 DEF Map
  <2>2. TM!Parses(old) /\ TM!Add(TM!ParseInt64(old), d) = new
    BY ZenonT(30), <1>5, <2>1 DEF new, TM!Parses, TM!ParseInt64, TM!FormatInt64, TM!Glyph, TM!Add, TM!Int64, TM!Half, TM!Full, TM!Pow7,
                      Parses, ParseInt64, FormatInt64, Glyph, Add, Int64, Half, Full, Pow7
  <2>3. View(k)' = [Map[k] EXCEPT !.text = FormatInt64(new)]
    BY <1>1, <1>6, <1>7, <2>1 DEF Entry
  <2>4. \A j \in Keys : j # k => View(j)' = View(j)
    BY <1>1, <1>7, <1>8
  <2>5. TM!Atomic([Map EXCEPT ![k].text = TM!FormatInt64(new)], <<"INCR", k, new>>)
    BY ZenonT(30), <1>1, <1>7, <1>8, <2>3, <2>4
       DEF TM!Atomic, TM!FormatInt64, TM!Glyph, FormatInt64, Glyph, Map, Clock, LastReply
  <2> QED BY ZenonT(30), <2>2, <2>5 DEF TM!Incr
<1> QED BY <1>7, <1>8

-----------------------------------------------------------------------------
(* Loading again: what a load at moment t shows, and that a session with no*)
(* open work would find what it has.                                       *)

LEMMA LoadView ==
  ASSUME ScalarTypes, Exact(store), dirty = {}, NEW k \in Keys, NEW t \in Nat
  PROVE  Visible(LoadEntry(k, t), t) = IF Selected(k, t) THEN Entry(Decoded(rows[k])) ELSE Entry(NoEntry)
<1>1. rows[k] # NoRow => Decodes(rows[k]) /\ Decoded(rows[k]).exp = rows[k].exp /\ rows[k].exp \in Nat
  BY RowFacts DEF ScalarTypes
<1>2. store[k] # NoEntry => rows[k] # NoRow /\ rows[k].exp = store[k].exp
  BY EntryFacts DEF ScalarTypes, Exact
<1>3. CASE Selected(k, t)
  <2>1. LoadEntry(k, t) = Decoded(rows[k]) /\ ~IsExpired(Decoded(rows[k]), t)
    BY <1>1, <1>3 DEF LoadEntry, Selected, IsExpired
  <2> QED BY <1>3, <2>1 DEF Visible
<1>4. CASE ~Selected(k, t)
  <2>1. LoadEntry(k, t) = store[k]
    BY <1>4 DEF LoadEntry
  <2>2. store[k] = NoEntry \/ IsExpired(store[k], t)
    BY <1>1, <1>2, <1>4 DEF Selected, IsExpired
  <2> QED BY <1>4, <2>1, <2>2, NoEntryFacts DEF Visible
<1> QED BY <1>3, <1>4

LEMMA Reload ==
  ASSUME ScalarInv, ~Open, aborts = "none", NEW mem \in Memories, NEW k \in Keys
  PROVE  IF Selected(k, now) THEN Decodes(rows[k]) /\ Decoded(rows[k]) = mem[k]
         ELSE Visible(mem[k], now) = Entry(NoEntry)
<1>1. /\ mem \in [Keys -> Entries \cup {NoEntry}] /\ Seen(mem) /\ Exact(mem)
  BY AfterLoad
<1>2. now \in Nat /\ (rows[k] # NoRow => rows[k].exp \in Nat) /\ Untouched(k)
  BY RowFacts DEF ScalarInv, ScalarTypes, Open, Untouched
<1>3. CASE Selected(k, now)
  <2>1. rows[k] = Row(mem[k]) /\ mem[k] # NoEntry
    BY <1>1, <1>2, <1>3 DEF Seen, LiveRow, Selected, IsExpired
  <2> QED BY <1>1, <1>3, <2>1, EntryFacts
<1>4. CASE ~Selected(k, now)
  <2>1. mem[k] # NoEntry => rows[k] # NoRow /\ rows[k].exp = mem[k].exp
    BY <1>1, <1>2, EntryFacts DEF Exact, Untouched
  <2> QED BY <1>2, <1>4, <2>1, NoEntryFacts DEF Selected, Visible, IsExpired
<1> QED BY <1>3, <1>4

\* The abort of a failed INCR: its transaction had no other work.
LEMMA IncrFailsStep ==
  ASSUME ScalarInv, NEW k \in Keys, IncrFails(k)
  PROVE  ScalarInv' /\ (aborts = "none" => TM!Incr(k, 1))
<1>1. PICK mem \in Memories :
         /\ Upserted(mem[k]).type = "STRING" /\ ~Parses(Upserted(mem[k]).str)
         /\ aborts # "none" \/ ~Open
         /\ store' = mem /\ reply' = <<"NOTANINT", k>> /\ Aborted(TRUE)
  BY ZenonT(30) DEF IncrFails
<1>2. /\ dirty' = {} /\ pdel' = {} /\ loaded' = FALSE /\ since' = now /\ truncated' = FALSE
      /\ now' = now /\ rows' = rows /\ aborts' = aborts
  BY ZenonT(30), <1>1 DEF Aborted, LoadedAfterAbort
<1>3. /\ mem \in [Keys -> Entries \cup {NoEntry}]
      /\ aborts = "none" => Exact(mem) /\ \A j \in Keys : View(j) = Visible(mem[j], now)
  BY AfterLoad
<1>4. ScalarTypes' /\ UnloadedIdle'
  <2>1. store' = mem /\ since' \in Nat /\ 1 <= since' /\ since' <= now'
    BY <1>1, <1>2, SinceFacts
  <2>2. ScalarTypes'
    BY ZenonT(30), <1>2, <1>3, <2>1 DEF ScalarInv, ScalarTypes
  <2>3. UnloadedIdle'
    BY <1>2 DEF UnloadedIdle
  <2> QED BY <2>2, <2>3
<1>5. ASSUME aborts = "none" PROVE Exact(store)'
  BY <1>1, <1>2, <1>3, <1>5 DEF Exact, Untouched, Open
<1>6. ScalarInv'
  BY <1>2, <1>4, <1>5 DEF ScalarInv
<1>7. ASSUME aborts = "none" PROVE TM!Incr(k, 1)
  <2>1. \A j \in Keys : View(j)' = View(j)
    <3> TAKE j \in Keys
    <3>1. IF Selected(j, now) THEN Decodes(rows[j]) /\ Decoded(rows[j]) = mem[j]
          ELSE Visible(mem[j], now) = Entry(NoEntry)
      BY <1>1, <1>7, Reload
    <3>2. LoadEntry(j, now)' = mem[j]
      BY <1>1, <1>2, <3>1 DEF LoadEntry, Selected
    <3>3. View(j)' = Visible(mem[j], now)
      BY <1>2, <3>2 DEF View
    <3> QED BY <1>3, <1>7, <3>3
  <2> DEFINE u == Upserted(mem[k])
  <2>2. u \in Entries \cup {NoEntry} /\ Visible(mem[k], now) = Entry(u) /\ u # NoEntry
    BY <1>1, <1>3, Fresh DEF NoEntry
  <2>3. Map[k] = Entry(u) /\ Entry(u).text = u.str /\ Map[k] # TM!Absent
    BY <1>1, <1>3, <1>7, <2>2, AbsentFacts DEF Map, Entry, TextOf
  <2>4. ~TM!Parses(Map[k].text)
    BY ZenonT(30), <1>1, <2>3 DEF TM!Parses, TM!Int64, TM!Half, TM!Pow7, Parses, Int64, Half, Pow7
  <2>5. TM!Atomic(Map, <<"NOTANINT", k>>)
    BY <1>1, <1>2, <1>7, <2>1 DEF TM!Atomic, Map, Clock, LastReply
  <2> QED BY <2>3, <2>4, <2>5 DEF TM!Incr
<1> QED BY <1>6, <1>7

\* A commit writes nothing that changes what the session sees.
LEMMA CommitStep ==
  ASSUME ScalarInv, Commit
  PROVE  ScalarInv' /\ UNCHANGED <<Map, Clock, LastReply>>
<1>1. /\ rows' = [k \in Keys |-> IF k \in dirty THEN Row(store[k])
                                 ELSE IF k \in pdel \/ truncated THEN NoRow ELSE rows[k]]
      /\ dirty' = {} /\ pdel' = {} /\ truncated' = FALSE
      /\ now' = now /\ store' = store /\ loaded' = loaded /\ since' = since
      /\ reply' = reply /\ aborts' = aborts
  BY ZenonT(30) DEF Commit
<1>2. loaded
  BY DEF Commit, Open, ScalarInv, UnloadedIdle
<1>3. ScalarTypes' /\ UnloadedIdle'
  BY ZenonT(30), <1>1, <1>2 DEF ScalarInv, ScalarTypes, UnloadedIdle, Rows
<1>4. ASSUME aborts # "all" PROVE Seen(store)'
  BY <1>1, <1>2, <1>4 DEF ScalarInv, ScalarTypes, Seen, Untouched, LiveRow
<1>5. ASSUME aborts = "none" PROVE Exact(store)'
  BY <1>1, <1>5 DEF ScalarInv, Exact, Untouched
<1>6. \A j \in Keys : View(j)' = View(j)
  BY <1>1, <1>2 DEF View
<1> QED BY ZenonT(30), <1>1, <1>3, <1>4, <1>5, <1>6 DEF ScalarInv, Map, Clock, LastReply

LEMMA RollbackStep ==
  ASSUME ScalarInv, Rollback
  PROVE  ScalarInv' /\ UNCHANGED <<Map, Clock, LastReply>>
<1>1. /\ aborts # "none" /\ aborts' = aborts /\ now' = now /\ rows' = rows /\ store' = store
      /\ truncated' = FALSE
      /\ \/ dirty' = {} /\ pdel' = {} /\ loaded' = FALSE /\ since' = now
         \/ aborts = "all" /\ dirty' = dirty /\ pdel' = pdel /\ loaded' = loaded /\ since' = since
  <2>1. CASE registered
    BY ZenonT(30), <2>1 DEF Rollback, Aborted, LoadedAfterAbort
  <2>2. CASE ~registered
    BY <2>2 DEF Rollback, Aborted, LoadedAfterAbort, ScalarInv, ScalarTypes
  <2> QED BY ZenonT(30), <2>1, <2>2
<1>2. ScalarTypes'
  <2>1. since' \in Nat /\ 1 <= since' /\ since' <= now'
    BY <1>1, SinceFacts
  <2> QED BY ZenonT(30), <1>1, <2>1 DEF ScalarInv, ScalarTypes
<1>3. UnloadedIdle'
  BY <1>1 DEF ScalarInv, UnloadedIdle
<1> QED BY <1>1, <1>2, <1>3 DEF ScalarInv, Map, Clock, LastReply

\* The next session finds what the one before it saw.
LEMMA ReconnectStep ==
  ASSUME ScalarInv, Reconnect
  PROVE  ScalarInv' /\ UNCHANGED <<Map, Clock, LastReply>>
<1>1. /\ ~Open /\ store' = [k \in Keys |-> NoEntry] /\ loaded' = FALSE /\ since' = now
      /\ now' = now /\ dirty' = dirty /\ pdel' = pdel /\ truncated' = truncated /\ rows' = rows
      /\ reply' = reply /\ aborts' = aborts
  BY DEF Reconnect
<1>2. ScalarTypes' /\ UnloadedIdle' /\ Exact(store)'
  <2>1. dirty = {} /\ pdel = {} /\ ~truncated
    BY <1>1 DEF Open
  <2>2. since' \in Nat /\ 1 <= since' /\ since' <= now'
    BY <1>1, SinceFacts
  <2>3. ScalarTypes'
    BY ZenonT(30), <1>1, <2>1, <2>2 DEF ScalarInv, ScalarTypes
  <2> QED BY <1>1, <2>1, <2>3 DEF UnloadedIdle, Exact
<1>3. ASSUME aborts = "none", NEW j \in Keys PROVE View(j)' = View(j)
  <2>1. PICK mem : mem \in Memories
    <3>1. now \in since .. now
      BY DEF ScalarInv, ScalarTypes
    <3> QED BY ZenonT(30), <3>1 DEF Memories
  <2>2. View(j) = Visible(mem[j], now)
    BY <1>3, <2>1, AfterLoad
  <2>3. IF Selected(j, now) THEN Decodes(rows[j]) /\ Decoded(rows[j]) = mem[j]
        ELSE Visible(mem[j], now) = Entry(NoEntry)
    BY <1>1, <1>3, <2>1, Reload
  <2>4. View(j)' = Visible(IF Selected(j, now) THEN mem[j] ELSE NoEntry, now)
    BY ZenonT(30), <1>1, <2>3 DEF View, LoadEntry, Selected
  <2> QED BY <2>2, <2>3, <2>4, NoEntryFacts DEF Visible
<1> QED BY <1>1, <1>2, <1>3 DEF ScalarInv, Map, Clock, LastReply

-----------------------------------------------------------------------------
(* The clock moves: alone, and under EXPIRE and TTL.                       *)

\* A key vanishes when its time comes, whether or not it is still in memory.
LEMMA Ageing ==
  ASSUME NEW e \in Entries \cup {NoEntry}, NEW t \in Nat, NEW u \in Nat, t <= u
  PROVE  LET v == Visible(e, t)
         IN  Visible(e, u) = IF v.exp # 0 /\ v.exp <= u THEN TM!Absent ELSE v
<1>1. CASE e = NoEntry
  BY <1>1, NoEntryFacts, AbsentFacts DEF Visible
<1>2. CASE e \in Entries
  BY <1>2, EntryFacts, NoEntryFacts, AbsentFacts DEF Visible, IsExpired
<1> QED BY <1>1, <1>2

LEMMA TickStep ==
  ASSUME ScalarInv, Tick
  PROVE  ScalarInv' /\ (aborts = "none" => TM!Tick)
<1>1. /\ now' = now + 1 /\ store' = store /\ dirty' = dirty /\ pdel' = pdel /\ truncated' = truncated
      /\ loaded' = loaded /\ since' = since /\ rows' = rows /\ reply' = reply /\ aborts' = aborts
  BY DEF Tick
<1>2. now \in Nat /\ now' \in Nat /\ since \in Nat /\ 1 <= since /\ since <= now' /\ now < now' /\ now <= now'
  BY <1>1, SinceFacts
<1>3. ScalarTypes'
  BY <1>1, <1>2 DEF ScalarInv, ScalarTypes
<1>4. \A k \in Keys : rows[k] # NoRow => Decodes(rows[k]) /\ Decoded(rows[k]) \in Entries
                                         /\ Decoded(rows[k]).exp = rows[k].exp /\ rows[k].exp \in Nat
  BY RowFacts DEF ScalarInv, ScalarTypes
<1>5. ASSUME aborts # "all", loaded PROVE Seen(store)'
  BY <1>1, <1>2, <1>4, <1>5 DEF ScalarInv, Seen, Untouched, LiveRow, IsExpired
<1>6. UnloadedIdle' /\ (aborts = "none" => Exact(store)')
  BY <1>1 DEF ScalarInv, UnloadedIdle, Exact, Untouched
<1>7. ScalarInv'
  BY <1>1, <1>3, <1>5, <1>6 DEF ScalarInv
<1>8. ASSUME aborts = "none", NEW k \in Keys
      PROVE  View(k)' = IF View(k).exp # 0 /\ View(k).exp <= now' THEN TM!Absent ELSE View(k)
  <2>1. CASE loaded
    <3>1. store[k] \in Entries \cup {NoEntry}
      BY DEF ScalarInv, ScalarTypes
    <3>2. View(k) = Visible(store[k], now) /\ View(k)' = Visible(store[k], now')
      BY <1>1, <2>1 DEF View
    <3> QED BY <1>2, <3>1, <3>2, Ageing
  <2>2. CASE ~loaded
    <3>1. ScalarTypes /\ Exact(store) /\ dirty = {}
      BY <1>8, <2>2 DEF ScalarInv, UnloadedIdle
    <3>2. View(k) = IF Selected(k, now) THEN Entry(Decoded(rows[k])) ELSE Entry(NoEntry)
      BY <1>2, <2>2, <3>1, LoadView DEF View
    <3>3. Visible(LoadEntry(k, now'), now') = IF Selected(k, now') THEN Entry(Decoded(rows[k])) ELSE Entry(NoEntry)
      BY <1>2, <3>1, LoadView
    <3>4. View(k)' = IF Selected(k, now') THEN Entry(Decoded(rows[k])) ELSE Entry(NoEntry)
      BY <1>1, <2>2, <3>3 DEF View, LoadEntry, Selected
    <3>5. rows[k] # NoRow => Entry(Decoded(rows[k])).exp = rows[k].exp
      BY <1>4, EntryFacts
    <3>6. Entry(NoEntry) = TM!Absent /\ Entry(NoEntry).exp = 0
      BY AbsentFacts, NoEntryFacts
    <3>7. CASE Selected(k, now')
      <4>1. Selected(k, now) /\ (rows[k].exp = 0 \/ ~(rows[k].exp <= now'))
        BY <1>2, <1>4, <3>7 DEF Selected
      <4>2. View(k) = Entry(Decoded(rows[k])) /\ View(k)' = View(k) /\ View(k).exp = rows[k].exp
        BY <3>2, <3>4, <3>5, <3>7, <4>1 DEF Selected
      <4> QED BY <4>1, <4>2
    <3>8. CASE ~Selected(k, now')
      <4>1. View(k)' = TM!Absent
        BY <3>4, <3>6, <3>8
      <4>2. CASE Selected(k, now)
        <5>1. rows[k].exp # 0 /\ rows[k].exp <= now' /\ View(k).exp = rows[k].exp
          BY <1>2, <1>4, <3>2, <3>5, <3>8, <4>2 DEF Selected
        <5> QED BY <4>1, <5>1
      <4>3. CASE ~Selected(k, now)
        BY <3>2, <3>6, <4>1, <4>3
      <4> QED BY <4>2, <4>3
    <3> QED BY <3>7, <3>8
  <2> QED BY <2>1, <2>2
<1>9. ASSUME aborts = "none" PROVE TM!Tick
  BY <1>1, <1>2, <1>8, <1>9 DEF TM!Tick, TM!Alive, Map, Clock, LastReply
<1> QED BY <1>7, <1>9

LEMMA ReadingsFacts ==
  ASSUME ScalarInv, NEW t \in Readings
  PROVE  now \in Nat /\ t \in Nat /\ now <= t
  BY DEF ScalarInv, ScalarTypes, Readings

LEMMA ExpireStep ==
  ASSUME ScalarInv, NEW k \in Keys, NEW n \in Seconds, Expire(k, n)
  PROVE  ScalarInv' /\ (aborts = "none" => TM!Expire(k, n))
<1> DEFINE R(e) == <<"EXPIRE", k, YesNo(e # NoEntry)>>
           Found(mem) == Without(mem, Evicted(mem, k, now))[k]
<1>1. PICK mem \in Memories, t \in Readings :
         /\ now' = t
         /\ IF Found(mem) = NoEntry THEN Done(mem, {}, Evicted(mem, k, now), R(Found(mem)))
            ELSE IF n <= 0 THEN Done(mem, {}, {k}, R(Found(mem)))
            ELSE Done([mem EXCEPT ![k].exp = t + n * TicksPerSecond], {k}, {}, R(Found(mem)))
  BY DEF Expire
<1>2. now \in Nat /\ t \in Nat /\ now <= t /\ now' \in Nat /\ now <= now'
  BY <1>1, ReadingsFacts
<1>3. mem \in [Keys -> Entries \cup {NoEntry}]
  BY AfterLoad
<1> DEFINE u == Upserted(mem[k])
           r == R(u)
<1>4. /\ Found(mem) = u /\ u \in Entries \cup {NoEntry}
      /\ Visible(mem[k], now) = Entry(u) /\ Evicted(mem, k, now) \in SUBSET Keys
      /\ u # NoEntry => mem[k] = u
  BY <1>3, Fresh, Lookup DEF Upserted
<1> HIDE DEF Found
<1>5. \A j \in Keys : LET v == Visible(mem[j], now)
                      IN  Visible(mem[j], t) = IF v.exp # 0 /\ v.exp <= t THEN TM!Absent ELSE v
  BY <1>2, <1>3, Ageing
<1>6. YesNo(u # NoEntry) = TM!YesNo(Entry(u) # TM!Absent)
  BY <1>4, AbsentFacts DEF YesNo, TM!YesNo
<1>7. CASE u = NoEntry
  <2> DEFINE G == Evicted(mem, k, now)
  <2>1. Done(mem, {}, G, r)
    BY <1>1, <1>4, <1>7
  <2>2. \A j \in Keys : Visible(IF j \in G THEN NoEntry ELSE mem[j], t) = Visible(mem[j], t)
    BY <1>2, <1>3, <1>5, EntryFacts, NoEntryFacts DEF Evicted, Visible, IsExpired
  <2> HIDE DEF G, r
  <2>3. /\ ScalarInv' /\ aborts' = aborts /\ reply' = r
        /\ aborts = "none" => \A j \in Keys : View(j) = Visible(mem[j], now)
        /\ \A j \in Keys : View(j)' = Visible(IF j \in G THEN NoEntry ELSE mem[j], now')
    BY ZenonT(30), <1>2, <1>4, <2>1, RemoveStep DEF G
  <2>4. ASSUME aborts = "none" PROVE TM!Expire(k, n)
    <3>1. Map[k] = TM!Absent
      BY <1>4, <1>7, <2>3, <2>4, AbsentFacts DEF Map
    <3>2. Map' = TM!Alive(Map, t)
      BY <1>1, <1>5, <2>2, <2>3, <2>4 DEF TM!Alive, Map
    <3>3. Clock = now /\ Clock' = t /\ LastReply' = <<"EXPIRE", k, TM!YesNo(Map[k] # TM!Absent)>>
      BY <1>1, <1>4, <1>6, <1>7, <2>3, <2>4, <3>1, AbsentFacts DEF Clock, LastReply, r
    <3> QED BY <1>2, <3>1, <3>2, <3>3 DEF TM!Expire
  <2> QED BY <2>3, <2>4
<1>8. CASE u # NoEntry /\ n <= 0
  <2>1. Done(mem, {}, {k}, r) /\ {k} \in SUBSET Keys
    BY <1>1, <1>4, <1>8
  <2> HIDE DEF r
  <2>2. /\ ScalarInv' /\ aborts' = aborts /\ reply' = r
        /\ aborts = "none" => \A j \in Keys : View(j) = Visible(mem[j], now)
        /\ \A j \in Keys : View(j)' = Visible(IF j \in {k} THEN NoEntry ELSE mem[j], now')
    BY ZenonT(30), <1>2, <2>1, RemoveStep
  <2>3. ASSUME aborts = "none" PROVE TM!Expire(k, n)
    <3>1. Map[k] = Entry(u) /\ Map[k] # TM!Absent
      BY <1>4, <1>8, <2>2, <2>3, AbsentFacts DEF Map
    <3>2. View(k)' = TM!Absent /\ TM!Absent.exp = 0
      BY ZenonT(30), <2>2, AbsentFacts, NoEntryFacts DEF Visible
    <3>3. Map' = TM!Alive([Map EXCEPT ![k] = TM!Absent], t)
      BY <1>1, <1>5, <2>2, <2>3, <3>2 DEF TM!Alive, Map
    <3>4. Clock = now /\ Clock' = t /\ LastReply' = <<"EXPIRE", k, TM!YesNo(Map[k] # TM!Absent)>>
      BY <1>1, <1>6, <2>2, <2>3, <3>1 DEF Clock, LastReply, r
    <3> QED BY <1>2, <1>8, <3>1, <3>3, <3>4 DEF TM!Expire
  <2> QED BY <2>2, <2>3
<1>9. CASE u # NoEntry /\ ~(n <= 0)
  <2> DEFINE x == t + n * TicksPerSecond
             e == [u EXCEPT !.exp = x]
  <2>1. x \in Nat /\ t < x
    <3>1. n \in Nat /\ n > 0 /\ TicksPerSecond \in Nat /\ TicksPerSecond > 0
      BY <1>9, ScalarAssumption
    <3>2. n * TicksPerSecond \in Nat /\ n * TicksPerSecond > 0
      BY <3>1
    <3> QED BY <1>2, <3>2
  <2>2. Done([mem EXCEPT ![k] = e], {k}, {}, r)
    BY ZenonT(30), <1>1, <1>3, <1>4, <1>9
  <2>3. e \in Entries /\ Entry(e) = [Entry(u) EXCEPT !.exp = x]
    <3>1. u \in Entries
      BY <1>4, <1>9
    <3>2. CASE \E s \in Texts, y \in Nat : u = String(s, y)
      BY <2>1, <3>2 DEF String, Entries, Entry, TextOf
    <3>3. CASE \E v \in IntRange, y \in Nat : u = Integer(v, y)
      BY <2>1, <3>3 DEF Integer, Entries, Entry, TextOf
    <3> QED BY <3>1, <3>2, <3>3 DEF Entries
  <2> HIDE DEF x, r
  <2>4. e.exp = x /\ Visible(e, t) = Entry(e)
    BY <1>2, <2>1, <2>3, EntryFacts DEF Visible, IsExpired, Entry
  <2> HIDE DEF e
  <2>5. /\ ScalarInv' /\ aborts' = aborts /\ reply' = r
        /\ aborts = "none" => \A j \in Keys : View(j) = Visible(mem[j], now)
        /\ View(k)' = Visible(e, now')
        /\ \A j \in Keys : j # k => View(j)' = Visible(mem[j], now')
    BY ZenonT(30), <1>2, <2>2, <2>3, WriteStep
  <2>6. ASSUME aborts = "none" PROVE TM!Expire(k, n)
    <3>1. Map[k] = Entry(u) /\ Map[k] # TM!Absent
      BY ZenonT(30), <1>4, <1>9, <2>5, <2>6, AbsentFacts DEF Map
    <3>2. View(k)' = [Map[k] EXCEPT !.exp = x] /\ View(k)'.exp = x
      BY <1>1, <2>3, <2>4, <2>5, <3>1 DEF Entry
    <3>3. Map' = TM!Alive([Map EXCEPT ![k].exp = x], t)
      BY <1>1, <1>2, <1>5, <2>1, <2>5, <2>6, <3>2 DEF TM!Alive, Map
    <3>4. Clock = now /\ Clock' = t /\ LastReply' = <<"EXPIRE", k, TM!YesNo(Map[k] # TM!Absent)>>
      BY <1>1, <1>6, <2>5, <2>6, <3>1 DEF Clock, LastReply, r
    <3> QED BY <1>2, <1>9, <3>1, <3>3, <3>4 DEF TM!Expire, x
  <2> QED BY <2>5, <2>6
<1> QED BY <1>7, <1>8, <1>9

\* The code's division is the rounding up that TtlMap asks for.
LEMMA RoundsUp ==
  ASSUME NEW left \in Nat, left > 0
  PROVE  (left + TicksPerSecond - 1) \div TicksPerSecond = TM!SecondsLeft(left)
<1> DEFINE T == TicksPerSecond
           q == (left + T - 1) \div T
           Fits(r) == (r - 1) * T < left /\ left <= r * T
<1>1. T \in Nat /\ T > 0
  BY ScalarAssumption
<1> HIDE DEF T
<1>2. q \in Int /\ T * q <= left + T - 1 /\ left + T - 1 < T * q + T
  BY <1>1
<1> HIDE DEF q
<1>3. q * T = T * q /\ (q - 1) * T = T * q - T
  BY <1>1, <1>2
<1>4. Fits(q)
  BY <1>1, <1>2, <1>3
<1>5. \A a, b \in Int : a < b => a * T <= (b - 1) * T
  <2> TAKE a, b \in Int
  <2> HAVE a < b
  <2>1. b - 1 - a \in Nat
    OBVIOUS
  <2>2. (b - 1 - a) * T >= 0
    BY <1>1, <2>1
  <2>3. (b - 1 - a) * T = (b - 1) * T - a * T
    BY <1>1
  <2>4. (b - 1) * T \in Int /\ a * T \in Int
    BY <1>1
  <2> QED BY <2>2, <2>3, <2>4
<1>6. \A r \in Int : r * T \in Int /\ (r - 1) * T \in Int
  BY <1>1
<1>7. \A r \in Int : Fits(r) => r = q
  <2> SUFFICES ASSUME NEW r \in Int, Fits(r), r # q PROVE FALSE
    OBVIOUS
  <2>1. r < q \/ q < r
    BY <1>2
  <2>2. r < q => r * T <= (q - 1) * T
    BY <1>2, <1>5
  <2>3. q < r => q * T <= (r - 1) * T
    BY <1>2, <1>5
  <2> QED BY <1>2, <1>4, <1>6, <2>1, <2>2, <2>3
<1>8. q \in 1 .. left
  <2>1. q >= 1
    <3> SUFFICES ASSUME q < 1 PROVE FALSE
      BY <1>2
    <3>1. q * T <= (1 - 1) * T
      BY <1>2, <1>5
    <3> QED BY <1>1, <1>2, <1>4, <1>6, <3>1
  <2>2. q <= left
    <3> SUFFICES ASSUME left < q PROVE FALSE
      BY <1>2
    <3>1. left * T <= (q - 1) * T
      BY <1>2, <1>5
    <3>2. left <= left * T
      BY <1>1
    <3> QED BY <1>1, <1>2, <1>4, <1>6, <3>1, <3>2
  <2> QED BY <1>2, <2>1, <2>2
<1>9. TM!SecondsLeft(left) = q
  <2>1. TM!SecondsLeft(left) = CHOOSE r \in 1 .. left : Fits(r)
    BY DEF TM!SecondsLeft, T
  <2>2. \A r \in 1 .. left : Fits(r) <=> r = q
    BY <1>4, <1>7
  <2> HIDE DEF Fits
  <2> QED BY <1>8, <2>1, <2>2
<1> QED BY <1>9 DEF q, T

LEMMA TtlStep ==
  ASSUME ScalarInv, NEW k \in Keys, Ttl(k)
  PROVE  ScalarInv' /\ (aborts = "none" => TM!Ttl(k))
<1> DEFINE G(mem, t) == Evicted(mem, k, now) \cup Evicted(mem, k, t)
           Answer(e, t) == IF e = NoEntry THEN -2 ELSE IF e.exp = 0 THEN -1 ELSE SecondsLeft(e, t)
<1>1. PICK mem \in Memories, t \in Readings :
         now' = t /\ Done(mem, {}, G(mem, t), <<"TTL", k, Answer(Without(mem, G(mem, t))[k], t)>>)
  BY ZenonT(30) DEF Ttl
<1>2. now \in Nat /\ t \in Nat /\ now <= t /\ now' \in Nat /\ now <= now'
  BY <1>1, ReadingsFacts
<1>3. mem \in [Keys -> Entries \cup {NoEntry}]
  BY AfterLoad
<1> DEFINE V == G(mem, t)
           e == Without(mem, V)[k]
           r == <<"TTL", k, Answer(e, t)>>
<1>4. mem[k].exp \in Nat
  BY <1>3, EntryFacts, NoEntryFacts
<1>5. V = {j \in {k} : IsExpired(mem[j], t)}
  BY <1>2, <1>4 DEF Evicted, IsExpired
<1>6. V \in SUBSET Keys /\ Done(mem, {}, V, r)
  BY ZenonT(30), <1>1, <1>5
<1> HIDE DEF G, V
<1>7. e = IF IsExpired(mem[k], t) THEN NoEntry ELSE mem[k]
  BY <1>5 DEF Without
<1>8. \A j \in Keys : Visible(IF j \in V THEN NoEntry ELSE mem[j], t) = Visible(mem[j], t)
  BY ZenonT(30), <1>5, NoEntryFacts DEF Visible
<1>9. Visible(mem[k], t) = Entry(e) /\ e \in Entries \cup {NoEntry} /\ ~IsExpired(e, t)
  BY <1>3, <1>7, NoEntryFacts DEF Visible
<1> HIDE DEF e
<1>10. Answer(e, t) = IF Entry(e) = TM!Absent THEN -2
                      ELSE IF Entry(e).exp = 0 THEN -1 ELSE TM!SecondsLeft(Entry(e).exp - t)
  <2>1. e # NoEntry /\ e.exp # 0 => e.exp - t \in Nat /\ e.exp - t > 0
    BY <1>2, <1>9, EntryFacts DEF IsExpired
  <2>2. e # NoEntry /\ e.exp # 0 => SecondsLeft(e, t) = TM!SecondsLeft(e.exp - t)
    BY <2>1, RoundsUp DEF SecondsLeft
  <2>3. Entry(e).exp = e.exp
    BY DEF Entry
  <2> QED BY <1>9, <2>2, <2>3, AbsentFacts
<1> HIDE DEF Answer
<1>11. \A j \in Keys : LET v == Visible(mem[j], now)
                       IN  Visible(mem[j], t) = IF v.exp # 0 /\ v.exp <= t THEN TM!Absent ELSE v
  BY <1>2, <1>3, Ageing
<1> HIDE DEF r
<1>12. /\ ScalarInv' /\ aborts' = aborts /\ reply' = r
       /\ aborts = "none" => \A j \in Keys : View(j) = Visible(mem[j], now)
       /\ \A j \in Keys : View(j)' = Visible(IF j \in V THEN NoEntry ELSE mem[j], now')
  BY <1>2, <1>6, RemoveStep
<1>13. ASSUME aborts = "none" PROVE TM!Ttl(k)
  <2>1. Map' = TM!Alive(Map, t)
    BY ZenonT(30), <1>1, <1>8, <1>11, <1>12, <1>13 DEF TM!Alive, Map
  <2>2. Map'[k] = Entry(e)
    BY ZenonT(30), <1>1, <1>8, <1>9, <1>12, <1>13 DEF Map
  <2>3. Clock = now /\ Clock' = t
    BY ZenonT(30), <1>1, <1>12, <1>13 DEF Clock
  <2>4. LastReply' = <<"TTL", k, Answer(e, t)>>
    BY <1>12, <1>13 DEF LastReply, r
  <2> QED BY <1>2, <1>10, <2>1, <2>2, <2>3, <2>4 DEF TM!Ttl
<1> QED BY <1>12, <1>13

-----------------------------------------------------------------------------
(* The theorems.                                                           *)

LEMMA InitHolds == Init => ScalarInv /\ TM!Init
<1> SUFFICES ASSUME Init PROVE ScalarInv /\ TM!Init
  OBVIOUS
<1>1. ScalarInv
  <2>1. ScalarTypes
    <3>1. store \in [Keys -> Entries \cup {NoEntry}] /\ rows \in [Keys -> Rows \cup {NoRow}]
      BY DEF Init
    <3>2. now \in Nat /\ since \in Nat /\ 1 <= since /\ since <= now
      BY DEF Init
    <3>3. dirty = {} /\ pdel = {} /\ truncated \in BOOLEAN /\ loaded \in BOOLEAN
      BY ZenonT(30) DEF Init
    <3> QED BY <3>1, <3>2, <3>3 DEF ScalarTypes
  <2>2. UnloadedIdle /\ ~loaded /\ Exact(store)
    BY DEF Init, UnloadedIdle, Exact
  <2> QED BY <2>1, <2>2 DEF ScalarInv
<1>2. \A k \in Keys : View(k) = TM!Absent
  <2> TAKE k \in Keys
  <2>1. store[k] = NoEntry /\ ~Selected(k, now)
    BY DEF Init, Selected
  <2>2. View(k) = Visible(NoEntry, now)
    BY <2>1 DEF View, LoadEntry
  <2> QED BY <2>2, AbsentFacts, NoEntryFacts DEF Visible
<1>3. Map = [k \in Keys |-> TM!Absent]
  BY <1>2, AbsentFacts DEF Map
<1> QED BY <1>1, <1>3 DEF Init, TM!Init, Clock, LastReply

LEMMA AbortsFixed == [Next]_vars => aborts' = aborts
<1> SUFFICES ASSUME Next PROVE aborts' = aborts
  BY DEF vars
<1>1. ASSUME NEW mem, NEW D, NEW G, NEW r, Done(mem, D, G, r) PROVE aborts' = aborts
  BY <1>1 DEF Done
<1>2. ASSUME NEW k, NEW n, Expire(k, n) PROVE aborts' = aborts
  BY <1>2, <1>1 DEF Expire
<1>3. ASSUME NEW k, NEW d, Incr(k, d) PROVE aborts' = aborts
  BY <1>3, <1>1 DEF Incr
<1>4. ASSUME NEW k, Ttl(k) PROVE aborts' = aborts
  BY <1>4, <1>1 DEF Ttl
<1>5. ASSUME NEW k, Get(k) \/ Exists(k) \/ Del(k) PROVE aborts' = aborts
  BY ZenonT(30), <1>5, <1>1 DEF Get, Exists, Del
<1>6. ASSUME NEW k, NEW s, Set(k, s) PROVE aborts' = aborts
  BY <1>6, <1>1 DEF Set
<1>7. CASE KeyList \/ Save \/ Sweep
  BY ZenonT(30), <1>7, <1>1 DEF KeyList, Save, Sweep
<1>8. ASSUME NEW k, IncrFails(k) PROVE aborts' = aborts
  BY <1>8 DEF IncrFails, Aborted
<1>9. CASE Flushall \/ Commit \/ Rollback \/ Reconnect \/ Tick
  BY <1>9 DEF Flushall, Commit, Rollback, Aborted, Reconnect, Tick
<1> QED BY <1>2, <1>3, <1>4, <1>5, <1>6, <1>7, <1>8, <1>9 DEF Next

LEMMA StepHolds ==
  ScalarInv /\ [Next]_vars => ScalarInv' /\ [TM!Next]_<<Map, Clock, LastReply>>
<1> SUFFICES ASSUME ScalarInv, [Next]_vars
             PROVE  ScalarInv' /\ [TM!Next]_<<Map, Clock, LastReply>>
  OBVIOUS
<1>1. CASE UNCHANGED vars
  BY ZenonT(30), <1>1 DEF vars, ScalarInv, ScalarTypes, UnloadedIdle, Seen, Exact, Untouched, LiveRow,
              Map, Clock, LastReply, View, LoadEntry, Selected
<1>2. ASSUME Next, aborts' = aborts, aborts # "none"
      PROVE  UNCHANGED <<Map, Clock, LastReply>>
  BY <1>2 DEF Map, Clock, LastReply
<1>3. CASE Next
  <2>1. aborts' = aborts
    BY <1>3, AbortsFixed
  <2>2. ASSUME NEW k \in Keys, NEW s \in Texts, Set(k, s) PROVE ScalarInv' /\ (aborts = "none" => TM!Next)
    BY <2>2, SetStep DEF TM!Next
  <2>3. ASSUME NEW k \in Keys, NEW n \in Seconds, Expire(k, n) PROVE ScalarInv' /\ (aborts = "none" => TM!Next)
    BY <2>3, ExpireStep DEF TM!Next
  <2>4. ASSUME NEW k \in Keys, NEW d \in {1, -1}, Incr(k, d) PROVE ScalarInv' /\ (aborts = "none" => TM!Next)
    BY <2>4, IncrStep DEF TM!Next
  <2>5. ASSUME NEW k \in Keys, Get(k) PROVE ScalarInv' /\ (aborts = "none" => TM!Next)
    BY <2>5, GetStep DEF TM!Next
  <2>6. ASSUME NEW k \in Keys, Exists(k) PROVE ScalarInv' /\ (aborts = "none" => TM!Next)
    BY <2>6, ExistsStep DEF TM!Next
  <2>7. ASSUME NEW k \in Keys, Del(k) PROVE ScalarInv' /\ (aborts = "none" => TM!Next)
    BY <2>7, DelStep DEF TM!Next
  <2>8. ASSUME NEW k \in Keys, Ttl(k) PROVE ScalarInv' /\ (aborts = "none" => TM!Next)
    BY <2>8, TtlStep DEF TM!Next
  <2>9. ASSUME NEW k \in Keys, IncrFails(k) PROVE ScalarInv' /\ (aborts = "none" => TM!Next)
    BY <2>9, IncrFailsStep DEF TM!Next
  <2>10. CASE KeyList
    BY <2>1, <2>10, <1>2, <1>3, KeyListStep DEF TM!Next
  <2>11. CASE Save
    BY <2>1, <2>11, <1>2, <1>3, SaveStep DEF TM!Next
  <2>12. CASE Flushall
    BY <2>1, <2>12, <1>2, <1>3, FlushallStep DEF TM!Next
  <2>13. CASE Tick
    BY <2>1, <2>13, <1>2, <1>3, TickStep DEF TM!Next
  <2>14. CASE Sweep \/ Commit \/ Rollback \/ Reconnect
    BY <2>14, SweepStep, CommitStep, RollbackStep, ReconnectStep
  <2> QED BY <1>2, <1>3, <2>1, <2>2, <2>3, <2>4, <2>5, <2>6, <2>7, <2>8, <2>9, <2>10, <2>11, <2>12, <2>13, <2>14
          DEF Next
<1> QED BY <1>1, <1>3

\* The sessions' commands, commits, disconnects, loads, evictions and sweeps
\* (pg_redis.c, kv_store.c, ttl.c, persistence.c) implement a map with expiry,
\* for any keys, any texts and any clock, when no work is rolled back.
THEOREM ScalarsImplementTtlMap == Spec => ImplementsTtlMap
<1> USE DEF Spec, ImplementsTtlMap, TM!Spec
<1> QED BY InitHolds, StepHolds, PTL

\* After any commits and rollbacks that the transaction callback hears, a
\* session sees every live row as it is in the table (pgredis_xact_callback).
THEOREM RollbackResyncs ==
  ASSUME "all" \notin Aborts
  PROVE  Spec => []DurableSeen
<1>1. Init => ScalarInv /\ aborts # "all"
  BY InitHolds DEF Init
<1>2. ScalarInv /\ aborts # "all" /\ [Next]_vars => (ScalarInv /\ aborts # "all")'
  BY AbortsFixed, StepHolds
<1>3. ScalarInv /\ aborts # "all" => DurableSeen
  <2> SUFFICES ASSUME ScalarInv, aborts # "all", ~Open,
                      NEW k \in Keys, rows[k] # NoRow, ~IsExpired(rows[k], now)
               PROVE  View(k) = Entry(Decoded(rows[k]))
    BY DEF DurableSeen
  <2>1. /\ rows[k] \in Rows /\ rows[k].exp \in Nat /\ Decodes(rows[k])
        /\ Decoded(rows[k]).exp = rows[k].exp /\ now \in Nat
    BY RowFacts DEF ScalarInv, ScalarTypes
  <2>2. ~IsExpired(Decoded(rows[k]), now)
    BY <2>1 DEF IsExpired
  <2>3. CASE loaded
    <3>1. rows[k] = Row(store[k]) /\ store[k] # NoEntry /\ store[k] \in Entries
      BY <2>3 DEF ScalarInv, ScalarTypes, Seen, Untouched, Open, LiveRow
    <3>2. Decoded(rows[k]) = store[k]
      BY ZenonT(30), <3>1, EntryFacts
    <3> QED BY ZenonT(30), <2>2, <2>3, <3>2 DEF View, Visible
  <2>4. CASE ~loaded
    <3>1. LoadEntry(k, now) = Decoded(rows[k])
      BY <2>1 DEF LoadEntry, Selected, IsExpired
    <3> QED BY ZenonT(30), <2>2, <2>4, <3>1 DEF View, Visible
  <2> QED BY <2>3, <2>4
<1> QED BY <1>1, <1>2, <1>3, PTL DEF Spec

-----------------------------------------------------------------------------
(* Types: the bound on the clock and the callback's flag, which ScalarInv  *)
(* does not speak of.                                                      *)

ClockOk == now <= MaxTime /\ registered \in BOOLEAN

LEMMA ClockStep == ClockOk /\ now \in Nat /\ [Next]_vars => ClockOk'
<1> SUFFICES ASSUME ClockOk, now \in Nat, [Next]_vars PROVE ClockOk'
  OBVIOUS
<1>1. ASSUME NEW mem, NEW D, NEW G, NEW r, Done(mem, D, G, r), now' <= MaxTime PROVE ClockOk'
  BY <1>1, Zenon DEF Done, ClockOk
<1>2. ASSUME now' = now PROVE now' <= MaxTime
  BY <1>2 DEF ClockOk
<1>3. ASSUME NEW k, NEW m, Expire(k, m) PROVE ClockOk'
  BY <1>3, <1>1 DEF Expire, Readings
<1>4. ASSUME NEW k, NEW d, Incr(k, d) PROVE ClockOk'
  BY <1>4, <1>1, <1>2 DEF Incr
<1>5. ASSUME NEW k, Ttl(k) PROVE ClockOk'
  BY <1>5, <1>1 DEF Ttl, Readings
<1>6. ASSUME NEW k, Get(k) \/ Exists(k) \/ Del(k) PROVE ClockOk'
  BY ZenonT(30), <1>6, <1>1, <1>2 DEF Get, Exists, Del
<1>7. ASSUME NEW k, NEW s, Set(k, s) PROVE ClockOk'
  BY <1>7, <1>1, <1>2 DEF Set
<1>8. CASE KeyList \/ Save \/ Sweep
  BY ZenonT(30), <1>8, <1>1, <1>2 DEF KeyList, Save, Sweep
<1>9. ASSUME now' = now, registered' = registered \/ registered' = TRUE \/ registered' = FALSE PROVE ClockOk'
  BY <1>9, Zenon DEF ClockOk
<1>10. ASSUME NEW k, IncrFails(k) PROVE ClockOk'
  BY <1>10, <1>9 DEF IncrFails, Aborted
<1>11. CASE Flushall \/ Commit \/ Rollback \/ Reconnect \/ UNCHANGED vars
  BY ZenonT(30), <1>11, <1>9 DEF Flushall, Commit, Rollback, Aborted, Reconnect, vars
<1>12. CASE Tick
  <2>1. now' <= MaxTime /\ registered' = registered
    BY <1>12, ScalarAssumption DEF Tick
  <2> QED BY <2>1, Zenon DEF ClockOk
<1> QED BY <1>3, <1>4, <1>5, <1>6, <1>7, <1>8, <1>10, <1>11, <1>12 DEF Next

\* The variables keep their types, what is dirty is in memory, and every row
\* decodes as the type it names (encode_value, load_row).
THEOREM ScalarTypeCorrect == Spec => []TypeOK
<1>1. Init => ScalarInv /\ ClockOk
  <2> SUFFICES ASSUME Init PROVE ScalarInv /\ ClockOk
    OBVIOUS
  <2>1. now <= MaxTime
    BY ScalarAssumption DEF Init
  <2>2. registered \in BOOLEAN
    BY Zenon DEF Init
  <2> QED BY <2>1, <2>2, InitHolds DEF ClockOk
<1>2. ScalarInv /\ ClockOk /\ [Next]_vars => (ScalarInv /\ ClockOk)'
  BY StepHolds, ClockStep, SinceFacts
<1>3. ScalarInv /\ ClockOk => TypeOK
  <2> SUFFICES ASSUME ScalarInv, ClockOk PROVE TypeOK
    OBVIOUS
  <2>1. now \in 1 .. MaxTime /\ since \in 1 .. now
    BY SinceFacts, ScalarAssumption DEF ClockOk
  <2>2. ASSUME NEW k \in Keys PROVE EntryOk(store[k]) /\ store[k].exp \in Nat
    <3>1. CASE store[k] = NoEntry
      BY <3>1, NoEntryFacts DEF EntryOk
    <3>2. CASE store[k] # NoEntry
      <4>1. store[k] \in Entries
        BY <3>2 DEF ScalarInv, ScalarTypes
      <4>2. PICK e : e = store[k]
        OBVIOUS
      <4>3. e.exp \in Nat
        BY <4>1, <4>2, EntryFacts
      <4>4. EntryOk(e)
        BY <4>1, <4>2 DEF Entries, String, Integer, EntryOk
      <4> QED BY <4>2, <4>3, <4>4
    <3> QED BY <3>1, <3>2
  <2>3. dirty \subseteq {k \in Keys : store[k] # NoEntry} /\ pdel \subseteq Keys
    BY DEF ScalarInv, ScalarTypes
  <2>4. {truncated, loaded, registered} \subseteq BOOLEAN
    BY Zenon DEF ScalarInv, ScalarTypes, ClockOk
  <2>5. ASSUME NEW k \in Keys, rows[k] # NoRow PROVE rows[k].type \in {"STRING", "INT"} /\ Decodes(rows[k])
    <3>1. rows[k] \in Rows
      BY <2>5 DEF ScalarInv, ScalarTypes
    <3>2. Decodes(rows[k])
      BY <3>1, RowFacts
    <3>3. PICK e \in Entries : rows[k] = Row(e)
      BY <3>1 DEF Rows
    <3>4. e.type \in {"STRING", "INT"}
      BY DEF Entries, String, Integer
    <3>5. Row(e).type = e.type
      BY DEF Row
    <3> QED BY <3>2, <3>3, <3>4, <3>5
  <2> QED BY <2>1, <2>2, <2>3, <2>4, <2>5 DEF TypeOK
<1> QED BY <1>1, <1>2, <1>3, PTL DEF Spec
=============================================================================
