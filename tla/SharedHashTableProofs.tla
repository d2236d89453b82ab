----------------------- MODULE SharedHashTableProofs ------------------------
(***************************************************************************)
(* The open-addressing table of shared_hash.c, for every hash function,    *)
(* set of fields and number of buckets: what a search finds, and what one  *)
(* change of a bucket and a rehash keep.                                   *)
(*                                                                         *)
(* Reachable is not inductive: it says nothing of the counters, on which   *)
(* the decision to grow rests.  Sound says where every field is (Chained:  *)
(* no empty bucket before it on its own probe sequence), that it is        *)
(* nowhere else (Distinct) and that the counters are the table's           *)
(* (Counting).  With Roomy, the counters give the empty bucket at which    *)
(* the search for an absent field ends.  Rehash is a                       *)
(* recursive function over the old buckets; its values are found by        *)
(* induction on the number of buckets moved (RehashSteps, MoveOne).        *)
(***************************************************************************)
EXTENDS SharedHash, FiniteSetTheorems, TLAPS

BucketSet == {Free, Grave} \cup [state : {"OCCUPIED"}, field : Fields, value : Values]
Tables(n) == [bucket_count : {n}, buckets : [0 .. n - 1 -> BucketSet], occupied : Nat, tombstones : Nat]

Probe(t, f, d) == (Hash[f] + d) % t.bucket_count
Graves(t) == {i \in DOMAIN t.buckets : t.buckets[i] = Grave}

\* A search for f passes no empty bucket before it comes to bucket i.
Leads(t, f, i) ==
    \E d \in 0 .. t.bucket_count - 1 :
        Probe(t, f, d) = i /\ \A e \in 0 .. d - 1 : t.buckets[Probe(t, f, e)].state # "EMPTY"

\* The table the operations keep: every field is in one bucket, at the end of
\* a chain that is not cut; the counters are exact; a bucket is empty.
Shaped(t) == t.bucket_count \in Nat /\ t \in Tables(t.bucket_count)
Chained(t) == \A i \in Occupied(t) : Leads(t, t.buckets[i].field, i)
Distinct(t) == \A i, j \in Occupied(t) : t.buckets[i].field = t.buckets[j].field => i = j
Counting(t) == t.occupied = Cardinality(Occupied(t)) /\ t.tombstones = Cardinality(Graves(t))
Roomy(t) == t.bucket_count > 0 => t.occupied + t.tombstones < t.bucket_count
Sound(t) == Shaped(t) /\ Chained(t) /\ Distinct(t) /\ Counting(t)

Has(t, f) == \E i \in Occupied(t) : t.buckets[i].field = f

----------------------------------------------------------------------------
(* Arithmetic *)

LEMMA NatMin ==
  ASSUME NEW T, T \subseteq Nat, T # {}
  PROVE  Min(T) \in T /\ \A y \in T : Min(T) <= y
<1>1. \E x \in T : \A y \in T : ~(<<y, x>> \in OpToRel(<, Nat))
  BY WFMin, NatLessThanWellFounded, Zenon
<1>2. \E x \in T : \A y \in T : ~(y < x)  BY <1>1, Zenon DEF OpToRel
<1>3. \E x \in T : \A y \in T : x <= y  BY <1>2
<1> QED BY ZenonT(30), <1>3 DEF Min

LEMMA NatInduction1 ==
  ASSUME NEW S, 0 \in S, \A n \in Nat : n \in S => n + 1 \in S
  PROVE  Nat \subseteq S
<1> SUFFICES ASSUME Nat \ S # {} PROVE FALSE  OBVIOUS
<1>1. Min(Nat \ S) \in Nat \ S /\ \A y \in Nat \ S : Min(Nat \ S) <= y  BY NatMin
<1>2. PICK x \in Nat \ S : \A y \in Nat \ S : x <= y  BY <1>1
<1>3. x - 1 \in Nat /\ x - 1 \notin Nat \ S  BY <1>2
<1> QED BY <1>2, <1>3

LEMMA ModFacts ==
  ASSUME NEW a \in Nat, NEW n \in Nat \ {0}
  PROVE  \E q \in Nat, r \in 0 .. n - 1 : a = n * q + r /\ a % n = r
OBVIOUS

LEMMA ModUnique ==
  ASSUME NEW n \in Nat \ {0}, NEW p \in Nat, NEW q \in Nat, NEW r \in 0 .. n - 1, NEW s \in 0 .. n - 1,
         n * p + r = n * q + s
  PROVE  p = q /\ r = s
<1>1. ~(p > q)
  <2> SUFFICES ASSUME p > q PROVE FALSE  OBVIOUS
  <2>1. n * (p - q) >= n  OBVIOUS
  <2> QED BY <2>1
<1>2. ~(q > p)
  <2> SUFFICES ASSUME q > p PROVE FALSE  OBVIOUS
  <2>1. n * (q - p) >= n  OBVIOUS
  <2> QED BY <2>1
<1> QED BY <1>1, <1>2

LEMMA ModValue ==
  ASSUME NEW n \in Nat \ {0}, NEW q \in Nat, NEW r \in 0 .. n - 1
  PROVE  n * q + r \in Nat /\ (n * q + r) % n = r
<1>1. n * q + r \in Nat  OBVIOUS
<1>2. PICK p \in Nat, s \in 0 .. n - 1 : n * q + r = n * p + s /\ (n * q + r) % n = s  BY ZenonT(30), <1>1, ModFacts
<1>3. r = s  BY <1>2, ModUnique
<1> QED BY <1>1, <1>2, <1>3

LEMMA ProbeInjective ==
  ASSUME NEW h \in Nat, NEW n \in Nat \ {0}, NEW d \in 0 .. n - 1, NEW e \in 0 .. n - 1,
         (h + d) % n = (h + e) % n
  PROVE  d = e
<1>0. h + d \in Nat /\ h + e \in Nat  OBVIOUS
<1>1. PICK p \in Nat, r \in 0 .. n - 1 : h + d = n * p + r /\ (h + d) % n = r  BY ZenonT(30), <1>0, ModFacts
<1>2. PICK q \in Nat, s \in 0 .. n - 1 : h + e = n * q + s /\ (h + e) % n = s  BY ZenonT(30), <1>0, ModFacts
<1>3. r = s  BY <1>1, <1>2
<1>4. d - e = n * (p - q)  BY <1>1, <1>2, <1>3
<1>5. p = q
  <2>1. ~(p > q)
    <3> SUFFICES ASSUME p > q PROVE FALSE  OBVIOUS
    <3>1. n * (p - q) >= n  OBVIOUS
    <3> QED BY <3>1, <1>4
  <2>2. ~(q > p)
    <3> SUFFICES ASSUME q > p PROVE FALSE  OBVIOUS
    <3>1. n * (q - p) >= n  OBVIOUS
    <3> QED BY <3>1, <1>4
  <2> QED BY <2>1, <2>2
<1> QED BY <1>4, <1>5

LEMMA ProbeOnto ==
  ASSUME NEW h \in Nat, NEW n \in Nat \ {0}, NEW j \in 0 .. n - 1
  PROVE  \E d \in 0 .. n - 1 : (h + d) % n = j
<1>1. PICK q \in Nat, r \in 0 .. n - 1 : h = n * q + r  BY ZenonT(30), ModFacts
<1>2. CASE j >= r
  <2>1. h + (j - r) = n * q + j /\ j - r \in 0 .. n - 1  BY <1>1, <1>2
  <2>2. (n * q + j) % n = j  BY ModValue
  <2> QED BY ZenonT(30), <2>1, <2>2
<1>3. CASE j < r
  <2>1. h + (j - r + n) = n * (q + 1) + j /\ j - r + n \in 0 .. n - 1 /\ q + 1 \in Nat  BY <1>1, <1>3
  <2>2. (n * (q + 1) + j) % n = j  BY ZenonT(30), <2>1, ModValue
  <2> QED BY <2>1, <2>2
<1> QED BY <1>2, <1>3

----------------------------------------------------------------------------
(* Searches *)

LEMMA FreeFacts ==
  /\ Free.state = "EMPTY" /\ Free.field \notin Fields /\ Free \in BucketSet
  /\ Grave.state = "TOMBSTONE" /\ Grave.field \notin Fields /\ Grave \in BucketSet
BY HashAssumption DEF Free, Grave, Bucket, BucketSet

LEMMA BucketFacts ==
  ASSUME NEW b \in BucketSet
  PROVE  /\ b.state = "EMPTY" <=> b = Free
         /\ b.state = "TOMBSTONE" <=> b = Grave
         /\ b.state = "OCCUPIED" <=> b.field \in Fields
         /\ b.state = "OCCUPIED" => b.value \in Values
         /\ b.state \in {"EMPTY", "OCCUPIED", "TOMBSTONE"}
<1>1. CASE b \in {Free, Grave}  BY <1>1, FreeFacts
<1>2. CASE b \in [state : {"OCCUPIED"}, field : Fields, value : Values]  BY <1>2, FreeFacts
<1> QED BY <1>1, <1>2 DEF BucketSet

LEMMA NewBucketFacts ==
  ASSUME NEW f \in Fields, NEW v \in Values
  PROVE  /\ Bucket("OCCUPIED", f, v) \in BucketSet
         /\ Bucket("OCCUPIED", f, v).state = "OCCUPIED"
         /\ Bucket("OCCUPIED", f, v).field = f
         /\ Bucket("OCCUPIED", f, v).value = v
BY DEF Bucket, BucketSet

LEMMA TableFacts ==
  ASSUME NEW t, Shaped(t)
  PROVE  /\ t.bucket_count \in Nat /\ t.occupied \in Nat /\ t.tombstones \in Nat
         /\ t.buckets \in [0 .. t.bucket_count - 1 -> BucketSet] /\ DOMAIN t.buckets = 0 .. t.bucket_count - 1
         /\ t = [bucket_count |-> t.bucket_count, buckets |-> t.buckets,
                 occupied |-> t.occupied, tombstones |-> t.tombstones]
         /\ \A i \in 0 .. t.bucket_count - 1 : t.buckets[i] \in BucketSet
BY DEF Shaped, Tables

LEMMA ProbeFacts ==
  ASSUME NEW t, Shaped(t), t.bucket_count > 0, NEW f \in Fields
  PROVE  /\ \A d \in 0 .. t.bucket_count - 1 : Probe(t, f, d) \in 0 .. t.bucket_count - 1
         /\ \A d, e \in 0 .. t.bucket_count - 1 : Probe(t, f, d) = Probe(t, f, e) => d = e
         /\ \A i \in 0 .. t.bucket_count - 1 : \E d \in 0 .. t.bucket_count - 1 : Probe(t, f, d) = i
<1>1. Hash[f] \in Nat /\ t.bucket_count \in Nat \ {0}  BY HashAssumption, TableFacts
<1>2. ASSUME NEW d \in 0 .. t.bucket_count - 1 PROVE Probe(t, f, d) \in 0 .. t.bucket_count - 1
  <2>1. Hash[f] + d \in Nat  BY <1>1
  <2> QED BY <1>1, <2>1, ModFacts DEF Probe
<1>3. ASSUME NEW d \in 0 .. t.bucket_count - 1, NEW e \in 0 .. t.bucket_count - 1, Probe(t, f, d) = Probe(t, f, e)
      PROVE  d = e
  BY <1>1, <1>3, ProbeInjective DEF Probe
<1>4. ASSUME NEW i \in 0 .. t.bucket_count - 1 PROVE \E d \in 0 .. t.bucket_count - 1 : Probe(t, f, d) = i
  BY ZenonT(30), <1>1, ProbeOnto DEF Probe
<1> QED BY <1>2, <1>3, <1>4

\* A field that is in the table is found where it is.
LEMMA FindPresent ==
  ASSUME NEW t, Sound(t), NEW f \in Fields, NEW i \in Occupied(t), t.buckets[i].field = f
  PROVE  FindBucket(t, f).was_found /\ FindBucket(t, f).idx = i
<1> DEFINE n == t.bucket_count
           steps == 0 .. n - 1
           ends == {k \in steps : Ends(t.buckets[Probe(t, f, k)], f)}
           last == IF ends = {} THEN n ELSE Min(ends)
           tombs == {k \in steps : k < last /\ t.buckets[Probe(t, f, k)].state = "TOMBSTONE"}
           found == ends # {} /\ t.buckets[Probe(t, f, last)].field = f
<1>1. FindBucket(t, f) = [was_found |-> found,
                          idx |-> IF ~found /\ tombs # {} THEN Probe(t, f, Min(tombs))
                                  ELSE IF ends # {} THEN Probe(t, f, last) ELSE -1]
  BY DEF FindBucket, Probe
<1>2. Shaped(t) /\ n \in Nat /\ i \in steps /\ n > 0  BY TableFacts DEF Sound, Occupied
<1>3. PICK d \in steps : Probe(t, f, d) = i /\ \A e \in 0 .. d - 1 : t.buckets[Probe(t, f, e)].state # "EMPTY"
  BY DEF Sound, Chained, Leads
<1>4. d \in ends  BY <1>3 DEF Ends
<1>5. \A e \in ends : e >= d
  <2> SUFFICES ASSUME NEW e \in ends, e < d PROVE FALSE  BY <1>2
  <2>1. e \in 0 .. d - 1 /\ Probe(t, f, e) \in steps /\ Probe(t, f, e) # i
    BY <1>2, <1>3, ProbeFacts
  <2>2. t.buckets[Probe(t, f, e)].field = f  BY <2>1, <1>3 DEF Ends
  <2>3. t.buckets[Probe(t, f, e)] \in BucketSet /\ DOMAIN t.buckets = steps  BY <2>1, <1>2, TableFacts
  <2>4. t.buckets[Probe(t, f, e)].state = "OCCUPIED"  BY <2>2, <2>3, BucketFacts
  <2>5. Probe(t, f, e) \in Occupied(t)  BY <2>1, <2>3, <2>4 DEF Occupied
  <2> QED BY <2>1, <2>2, <2>5 DEF Sound, Distinct
<1>6. last = d
  <2>0. ends \subseteq Nat /\ ends # {}  BY <1>2, <1>4
  <2>1. Min(ends) \in ends /\ Min(ends) <= d
    <3> HIDE DEF ends
    <3> QED BY ZenonT(30), <1>4, <2>0, NatMin
  <2>2. Min(ends) \in Nat /\ Min(ends) >= d  BY <2>0, <2>1, <1>5
  <2>3. Min(ends) = d  BY <2>1, <2>2
  <2> QED BY <2>3, <1>4
<1>7. found = TRUE /\ ends # {}  BY ZenonT(30), <1>3, <1>4, <1>6
<1> HIDE DEF found, ends, last, tombs
<1> QED BY <1>1, <1>3, <1>6, <1>7

\* A table with room has an empty bucket.
LEMMA EmptyBucket ==
  ASSUME NEW t, Sound(t), Roomy(t), t.bucket_count > 0
  PROVE  \E i \in 0 .. t.bucket_count - 1 : t.buckets[i] = Free
<1> DEFINE n == t.bucket_count
           span == 0 .. n - 1
<1>1. Shaped(t) /\ n \in Nat /\ DOMAIN t.buckets = span  BY TableFacts DEF Sound
<1>2. IsFiniteSet(span) /\ Cardinality(span) = n  BY <1>1, FS_Interval
<1>3. Occupied(t) \in SUBSET span /\ Graves(t) \in SUBSET span  BY <1>1 DEF Occupied, Graves
<1>4. IsFiniteSet(Occupied(t)) /\ IsFiniteSet(Graves(t))  BY ZenonT(30), <1>2, <1>3, FS_Subset
<1>5. Occupied(t) \cap Graves(t) = {}
  <2> SUFFICES ASSUME NEW i, i \in Occupied(t), i \in Graves(t) PROVE FALSE  OBVIOUS
  <2>1. t.buckets[i].state = "OCCUPIED" /\ t.buckets[i] = Grave  BY DEF Occupied, Graves
  <2> QED BY <2>1, FreeFacts
<1>6. /\ Cardinality(Occupied(t)) \in Nat /\ Cardinality(Graves(t)) \in Nat
      /\ Cardinality(Occupied(t) \cup Graves(t)) = Cardinality(Occupied(t)) + Cardinality(Graves(t))
  <2>1. Cardinality(Occupied(t) \cap Graves(t)) = 0  BY <1>5, FS_EmptySet
  <2>2. Cardinality(Occupied(t)) \in Nat /\ Cardinality(Graves(t)) \in Nat  BY <1>4, FS_CardinalityType
  <2>3. Cardinality(Occupied(t) \cup Graves(t)) =
          Cardinality(Occupied(t)) + Cardinality(Graves(t)) - Cardinality(Occupied(t) \cap Graves(t))
    BY <1>4, FS_Union
  <2> QED BY <2>1, <2>2, <2>3
<1>7. Cardinality(Occupied(t) \cup Graves(t)) # n  BY <1>1, <1>6 DEF Roomy, Sound, Counting
<1>8. Occupied(t) \cup Graves(t) # span  BY ZenonT(30), <1>2, <1>7
<1>9. PICK i \in span : i \notin Occupied(t) /\ i \notin Graves(t)  BY <1>3, <1>8
<1>10. t.buckets[i] \in BucketSet  BY <1>1, TableFacts
<1>11. t.buckets[i].state # "OCCUPIED" /\ t.buckets[i] # Grave  BY <1>1, <1>9 DEF Occupied, Graves
<1> QED BY <1>10, <1>11, BucketFacts

\* A field that is not in the table is given a free bucket that a later search
\* for it comes to.
LEMMA FindAbsent ==
  ASSUME NEW t, Sound(t), Roomy(t), t.bucket_count > 0, NEW f \in Fields, ~Has(t, f)
  PROVE  LET b == FindBucket(t, f)
         IN  /\ ~b.was_found /\ b.idx \in 0 .. t.bucket_count - 1
             /\ t.buckets[b.idx] \in {Free, Grave} /\ Leads(t, f, b.idx)
<1> DEFINE n == t.bucket_count
           steps == 0 .. n - 1
           bkt(k) == t.buckets[Probe(t, f, k)]
           ends == {k \in steps : Ends(bkt(k), f)}
           last == IF ends = {} THEN n ELSE Min(ends)
           tombs == {k \in steps : k < last /\ bkt(k).state = "TOMBSTONE"}
           found == ends # {} /\ bkt(last).field = f
<1>1. FindBucket(t, f) = [was_found |-> found,
                          idx |-> IF ~found /\ tombs # {} THEN Probe(t, f, Min(tombs))
                                  ELSE IF ends # {} THEN Probe(t, f, last) ELSE -1]
  BY DEF FindBucket, Probe
<1>2. Shaped(t) /\ n \in Nat /\ n > 0 /\ DOMAIN t.buckets = steps  BY TableFacts DEF Sound
<1>3. \A k \in steps : Probe(t, f, k) \in steps /\ bkt(k) \in BucketSet  BY <1>2, ProbeFacts, TableFacts
<1>4. \A k \in steps : bkt(k).field # f
  <2> SUFFICES ASSUME NEW k \in steps, bkt(k).field = f PROVE FALSE  OBVIOUS
  <2>1. bkt(k).state = "OCCUPIED"  BY <1>3, BucketFacts
  <2>2. Probe(t, f, k) \in Occupied(t)  BY <1>2, <1>3, <2>1 DEF Occupied
  <2> QED BY <2>2 DEF Has
<1>5. ends = {k \in steps : bkt(k).state = "EMPTY"}  BY <1>4 DEF Ends
<1>6. ends # {}
  <2>1. PICK i \in steps : t.buckets[i] = Free  BY EmptyBucket
  <2>2. PICK k \in steps : Probe(t, f, k) = i  BY <1>2, ProbeFacts
  <2>3. bkt(k).state = "EMPTY"  BY <2>1, <2>2, FreeFacts
  <2> QED BY <2>3, <1>5
<1>7. last \in ends /\ \A k \in ends : last <= k
  <2>1. ends \subseteq Nat  BY <1>2
  <2> QED BY <2>1, <1>6, NatMin
<1> HIDE DEF ends, last
<1>8. last \in steps /\ bkt(last).state = "EMPTY" /\ \A k \in 0 .. last - 1 : bkt(k).state # "EMPTY"
  <2>1. last \in steps /\ bkt(last).state = "EMPTY"  BY <1>5, <1>7
  <2>2. ASSUME NEW k \in 0 .. last - 1 PROVE bkt(k).state # "EMPTY"
    <3>1. k \in steps /\ ~(last <= k)  BY <1>2, <2>1
    <3> QED BY <3>1, <1>5, <1>7
  <2> QED BY <2>1, <2>2
<1>9. ~found  BY <1>4, <1>8
<1> HIDE DEF found
<1>10. CASE tombs # {}
  <2>1. tombs \subseteq Nat  BY <1>2
  <2>2. Min(tombs) \in tombs  BY <1>10, <2>1, NatMin
  <2>3. PICK m : m = Min(tombs)  BY ZenonT(30)
  <2>4. m \in steps /\ m < last /\ bkt(m).state = "TOMBSTONE"  BY <2>2, <2>3
  <2>5. FindBucket(t, f).idx = Probe(t, f, m) /\ ~FindBucket(t, f).was_found
    <3> HIDE DEF tombs
    <3> QED BY <1>1, <1>9, <1>10, <2>3
  <2>6. bkt(m) = Grave /\ Probe(t, f, m) \in steps  BY <1>3, <2>4, BucketFacts
  <2>7. \A e \in 0 .. m - 1 : bkt(e).state # "EMPTY"  BY <1>2, <1>8, <2>4
  <2> QED BY <2>4, <2>5, <2>6, <2>7 DEF Leads
<1>11. CASE tombs = {}
  <2>1. FindBucket(t, f).idx = Probe(t, f, last) /\ ~FindBucket(t, f).was_found
    <3> HIDE DEF tombs
    <3> QED BY <1>1, <1>6, <1>9, <1>11
  <2>2. bkt(last) = Free /\ Probe(t, f, last) \in steps  BY <1>3, <1>8, BucketFacts
  <2> QED BY <1>8, <2>1, <2>2 DEF Leads
<1> QED BY <1>10, <1>11

----------------------------------------------------------------------------
(* One bucket changes *)

\* The fields and values of t except f's.
Without(t, f) == {p \in Copied(t) : p[1] # f}

\* No chain is cut as long as no bucket becomes empty.
LEMMA LeadsKept ==
  ASSUME NEW t, NEW u, Shaped(t), t.bucket_count > 0, u.bucket_count = t.bucket_count,
         \A k \in 0 .. t.bucket_count - 1 : t.buckets[k].state # "EMPTY" => u.buckets[k].state # "EMPTY",
         NEW f \in Fields, NEW i, Leads(t, f, i)
  PROVE  Leads(u, f, i)
<1>1. PICK d \in 0 .. t.bucket_count - 1 :
        Probe(t, f, d) = i /\ \A e \in 0 .. d - 1 : t.buckets[Probe(t, f, e)].state # "EMPTY"
  BY DEF Leads
<1>2. \A e : Probe(u, f, e) = Probe(t, f, e)  BY DEF Probe
<1>3. \A e \in 0 .. d - 1 : u.buckets[Probe(t, f, e)].state # "EMPTY"
  <2> SUFFICES ASSUME NEW e \in 0 .. d - 1 PROVE u.buckets[Probe(t, f, e)].state # "EMPTY"  OBVIOUS
  <2>1. t.bucket_count \in Nat  BY TableFacts
  <2>2. e \in 0 .. t.bucket_count - 1  BY <2>1
  <2>3. Probe(t, f, e) \in 0 .. t.bucket_count - 1  BY <2>2, ProbeFacts
  <2> QED BY <1>1, <2>3
<1> QED BY <1>1, <1>2, <1>3 DEF Leads

\* The buckets in use are finitely many.
LEMMA CountFacts ==
  ASSUME NEW t, Shaped(t)
  PROVE  /\ IsFiniteSet(Occupied(t)) /\ IsFiniteSet(Graves(t))
         /\ Cardinality(Occupied(t)) \in Nat /\ Cardinality(Graves(t)) \in Nat
<1>1. t.bucket_count \in Nat /\ DOMAIN t.buckets = 0 .. t.bucket_count - 1  BY TableFacts
<1>2. IsFiniteSet(0 .. t.bucket_count - 1)  BY <1>1, FS_Interval
<1>3. Occupied(t) \in SUBSET (0 .. t.bucket_count - 1) /\ Graves(t) \in SUBSET (0 .. t.bucket_count - 1)
  BY <1>1 DEF Occupied, Graves
<1>4. IsFiniteSet(Occupied(t)) /\ IsFiniteSet(Graves(t))  BY ZenonT(30), <1>2, <1>3, FS_Subset
<1> QED BY <1>4, FS_CardinalityType

LEMMA TableUpdate ==
  ASSUME NEW n, NEW F, NEW t \in [bucket_count : {n}, buckets : F, occupied : Nat, tombstones : Nat],
         NEW b \in F, NEW o \in Int, NEW k \in Int
  PROVE  LET u == [t EXCEPT !.buckets = b, !.occupied = o, !.tombstones = k]
         IN  /\ u \in [bucket_count : {n}, buckets : F, occupied : Int, tombstones : Int]
             /\ u.bucket_count = n /\ u.buckets = b /\ u.occupied = o /\ u.tombstones = k
<1>1. [t EXCEPT !.buckets = b, !.occupied = o, !.tombstones = k]
        \in [bucket_count : {n}, buckets : F, occupied : Int, tombstones : Int]
  BY ZenonT(30)
<1> QED BY <1>1

\* The fields and values in the buckets of t other than i.
Others(t, i) == {<<t.buckets[j].field, t.buckets[j].value>> : j \in Occupied(t) \ {i}}

\* One bucket of t is written, not emptied: u.
Written(t, u, i, b) ==
    /\ Sound(t) /\ t.bucket_count > 0
    /\ i \in 0 .. t.bucket_count - 1 /\ b \in BucketSet /\ b.state # "EMPTY"
    /\ u.bucket_count = t.bucket_count /\ u.buckets = [t.buckets EXCEPT ![i] = b]
    /\ b.state = "OCCUPIED" =>
        Leads(t, b.field, i) /\ \A j \in Occupied(t) \ {i} : t.buckets[j].field # b.field

LEMMA OneBucket ==
  ASSUME NEW t, NEW u, NEW i, NEW b, Written(t, u, i, b)
  PROVE  /\ Chained(u) /\ Distinct(u)
         /\ Occupied(u) = IF b.state = "OCCUPIED" THEN Occupied(t) \cup {i} ELSE Occupied(t) \ {i}
         /\ Graves(u) = IF b.state = "TOMBSTONE" THEN Graves(t) \cup {i} ELSE Graves(t) \ {i}
         /\ b.state = "OCCUPIED" => Copied(u) = Others(t, i) \cup {<<b.field, b.value>>}
         /\ b.state # "OCCUPIED" => Copied(u) = Others(t, i)
<1> DEFINE span == 0 .. t.bucket_count - 1
<1>1. /\ Shaped(t) /\ t.bucket_count \in Nat /\ t.bucket_count > 0
      /\ DOMAIN t.buckets = span /\ t.buckets \in [span -> BucketSet]
  BY TableFacts DEF Sound, Written
<1>2. /\ u.bucket_count = t.bucket_count /\ DOMAIN u.buckets = span /\ i \in span /\ u.buckets[i] = b
      /\ \A k \in span : k # i => u.buckets[k] = t.buckets[k]
  BY <1>1 DEF Written
<1>3. b \in BucketSet /\ b.state # "EMPTY" /\ (b.state = "TOMBSTONE" <=> b = Grave)  BY BucketFacts DEF Written
<1>4. Occupied(u) = IF b.state = "OCCUPIED" THEN Occupied(t) \cup {i} ELSE Occupied(t) \ {i}
  BY <1>1, <1>2 DEF Occupied
<1>5. Graves(u) = IF b.state = "TOMBSTONE" THEN Graves(t) \cup {i} ELSE Graves(t) \ {i}
  BY <1>1, <1>2, <1>3 DEF Graves
<1>6. \A j \in Occupied(u) : j # i => j \in Occupied(t) /\ j \in span /\ u.buckets[j] = t.buckets[j]
  BY <1>1, <1>2, <1>4 DEF Occupied
<1>7. i \in Occupied(u) => b.state = "OCCUPIED"  BY <1>2 DEF Occupied
<1>8. Chained(u)
  <2>1. \A k \in span : t.buckets[k].state # "EMPTY" => u.buckets[k].state # "EMPTY"  BY <1>2, <1>3
  <2> SUFFICES ASSUME NEW j \in Occupied(u) PROVE Leads(u, u.buckets[j].field, j)  BY DEF Chained
  <2>2. CASE j = i
    <3>1. b.state = "OCCUPIED" /\ u.buckets[j].field = b.field  BY <1>2, <1>7, <2>2
    <3>2. b.field \in Fields /\ Leads(t, b.field, i)  BY <1>3, <3>1, BucketFacts DEF Written
    <3> QED BY <1>1, <1>2, <2>1, <2>2, <3>1, <3>2, LeadsKept
  <2>3. CASE j # i
    <3>1. j \in Occupied(t) /\ j \in span /\ u.buckets[j] = t.buckets[j]  BY <1>6, <2>3
    <3>2. t.buckets[j].field \in Fields  BY <1>1, <3>1, BucketFacts DEF Occupied
    <3>3. Leads(t, t.buckets[j].field, j)  BY <3>1 DEF Written, Sound, Chained
    <3> QED BY <1>1, <1>2, <2>1, <3>1, <3>2, <3>3, LeadsKept
  <2> QED BY <2>2, <2>3
<1>9. Distinct(u)
  <2> SUFFICES ASSUME NEW j \in Occupied(u), NEW k \in Occupied(u), u.buckets[j].field = u.buckets[k].field, j # k
               PROVE  FALSE
    BY DEF Distinct
  <2>1. CASE j # i /\ k # i  BY <2>1, <1>6 DEF Written, Sound, Distinct
  <2>2. CASE j = i  BY <2>2, <1>2, <1>6, <1>7 DEF Written
  <2>3. CASE k = i  BY <2>3, <1>2, <1>6, <1>7 DEF Written
  <2> QED BY <2>1, <2>2, <2>3
<1>10. Others(t, i) \subseteq Copied(u)
  <2> SUFFICES ASSUME NEW p \in Others(t, i) PROVE p \in Copied(u)  OBVIOUS
  <2>1. PICK j \in Occupied(t) \ {i} : p = <<t.buckets[j].field, t.buckets[j].value>>  BY DEF Others
  <2>2. j \in Occupied(u)  BY <1>4
  <2> QED BY <1>6, <2>1, <2>2 DEF Copied
<1>11. \A p \in Copied(u) : p \in Others(t, i) \/ (i \in Occupied(u) /\ p = <<b.field, b.value>>)
  <2> SUFFICES ASSUME NEW p \in Copied(u)
               PROVE  p \in Others(t, i) \/ (i \in Occupied(u) /\ p = <<b.field, b.value>>)
    OBVIOUS
  <2>1. PICK j \in Occupied(u) : p = <<u.buckets[j].field, u.buckets[j].value>>  BY DEF Copied
  <2>2. CASE j = i  BY <1>2, <2>1, <2>2
  <2>3. CASE j # i
    <3>1. j \in Occupied(t) \ {i} /\ u.buckets[j] = t.buckets[j]  BY <1>6, <2>3
    <3>2. p = <<t.buckets[j].field, t.buckets[j].value>>  BY <2>1, <3>1
    <3> QED BY <3>1, <3>2 DEF Others
  <2> QED BY <2>2, <2>3
<1>12. b.state = "OCCUPIED" => <<b.field, b.value>> \in Copied(u)
  <2> HAVE b.state = "OCCUPIED"
  <2>1. i \in Occupied(u)  BY <1>2 DEF Occupied
  <2> QED BY <1>2, <2>1 DEF Copied
<1>13. b.state = "OCCUPIED" => Copied(u) = Others(t, i) \cup {<<b.field, b.value>>}  BY <1>10, <1>11, <1>12
<1>14. b.state # "OCCUPIED" => Copied(u) = Others(t, i)  BY <1>7, <1>10, <1>11
<1> QED BY <1>4, <1>5, <1>8, <1>9, <1>13, <1>14

\* u is t with f in a bucket of its own.
Inserted(t, u, f, v) ==
    /\ Sound(u) /\ u.bucket_count = t.bucket_count
    /\ u.occupied = t.occupied + 1 /\ u.tombstones <= t.tombstones
    /\ Copied(u) = Copied(t) \cup {<<f, v>>}

LEMMA InsertSound ==
  ASSUME NEW t, Sound(t), t.bucket_count > 0, NEW f \in Fields, NEW v \in Values, ~Has(t, f),
         NEW i \in 0 .. t.bucket_count - 1, t.buckets[i] \in {Free, Grave}, Leads(t, f, i)
  PROVE  Inserted(t, Insert(t, i, f, v), f, v)
<1> DEFINE u == Insert(t, i, f, v)
           new == Bucket("OCCUPIED", f, v)
           span == 0 .. t.bucket_count - 1
<1>1. /\ Shaped(t) /\ t.bucket_count \in Nat /\ t.occupied \in Nat /\ t.tombstones \in Nat
      /\ DOMAIN t.buckets = span /\ t.buckets \in [span -> BucketSet]
      /\ t = [bucket_count |-> t.bucket_count, buckets |-> t.buckets,
              occupied |-> t.occupied, tombstones |-> t.tombstones]
  BY TableFacts DEF Sound
<1>2. new \in BucketSet /\ new.state = "OCCUPIED" /\ new.field = f /\ new.value = v  BY NewBucketFacts
<1> HIDE DEF new
<1>3. /\ u \in [bucket_count : {t.bucket_count}, buckets : [span -> BucketSet], occupied : Int, tombstones : Int]
      /\ u.buckets = [t.buckets EXCEPT ![i] = new] /\ u.occupied = t.occupied + 1
      /\ u.tombstones = IF t.buckets[i].state = "TOMBSTONE" THEN t.tombstones - 1 ELSE t.tombstones
  <2> DEFINE nb == [t.buckets EXCEPT ![i] = new]
             k == IF t.buckets[i].state = "TOMBSTONE" THEN t.tombstones - 1 ELSE t.tombstones
             F == [span -> BucketSet]
  <2>1. t \in [bucket_count : {t.bucket_count}, buckets : F, occupied : Nat, tombstones : Nat]
    BY <1>1 DEF Shaped, Tables
  <2>2. nb \in F /\ k \in Int /\ t.occupied + 1 \in Int  BY <1>1, <1>2
  <2>3. u = [t EXCEPT !.buckets = nb, !.occupied = t.occupied + 1, !.tombstones = k]  BY <2>1 DEF Insert, new
  <2> HIDE DEF nb, k, F, u
  <2>4. /\ u \in [bucket_count : {t.bucket_count}, buckets : F, occupied : Int, tombstones : Int]
        /\ u.buckets = nb /\ u.occupied = t.occupied + 1 /\ u.tombstones = k
    BY ZenonT(30), <2>1, <2>2, <2>3, TableUpdate
  <2> QED BY <2>4 DEF nb, k, F
<1> HIDE DEF u
<1>4. Written(t, u, i, new)
  <2>1. new.state # "EMPTY" /\ u.bucket_count = t.bucket_count  BY <1>2, <1>3
  <2>2. \A j \in Occupied(t) \ {i} : t.buckets[j].field # f  BY DEF Has
  <2> QED BY <1>2, <1>3, <2>1, <2>2 DEF Written
<1>5. i \notin Occupied(t) /\ Occupied(u) = Occupied(t) \cup {i}
  <2>1. i \notin Occupied(t)  BY FreeFacts DEF Occupied
  <2> QED BY <1>2, <1>4, <2>1, OneBucket
<1>6. Graves(u) = Graves(t) \ {i}
  <2>1. new.state # "TOMBSTONE"  BY <1>2
  <2> QED BY <1>4, <2>1, OneBucket
<1>7. t.buckets[i].state = "TOMBSTONE" <=> i \in Graves(t)  BY <1>1, FreeFacts DEF Graves
<1>8. IsFiniteSet(Occupied(t)) /\ IsFiniteSet(Graves(t))  BY <1>1, CountFacts
<1>9. Cardinality(Occupied(u)) = t.occupied + 1  BY ZenonT(30), <1>5, <1>8, FS_AddElement DEF Sound, Counting
<1>10. Cardinality(Graves(u)) \in Nat /\ u.tombstones = Cardinality(Graves(u)) /\ u.tombstones <= t.tombstones
  <2>1. t.tombstones = Cardinality(Graves(t))  BY DEF Sound, Counting
  <2>2. /\ IsFiniteSet(Graves(u))
        /\ Cardinality(Graves(u)) = IF i \in Graves(t) THEN Cardinality(Graves(t)) - 1 ELSE Cardinality(Graves(t))
    BY <1>6, <1>8, FS_RemoveElement
  <2>3. Cardinality(Graves(u)) \in Nat  BY <2>2, FS_CardinalityType
  <2> QED BY <1>1, <1>3, <1>7, <2>1, <2>2, <2>3
<1>11. Shaped(u)  BY <1>1, <1>3, <1>10 DEF Shaped, Tables
<1>12. Counting(u)  BY <1>3, <1>9, <1>10 DEF Counting
<1>13. Copied(u) = Copied(t) \cup {<<f, v>>}
  <2>1. Others(t, i) = Copied(t)  BY <1>5 DEF Others, Copied
  <2> QED BY <1>2, <1>4, <2>1, OneBucket
<1>14. Chained(u) /\ Distinct(u)  BY <1>4, OneBucket
<1> QED BY <1>3, <1>10, <1>11, <1>12, <1>13, <1>14 DEF Inserted, Sound, u

\* What the other buckets hold is what the table holds of other fields.
LEMMA OthersFacts ==
  ASSUME NEW t, Sound(t), NEW i \in Occupied(t)
  PROVE  Others(t, i) = Without(t, t.buckets[i].field)
<1> DEFINE pair(j) == <<t.buckets[j].field, t.buckets[j].value>>
<1>1. \A j : pair(j)[1] = t.buckets[j].field  OBVIOUS
<1>2. \A j \in Occupied(t) : t.buckets[j].field = t.buckets[i].field <=> j = i  BY DEF Sound, Distinct
<1>3. ASSUME NEW p \in Others(t, i) PROVE p \in Without(t, t.buckets[i].field)
  <2>1. PICK j \in Occupied(t) \ {i} : p = pair(j)  BY DEF Others
  <2>2. p \in Copied(t)  BY <2>1 DEF Copied
  <2>3. p[1] # t.buckets[i].field  BY <1>1, <1>2, <2>1
  <2> QED BY <2>2, <2>3 DEF Without
<1>4. ASSUME NEW p \in Without(t, t.buckets[i].field) PROVE p \in Others(t, i)
  <2>1. PICK j \in Occupied(t) : p = pair(j)  BY DEF Without, Copied
  <2>2. p[1] # t.buckets[i].field  BY DEF Without
  <2>3. j # i  BY <1>1, <2>1, <2>2
  <2> QED BY <2>1, <2>3 DEF Others
<1> QED BY ZenonT(30), <1>3, <1>4

\* u is t with v as the value of f, which t holds.
Overwritten(t, u, f, v) ==
    /\ Sound(u) /\ u.bucket_count = t.bucket_count
    /\ u.occupied = t.occupied /\ u.tombstones = t.tombstones
    /\ Copied(u) = Without(t, f) \cup {<<f, v>>}

LEMMA OverwriteSound ==
  ASSUME NEW t, Sound(t), NEW f \in Fields, NEW v \in Values, NEW i \in Occupied(t), t.buckets[i].field = f
  PROVE  Overwritten(t, [t EXCEPT !.buckets[i].value = v], f, v)
<1> DEFINE u == [t EXCEPT !.buckets[i].value = v]
           new == [t.buckets[i] EXCEPT !.value = v]
           span == 0 .. t.bucket_count - 1
           F == [span -> BucketSet]
           nb == [t.buckets EXCEPT ![i] = new]
<1>1. /\ Shaped(t) /\ t.bucket_count \in Nat /\ t.occupied \in Nat /\ t.tombstones \in Nat
      /\ DOMAIN t.buckets = span /\ t.buckets \in F /\ i \in span /\ t.bucket_count > 0
  BY TableFacts DEF Sound, Occupied
<1>2. new \in BucketSet /\ new.state = "OCCUPIED" /\ new.field = f /\ new.value = v
  <2>1. t.buckets[i] \in BucketSet /\ t.buckets[i].state = "OCCUPIED"  BY <1>1 DEF Occupied
  <2>2. t.buckets[i] # Free /\ t.buckets[i] # Grave  BY <2>1, FreeFacts
  <2>3. t.buckets[i] \in [state : {"OCCUPIED"}, field : Fields, value : Values]  BY <2>1, <2>2 DEF BucketSet
  <2>4. new \in [state : {"OCCUPIED"}, field : Fields, value : Values]  BY <2>3
  <2> QED BY <2>3, <2>4 DEF BucketSet
<1>3. u \in [bucket_count : {t.bucket_count}, buckets : F, occupied : Int, tombstones : Int]
      /\ u.bucket_count = t.bucket_count /\ u.buckets = nb /\ u.occupied = t.occupied /\ u.tombstones = t.tombstones
  <2>1. t \in [bucket_count : {t.bucket_count}, buckets : F, occupied : Nat, tombstones : Nat]
    BY <1>1 DEF Shaped, Tables
  <2> HIDE DEF new
  <2>2. nb \in F  BY <1>1, <1>2
  <2>3. u = [t EXCEPT !.buckets = nb]  BY <2>1 DEF new
  <2>4. [t EXCEPT !.buckets = nb] = [t EXCEPT !.buckets = nb, !.occupied = t.occupied, !.tombstones = t.tombstones]
    <3> HIDE DEF nb
    <3> QED BY ZenonT(30), <2>1
  <2>5. t.occupied \in Int /\ t.tombstones \in Int  BY <1>1
  <2> HIDE DEF nb, F, u
  <2>6. u = [t EXCEPT !.buckets = nb, !.occupied = t.occupied, !.tombstones = t.tombstones]  BY <2>3, <2>4
  <2> QED BY ZenonT(30), <2>1, <2>2, <2>5, <2>6, TableUpdate
<1> HIDE DEF new, u
<1>4. Written(t, u, i, new)
  <2>1. new.state # "EMPTY"  BY <1>2
  <2>2. \A j \in Occupied(t) \ {i} : t.buckets[j].field # f  BY DEF Sound, Distinct
  <2>3. Leads(t, f, i)  BY DEF Sound, Chained
  <2> QED BY <1>1, <1>2, <1>3, <2>1, <2>2, <2>3 DEF Written
<1>5. Occupied(u) = Occupied(t)  BY <1>2, <1>4, OneBucket
<1>6. Graves(u) = Graves(t)
  <2>1. i \notin Graves(t)  BY FreeFacts DEF Graves, Occupied
  <2>2. new.state # "TOMBSTONE"  BY <1>2
  <2> QED BY <1>4, <2>1, <2>2, OneBucket
<1>7. Shaped(u)  BY <1>1, <1>3 DEF Shaped, Tables
<1>8. Counting(u)  BY <1>3, <1>5, <1>6 DEF Sound, Counting
<1>9. Copied(u) = Without(t, f) \cup {<<f, v>>}  BY <1>2, <1>4, OneBucket, OthersFacts
<1>10. Chained(u) /\ Distinct(u)  BY <1>4, OneBucket
<1> QED BY <1>3, <1>7, <1>8, <1>9, <1>10 DEF Overwritten, Sound, u

\* u is t without f.
Removed(t, u, f) ==
    /\ Sound(u) /\ u.bucket_count = t.bucket_count
    /\ u.occupied = t.occupied - 1 /\ u.tombstones = t.tombstones + 1
    /\ Copied(u) = Without(t, f)

LEMMA EraseSound ==
  ASSUME NEW t, Sound(t), NEW f \in Fields, Has(t, f)
  PROVE  Removed(t, Erased(t, f), f)
<1> DEFINE u == Erased(t, f)
           span == 0 .. t.bucket_count - 1
           F == [span -> BucketSet]
<1>0. PICK i \in Occupied(t) : t.buckets[i].field = f  BY DEF Has
<1>1. /\ Shaped(t) /\ t.bucket_count \in Nat /\ t.occupied \in Nat /\ t.tombstones \in Nat
      /\ DOMAIN t.buckets = span /\ t.buckets \in F /\ i \in span /\ t.bucket_count > 0
  BY TableFacts DEF Sound, Occupied
<1>2. FindBucket(t, f).idx = i  BY <1>0, FindPresent
<1>3. u \in [bucket_count : {t.bucket_count}, buckets : F, occupied : Int, tombstones : Int]
      /\ u.bucket_count = t.bucket_count /\ u.buckets = [t.buckets EXCEPT ![i] = Grave]
      /\ u.occupied = t.occupied - 1 /\ u.tombstones = t.tombstones + 1
  <2> DEFINE nb == [t.buckets EXCEPT ![i] = Grave]
  <2>1. t \in [bucket_count : {t.bucket_count}, buckets : F, occupied : Nat, tombstones : Nat]
    BY <1>1 DEF Shaped, Tables
  <2>2. nb \in F /\ t.occupied - 1 \in Int /\ t.tombstones + 1 \in Int  BY <1>1, FreeFacts
  <2>3. u = [t EXCEPT !.buckets = nb, !.occupied = t.occupied - 1, !.tombstones = t.tombstones + 1]
    BY <1>2, <2>1 DEF Erased
  <2> HIDE DEF nb, F, u
  <2> QED BY ZenonT(30), <2>1, <2>2, <2>3, TableUpdate DEF nb
<1> HIDE DEF u
<1>4. Written(t, u, i, Grave)  BY <1>1, <1>3, FreeFacts DEF Written
<1>5. Occupied(u) = Occupied(t) \ {i}  BY <1>4, OneBucket, FreeFacts
<1>6. Graves(u) = Graves(t) \cup {i} /\ i \notin Graves(t)
  <2>1. i \notin Graves(t)  BY FreeFacts DEF Graves, Occupied
  <2> QED BY <1>4, <2>1, OneBucket, FreeFacts
<1>7. IsFiniteSet(Occupied(t)) /\ IsFiniteSet(Graves(t))  BY <1>1, CountFacts
<1>8. Cardinality(Occupied(u)) = t.occupied - 1 /\ t.occupied - 1 \in Nat
  <2>1. IsFiniteSet(Occupied(u)) /\ Cardinality(Occupied(u)) = t.occupied - 1
    BY <1>5, <1>7, FS_RemoveElement DEF Sound, Counting
  <2> QED BY <2>1, FS_CardinalityType
<1>9. Cardinality(Graves(u)) = t.tombstones + 1  BY ZenonT(30), <1>6, <1>7, FS_AddElement DEF Sound, Counting
<1>10. Shaped(u)  BY <1>1, <1>3, <1>8 DEF Shaped, Tables
<1>11. Counting(u)  BY <1>3, <1>8, <1>9 DEF Counting
<1>12. Copied(u) = Without(t, f)
  <2>1. Copied(u) = Others(t, i)  BY <1>4, OneBucket, FreeFacts
  <2> QED BY <1>0, <2>1, OthersFacts
<1>13. Chained(u) /\ Distinct(u)  BY <1>4, OneBucket
<1> QED BY <1>3, <1>10, <1>11, <1>12, <1>13 DEF Removed, Sound, u

----------------------------------------------------------------------------
(* Insertion and rehash *)

LEMMA HasCopied ==
  ASSUME NEW t, NEW f
  PROVE  Has(t, f) <=> \E p \in Copied(t) : p[1] = f
<1>1. ASSUME Has(t, f) PROVE \E p \in Copied(t) : p[1] = f
  <2>1. PICK i \in Occupied(t) : t.buckets[i].field = f  BY <1>1 DEF Has
  <2>2. <<t.buckets[i].field, t.buckets[i].value>> \in Copied(t)  BY DEF Copied
  <2> QED BY <2>1, <2>2
<1>2. ASSUME NEW p \in Copied(t), p[1] = f PROVE Has(t, f)
  <2>1. PICK i \in Occupied(t) : p = <<t.buckets[i].field, t.buckets[i].value>>  BY DEF Copied
  <2> QED BY <1>2, <2>1 DEF Has
<1> QED BY <1>1, <1>2

\* find_bucket and the insertion of a field that is not in the table.
LEMMA AddField ==
  ASSUME NEW t, Sound(t), Roomy(t), t.bucket_count > 0, NEW f \in Fields, NEW v \in Values, ~Has(t, f)
  PROVE  /\ ~FindBucket(t, f).was_found
         /\ Inserted(t, Insert(t, FindBucket(t, f).idx, f, v), f, v)
<1>1. PICK i : i = FindBucket(t, f).idx  OBVIOUS
<1>2. /\ ~FindBucket(t, f).was_found /\ i \in 0 .. t.bucket_count - 1
      /\ t.buckets[i] \in {Free, Grave} /\ Leads(t, f, i)
  BY <1>1, FindAbsent
<1>3. Inserted(t, Insert(t, i, f, v), f, v)  BY <1>2, InsertSound
<1> QED BY <1>1, <1>2, <1>3

LEMMA AllocSound ==
  ASSUME NEW n \in Nat
  PROVE  /\ Sound(AllocTable(n)) /\ Copied(AllocTable(n)) = {} /\ Occupied(AllocTable(n)) = {}
         /\ AllocTable(n).bucket_count = n /\ AllocTable(n).occupied = 0 /\ AllocTable(n).tombstones = 0
<1> DEFINE t == AllocTable(n)
<1>1. t = [bucket_count |-> n, buckets |-> [i \in 0 .. n - 1 |-> Free], occupied |-> 0, tombstones |-> 0]
  BY DEF AllocTable
<1> HIDE DEF t
<1>2. /\ t.bucket_count = n /\ t.occupied = 0 /\ t.tombstones = 0
      /\ DOMAIN t.buckets = 0 .. n - 1 /\ \A i \in 0 .. n - 1 : t.buckets[i] = Free
  BY <1>1
<1>3. Shaped(t)  BY <1>1, FreeFacts DEF Shaped, Tables
<1>4. Occupied(t) = {} /\ Graves(t) = {}
  <2>1. Free.state # "OCCUPIED" /\ Free # Grave  BY FreeFacts
  <2> QED BY <1>2, <2>1 DEF Occupied, Graves
<1>5. Counting(t)  BY <1>2, <1>4, FS_EmptySet DEF Counting
<1>6. Chained(t) /\ Distinct(t) /\ Copied(t) = {}  BY <1>4 DEF Chained, Distinct, Copied
<1> QED BY <1>2, <1>3, <1>4, <1>5, <1>6 DEF Sound, t

\* The tables rehash_table goes through, up to bucket k of t.
Filled(t, n, g, k) ==
    g = [i \in 0 .. k |-> IF i = 0 THEN AllocTable(n) ELSE Moved(g[i - 1], t.buckets[i - 1])]

LEMMA FilledExists ==
  ASSUME NEW t, NEW n, NEW m \in Nat
  PROVE  \E g : Filled(t, n, g, m)
<1> DEFINE S == {k \in Nat : \E g : Filled(t, n, g, k)}
<1>1. 0 \in S
  <2>1. Filled(t, n, [i \in 0 .. 0 |-> AllocTable(n)], 0)  BY DEF Filled
  <2> QED BY <2>1
<1>2. ASSUME NEW k \in Nat, k \in S PROVE k + 1 \in S
  <2>1. PICK g : Filled(t, n, g, k)  BY <1>2
  <2> DEFINE h == [i \in 0 .. k + 1 |-> IF i = k + 1 THEN Moved(g[k], t.buckets[k]) ELSE g[i]]
  <2>2. ASSUME NEW i \in 0 .. k + 1
        PROVE  h[i] = IF i = 0 THEN AllocTable(n) ELSE Moved(h[i - 1], t.buckets[i - 1])
    <3>1. CASE i = 0  BY <2>1, <3>1 DEF Filled
    <3>2. CASE i = k + 1
      <4>1. h[i] = Moved(g[k], t.buckets[k]) /\ i - 1 = k /\ h[k] = g[k]  BY <3>2
      <4> QED BY <3>2, <4>1
    <3>3. CASE i \in 1 .. k
      <4>1. h[i] = g[i] /\ h[i - 1] = g[i - 1] /\ i \in 0 .. k  BY <3>3
      <4>2. g[i] = Moved(g[i - 1], t.buckets[i - 1])  BY <2>1, <3>3 DEF Filled
      <4> QED BY <3>3, <4>1, <4>2
    <3> QED BY <3>1, <3>2, <3>3
  <2>3. h = [i \in 0 .. k + 1 |-> h[i]]  OBVIOUS
  <2> HIDE DEF h
  <2>4. Filled(t, n, h, k + 1)  BY ZenonT(30), <2>2, <2>3 DEF Filled
  <2>5. k + 1 \in Nat  OBVIOUS
  <2> QED BY <2>4, <2>5
<1> HIDE DEF S
<1>3. Nat \subseteq S  BY <1>1, <1>2, NatInduction1
<1> QED BY <1>3 DEF S

LEMMA RehashSteps ==
  ASSUME NEW t, t.bucket_count \in Nat, NEW n
  PROVE  \E g : /\ g[0] = AllocTable(n) /\ Rehash(t, n) = g[t.bucket_count]
               /\ \A k \in 0 .. t.bucket_count - 1 : g[k + 1] = Moved(g[k], t.buckets[k])
<1> DEFINE g0 == CHOOSE g : Filled(t, n, g, t.bucket_count)
<1>1. Filled(t, n, g0, t.bucket_count)  BY FilledExists
<1>2. Rehash(t, n) = g0[t.bucket_count]  BY DEF Rehash, Visited, Filled
<1> HIDE DEF g0
<1>3. g0[0] = AllocTable(n)  BY <1>1 DEF Filled
<1>4. ASSUME NEW k \in 0 .. t.bucket_count - 1 PROVE g0[k + 1] = Moved(g0[k], t.buckets[k])
  <2>1. k + 1 \in 0 .. t.bucket_count /\ k + 1 # 0 /\ (k + 1) - 1 = k  OBVIOUS
  <2> QED BY <1>1, <2>1 DEF Filled
<1> QED BY <1>2, <1>3, <1>4

\* The first k buckets of t: those that hold a field, and what they hold.
Below(t, k) == Occupied(t) \cap (0 .. k - 1)
Prefix(t, k) == {<<t.buckets[j].field, t.buckets[j].value>> : j \in Below(t, k)}

\* g holds what the first k buckets of t hold.
Moving(t, n, g, k) ==
    /\ Sound(g) /\ g.bucket_count = n /\ g.tombstones = 0
    /\ g.occupied = Cardinality(Below(t, k)) /\ Copied(g) = Prefix(t, k)

LEMMA MoveOne ==
  ASSUME NEW t, Sound(t), NEW n \in Nat, t.occupied < n, NEW k \in 0 .. t.bucket_count - 1,
         NEW g, Moving(t, n, g, k)
  PROVE  Moving(t, n, Moved(g, t.buckets[k]), k + 1)
<1>1. /\ Shaped(t) /\ t.bucket_count \in Nat /\ DOMAIN t.buckets = 0 .. t.bucket_count - 1
      /\ t.buckets[k] \in BucketSet /\ t.occupied \in Nat /\ t.occupied = Cardinality(Occupied(t))
      /\ IsFiniteSet(Occupied(t))
  BY TableFacts, CountFacts DEF Sound, Counting
<1>2. \A j : j \in 0 .. k <=> j \in 0 .. k - 1 \/ j = k  BY <1>1
<1>3. (k + 1) - 1 = k /\ k \notin 0 .. k - 1  BY <1>1
<1>4. IsFiniteSet(Below(t, k)) /\ Cardinality(Below(t, k)) \in Nat /\ Cardinality(Below(t, k)) <= t.occupied
  <2>1. Below(t, k) \in SUBSET Occupied(t)  BY DEF Below
  <2>2. IsFiniteSet(Below(t, k)) /\ Cardinality(Below(t, k)) <= t.occupied  BY <1>1, <2>1, FS_Subset
  <2> QED BY <2>2, FS_CardinalityType
<1>5. CASE t.buckets[k].state # "OCCUPIED"
  <2>1. Below(t, k + 1) = Below(t, k)  BY <1>2, <1>3, <1>5 DEF Below, Occupied
  <2>2. Moved(g, t.buckets[k]) = g  BY <1>5 DEF Moved
  <2> QED BY <2>1, <2>2 DEF Moving, Prefix
<1>6. CASE t.buckets[k].state = "OCCUPIED"
  <2>1. PICK f, v : f = t.buckets[k].field /\ v = t.buckets[k].value  BY ZenonT(30)
  <2>2. f \in Fields /\ v \in Values  BY <1>1, <1>6, <2>1, BucketFacts
  <2>3. k \in Occupied(t)  BY <1>1, <1>6 DEF Occupied
  <2>4. Below(t, k + 1) = Below(t, k) \cup {k} /\ k \notin Below(t, k)  BY <1>2, <1>3, <2>3 DEF Below
  <2>5. ~Has(g, f)
    <3> SUFFICES ASSUME Has(g, f) PROVE FALSE  OBVIOUS
    <3>1. PICK p \in Prefix(t, k) : p[1] = f  BY HasCopied DEF Moving
    <3>2. PICK j \in Below(t, k) : p = <<t.buckets[j].field, t.buckets[j].value>>  BY DEF Prefix
    <3>3. j \in Occupied(t) /\ t.buckets[j].field = t.buckets[k].field  BY <2>1, <3>1, <3>2 DEF Below
    <3> QED BY ZenonT(30), <2>3, <2>4, <3>2, <3>3 DEF Sound, Distinct
  <2>6. Roomy(g) /\ g.bucket_count > 0 /\ Sound(g)  BY <1>1, <1>4 DEF Roomy, Moving
  <2> DEFINE u == Moved(g, t.buckets[k])
  <2>7. u = Insert(g, FindBucket(g, f).idx, f, v)  BY <1>6, <2>1 DEF Moved
  <2> HIDE DEF u
  <2>8. Inserted(g, u, f, v)  BY <2>2, <2>5, <2>6, <2>7, AddField
  <2>9. u.tombstones = 0
    <3>1. u.tombstones \in Nat  BY <2>8, TableFacts DEF Inserted, Sound
    <3> QED BY <2>8, <3>1 DEF Inserted, Moving
  <2>10. u.occupied = Cardinality(Below(t, k + 1))
    <3>1. Cardinality(Below(t, k) \cup {k}) = Cardinality(Below(t, k)) + 1  BY <1>4, <2>4, FS_AddElement
    <3> QED BY <2>4, <2>8, <3>1 DEF Inserted, Moving
  <2>11. Prefix(t, k + 1) = Prefix(t, k) \cup {<<f, v>>}  BY <2>1, <2>4 DEF Prefix
  <2>12. Copied(u) = Prefix(t, k + 1)  BY <2>8, <2>11 DEF Inserted, Moving
  <2> QED BY <2>8, <2>9, <2>10, <2>12 DEF Inserted, Moving, u
<1> QED BY <1>5, <1>6

\* A rehash into a table with more buckets than t has fields.
Rehashed(t, u, n) ==
    /\ Sound(u) /\ u.bucket_count = n /\ u.tombstones = 0
    /\ u.occupied = t.occupied /\ Copied(u) = Copied(t)

LEMMA RehashSound ==
  ASSUME NEW t, Sound(t), NEW n \in Nat, t.occupied < n
  PROVE  Rehashed(t, Rehash(t, n), n)
<1>1. /\ Shaped(t) /\ t.bucket_count \in Nat /\ DOMAIN t.buckets = 0 .. t.bucket_count - 1
      /\ t.occupied = Cardinality(Occupied(t))
  BY TableFacts DEF Sound, Counting
<1>2. PICK g : /\ g[0] = AllocTable(n) /\ Rehash(t, n) = g[t.bucket_count]
              /\ \A k \in 0 .. t.bucket_count - 1 : g[k + 1] = Moved(g[k], t.buckets[k])
  BY <1>1, RehashSteps
<1> DEFINE S == {k \in Nat : k <= t.bucket_count => Moving(t, n, g[k], k)}
<1>3. 0 \in S
  <2>1. Below(t, 0) = {} /\ Prefix(t, 0) = {}  BY DEF Below, Prefix
  <2>2. Moving(t, n, AllocTable(n), 0)  BY <2>1, AllocSound, FS_EmptySet DEF Moving
  <2> QED BY <1>2, <2>2
<1>4. ASSUME NEW k \in Nat, k \in S PROVE k + 1 \in S
  <2> SUFFICES ASSUME k + 1 <= t.bucket_count PROVE Moving(t, n, g[k + 1], k + 1)  OBVIOUS
  <2>1. k \in 0 .. t.bucket_count - 1 /\ k <= t.bucket_count  BY <1>1
  <2>2. Moving(t, n, g[k], k)  BY <1>4, <2>1
  <2>3. Moving(t, n, Moved(g[k], t.buckets[k]), k + 1)  BY <2>1, <2>2, MoveOne
  <2> QED BY <1>2, <2>1, <2>3
<1> HIDE DEF S
<1>5. Nat \subseteq S  BY <1>3, <1>4, NatInduction1
<1>6. Moving(t, n, Rehash(t, n), t.bucket_count)  BY <1>1, <1>2, <1>5 DEF S
<1>7. Below(t, t.bucket_count) = Occupied(t)  BY <1>1 DEF Below, Occupied
<1>8. Prefix(t, t.bucket_count) = Copied(t)  BY <1>7 DEF Prefix, Copied
<1> QED BY <1>1, <1>6, <1>7, <1>8 DEF Moving, Rehashed
=============================================================================
