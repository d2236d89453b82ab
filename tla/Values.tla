------------------------------- MODULE Values -------------------------------
(***************************************************************************)
(* Scalar values: the texts clients write and read (utils.c), and the      *)
(* tag-length-value layout of pgredis.store.value (binval.c).              *)
(*                                                                         *)
(* A string is a sequence of glyphs, and one glyph stands for everything a *)
(* non-empty string may spell: a number the way INT64_FORMAT writes it     *)
(* ("plain"), another spelling strtoll accepts such as "+7" or " 07"       *)
(* ("loose"), 32 characters or more ("long"), or no number ("word").       *)
(* A byte takes Base values (256 in the code), and an int64 eight bytes.   *)
(***************************************************************************)
EXTENDS Integers, Sequences

CONSTANT Base

ASSUME BaseAssumption == Base \in Nat /\ Base >= 2 /\ Base = 2 * (Base \div 2)

Glyphs == [form : {"plain", "loose", "long", "word"}, n : Int]
Glyph(form, n) == <<[form |-> form, n |-> n]>>

\* Not a string: SQL NULL, and what a failed conversion returns.
Nil == Glyph("nil", 0)

YesNo(b) == IF b THEN "yes" ELSE "no"

-----------------------------------------------------------------------------
(* Two's complement.  The build has -fwrapv: signed addition wraps.        *)

Pow7 == Base * (Base * (Base * (Base * (Base * (Base * Base)))))
Full == Base * Pow7
Half == (Base \div 2) * Pow7

Int64 == -Half .. Half - 1

Uint64(v) == IF v < 0 THEN v + Full ELSE v
ToInt64(u) == IF u >= Half THEN u - Full ELSE u

Add(v, d) ==
    LET sum == v + d
    IN  IF sum >= Half THEN sum - Full ELSE IF sum < -Half THEN sum + Full ELSE sum

-----------------------------------------------------------------------------
(* utils.c                                                                 *)

\* pg_redis_parse_int64 succeeds: not empty, shorter than its buffer, nothing
\* but a number, and strtoll does not report ERANGE.
Parses(s) == s # <<>> /\ s[1].form \in {"plain", "loose"} /\ s[1].n \in Int64

ParseInt64(s) == s[1].n

FormatInt64(v) == Glyph("plain", v)

-----------------------------------------------------------------------------
(* binval.c: little-endian bytes, one shift after the other.               *)

Shr(u) == u \div Base

PutLE4(u) ==
    LET q1 == Shr(u) q2 == Shr(q1) q3 == Shr(q2)
    IN  <<u % Base, q1 % Base, q2 % Base, q3 % Base>>

GetLE4(p) == p[1] + Base * (p[2] + Base * (p[3] + Base * p[4]))

PutLE8(u) ==
    LET q1 == Shr(u) q2 == Shr(q1) q3 == Shr(q2) q4 == Shr(q3)
        q5 == Shr(q4) q6 == Shr(q5) q7 == Shr(q6)
    IN  <<u % Base, q1 % Base, q2 % Base, q3 % Base,
          q4 % Base, q5 % Base, q6 % Base, q7 % Base>>

GetLE8(p) ==
    p[1] + Base * (p[2] + Base * (p[3] + Base * (p[4]
         + Base * (p[5] + Base * (p[6] + Base * (p[7] + Base * p[8]))))))

\* pg_redis_encode_value
Tlv(tag, payload) == [tag |-> tag, len |-> PutLE4(Len(payload)), payload |-> payload]
EncodeString(s) == Tlv("STRING", s)
EncodeInt(v) == Tlv("INT", PutLE8(Uint64(v)))

\* decode_header: the tag is the expected one and the length that of the body.
HeaderOk(raw, tag) == raw.tag = tag /\ GetLE4(raw.len) = Len(raw.payload)

\* pg_redis_decode_string and pg_redis_decode_int succeed, and what they return.
DecodesString(raw) == HeaderOk(raw, "STRING")
DecodeString(raw) == raw.payload

DecodesInt(raw) == HeaderOk(raw, "INT") /\ Len(raw.payload) = 8
DecodeInt(raw) == ToInt64(GetLE8(raw.payload))
=============================================================================
