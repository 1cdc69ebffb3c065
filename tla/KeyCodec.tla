------------------------------ MODULE KeyCodec ------------------------------
(***************************************************************************)
(* The keys and values RocksDB stores: memcomparable_encode and to_raw of  *)
(* src/types/value.rs, the tuple codec of src/types/tuple.rs, the keys and *)
(* bounds of src/storage/table_codec.rs, and the scans of                  *)
(* src/storage/mod.rs and rocksdb.rs that read them back in key order.     *)
(*                                                                         *)
(* Bytes are sequences over 0..255.  An integer takes as many bytes as its *)
(* width in Bits needs.  Floats are not encoded here, and the value of an  *)
(* index entry (bincode of the tuple id) is kept as the tuple id.          *)
(***************************************************************************)
EXTENDS Ranges, FiniteSetsExt

CONSTANT HashBytes   \* [tables and views -> 8 bytes], little-endian SipHash of the name

BOUND_MIN_TAG == 0
BOUND_MAX_TAG == 255
ENCODE_GROUP_SIZE == 8
ENCODE_MARKER == 255

ByteCount(name) == (Bits[name] + 7) \div 8
BigEndian(n, count) == [i \in 1..count |-> (n \div (256^(count - i))) % 256]
LittleEndian(n, count) == [i \in 1..count |-> (n \div (256^(i - 1))) % 256]
Zeros(n) == [i \in 1..n |-> 0]

-----------------------------------------------------------------------------
(* memcomparable_encode *)

\* The integer that stands for a date or a time, with its width.
WordName(k) ==
  CASE k = "Date" -> "Integer"
    [] k \in {"DateTime", "TimeStamp"} -> "Bigint"
    [] k = "Time" -> "UInteger"
    [] OTHER -> k

\* Mutant of EncodeWord: the sign bit is not flipped.
SignKept(b, k, n) ==
  LET name == WordName(k) IN b \o BigEndian(n % (2^Bits[name]), ByteCount(name))

\* Flipping the sign bit puts the negative numbers below the others.
EncodeWord(b, k, n) ==
  LET name == WordName(k)
  IN b \o BigEndian(IF name \in SignedName THEN n + 2^(Bits[name] - 1) ELSE n, ByteCount(name))

realloc_bytes(b, size) == IF size > Len(b) THEN b \o Zeros(size - Len(b)) ELSE b

\* Groups of eight bytes padded with zeros; the marker after each counts the padding.
\* A value whose length divides by eight is followed by a group of padding.
Group(data, g) ==
  LET remain == Len(data) - g * ENCODE_GROUP_SIZE
      pad == IF remain >= ENCODE_GROUP_SIZE THEN 0 ELSE ENCODE_GROUP_SIZE - remain
      first == g * ENCODE_GROUP_SIZE + 1
  IN SubSeq(data, first, first + ENCODE_GROUP_SIZE - pad - 1) \o Zeros(pad)
       \o <<ENCODE_MARKER - pad>>

encode_bytes(b, data) ==
  LET groups == Len(data) \div ENCODE_GROUP_SIZE + 1
  IN realloc_bytes(b, groups * (ENCODE_GROUP_SIZE + 1))
       \o FlattenSeq([g \in 1..groups |-> Group(data, g - 1)])

\* A decimal is 0.d1 d2 ... times a power of 100: its exponent, and its digits in
\* base 100, doubled and odd in all but the last place.
RECURSIVE Stripped(_, _), Base100(_)
Stripped(m, digits) == IF m % 10 = 0 /\ m # 0 THEN Stripped(m \div 10, digits - 1) ELSE <<m, digits>>
Base100(m) == IF m = 0 THEN <<>> ELSE Append(Base100(m \div 100), (m % 100) * 2 + 1)
DigitCount(m) == Len(DigitsOf(m))

decimal_e_m(mantissa, scale) ==
  LET m == Abs(mantissa)
      prec == DigitCount(m)
      e10 == prec - scale
      e100 == IF e10 >= 0 THEN (e10 + 1) \div 2 ELSE Quot(e10, 2)
      s == Stripped(m, IF e10 = 2 * e100 THEN prec ELSE prec + 1)
      digits == Base100(IF s[2] % 2 = 1 THEN s[1] * 10 ELSE s[1])
  IN <<e100, [digits EXCEPT ![Len(digits)] = @ - 1]>>

Invert(b) == [i \in DOMAIN b |-> 255 - b[i]]

serialize_decimal(b, mantissa, scale) ==
  LET em == decimal_e_m(mantissa, scale)
      e == em[1]
  IN CASE mantissa = 0 -> b \o <<21>>
       [] mantissa > 0 ->
            b \o (CASE e >= 11 -> <<34, e>> [] e \in 0..10 -> <<23 + e>> [] OTHER -> <<22, 255 + e>>)
              \o em[2]
       [] mantissa < 0 ->
            b \o (CASE e >= 11 -> <<8, 255 - e>> [] e \in 0..10 -> <<19 - e>> [] OTHER -> <<20, -e>>)
              \o Invert(em[2])

RECURSIVE memcomparable_encode(_, _), EncodeValues(_, _, _)
memcomparable_encode(b, v) ==
  CASE Kind(v) = "Null" -> b
    [] Kind(v) = "Utf8" -> encode_bytes(b, Payload(v))
    [] Kind(v) = "Boolean" -> Append(b, IF Payload(v) THEN 49 ELSE 48)
    [] Kind(v) = "Decimal" ->
         LET scale == CHOOSE s \in 0..28 : (Payload(v)[1] * 10^s) % Payload(v)[2] = 0
                        /\ \A t \in 0..(s - 1) : (Payload(v)[1] * 10^t) % Payload(v)[2] # 0
         IN serialize_decimal(b, (Payload(v)[1] * 10^scale) \div Payload(v)[2], scale)
    [] Kind(v) = "Tuple" -> EncodeValues(b, v, 1)
    [] OTHER -> EncodeWord(b, Kind(v), Payload(v))

\* Every value of a tuple is followed by a tag; an upper bound ends in the larger one.
EncodeValues(b, t, i) ==
  LET v == Payload(t)[i]
      tag == IF (IsNull(v) \/ i = Len(Payload(t))) /\ t[3] THEN BOUND_MAX_TAG ELSE BOUND_MIN_TAG
  IN IF i > Len(Payload(t)) THEN b
     ELSE EncodeValues(Append(memcomparable_encode(b, v), tag), t, i + 1)

-----------------------------------------------------------------------------
(* Keys *)

Tag == [Column |-> 48, IndexMeta |-> 49, Index |-> 51, Statistics |-> 52, Tuple |-> 56]
Letters == [Root |-> <<82, 111, 111, 116>>, View |-> <<86, 105, 101, 119>>,
            Hash |-> <<72, 97, 115, 104>>]

key_prefix(ty, name) ==
  IF ty \in DOMAIN Tag THEN Append(HashBytes[name], Tag[ty])
  ELSE Append(Letters[ty], BOUND_MIN_TAG) \o HashBytes[name]

IndexId(id) == LittleEndian(id, 4)

\* The bounds of everything below a prefix.
BoundsOf(prefix) == <<Append(prefix, BOUND_MIN_TAG), Append(prefix, BOUND_MAX_TAG)>>
tuple_bound(t) == BoundsOf(key_prefix("Tuple", t))
index_meta_bound(t) == BoundsOf(key_prefix("IndexMeta", t))

index_bound(t, id) == BoundsOf(Append(key_prefix("Index", t), BOUND_MIN_TAG) \o IndexId(id))
all_index_bound(t) == BoundsOf(key_prefix("Index", t))
root_table_bound == BoundsOf(Letters["Root"])
view_bound == BoundsOf(Letters["View"])
columns_bound(t) == BoundsOf(key_prefix("Column", t))
statistics_bound(t) == BoundsOf(key_prefix("Statistics", t))
\* The columns and the index metas, whose tags are neighbours.
table_bound(t) == <<Append(key_prefix("Column", t), BOUND_MIN_TAG),
                    Append(key_prefix("IndexMeta", t), BOUND_MAX_TAG)>>

encode_index_meta_key(t, id) == Append(key_prefix("IndexMeta", t), BOUND_MIN_TAG) \o IndexId(id)
encode_statistics_path_key(t, id) == Append(key_prefix("Statistics", t), BOUND_MIN_TAG) \o IndexId(id)
encode_column(t, ulid) == Append(key_prefix("Column", t), BOUND_MIN_TAG) \o ulid
encode_view_key(v) == key_prefix("View", v)
encode_root_table_key(t) == key_prefix("Root", t)
encode_table_hash_key(t) == key_prefix("Hash", t)

check_primary_key_type(v) == Kind(v) \in IntName \cup {"Utf8"}
check_primary_key(v) ==
  IF Kind(v) = "Tuple" THEN \A i \in DOMAIN Payload(v) : check_primary_key_type(Payload(v)[i])
  ELSE check_primary_key_type(v)

BadKey == <<-1>>
encode_tuple_key(t, id) ==
  IF ~check_primary_key(id) THEN BadKey
  ELSE memcomparable_encode(Append(key_prefix("Tuple", t), BOUND_MIN_TAG), id)

encode_index_bound_key(t, id, value, is_upper) ==
  memcomparable_encode(Append(Append(key_prefix("Index", t), BOUND_MIN_TAG) \o IndexId(id), BOUND_MIN_TAG), value)
    \o (IF is_upper THEN <<BOUND_MAX_TAG>> ELSE <<>>)

\* A unique index has one entry a value, the others one for each tuple.
encode_index_key(t, id, ty, value, tupleId) ==
  LET key == encode_index_bound_key(t, id, value, FALSE)
  IN IF ty \in {"Normal", "Composite"} THEN memcomparable_encode(key, tupleId) ELSE key
=============================================================================
