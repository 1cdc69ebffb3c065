----------------------------- MODULE TableScans -----------------------------
(***************************************************************************)
(* Rows in RocksDB and back: the tuple codec of src/types/tuple.rs, the    *)
(* index entries INSERT writes, and the scans of src/storage/mod.rs.       *)
(*                                                                         *)
(* A table is [name, types, pk]: its name, the types of its columns and    *)
(* the positions of its primary key.  An index is [id, ty, columns].  The  *)
(* store is a function from keys to what they hold: the bytes of a tuple   *)
(* or the id of one.  A tuple that was read is <<pk or NoPk, values>>.     *)
(***************************************************************************)
EXTENDS KeyCodec

NoPk == <<"NoPk">>
NoLimit == -1
Space == 32
BITS_MAX_INDEX == 8

-----------------------------------------------------------------------------
(* Tuples *)

\* The integer behind an n-byte word, as the type reads it.
Unsigned(n, name) == IF n < 0 THEN n + 256^ByteCount(name) ELSE n

ReadWord(bytes, at, name) ==
  LET n == FoldFunction(LAMBDA x, y : x + y, 0,
             [i \in 1..ByteCount(name) |-> bytes[at + i] * 256^(i - 1)])
  IN IF name \in SignedName /\ n >= 256^ByteCount(name) \div 2 THEN n - 256^ByteCount(name) ELSE n

\* A string is preceded by its length; CHAR is padded to its length with spaces.
to_raw(v) ==
  CASE Kind(v) = "Null" -> <<>>
    [] Kind(v) = "Boolean" -> <<IF Payload(v) THEN 1 ELSE 0>>
    [] Kind(v) = "Utf8" ->
         LET ty == v[3]
             s == Payload(v)
             pad == IF Name(ty) = "Char" /\ Len(s) < ty[2] THEN ty[2] - Len(s) ELSE 0
             data == s \o [i \in 1..pad |-> Space]
         IN LittleEndian(Len(data), 4) \o data
    [] OTHER -> LET name == WordName(Kind(v))
                IN LittleEndian(Unsigned(Payload(v), name), ByteCount(name))

\* <<value or NoValue, the place behind it>>; what is not projected is skipped.
from_raw(bytes, at, ty, is_projection) ==
  LET name == WordName(Name(ty))
      len == bytes[at + 1] + 256 * bytes[at + 2]
      data == SubSeq(bytes, at + 5, at + 4 + len)
      kept == {i \in DOMAIN data : data[i] # Space}
      trimmed == IF kept = {} THEN <<>> ELSE SubSeq(data, 1, Max(kept))
      n == ReadWord(bytes, at, name)
      Skip(next, v) == <<IF is_projection THEN v ELSE NoValue, next>>
  IN CASE Name(ty) = "SqlNull" -> Skip(at, Null)
       [] Name(ty) = "Boolean" -> Skip(at + 1, Boolean(bytes[at + 1] # 0))
       [] Name(ty) = "Char" -> Skip(at + 4 + len, Utf8(trimmed, ty))
       [] Name(ty) = "Varchar" -> Skip(at + 4 + len, Utf8(data, ty))
       [] Name(ty) = "Time" -> Skip(at + ByteCount(name), Time(n, Precision(ty[2])))
       [] Name(ty) = "TimeStamp" ->
            Skip(at + ByteCount(name), <<"TimeStamp", n, Precision(ty[2])>>)
       [] OTHER -> Skip(at + ByteCount(name), Whole(Name(ty), n))

BitsLen(n) == (n + BITS_MAX_INDEX) \div BITS_MAX_INDEX
serialize_to(values) ==
  LET nulls == {i \in DOMAIN values : IsNull(values[i])}
      Byte(b) == {i \in nulls : (i - 1) \div BITS_MAX_INDEX = b - 1}
  IN [b \in 1..BitsLen(Len(values)) |-> MapThenSumSet(LAMBDA i : 2^(7 - ((i - 1) % BITS_MAX_INDEX)), Byte(b))]
       \o FlattenSeq([i \in DOMAIN values |-> to_raw(values[i])])

\* The columns in turn.  Every NULL passes over the next projected column, whether it
\* is that column or one nobody asked for.
RECURSIVE ReadColumns(_, _, _, _, _, _)
ReadColumns(types, projections, bytes, i, at, values) ==
  LET byte == bytes[(i - 1) \div BITS_MAX_INDEX + 1]
      is_none == (byte \div 2^(7 - ((i - 1) % BITS_MAX_INDEX))) % 2 = 1
      next == Len(values) + 1
      raw == from_raw(bytes, at, types[i], projections[next] = i)
  IN CASE i > Len(types) \/ next > Len(projections) ->
            values \o [j \in 1..(Len(projections) - Len(values)) |-> Null]
       [] ~(i > Len(types) \/ next > Len(projections)) /\ is_none ->
            ReadColumns(types, projections, bytes, i + 1, at, Append(values, Null))
       [] OTHER -> ReadColumns(types, projections, bytes, i + 1, raw[2],
                               IF raw[1] = NoValue THEN values ELSE Append(values, raw[1]))

primary_projection(pk, values) ==
  IF Len(pk) > 1 THEN <<"Tuple", [i \in DOMAIN pk |-> values[pk[i]]], FALSE>> ELSE values[pk[1]]

deserialize_from(types, pk, projections, bytes, with_pk) ==
  LET values == ReadColumns(types, projections, bytes, 1, BitsLen(Len(types)), <<>>)
  IN <<IF with_pk THEN primary_projection(pk, values) ELSE NoPk, values>>

values_to_tuple(values) == IF Len(values) > 1 THEN <<"Tuple", values, FALSE>> ELSE values[1]

-----------------------------------------------------------------------------
(* What a transaction holds of a table and one of its indexes: <<done, the store>>, the *)
(* store unchanged when the entry is refused                                            *)

\* DuplicatePrimaryKey without OVERWRITE.
append_tuple(kv, table, values, is_overwrite) ==
  LET key == encode_tuple_key(table.name, primary_projection(table.pk, values))
  IN IF ~is_overwrite /\ key \in DOMAIN kv THEN <<FALSE, kv>>
     ELSE <<TRUE, (key :> serialize_to(values)) @@ kv>>

remove_tuple(kv, table, id) == Restrict(kv, DOMAIN kv \ {encode_tuple_key(table.name, id)})

IndexValue(index, values) == values_to_tuple([i \in DOMAIN index.columns |-> values[index.columns[i]]])

\* DuplicateUniqueValue when another tuple has the value.
add_index(kv, table, index, values) ==
  LET id == primary_projection(table.pk, values)
      key == encode_index_key(table.name, index.id, index.ty, IndexValue(index, values), id)
  IN CASE index.ty = "PrimaryKey" -> <<TRUE, kv>>
       [] index.ty = "Unique" /\ key \in DOMAIN kv -> <<kv[key] = id, kv>>
       [] OTHER -> <<TRUE, (key :> id) @@ kv>>

\* Mutant of del_index: only the tuple is removed.
EntryStays(kv, table, index, values) == kv

del_index(kv, table, index, values) ==
  LET id == primary_projection(table.pk, values)
      key == encode_index_key(table.name, index.id, index.ty, IndexValue(index, values), id)
  IN IF index.ty = "PrimaryKey" THEN kv ELSE Restrict(kv, DOMAIN kv \ {key})

-----------------------------------------------------------------------------
(* Scans *)

\* Keys in the order of their bytes.
Ascending(keys) ==
  FoldSet(LAMBDA k, s : SelectSeq(s, LAMBDA j : SeqCmp(j, k) < 0) \o <<k>>
                          \o SelectSeq(s, LAMBDA j : SeqCmp(k, j) < 0), <<>>, keys)

\* RocksTransaction::range: keys in order from the lower bound on, up to the upper one.
\* An excluded minimum is stepped over by one zero byte.  The prefix iterator stays
\* with the four bytes the prefix extractor takes.
range(kv, min, max) ==
  LET from == IF min[1] = "Excluded" THEN Append(min[2], 0) ELSE min[2]
      InUpper(k) == IF max[1] = "Included" THEN SeqCmp(k, max[2]) <= 0 ELSE SeqCmp(k, max[2]) < 0
      keys == {k \in DOMAIN kv : /\ SubSeq(k, 1, 4) = SubSeq(from, 1, 4)
                                 /\ SeqCmp(from, k) <= 0 /\ InUpper(k)}
  IN Images(Ascending(keys), LAMBDA k : kv[k])

\* Numbers in ascending order.
InOrder(S) == [i \in 1..Cardinality(S) |-> CHOOSE n \in S : Cardinality({m \in S : m < n}) = i - 1]

\* The columns of a scan: the primary key is read with them when the executor needs it.
Projections(table, columns, with_pk) ==
  InOrder(columns \cup (IF columns = {} \/ with_pk THEN {table.pk[i] : i \in DOMAIN table.pk} ELSE {}))
remap_pk_indices(projections, pk) ==
  LET found == SelectSeq(pk, LAMBDA p : \E i \in DOMAIN projections : projections[i] = p)
  IN [i \in DOMAIN found |-> CHOOSE j \in DOMAIN projections : projections[j] = found[i]]

decode_tuple(table, projections, with_pk, bytes) ==
  deserialize_from(table.types, remap_pk_indices(projections, table.pk), projections, bytes, with_pk)

\* TupleIter: the tuples of a table in the order of their keys.
read(kv, table, columns, with_pk, offset, limit) ==
  LET bound == tuple_bound(table.name)
      all == range(kv, Included(bound[1]), Included(bound[2]))
      past == SubSeq(all, offset + 1, Len(all))
      kept == IF limit = NoLimit \/ limit > Len(past) THEN past ELSE SubSeq(past, 1, limit)
      projections == Projections(table, columns, with_pk)
  IN [i \in DOMAIN kept |-> decode_tuple(table, projections, with_pk, kept[i])]

bound_key(table, index, value, is_upper) ==
  CASE index.ty = "PrimaryKey" -> encode_tuple_key(table.name, value)
    [] index.ty = "Unique" -> encode_index_bound_key(table.name, index.id, value, FALSE)
    [] OTHER -> encode_index_bound_key(table.name, index.id, value, is_upper)

\* The key a bound of a range becomes; an open end is the end of the index.
EncodeBound(table, index, bound, is_upper) ==
  LET ends == IF index.ty = "PrimaryKey" THEN tuple_bound(table.name)
              ELSE index_bound(table.name, index.id)
  IN IF bound = Unbounded THEN Included(ends[IF is_upper THEN 2 ELSE 1])
     ELSE <<bound[1], bound_key(table, index, check_cast(bound[2], index.value_ty), is_upper)>>

\* The failure TupleIdNotFound and that of a value no cast fits, in place of a tuple.
Denied == <<Err, <<>>>>

\* The tuple behind an entry, by the parameters of the scan (IndexImplParams): of the
\* primary key the tuple itself, else by its id.
index_lookup(kv, params, entry) ==
  LET key == encode_tuple_key(params.table.name, entry)
      Decode(bytes) == decode_tuple(params.table, params.projections, params.with_pk, bytes)
  IN CASE params.index.ty = "PrimaryKey" -> Decode(entry)
       [] params.index.ty # "PrimaryKey" /\ key \in DOMAIN kv -> Decode(kv[key])
       [] OTHER -> Denied

RangeValues(r) ==
  CASE r[1] = "Eq" -> {r[2]}
    [] r[1] = "Scope" -> {r[i][2] : i \in {j \in 2..3 : r[j] # Unbounded}}
    [] OTHER -> {}

\* IndexIter::next_tuple called until it returns None.  `pending` is what is left of the
\* scan of the current range.  The primary key and a unique index answer an equality
\* with one tuple or None, and None ends the scan whatever ranges are left.
RECURSIVE NextTuples(_, _, _, _, _, _)
NextTuples(kv, params, ranges, pending, offset, limit) ==
  LET r == Head(ranges)
      table == params.table
      index == params.index
      value == check_cast(r[2], index.value_ty)
      key == bound_key(table, index, value, FALSE)
      Emit(tuple, rs, rest) ==
        IF Failed(tuple[1]) THEN <<tuple>>
        ELSE <<tuple>> \o NextTuples(kv, params, rs, rest, offset,
                                     IF limit = NoLimit THEN limit ELSE limit - 1)
      Go(rs, rest, off) == NextTuples(kv, params, rs, rest, off, limit)
  IN CASE limit = 0 -> <<>>
       [] limit # 0 /\ pending # <<>> ->
            IF offset > 0 THEN Go(ranges, Tail(pending), offset - 1)
            ELSE Emit(index_lookup(kv, params, Head(pending)), ranges, Tail(pending))
       [] limit # 0 /\ pending = <<>> /\ ranges = <<>> -> <<>>
       [] OTHER ->
            CASE \E v \in RangeValues(r) : Failed(check_cast(v, index.value_ty)) -> <<Denied>>
              [] r[1] = "Scope" ->
                   Go(Tail(ranges), range(kv, EncodeBound(table, index, r[2], FALSE),
                                              EncodeBound(table, index, r[3], TRUE)), offset)
              [] r[1] = "Eq" /\ index.ty \in {"Normal", "Composite"} ->
                   Go(Tail(ranges), range(kv, Included(key),
                                              Included(bound_key(table, index, value, TRUE))), offset)
              [] r[1] = "Eq" /\ index.ty \in {"PrimaryKey", "Unique"} ->
                   IF offset > 0 THEN Go(Tail(ranges), <<>>, offset - 1)
                   ELSE IF key \notin DOMAIN kv THEN <<>>
                   ELSE Emit(index_lookup(kv, params, kv[key]), Tail(ranges), <<>>)
              [] OTHER -> Go(Tail(ranges), <<>>, offset)

read_by_index(kv, table, index, ranges, columns, with_pk, offset, limit) ==
  NextTuples(kv, [table |-> table, index |-> index, with_pk |-> with_pk,
                  projections |-> Projections(table, columns, with_pk)],
             ranges, <<>>, offset, limit)

\* IndexScan: a list of ranges is scanned in its order.
IndexScan(kv, table, index, range_, columns, with_pk, offset, limit) ==
  read_by_index(kv, table, index, IF range_[1] = "Sorted" THEN range_[2] ELSE <<range_>>,
                columns, with_pk, offset, limit)
=============================================================================
