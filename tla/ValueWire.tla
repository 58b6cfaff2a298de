------------------------------ MODULE ValueWire ------------------------------
(***************************************************************************)
(* The frame a bound value is serialized to (cql_types/value.rs) and what  *)
(* an application reads back from it with the iterators (iterator.rs,      *)
(* query_result.rs).  A frame is a sequence of bytes, except that the four *)
(* bytes of a length or an element count are one number, as are the bytes  *)
(* of a timestamp.                                                         *)
(***************************************************************************)
EXTENDS Values, Integers, SequencesExt

-----------------------------------------------------------------------------
(* Writing.                                                                 *)

(* The number of bits of v, 64 less its leading zeros.                      *)
Bits(v) == CHOOSE b \in 0 .. 30 : v < 2^b /\ (b > 0 => v >= 2^(b - 1))

(* The first byte says in its leading ones how many bytes follow.           *)
unsigned_vint_encode(v) ==
    LET number_of_bytes == (639 - 9 * (64 - Bits(v))) \div 64
        extra == number_of_bytes - 1
        length_bits == 256 - 2^(8 - extra)
    IN  IF number_of_bytes <= 1 THEN <<v>>
        ELSE <<length_bits + v \div 256^extra>> \o
             [k \in 1 .. extra |-> (v \div 256^(extra - k)) % 256]

(* A vector none of whose elements, at any depth, is still unset.           *)
RECURSIVE Complete(_)
Complete(v) ==
    /\ v.kind = "VECTOR" => \A i \in DOMAIN v.items : v.items[i] # Null
    /\ \A i \in DOMAIN v.items : Complete(v.items[i])

RECURSIVE do_serialize(_)

(* A value with its length in front, as a sub-writer leaves it.             *)
Cell(v) ==
    IF v = Null THEN <<-1>>
    ELSE LET bytes == do_serialize(v) IN <<Len(bytes)>> \o bytes

Cells(items) == FlattenSeq([i \in DOMAIN items |-> Cell(items[i])])

serialize_tuple_like(items) == Cells(items)
serialize_udt(items) == Cells(items)
serialize_sequence(items) == <<Len(items)>> \o Cells(items)

serialize_mapping(items) == <<Len(items) \div 2>> \o Cells(items)

serialize_vector(element, items) ==
    LET variable == uses_variable_length_encoding_in_vector(heap)[element]
        Element(v) == LET bytes == do_serialize(v)
                      IN  IF variable THEN unsigned_vint_encode(Len(bytes)) \o bytes
                          ELSE bytes
    IN  FlattenSeq([i \in DOMAIN items |-> Element(items[i])])

do_serialize(v) ==
    CASE v.kind = "TUPLE" -> serialize_tuple_like(v.items)
      [] v.kind = "UDT" -> serialize_udt(v.items)
      [] v.kind \in {"LIST", "SET"} -> serialize_sequence(v.items)
      [] v.kind = "MAP" -> serialize_mapping(v.items)
      [] v.kind = "VECTOR" -> serialize_vector(heap[v.type].sub[1], v.items)
      [] OTHER -> v.bytes

-----------------------------------------------------------------------------
(* Reading, by the type of the column.                                      *)

Take(s, n) == SubSeq(s, 1, IF n < Len(s) THEN n ELSE Len(s))
Drop(s, n) == SubSeq(s, n + 1, Len(s))

Slice(bytes) == [bytes |-> bytes, some |-> TRUE]
NoSlice == [bytes |-> <<>>, some |-> FALSE]

(* read_cql_bytes, up to n times: BytesSequenceIterator, and the driver's   *)
(* iterators over a list, a set, a map and a UDT.                           *)
RECURSIVE read_cql_bytes(_, _)
read_cql_bytes(bytes, n) ==
    IF n <= 0 \/ bytes = <<>> THEN <<>>
    ELSE IF Head(bytes) < 0 THEN <<NoSlice>> \o read_cql_bytes(Tail(bytes), n - 1)
    ELSE <<Slice(Take(Tail(bytes), Head(bytes)))>> \o
         read_cql_bytes(Drop(bytes, Head(bytes) + 1), n - 1)

(* The Rust driver's reader of an unsigned vint: its value and its length.  *)
vint_decode(bytes) ==
    LET extra == CHOOSE k \in 0 .. 8 :
                     256 - 2^(8 - k) <= bytes[1] /\ (k < 8 => bytes[1] < 256 - 2^(7 - k))
        part[k \in 0 .. 8] == IF k = 0 THEN bytes[1] % 2^(8 - extra)
                              ELSE part[k - 1] * 256 + bytes[k + 1]
    IN  [value |-> part[extra], length |-> extra + 1]

(* The driver's VectorIterator: elements of a fixed size follow each other, *)
(* others have their length in front.  0 is the size of a variable type.    *)
RECURSIVE FrameSize(_)
FrameSize(c) ==
    CASE heap[c].kind = "VALUE" -> IF FixedSize(heap[c].vt) THEN 1 ELSE 0
      [] heap[c].kind = "VECTOR" -> heap[c].dims * FrameSize(heap[c].sub[1])
      [] OTHER -> 0

RECURSIVE VectorElements(_, _, _)
VectorElements(bytes, n, size) ==
    IF n = 0 \/ bytes = <<>> THEN <<>>
    ELSE LET vint == vint_decode(bytes)
             skip == IF size = 0 THEN vint.length ELSE 0
             length == IF size = 0 THEN vint.value ELSE size
         IN  <<Slice(Take(Drop(bytes, skip), length))>> \o
             VectorElements(Drop(bytes, skip + length), n - 1, size)

(* The types each getter of a scalar takes.  Those of the first table leave *)
(* the check to the Rust type they ask for, the next three look at the type *)
(* of the column themselves, before they look for null.                     *)
PlainGetters ==
    [float |-> "FLOAT", double |-> "DOUBLE", bool |-> "BOOLEAN", int8 |-> "TINY_INT",
     int16 |-> "SMALL_INT", uint32 |-> "DATE", int32 |-> "INT", inet |-> "INET",
     decimal |-> "DECIMAL", duration |-> "DURATION"]
cass_value_get_int64 == {"BIGINT", "COUNTER", "TIME", "TIMESTAMP"}
cass_value_get_uuid == {"UUID", "TIMEUUID"}
cass_value_get_string == {"ASCII", "TEXT", "VARCHAR"}

(* The getters that return CASS_OK on a value of type vt that is not null;  *)
(* cass_value_get_bytes takes every type.                                   *)
Readable(vt) ==
    {g \in DOMAIN PlainGetters : PlainGetters[g] = vt}
        \cup (IF vt \in cass_value_get_int64 THEN {"int64"} ELSE {})
        \cup (IF vt \in cass_value_get_uuid THEN {"uuid"} ELSE {})
        \cup (IF vt \in cass_value_get_string THEN {"string"} ELSE {})
        \cup {"bytes"}

(* What the application sees of a value: cass_value_type, cass_value_is_null, *)
(* the getters that succeed and the bytes they show, the items the          *)
(* iterators show, in order, and cass_value_item_count.                     *)
NullNode(vt) ==
    [kind |-> "NULL", vt |-> vt, reads |-> {}, bytes |-> <<>>, items |-> <<>>, count |-> 0]
Scalar(vt, reads, bytes) ==
    [kind |-> "VALUE", vt |-> vt, reads |-> reads, bytes |-> bytes, items |-> <<>>, count |-> 0]
Node(kind, vt, items, count) ==
    [kind |-> kind, vt |-> vt, reads |-> {"bytes"}, bytes |-> <<>>, items |-> items,
     count |-> count]

cass_value_primary_sub_type(c) ==
    IF heap[c].kind \in Collections \cup {"VECTOR"} /\ heap[c].sub # <<>>
    THEN get_value_type(heap, heap[c].sub[1]) ELSE "UNKNOWN"

cass_value_secondary_sub_type(c) ==
    IF heap[c].kind = "MAP" /\ Len(heap[c].sub) = 2
    THEN get_value_type(heap, heap[c].sub[2]) ELSE "UNKNOWN"

(* Types whose empty value is not null: those that have no empty value, and *)
(* strings and bytes.                                                       *)
KeepsEmpty(c) ==
    get_value_type(heap, c) \in
        Collections \cup {"UDT", "DURATION", "COUNTER", "ASCII", "TEXT", "VARCHAR", "BLOB"}

determine_value_item_count(c, bytes) ==
    CASE heap[c].kind \in Collections -> Head(bytes)
      [] heap[c].kind \in {"TUPLE", "UDT"} -> Len(heap[c].sub)
      [] OTHER -> heap[c].dims

(* CassListlikeIterator.                                                    *)
ListCells(bytes) == read_cql_bytes(Tail(bytes), Head(bytes))

(* CassMapCollectionIterator shows the keys and the values in turn.         *)
MapCells(bytes) == read_cql_bytes(Tail(bytes), 2 * Head(bytes))

(* CassTupleIterator ends where the frame does.                             *)
TupleCells(n, bytes) == read_cql_bytes(bytes, n)

(* CassUdtIterator shows the fields missing in the frame as null.           *)
UdtCells(n, bytes) ==
    LET there == read_cql_bytes(bytes, n)
    IN  there \o [i \in 1 .. n - Len(there) |-> NoSlice]

(* CassVectorIterator, over the driver's iterator.                          *)
VectorCells(element, dims, bytes) == VectorElements(bytes, dims, FrameSize(element))

(* cass_iterator_from_collection, _tuple, _user_type and _vector.           *)
CellsOf(c, bytes) ==
    LET sub == heap[c].sub
    IN  CASE heap[c].kind \in {"LIST", "SET"} -> ListCells(bytes)
          [] heap[c].kind = "MAP" -> MapCells(bytes)
          [] heap[c].kind = "TUPLE" -> TupleCells(Len(sub), bytes)
          [] heap[c].kind = "UDT" -> UdtCells(Len(sub), bytes)
          [] OTHER -> VectorCells(sub[1], heap[c].dims, bytes)

(* The subtype of the i-th thing the iterator over a value of type c shows. *)
ItemType(c, i) ==
    CASE heap[c].kind = "MAP" -> heap[c].sub[2 - (i % 2)]
      [] heap[c].kind \in {"TUPLE", "UDT"} -> heap[c].sub[i]
      [] OTHER -> heap[c].sub[1]

(* CassRawValue::deserialize, and all that the iterators then show.         *)
RECURSIVE Read(_, _)
Read(c, slice) ==
    LET vt == get_value_type(heap, c) IN
    IF ~ slice.some \/ (slice.bytes = <<>> /\ ~ KeepsEmpty(c)) THEN NullNode(vt)
    ELSE IF heap[c].kind = "VALUE" THEN Scalar(vt, Readable(vt), slice.bytes)
    ELSE LET cells == CellsOf(c, slice.bytes)
         IN  Node(heap[c].kind, vt, [i \in DOMAIN cells |-> Read(ItemType(c, i), cells[i])],
                  determine_value_item_count(c, slice.bytes))

-----------------------------------------------------------------------------
(* Properties.                                                              *)

(* Is v, at every depth, a value of type c?                                 *)
RECURSIVE Fits(_, _)
Fits(v, c) ==
    IF v = Null THEN TRUE
    ELSE IF v.kind \notin Compounds THEN get_value_type(heap, c) \in Carries(v.kind)
    ELSE /\ heap[c].kind = v.kind
         /\ v.kind = "VECTOR" => Len(v.items) = heap[c].dims
         /\ \A i \in DOMAIN v.items :
                \/ v.kind \in {"TUPLE", "UDT"} /\ i \notin DOMAIN heap[c].sub
                \/ Fits(v.items[i], ItemType(c, i))

(* The getter that goes with the setter a scalar was written with.          *)
GetterOf(kind) ==
    CASE kind = "BIGINT" -> "int64"
      [] kind = "TEXT" -> "string"
      [] kind = "BLOB" -> "bytes"
      [] kind = "UUID" -> "uuid"
      [] OTHER -> CHOOSE g \in DOMAIN PlainGetters : PlainGetters[g] = kind

(* The application reads a scalar with that getter or as bytes, and with no *)
(* other; text in a column of bytes only as bytes.                          *)
ReadsOf(kind, vt) ==
    {"bytes"} \cup (IF kind = "TEXT" /\ vt \in {"BLOB", "VARINT"} THEN {} ELSE {GetterOf(kind)})

(* The scalar variants of CassCqlValue.                                     *)
ScalarKinds ==
    {"TINY_INT", "SMALL_INT", "INT", "BIGINT", "FLOAT", "DOUBLE", "BOOLEAN", "TEXT", "BLOB",
     "UUID", "DATE", "INET", "DURATION", "DECIMAL"}
ScalarsReadable ==
    \A kind \in ScalarKinds : \A vt \in Carries(kind) : Readable(vt) = ReadsOf(kind, vt)

(* The type the application is told that the i-th item of a value has.      *)
Announced(c, i) ==
    CASE heap[c].kind \in {"TUPLE", "UDT"} -> get_value_type(heap, heap[c].sub[i])
      [] heap[c].kind = "MAP" /\ i % 2 = 0 -> cass_value_secondary_sub_type(c)
      [] OTHER -> cass_value_primary_sub_type(c)

(* What an application that wrote v to a column of type c, which it is told *)
(* is vt, expects to read.  A tuple shows the items it was written with,    *)
(* its item count says how many the column has; a tuple without items and   *)
(* an empty varint are null; fields a UDT was not written with are null.    *)
RECURSIVE Expected(_, _, _)
Expected(v, c, vt) ==
    IF v = Null \/ (v.kind = "TUPLE" /\ v.items = <<>>) \/ (v.bytes = <<>> /\ vt = "VARINT")
    THEN NullNode(vt)
    ELSE IF v.kind \notin Compounds THEN Scalar(vt, ReadsOf(v.kind, vt), v.bytes)
    ELSE LET sub == heap[c].sub
             shown == IF v.kind = "UDT" THEN Len(sub)
                      ELSE IF v.kind = "TUPLE" THEN Len(Take(v.items, Len(sub)))
                      ELSE Len(v.items)
             count == CASE v.kind = "MAP" -> Len(v.items) \div 2
                        [] v.kind = "TUPLE" -> Len(sub)
                        [] OTHER -> shown
             Item(i) == IF i \in DOMAIN v.items
                        THEN Expected(v.items[i], ItemType(c, i), Announced(c, i))
                        ELSE NullNode(Announced(c, i))
         IN  Node(v.kind, v.kind, [i \in 1 .. shown |-> Item(i)], count)

(* Do the vectors in v have elements that are encoded as those of c are?    *)
(* Not so when a container without subtypes hid the vector from the checks: *)
(* it takes a vector<bigint>, of fixed size, for a list<vector<time>>, whose *)
(* elements are read with a length in front, though cass_value_get_int64    *)
(* reads both.                                                              *)
RECURSIVE SameEncoding(_, _)
SameEncoding(v, c) ==
    LET variable == uses_variable_length_encoding_in_vector(heap)
    IN  v.kind \in Compounds =>
            /\ v.kind = "VECTOR" => variable[heap[v.type].sub[1]] = variable[heap[c].sub[1]]
            /\ \A i \in DOMAIN v.items :
                   \/ v.kind \in {"TUPLE", "UDT"} /\ i \notin DOMAIN heap[c].sub
                   \/ v.items[i] = Null
                   \/ SameEncoding(v.items[i], ItemType(c, i))

(* A bound value that has the shape of the column and whose vectors have    *)
(* its encoding reads back as what was written, with the getters that go    *)
(* with the setters it was written with, and its items are of the types     *)
(* announced, however its data types were shared and changed in the         *)
(* meantime: value.rs writes by the type of the value, iterator.rs and      *)
(* query_result.rs read by the type of the column.                          *)
RoundTrip ==
    /\ ScalarsReadable
    /\ bound # Null /\ Complete(bound) /\ Fits(bound, column) /\ SameEncoding(bound, column) =>
           Read(column, Slice(do_serialize(bound))) =
               Expected(bound, column, get_value_type(heap, column))

(* Every type t is built from is given in full.  UDTs are set apart: two of *)
(* them are compared by their mutual first fields only (data_type.rs:59),   *)
(* which is not transitive.                                                 *)
Precise(t) ==
    is_fully_typed(heap)[t] /\
    \A s \in Types : BuiltFrom(heap, s)[t] =>
        heap[s].kind # "UDT" /\ (heap[s].kind = "VALUE" => heap[s].vt \in Natives)

RECURSIVE PreciselyTyped(_)
PreciselyTyped(v) ==
    v.kind \in Compounds =>
        /\ v.type # NoType /\ Precise(v.type)
        /\ \A i \in DOMAIN v.items : PreciselyTyped(v.items[i])

(* Serialization makes no typechecks, "since we do the typechecks during    *)
(* binding" (value.rs:205): a value built with full types that are not      *)
(* changed afterwards is, when it binds, at every depth a value of the      *)
(* column's type, although only the outermost type is compared with the     *)
(* column and each item was compared with its container alone.              *)
BoundTyped ==
    bound # Null /\ ~ reshaped /\ PreciselyTyped(bound) => Fits(bound, column)
=============================================================================
