-------------------------------- MODULE Values --------------------------------
(***************************************************************************)
(* Building collections, tuples, UDTs and vectors (cql_types/collection.rs,*)
(* tuple.rs, user_type.rs, vector.rs) and binding one to a column, while   *)
(* the data types they are typed with can still grow.  A value is a record *)
(*   kind   "NULL", the kind of a scalar, or the kind of a compound        *)
(*   type   its data type, a place in heap; NoType when it is untyped      *)
(*   bytes  the content of a scalar                                        *)
(*   items  the items of a compound; NULL is None                          *)
(* A call that fails changes nothing and is no step.  Slots are numbered   *)
(* from 1, in the code from 0.                                             *)
(***************************************************************************)
EXTENDS DataTypes

CONSTANTS Starts,         \* what is there at the start: the types of a column
                          \* and types the application has built for itself
          Names,          \* of UDT fields, keyspaces and types
          Scalars,        \* scalar values
          NewTypes,       \* arguments of cass_data_type_new
          SubValueTypes,  \* arguments of cass_data_type_add_sub_value_type
          Dims,           \* arguments of cass_data_type_new_vector
          TupleSizes,     \* arguments of cass_tuple_new
          MaxTypes, MaxValues, MaxItems,
          MaxCalls, MaxTypeCalls  \* calls in all, and those about types

ASSUME ValuesAssumption ==
    /\ \A s \in Starts :
           /\ s.heap \in Seq(DataType(Names))
           /\ s.column \in DOMAIN s.heap /\ s.mine \subseteq DOMAIN s.heap
           /\ \A t \in DOMAIN s.heap :
                  /\ \A i \in DOMAIN s.heap[t].sub : s.heap[t].sub[i] \in DOMAIN s.heap
                  /\ s.heap[t].kind = "VECTOR" =>
                         DOMAIN s.heap[t].sub = {1} /\ s.heap[t].dims # 0
                  /\ s.heap[t].kind = "UDT" =>
                         DOMAIN s.heap[t].names = DOMAIN s.heap[t].sub
    /\ NewTypes \subseteq ValueTypes \ {"VECTOR"} /\ SubValueTypes \subseteq ValueTypes
    /\ Dims \subseteq Nat /\ TupleSizes \subseteq Nat
    /\ "" \notin Names
    /\ MaxCalls \in Nat /\ MaxTypeCalls \in Nat

VARIABLES heap,      \* the data types that exist
          mine,      \* those the application can still change
          column,    \* the type of the column that is bound
          values,    \* the compound values under construction
          bound,     \* what the statement holds for the column
          reshaped,  \* history: has a type been changed after a value was made
          calls, typeCalls

vars == <<heap, mine, column, values, bound, reshaped, calls, typeCalls>>

Types == DOMAIN heap
NoType == 0
Null == [kind |-> "NULL", type |-> NoType, bytes |-> <<>>, items |-> <<>>]
Compound(kind, type, items) ==
    [kind |-> kind, type |-> type, bytes |-> <<>>, items |-> items]

Init ==
    /\ \E s \in Starts : heap = s.heap /\ column = s.column /\ mine = s.mine
    /\ values = <<>> /\ bound = Null
    /\ reshaped = FALSE /\ calls = 0 /\ typeCalls = 0

Call ==
    /\ calls < MaxCalls /\ calls' = calls + 1
    /\ typeCalls' = typeCalls
TypeCall ==
    /\ calls < MaxCalls /\ calls' = calls + 1
    /\ typeCalls < MaxTypeCalls /\ typeCalls' = typeCalls + 1

-----------------------------------------------------------------------------
(* The application's data types.                                            *)

Allocate(type) ==
    /\ TypeCall /\ Len(heap) < MaxTypes
    /\ heap' = Append(heap, type)
    /\ mine' = mine \cup {Len(heap) + 1}
    /\ UNCHANGED <<column, values, bound, reshaped>>

(* cass_data_type_new, _new_tuple and _new_udt.                             *)
NewDataType(vt) == Allocate(New(vt))

(* cass_data_type_new_from_existing: the copy shares the subtypes.          *)
NewFromExisting(t) == Allocate(heap[t])

(* cass_data_type_new_vector.                                               *)
NewVectorType(element, dims) ==
    /\ is_fully_typed(heap)[element] /\ dims # 0
    /\ Allocate(Vector(element, dims))

Reshape(t, type) ==
    /\ heap' = [heap EXCEPT ![t] = type]
    /\ mine' = mine
    /\ reshaped' = (reshaped \/ values # <<>>)
    /\ UNCHANGED <<column, values, bound>>

(* cass_data_type_add_sub_type.  The code does not look for cycles; here a  *)
(* type is not made a part of itself.                                       *)
AddSubType(t, s) ==
    /\ TypeCall /\ HasRoom(heap[t]) /\ Len(heap[t].sub) < MaxItems
    /\ ~ BuiltFrom(heap, t)[s]
    /\ Reshape(t, WithSub(heap[t], s))

(* cass_data_type_add_sub_type_by_name(_n).                                 *)
AddSubTypeByName(t, name, s) ==
    /\ TypeCall /\ heap[t].kind = "UDT" /\ Len(heap[t].sub) < MaxItems
    /\ ~ BuiltFrom(heap, t)[s]
    /\ Reshape(t, WithField(heap[t], name, s))

(* cass_data_type_add_sub_value_type: adds a Value type it makes itself,    *)
(* which no one else can change.                                            *)
AddSubValueType(t, vt) ==
    /\ TypeCall /\ HasRoom(heap[t]) /\ Len(heap[t].sub) < MaxItems /\ Len(heap) < MaxTypes
    /\ heap' = Append([heap EXCEPT ![t] = WithSub(heap[t], Len(heap) + 1)], Value(vt))
    /\ reshaped' = (reshaped \/ values # <<>>)
    /\ UNCHANGED <<mine, column, values, bound>>

(* cass_data_type_add_sub_value_type_by_name(_n).                           *)
AddSubValueTypeByName(t, name, vt) ==
    /\ TypeCall /\ heap[t].kind = "UDT" /\ Len(heap[t].sub) < MaxItems /\ Len(heap) < MaxTypes
    /\ heap' = Append([heap EXCEPT ![t] = WithField(heap[t], name, Len(heap) + 1)], Value(vt))
    /\ reshaped' = (reshaped \/ values # <<>>)
    /\ UNCHANGED <<mine, column, values, bound>>

(* cass_data_type_set_keyspace(_n) and cass_data_type_set_type_name(_n).    *)
NameType(t, name) ==
    /\ TypeCall /\ heap[t].kind = "UDT"
    /\ \/ Reshape(t, WithKeyspace(heap[t], name))
       \/ Reshape(t, WithName(heap[t], name))

-----------------------------------------------------------------------------
(* Values.                                                                  *)

BugOneMore(type) ==
    IF type.kind = "VECTOR" THEN type.dims
    ELSE IF type.kind \in {"TUPLE", "UDT"} THEN Len(type.sub) + 1 ELSE 0

(* The slots a new value of the type has.                                   *)
SlotCount(type) ==
    IF type.kind = "VECTOR" THEN type.dims
    ELSE IF type.kind \in {"TUPLE", "UDT"} THEN Len(type.sub) ELSE 0

Slots(n) == [i \in 1 .. n |-> Null]

Create(v) ==
    /\ Call /\ Len(values) < MaxValues
    /\ values' = Append(values, v)
    /\ UNCHANGED <<heap, mine, column, bound, reshaped>>

(* cass_collection_new.                                                     *)
NewCollection(kind) == Create(Compound(kind, NoType, <<>>))

(* cass_tuple_new.                                                          *)
NewTuple(n) == Create(Compound("TUPLE", NoType, Slots(n)))

(* cass_collection_, cass_tuple_, cass_user_type_, cass_vector_             *)
(* new_from_data_type.                                                      *)
NewFromDataType(t) ==
    /\ heap[t].kind \in Compounds
    /\ Create(Compound(heap[t].kind, t, Slots(SlotCount(heap[t]))))

(* cass_vector_new: a vector of a native type, and the two types it needs.  *)
NewNativeVector(vt, dims) ==
    /\ Call /\ Len(values) < MaxValues /\ Len(heap) + 2 <= MaxTypes
    /\ vt \in Natives /\ dims # 0
    /\ heap' = heap \o <<Value(vt), Vector(Len(heap) + 1, dims)>>
    /\ values' = Append(values, Compound("VECTOR", Len(heap) + 2, Slots(dims)))
    /\ UNCHANGED <<mine, column, bound, reshaped>>

(* The value types a scalar may be bound as.                                *)
Carries(kind) ==
    CASE kind = "BIGINT" -> {"BIGINT", "COUNTER", "TIMESTAMP", "TIME"}
      [] kind = "TEXT" -> {"TEXT", "VARCHAR", "ASCII", "BLOB", "VARINT"}
      [] kind = "BLOB" -> {"BLOB", "VARINT"}
      [] kind = "UUID" -> {"UUID", "TIMEUUID"}
      [] OTHER -> {kind}

is_type_compatible(v, t) ==
    IF v.kind = "NULL" THEN TRUE
    ELSE IF v.kind \notin Compounds THEN get_value_type(heap, t) \in Carries(v.kind)
    ELSE IF v.type # NoType THEN typecheck_equals(heap)[v.type, t]
    ELSE get_value_type(heap, t) = v.kind

(* CassCqlValue from a compound: a map of odd length is refused, a UDT is   *)
(* zipped with the fields of its type.                                      *)
Convertible(v) == v.kind = "MAP" => Len(v.items) % 2 = 0

CqlValue(v) ==
    IF v.kind # "UDT" THEN v
    ELSE Compound(v.kind, v.type, [i \in DOMAIN v.items \cap DOMAIN heap[v.type].sub |-> v.items[i]])

(* What the setters of value v take: a scalar, or a copy of another value.  *)
Arguments(v) ==
    Scalars \cup {CqlValue(values[w]) : w \in {w \in DOMAIN values \ {v} : Convertible(values[w])}}

Store(v, items) ==
    /\ Call
    /\ values' = [values EXCEPT ![v] = Compound(values[v].kind, values[v].type, items)]
    /\ UNCHANGED <<heap, mine, column, bound, reshaped>>

BugKeyOnly(v, x) ==
    /\ v.type # NoType /\ 1 \in DOMAIN heap[v.type].sub
    /\ v.kind # "MAP" \/ Len(v.items) % 2 = 0
    => is_type_compatible(x, heap[v.type].sub[1])

(* In a map, keys and values take turns.                                    *)
typecheck_on_append(v, x) ==
    LET place == IF v.kind = "MAP" THEN (Len(v.items) % 2) + 1 ELSE 1
    IN  v.type # NoType /\ place \in DOMAIN heap[v.type].sub =>
            is_type_compatible(x, heap[v.type].sub[place])

(* cass_collection_append_*.                                                *)
AppendItem(v, x) ==
    /\ values[v].kind \in Collections /\ Len(values[v].items) < MaxItems
    /\ typecheck_on_append(values[v], x)
    /\ Store(v, Append(values[v].items, x))

(* The type that value v gives its slot i: the elements of a vector share   *)
(* one.                                                                     *)
SlotType(v, i) == heap[v.type].sub[IF v.kind = "VECTOR" THEN 1 ELSE i]

(* cass_tuple_set_*, cass_user_type_set_* and cass_vector_set_*.  A vector  *)
(* has no setter for null.                                                  *)
SetItem(v, i, x) ==
    /\ values[v].kind \in {"TUPLE", "UDT", "VECTOR"}
    /\ i \in DOMAIN values[v].items
    /\ values[v].kind = "VECTOR" => x # Null
    /\ values[v].type # NoType => is_type_compatible(x, SlotType(values[v], i))
    /\ Store(v, [values[v].items EXCEPT ![i] = x])

(* cass_user_type_set_*_by_name(_n): stops at the first field of that name  *)
(* that is out of bounds or has another type.                               *)
SetFieldByName(v, name, x) ==
    /\ values[v].kind = "UDT"
    /\ LET type == heap[values[v].type]
           named == {i \in DOMAIN type.names : type.names[i] = name}
           refused == {i \in named : \/ i \notin DOMAIN values[v].items
                                     \/ ~ is_type_compatible(x, type.sub[i])}
           set == {i \in named : \A r \in refused : i < r}
       IN  /\ set # {}
           /\ Store(v, [i \in DOMAIN values[v].items |->
                            IF i \in set THEN x ELSE values[v].items[i]])

(* cass_statement_bind_collection, _tuple, _user_type and _vector, on a     *)
(* prepared statement.                                                      *)
Bind(v) ==
    /\ Call
    /\ Convertible(values[v]) /\ is_type_compatible(CqlValue(values[v]), column)
    /\ bound' = CqlValue(values[v])
    /\ UNCHANGED <<heap, mine, column, values, reshaped>>

Next ==
    \/ \E vt \in NewTypes : NewDataType(vt)
    \/ \E t \in Types : NewFromExisting(t)
    \/ \E t \in Types, d \in Dims : NewVectorType(t, d)
    \/ \E t \in mine, s \in Types : AddSubType(t, s)
    \/ \E t \in mine, s \in Types, n \in Names : AddSubTypeByName(t, n, s)
    \/ \E t \in mine, vt \in SubValueTypes : AddSubValueType(t, vt)
    \/ \E t \in mine, vt \in SubValueTypes, n \in Names : AddSubValueTypeByName(t, n, vt)
    \/ \E t \in mine, n \in Names : NameType(t, n)
    \/ \E kind \in Collections : NewCollection(kind)
    \/ \E n \in TupleSizes : NewTuple(n)
    \/ \E t \in Types : NewFromDataType(t)
    \/ \E vt \in SubValueTypes, d \in Dims : NewNativeVector(vt, d)
    \/ \E v \in DOMAIN values : \E x \in Arguments(v) : AppendItem(v, x)
    \/ \E v \in DOMAIN values, i \in 1 .. MaxItems :
           \E x \in Arguments(v) \cup {Null} : SetItem(v, i, x)
    \/ \E v \in DOMAIN values, n \in Names :
           \E x \in Arguments(v) \cup {Null} : SetFieldByName(v, n, x)
    \/ \E v \in DOMAIN values : Bind(v)

Spec == Init /\ [][Next]_vars

-----------------------------------------------------------------------------
TypeOK ==
    /\ heap \in Seq(DataType(Names))
    /\ mine \subseteq Types /\ column \in Types
    /\ values \in Seq({values[v] : v \in DOMAIN values})
    /\ \A v \in DOMAIN values : values[v].kind \in Compounds /\ values[v].type \in Nat
    /\ reshaped \in BOOLEAN
    /\ calls \in 0 .. MaxCalls /\ typeCalls \in 0 .. MaxTypeCalls

(* The heap is closed, a vector has its element type and a UDT a name for   *)
(* every field.                                                             *)
HeapInv ==
    \A t \in Types :
        /\ \A i \in DOMAIN heap[t].sub : heap[t].sub[i] \in Types
        /\ heap[t].kind = "VECTOR" => DOMAIN heap[t].sub = {1} /\ heap[t].dims # 0
        /\ heap[t].kind = "UDT" => DOMAIN heap[t].names = DOMAIN heap[t].sub

(* Every slot of a typed value has a subtype to be checked against: the     *)
(* setters test the index against the slots and then index the subtypes     *)
(* with it (tuple.rs:45, user_type.rs:26), which panics when there are      *)
(* fewer.  A value is made with a slot per subtype, and the type may gain   *)
(* subtypes after that, but never loses one or changes its kind.            *)
SlotsTyped ==
    \A v \in DOMAIN values :
        /\ values[v].type # NoType =>
               /\ values[v].type \in Types
               /\ heap[values[v].type].kind = values[v].kind
               /\ values[v].kind \in {"TUPLE", "UDT"} =>
                      DOMAIN values[v].items \subseteq DOMAIN heap[values[v].type].sub
               /\ values[v].kind = "VECTOR" =>
                      DOMAIN values[v].items = 1 .. heap[values[v].type].dims
        /\ values[v].kind \in {"UDT", "VECTOR"} => values[v].type # NoType

(* The three together are inductive.                                        *)
ValuesInv == TypeOK /\ HeapInv /\ SlotsTyped
=============================================================================
