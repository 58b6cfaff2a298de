------------------------------ MODULE DataTypes ------------------------------
(***************************************************************************)
(* CassDataType (cql_types/data_type.rs).  A data type is shared and, for  *)
(* as long as the application holds a mutable pointer to it, can still be  *)
(* given more subtypes.  The types that exist are a heap h, a sequence of  *)
(* records; a type is its place in h:                                      *)
(*   kind   "VALUE" or the kind of a compound type                         *)
(*   vt     CassValueType of a Value                                       *)
(*   sub    its subtypes: at most one for a list or set, two for a map     *)
(*   names  the field names of a UDT                                       *)
(*   udt    keyspace and name of a UDT, "" when not given                  *)
(*   dims   dimensions of a vector                                         *)
(* Frozenness and custom types are left out.                               *)
(***************************************************************************)
EXTENDS Naturals, Sequences

Collections == {"LIST", "SET", "MAP"}
Compounds == Collections \cup {"TUPLE", "UDT", "VECTOR"}
Natives == {"TINY_INT", "SMALL_INT", "INT", "BIGINT", "COUNTER", "TIMESTAMP", "TIME",
            "FLOAT", "DOUBLE", "BOOLEAN", "TEXT", "VARCHAR", "ASCII", "BLOB", "VARINT",
            "UUID", "TIMEUUID", "DATE", "INET", "DURATION", "DECIMAL"}
ValueTypes == Natives \cup Compounds

DataType(N) ==
    [kind : {"VALUE"} \cup Compounds, vt : ValueTypes, sub : Seq(Nat \ {0}),
     names : Seq(N), udt : (N \cup {""}) \X (N \cup {""}), dims : Nat]

Value(vt) == [kind |-> "VALUE", vt |-> vt, sub |-> <<>>, names |-> <<>>,
              udt |-> <<"", "">>, dims |-> 0]
Untyped(kind) == [kind |-> kind, vt |-> kind, sub |-> <<>>, names |-> <<>>,
                  udt |-> <<"", "">>, dims |-> 0]
Vector(element, dims) ==
    [kind |-> "VECTOR", vt |-> "VECTOR", sub |-> <<element>>, names |-> <<>>,
     udt |-> <<"", "">>, dims |-> dims]

(* cass_data_type_new, where it returns a type.                             *)
New(vt) == IF vt \in Natives THEN Value(vt) ELSE Untyped(vt)

get_value_type(h, t) == IF h[t].kind = "VALUE" THEN h[t].vt ELSE h[t].kind

-----------------------------------------------------------------------------
is_fully_typed(h) ==
    LET full[t \in DOMAIN h] ==
            LET some == h[t].sub # <<>>
                all == \A i \in DOMAIN h[t].sub : full[h[t].sub[i]]
            IN  CASE h[t].kind = "VALUE" -> TRUE
                  [] h[t].kind = "MAP" -> Len(h[t].sub) = 2 /\ all
                  [] OTHER -> some /\ all
    IN  full

(* TEXT and VARCHAR are the same CQL type.                                  *)
value_types_equal(s, t) == s = t \/ {s, t} = {"TEXT", "VARCHAR"}

any_string_empty_or_both_equal(s, t) == s = "" \/ t = "" \/ s = t

(* typecheck_equals, with UdtDataType::typecheck_equals.  A missing subtype *)
(* is a wildcard, and of two UDTs only the mutual first fields count.       *)
typecheck_equals(h) ==
    LET eq[a \in DOMAIN h, b \in DOMAIN h] ==
            LET s == h[a].sub
                t == h[b].sub
                mutual == DOMAIN s \cap DOMAIN t
                equal == \A i \in mutual : eq[s[i], t[i]]
            IN  CASE h[a].kind = "VALUE" ->
                         value_types_equal(h[a].vt, get_value_type(h, b))
                  [] h[a].kind # h[b].kind -> FALSE
                  [] h[a].kind = "UDT" ->
                         /\ \A k \in 1 .. 2 :
                                any_string_empty_or_both_equal(h[a].udt[k], h[b].udt[k])
                         /\ \A i \in mutual : h[a].names[i] = h[b].names[i]
                         /\ equal
                  [] h[a].kind = "VECTOR" -> h[a].dims = h[b].dims /\ equal
                  [] OTHER -> s = <<>> \/ t = <<>> \/ (Len(s) = Len(t) /\ equal)
    IN  eq

(* NativeType::type_size_for_vector of the Rust driver is Some.             *)
FixedSize(vt) ==
    vt \in {"INT", "BIGINT", "TIMESTAMP", "FLOAT", "DOUBLE", "BOOLEAN", "UUID", "TIMEUUID"}

BugVectorAlwaysVariable(h) ==
    [t \in DOMAIN h |-> h[t].kind = "VALUE" => ~ FixedSize(h[t].vt)]

uses_variable_length_encoding_in_vector(h) ==
    LET var[t \in DOMAIN h] ==
            CASE h[t].kind = "VALUE" -> ~ FixedSize(h[t].vt)
              [] h[t].kind = "VECTOR" -> var[h[t].sub[1]]
              [] OTHER -> TRUE
    IN  var

(* Does add_sub_data_type succeed?                                          *)
HasRoom(type) ==
    \/ type.kind \in {"LIST", "SET"} /\ type.sub = <<>>
    \/ type.kind = "MAP" /\ Len(type.sub) < 2
    \/ type.kind = "TUPLE"

WithSub(type, s) ==
    [kind |-> type.kind, vt |-> type.vt, sub |-> Append(type.sub, s),
     names |-> type.names, udt |-> type.udt, dims |-> type.dims]

(* field_types.push of cass_data_type_add_sub_type_by_name_n.               *)
WithField(type, name, s) ==
    [kind |-> type.kind, vt |-> type.vt, sub |-> Append(type.sub, s),
     names |-> Append(type.names, name), udt |-> type.udt, dims |-> type.dims]

(* cass_data_type_set_keyspace and cass_data_type_set_type_name.            *)
WithKeyspace(type, s) ==
    [kind |-> type.kind, vt |-> type.vt, sub |-> type.sub,
     names |-> type.names, udt |-> <<s, type.udt[2]>>, dims |-> type.dims]
WithName(type, s) ==
    [kind |-> type.kind, vt |-> type.vt, sub |-> type.sub,
     names |-> type.names, udt |-> <<type.udt[1], s>>, dims |-> type.dims]

(* Is s t itself, or built from it?                                         *)
BuiltFrom(h, t) ==
    LET has[s \in DOMAIN h] == s = t \/ \E i \in DOMAIN h[s].sub : has[h[s].sub[i]]
    IN  has
=============================================================================
