----------------------------- MODULE ValuesProofs -----------------------------
(***************************************************************************)
(* For any types, names and values and any sequence of calls: the heap of  *)
(* data types stays closed, and every slot of a typed value has a subtype. *)
(* The argument: whatever is done to the types, each keeps its kind and    *)
(* its dimensions and loses no subtype (Grows), so that what a value was   *)
(* made from stays there for as long as the value is filled.               *)
(***************************************************************************)
EXTENDS Values, SequenceTheorems, TLAPS

Closed(h) ==
    /\ h \in Seq(DataType(Names))
    /\ \A t \in DOMAIN h :
           /\ \A i \in DOMAIN h[t].sub : h[t].sub[i] \in DOMAIN h
           /\ h[t].kind = "VECTOR" => DOMAIN h[t].sub = {1} /\ h[t].dims # 0
           /\ h[t].kind = "UDT" => DOMAIN h[t].names = DOMAIN h[t].sub

Grows(h, g) ==
    /\ Closed(g)
    /\ DOMAIN h \subseteq DOMAIN g
    /\ \A t \in DOMAIN h :
           /\ g[t].kind = h[t].kind /\ g[t].dims = h[t].dims
           /\ DOMAIN h[t].sub \subseteq DOMAIN g[t].sub

ValueOK(h, x) ==
    /\ x.kind \in Compounds /\ x.type \in Nat
    /\ x.type # NoType =>
           /\ x.type \in DOMAIN h
           /\ h[x.type].kind = x.kind
           /\ x.kind \in {"TUPLE", "UDT"} => DOMAIN x.items \subseteq DOMAIN h[x.type].sub
           /\ x.kind = "VECTOR" => DOMAIN x.items = 1 .. h[x.type].dims
    /\ x.kind \in {"UDT", "VECTOR"} => x.type # NoType

(* The inductive invariant, in terms of the above.                          *)
LEMMA InvParts ==
    ValuesInv <=> /\ Closed(heap) /\ mine \subseteq Types /\ column \in Types
                  /\ values \in Seq({values[v] : v \in DOMAIN values})
                  /\ \A v \in DOMAIN values : ValueOK(heap, values[v])
                  /\ reshaped \in BOOLEAN
                  /\ calls \in 0 .. MaxCalls /\ typeCalls \in 0 .. MaxTypeCalls
BY Zenon DEF ValuesInv, TypeOK, HeapInv, SlotsTyped, Closed, ValueOK, Types

(* A value stays well-formed while types grow.                              *)
LEMMA GrowsKeeps ==
    ASSUME NEW h, NEW g, Grows(h, g), NEW x, ValueOK(h, x)
    PROVE ValueOK(g, x)
BY DEF Grows, ValueOK

(* A new type, whose subtypes exist, is added to the heap.                  *)
LEMMA GrowsByNew ==
    ASSUME NEW h, Closed(h), NEW type \in DataType(Names),
           \A i \in DOMAIN type.sub : type.sub[i] \in 1 .. Len(h) + 1,
           type.kind = "VECTOR" => DOMAIN type.sub = {1} /\ type.dims # 0,
           type.kind = "UDT" => DOMAIN type.names = DOMAIN type.sub
    PROVE Grows(h, Append(h, type))
<1> DEFINE g == Append(h, type)
<1>1. /\ g \in Seq(DataType(Names)) /\ DOMAIN h = 1 .. Len(h) /\ Len(h) \in Nat
      /\ DOMAIN g = 1 .. Len(h) + 1
      /\ \A t \in DOMAIN h : g[t] = h[t]
      /\ g[Len(h) + 1] = type
    BY DEF Closed
<1>2. \A t \in DOMAIN g : t \in DOMAIN h \/ t = Len(h) + 1
    BY <1>1
<1> HIDE DEF g
<1>3. Closed(g)
    BY <1>1, <1>2 DEF Closed
<1> QED
    BY <1>1, <1>3 DEF Grows, g

(* A type is given one more subtype or another name.                        *)
LEMMA GrowsByChange ==
    ASSUME NEW h, Closed(h), NEW t \in DOMAIN h, NEW type \in DataType(Names),
           type.kind = h[t].kind, type.dims = h[t].dims,
           DOMAIN h[t].sub \subseteq DOMAIN type.sub,
           type.kind = "VECTOR" => DOMAIN type.sub = {1},
           \A i \in DOMAIN type.sub : type.sub[i] \in DOMAIN h,
           type.kind = "UDT" => DOMAIN type.names = DOMAIN type.sub
    PROVE Grows(h, [h EXCEPT ![t] = type])
<1> DEFINE g == [h EXCEPT ![t] = type]
<1>1. /\ g \in Seq(DataType(Names)) /\ DOMAIN g = DOMAIN h /\ g[t] = type
      /\ \A s \in DOMAIN h : s # t => g[s] = h[s]
    BY DEF Closed
<1> HIDE DEF g
<1>2. Closed(g)
    BY <1>1 DEF Closed
<1> QED
    BY <1>1, <1>2 DEF Grows, g

(* One step to larger heaps after another.                                  *)
LEMMA GrowsTwice ==
    ASSUME NEW h, NEW g, NEW f, Grows(h, g), Grows(g, f)
    PROVE Grows(h, f)
BY DEF Grows

(* A sequence is one of its own elements.                                   *)
LEMMA OwnRange ==
    ASSUME NEW T, NEW s \in Seq(T)
    PROVE s \in Seq({s[v] : v \in DOMAIN s})
OBVIOUS

(* Appending a well-formed value, and replacing one.                        *)
LEMMA ValuesAppended ==
    ASSUME values \in Seq({values[v] : v \in DOMAIN values}), NEW h, NEW x, ValueOK(h, x),
           \A v \in DOMAIN values : ValueOK(h, values[v]),
           values' = Append(values, x)
    PROVE /\ \E T : values' \in Seq(T)
          /\ \A v \in DOMAIN values' : ValueOK(h, values'[v])
<1> DEFINE S == {values[v] : v \in DOMAIN values} \cup {x}
<1>1. values \in Seq(S) /\ x \in S
    OBVIOUS
<1> HIDE DEF S
<1>2. /\ values' \in Seq(S) /\ DOMAIN values' = 1 .. Len(values) + 1
      /\ DOMAIN values = 1 .. Len(values) /\ Len(values) \in Nat
      /\ \A v \in DOMAIN values : values'[v] = values[v]
      /\ values'[Len(values) + 1] = x
    BY <1>1
<1>4. \A v \in DOMAIN values' : v \in DOMAIN values \/ v = Len(values) + 1
    BY <1>2
<1> QED
    BY <1>2, <1>4

LEMMA ValuesStored ==
    ASSUME values \in Seq({values[v] : v \in DOMAIN values}), NEW h, NEW x, ValueOK(h, x),
           \A v \in DOMAIN values : ValueOK(h, values[v]),
           NEW w \in DOMAIN values, values' = [values EXCEPT ![w] = x]
    PROVE /\ \E T : values' \in Seq(T)
          /\ \A v \in DOMAIN values' : ValueOK(h, values'[v])
<1> DEFINE S == {values[v] : v \in DOMAIN values} \cup {x}
<1>1. values \in Seq(S) /\ x \in S
    OBVIOUS
<1> HIDE DEF S
<1>2. /\ values' \in Seq(S) /\ DOMAIN values' = DOMAIN values /\ values'[w] = x
      /\ DOMAIN values = 1 .. Len(values) /\ Len(values) \in Nat
      /\ \A v \in DOMAIN values : v # w => values'[v] = values[v]
    BY <1>1
<1> QED
    BY <1>2

(* The bounds are numbers.                                                  *)
LEMMA Bounds == MaxCalls \in Nat /\ MaxTypeCalls \in Nat
BY ValuesAssumption, Zenon

(* Changing the types only.                                                 *)
LEMMA TypeStep ==
    ASSUME ValuesInv, TypeCall, Grows(heap, heap'),
           mine' \subseteq DOMAIN heap', column' = column, values' = values,
           reshaped' \in BOOLEAN
    PROVE ValuesInv'
<1>1. ValuesInv
    OBVIOUS
<1>2. /\ values \in Seq({values[v] : v \in DOMAIN values}) /\ column \in DOMAIN heap
      /\ \A v \in DOMAIN values : ValueOK(heap, values[v])
      /\ calls \in 0 .. MaxCalls /\ typeCalls \in 0 .. MaxTypeCalls
    BY <1>1, InvParts DEF Types
<1>3. calls' \in 0 .. MaxCalls /\ typeCalls' \in 0 .. MaxTypeCalls
    BY <1>2, Bounds DEF TypeCall
<1>4. \A v \in DOMAIN values : ValueOK(heap', values[v])
    BY <1>2, GrowsKeeps
<1>5. Closed(heap') /\ DOMAIN heap \subseteq DOMAIN heap'
    BY DEF Grows
<1>6. HeapInv' /\ heap' \in Seq(DataType(Names))
    BY <1>5, Zenon DEF HeapInv, Closed, Types
<1>7. SlotsTyped' /\ \A v \in DOMAIN values' : values'[v].kind \in Compounds /\ values'[v].type \in Nat
    BY <1>4, Zenon DEF SlotsTyped, ValueOK, Types
<1>8. values' \in Seq({values'[v] : v \in DOMAIN values'})
    BY <1>2
<1> QED
    BY <1>2, <1>3, <1>5, <1>6, <1>7, <1>8, Zenon DEF ValuesInv, TypeOK, Types

(* Making or filling a value, or binding it; cass_vector_new also makes     *)
(* types.                                                                   *)
LEMMA ValueStep ==
    ASSUME ValuesInv, Call, Grows(heap, heap'), mine' = mine, column' = column,
           reshaped' = reshaped,
           \E T : values' \in Seq(T),
           \A v \in DOMAIN values' : ValueOK(heap', values'[v])
    PROVE ValuesInv'
<1>2. /\ mine \subseteq DOMAIN heap /\ column \in DOMAIN heap /\ reshaped \in BOOLEAN
      /\ calls \in 0 .. MaxCalls /\ typeCalls \in 0 .. MaxTypeCalls
    BY DEF ValuesInv, TypeOK, Types
<1>3. calls' \in 0 .. MaxCalls /\ typeCalls' \in 0 .. MaxTypeCalls
    BY <1>2, Bounds DEF Call
<1>4. values' \in Seq({values'[v] : v \in DOMAIN values'})
    BY OwnRange
<1>5. Closed(heap') /\ DOMAIN heap \subseteq DOMAIN heap'
    BY DEF Grows
<1> QED
    BY <1>2, <1>3, <1>4, <1>5, Zenon
    DEF ValuesInv, TypeOK, HeapInv, SlotsTyped, Closed, ValueOK, Types

(* The heap stays as it is.                                                 *)
LEMMA GrowsNot ==
    ASSUME NEW h, Closed(h) PROVE Grows(h, h)
BY DEF Grows

(* The records the operators of DataTypes make.                             *)
LEMMA MadeType ==
    ASSUME NEW kind \in {"VALUE"} \cup Compounds, NEW vt \in ValueTypes, NEW sub \in Seq(Nat \ {0}),
           NEW names \in Seq(Names), NEW udt \in (Names \cup {""}) \X (Names \cup {""}), NEW dims \in Nat
    PROVE [kind |-> kind, vt |-> vt, sub |-> sub, names |-> names, udt |-> udt, dims |-> dims]
              \in DataType(Names)
BY DEF DataType

LEMMA NoParts ==
    /\ <<>> \in Seq(Nat \ {0}) /\ <<>> \in Seq(Names)
    /\ <<"", "">> \in (Names \cup {""}) \X (Names \cup {""})
<1>1. <<>> \in Seq(Nat \ {0}) /\ <<>> \in Seq(Names)
    OBVIOUS
<1>2. \A T : \A x, y \in T : <<x, y>> \in T \X T
    OBVIOUS
<1>3. "" \in Names \cup {""}
    OBVIOUS
<1> QED
    BY <1>1, <1>2, <1>3, Zenon

LEMMA MadeTypes ==
    /\ \A vt \in ValueTypes : Value(vt) \in DataType(Names)
    /\ \A vt \in Compounds : Untyped(vt) \in DataType(Names)
    /\ \A t \in Nat \ {0}, d \in Nat : Vector(t, d) \in DataType(Names)
<1>0. Compounds \subseteq ValueTypes /\ "VECTOR" \in Compounds
    BY DEF ValueTypes, Compounds
<1>1. \A t \in Nat \ {0} : <<t>> \in Seq(Nat \ {0})
    OBVIOUS
<1>2. ASSUME NEW vt \in ValueTypes PROVE Value(vt) \in DataType(Names)
    BY MadeType, NoParts DEF Value
<1>3. ASSUME NEW vt \in Compounds PROVE Untyped(vt) \in DataType(Names)
    BY <1>0, MadeType, NoParts DEF Untyped
<1>4. ASSUME NEW t \in Nat \ {0}, NEW d \in Nat PROVE Vector(t, d) \in DataType(Names)
    BY <1>0, <1>1, MadeType, NoParts DEF Vector
<1> QED
    BY <1>2, <1>3, <1>4

-----------------------------------------------------------------------------
(* The calls on types.                                                      *)

LEMMA AllocateInv ==
    ASSUME ValuesInv, NEW type \in DataType(Names), Allocate(type),
           \A i \in DOMAIN type.sub : type.sub[i] \in 1 .. Len(heap) + 1,
           type.kind = "VECTOR" => DOMAIN type.sub = {1} /\ type.dims # 0,
           type.kind = "UDT" => DOMAIN type.names = DOMAIN type.sub
    PROVE ValuesInv'
<1>1. Closed(heap) /\ mine \subseteq DOMAIN heap /\ reshaped \in BOOLEAN
    BY InvParts DEF Types
<1>2. Grows(heap, Append(heap, type))
    BY <1>1, GrowsByNew
<1>3. /\ heap' = Append(heap, type) /\ mine' = mine \cup {Len(heap) + 1}
      /\ TypeCall /\ column' = column /\ values' = values /\ reshaped' = reshaped
    BY DEF Allocate
<1>4. mine' \subseteq DOMAIN heap'
    BY <1>1, <1>3 DEF Closed
<1>5. reshaped' \in BOOLEAN
    BY <1>1, <1>3
<1> QED
    BY <1>2, <1>3, <1>4, <1>5, TypeStep

LEMMA ReshapeInv ==
    ASSUME ValuesInv, TypeCall, NEW t \in mine, NEW type \in DataType(Names), Reshape(t, type),
           type.kind = heap[t].kind, type.dims = heap[t].dims,
           DOMAIN heap[t].sub \subseteq DOMAIN type.sub,
           type.kind = "VECTOR" => DOMAIN type.sub = {1},
           \A i \in DOMAIN type.sub : type.sub[i] \in DOMAIN heap,
           type.kind = "UDT" => DOMAIN type.names = DOMAIN type.sub
    PROVE ValuesInv'
<1>1. Closed(heap) /\ mine \subseteq DOMAIN heap /\ t \in DOMAIN heap
    BY InvParts DEF Types
<1>2. Grows(heap, [heap EXCEPT ![t] = type])
    BY <1>1, GrowsByChange
<1>3. /\ heap' = [heap EXCEPT ![t] = type] /\ mine' = mine
      /\ column' = column /\ values' = values
    BY DEF Reshape
<1>4. reshaped' \in BOOLEAN
    BY Zenon DEF Reshape
<1>5. mine' \subseteq DOMAIN heap'
    BY <1>1, <1>3 DEF Closed
<1> QED
    BY <1>2, <1>3, <1>4, <1>5, TypeStep

(* cass_data_type_new(_tuple, _udt), _new_from_existing and _new_vector.    *)
LEMMA NewTypeInv ==
    ASSUME ValuesInv,
           \/ \E vt \in NewTypes : NewDataType(vt)
           \/ \E t \in Types : NewFromExisting(t)
           \/ \E t \in Types, d \in Dims : NewVectorType(t, d)
    PROVE ValuesInv'
<1>0. Closed(heap)
    BY InvParts
<1>1. ASSUME NEW vt \in NewTypes, NewDataType(vt) PROVE ValuesInv'
  <2>1. vt \in ValueTypes \ {"VECTOR"}
      BY ValuesAssumption, Zenon
  <2>2. New(vt) \in DataType(Names)
      BY <2>1, MadeTypes DEF New, ValueTypes
  <2>3. New(vt).sub = <<>> /\ New(vt).names = <<>> /\ New(vt).kind # "VECTOR"
      BY <2>1 DEF New, Value, Untyped
  <2> DEFINE type == New(vt)
  <2>4. /\ type \in DataType(Names) /\ type.kind # "VECTOR"
        /\ \A i \in DOMAIN type.sub : type.sub[i] \in 1 .. Len(heap) + 1
        /\ DOMAIN type.names = DOMAIN type.sub
      BY <2>2, <2>3
  <2>5. Allocate(type)
      BY <1>1 DEF NewDataType
  <2> HIDE DEF type
  <2> QED
      BY <2>4, <2>5, AllocateInv
<1>2. ASSUME NEW t \in Types, NewFromExisting(t) PROVE ValuesInv'
  <2>1. /\ heap[t] \in DataType(Names)
        /\ \A i \in DOMAIN heap[t].sub : heap[t].sub[i] \in 1 .. Len(heap) + 1
        /\ heap[t].kind = "VECTOR" => DOMAIN heap[t].sub = {1} /\ heap[t].dims # 0
        /\ heap[t].kind = "UDT" => DOMAIN heap[t].names = DOMAIN heap[t].sub
      BY <1>0 DEF Closed, Types
  <2> QED
      BY <1>2, <2>1, AllocateInv DEF NewFromExisting
<1>3. ASSUME NEW t \in Types, NEW d \in Dims, NewVectorType(t, d) PROVE ValuesInv'
  <2>1. d \in Nat /\ d # 0 /\ Allocate(Vector(t, d))
      BY <1>3, ValuesAssumption, Zenon DEF NewVectorType
  <2>2. t \in 1 .. Len(heap) + 1 /\ t \in Nat \ {0}
      BY <1>0 DEF Types, Closed
  <2>3. Vector(t, d) \in DataType(Names)
      BY <2>1, <2>2, MadeTypes
  <2>4. /\ Vector(t, d).sub = <<t>> /\ Vector(t, d).kind = "VECTOR" /\ Vector(t, d).dims = d
        /\ DOMAIN <<t>> = {1} /\ <<t>>[1] = t
      BY DEF Vector
  <2> DEFINE type == Vector(t, d)
  <2>5. /\ type \in DataType(Names) /\ type.kind # "UDT"
        /\ \A i \in DOMAIN type.sub : type.sub[i] \in 1 .. Len(heap) + 1
        /\ DOMAIN type.sub = {1} /\ type.dims # 0
      BY <2>1, <2>2, <2>3, <2>4
  <2>6. Allocate(type)
      BY <2>1
  <2> HIDE DEF type
  <2> QED
      BY <2>5, <2>6, AllocateInv
<1> QED
    BY <1>1, <1>2, <1>3

(* Append, for elements of any kind.                                        *)
LEMMA Appended ==
    ASSUME NEW T, NEW q \in Seq(T), NEW x \in T
    PROVE /\ Append(q, x) \in Seq(T) /\ DOMAIN q = 1 .. Len(q) /\ Len(q) \in Nat
          /\ DOMAIN Append(q, x) = 1 .. Len(q) + 1
          /\ \A i \in DOMAIN q : Append(q, x)[i] = q[i]
          /\ Append(q, x)[Len(q) + 1] = x
OBVIOUS

LEMMA AppendedPlaces ==
    ASSUME NEW T, NEW q \in Seq(T), NEW x \in T, NEW r, r = Append(q, x)
    PROVE /\ DOMAIN q \subseteq DOMAIN r
          /\ \A i \in DOMAIN r : r[i] = x \/ (i \in DOMAIN q /\ r[i] = q[i])
<1>1. \A i \in DOMAIN r : i \in DOMAIN q \/ i = Len(q) + 1
    BY Appended
<1> QED
    BY <1>1, Appended

LEMMA AppendedDomains ==
    ASSUME NEW T, NEW q \in Seq(T), NEW x \in T, NEW r, r = Append(q, x),
           NEW U, NEW p \in Seq(U), NEW y \in U, NEW o, o = Append(p, y),
           DOMAIN q = DOMAIN p
    PROVE DOMAIN r = DOMAIN o
<1>1. Len(q) = Len(p)
    OBVIOUS
<1> QED
    BY <1>1, Appended

(* The parts of a type.                                                     *)
LEMMA Parts ==
    ASSUME NEW type \in DataType(Names)
    PROVE /\ type.kind \in {"VALUE"} \cup Compounds /\ type.vt \in ValueTypes
          /\ type.sub \in Seq(Nat \ {0}) /\ type.names \in Seq(Names) /\ type.dims \in Nat
          /\ type.udt \in (Names \cup {""}) \X (Names \cup {""})
BY DEF DataType

(* What WithSub, WithField, WithKeyspace and WithName make.                 *)
LEMMA ChangedSub ==
    ASSUME NEW type \in DataType(Names), NEW s \in Nat \ {0}
    PROVE WithSub(type, s) \in DataType(Names)
<1>1. Append(type.sub, s) \in Seq(Nat \ {0})
    BY Parts, Appended, Zenon
<1> QED
    BY <1>1, Parts, MadeType DEF WithSub

LEMMA ChangedField ==
    ASSUME NEW type \in DataType(Names), NEW s \in Nat \ {0}, NEW n \in Names
    PROVE WithField(type, n, s) \in DataType(Names)
<1>1. Append(type.sub, s) \in Seq(Nat \ {0}) /\ Append(type.names, n) \in Seq(Names)
    BY Parts, Appended, Zenon
<1> QED
    BY <1>1, Parts, MadeType DEF WithField

LEMMA ChangedNames ==
    ASSUME NEW type \in DataType(Names), NEW n \in Names
    PROVE WithKeyspace(type, n) \in DataType(Names) /\ WithName(type, n) \in DataType(Names)
<1>3. type.udt[1] \in Names \cup {""} /\ type.udt[2] \in Names \cup {""}
    BY Parts
<1>4. \A T : \A x, y \in T : <<x, y>> \in T \X T
    OBVIOUS
<1>5. /\ <<n, type.udt[2]>> \in (Names \cup {""}) \X (Names \cup {""})
      /\ <<type.udt[1], n>> \in (Names \cup {""}) \X (Names \cup {""})
    BY <1>3, <1>4, Zenon
<1> QED
    BY <1>5, Parts, MadeType DEF WithKeyspace, WithName

(* HasRoom: neither a vector nor, here, a UDT.                               *)
LEMMA RoomKind ==
    ASSUME NEW type, HasRoom(type) PROVE type.kind # "VECTOR" /\ type.kind # "UDT"
BY DEF HasRoom

LEMMA AddSubTypeInv ==
    ASSUME ValuesInv, NEW t \in mine, NEW s \in Types, AddSubType(t, s)
    PROVE ValuesInv'
<1> DEFINE type == WithSub(heap[t], s)
<1>1. /\ Closed(heap) /\ t \in DOMAIN heap /\ s \in DOMAIN heap /\ s \in Nat \ {0}
      /\ heap[t] \in DataType(Names)
    BY InvParts DEF Types, Closed
<1>2. /\ type.kind = heap[t].kind /\ type.dims = heap[t].dims
      /\ type.sub = Append(heap[t].sub, s)
    BY DEF WithSub
<1>3. TypeCall /\ Reshape(t, type) /\ HasRoom(heap[t])
    BY DEF AddSubType
<1>4. \A i \in DOMAIN heap[t].sub : heap[t].sub[i] \in DOMAIN heap
    BY <1>1 DEF Closed
<1>5. /\ type \in DataType(Names)
      /\ DOMAIN heap[t].sub \subseteq DOMAIN type.sub
      /\ \A i \in DOMAIN type.sub : type.sub[i] \in DOMAIN heap
  <2>1. type \in DataType(Names)
      BY <1>1, ChangedSub
  <2> HIDE DEF type
  <2>2. heap[t].sub \in Seq(Nat \ {0})
      BY <1>1, Parts, Zenon
  <2>3. /\ DOMAIN heap[t].sub \subseteq DOMAIN type.sub
        /\ \A i \in DOMAIN type.sub :
               type.sub[i] = s \/ (i \in DOMAIN heap[t].sub /\ type.sub[i] = heap[t].sub[i])
      BY <1>1, <1>2, <2>2, AppendedPlaces
  <2> QED
      BY <1>1, <1>4, <2>1, <2>3
<1>6. type.kind # "VECTOR" /\ type.kind # "UDT"
    BY <1>2, <1>3, RoomKind
<1> HIDE DEF type
<1> QED
    BY <1>2, <1>3, <1>5, <1>6, ReshapeInv, Zenon

LEMMA AddSubTypeByNameInv ==
    ASSUME ValuesInv, NEW t \in mine, NEW s \in Types, NEW n \in Names, AddSubTypeByName(t, n, s)
    PROVE ValuesInv'
<1> DEFINE type == WithField(heap[t], n, s)
<1>1. /\ Closed(heap) /\ t \in DOMAIN heap /\ s \in DOMAIN heap /\ s \in Nat \ {0}
      /\ heap[t] \in DataType(Names)
    BY InvParts DEF Types, Closed
<1>2. /\ type.kind = heap[t].kind /\ type.dims = heap[t].dims
      /\ type.sub = Append(heap[t].sub, s)
    BY DEF WithField
<1>3. TypeCall /\ Reshape(t, type) /\ heap[t].kind = "UDT"
    BY DEF AddSubTypeByName
<1>4. /\ \A i \in DOMAIN heap[t].sub : heap[t].sub[i] \in DOMAIN heap
      /\ DOMAIN heap[t].names = DOMAIN heap[t].sub
    BY <1>1, <1>3 DEF Closed
<1>5. type \in DataType(Names) /\ type.names = Append(heap[t].names, n)
    BY <1>1, ChangedField DEF WithField
<1> HIDE DEF type
<1>6. heap[t].sub \in Seq(Nat \ {0}) /\ heap[t].names \in Seq(Names)
    BY <1>1, Parts, Zenon
<1>7. DOMAIN type.names = DOMAIN type.sub
    BY <1>1, <1>2, <1>4, <1>5, <1>6, AppendedDomains
<1>8. /\ DOMAIN heap[t].sub \subseteq DOMAIN type.sub
      /\ \A i \in DOMAIN type.sub :
             type.sub[i] = s \/ (i \in DOMAIN heap[t].sub /\ type.sub[i] = heap[t].sub[i])
    BY <1>1, <1>2, <1>6, AppendedPlaces
<1>9. \A i \in DOMAIN type.sub : type.sub[i] \in DOMAIN heap
    BY <1>1, <1>4, <1>8
<1> QED
    BY <1>2, <1>3, <1>5, <1>7, <1>8, <1>9, ReshapeInv, Zenon

(* Changing a type and adding one commute.                                  *)
LEMMA Commute ==
    ASSUME NEW T, NEW q \in Seq(T), NEW t \in DOMAIN q, NEW x \in T, NEW y \in T
    PROVE Append([q EXCEPT ![t] = x], y) = [Append(q, y) EXCEPT ![t] = x]
<1> DEFINE l == Append([q EXCEPT ![t] = x], y)
           r == [Append(q, y) EXCEPT ![t] = x]
<1>1. l \in Seq(T) /\ r \in Seq(T) /\ Len(l) = Len(r) /\ Len(l) = Len(q) + 1 /\ Len(q) \in Nat
    OBVIOUS
<1>2. \A i \in 1 .. Len(l) : l[i] = r[i]
  <2>1. ASSUME NEW i \in DOMAIN q PROVE l[i] = r[i]
    <3>1. l[i] = [q EXCEPT ![t] = x][i] /\ Append(q, y)[i] = q[i] /\ i \in DOMAIN Append(q, y)
        OBVIOUS
    <3>2. CASE i = t
        BY <3>1, <3>2
    <3>3. CASE i # t
        BY <3>1, <3>3, Zenon
    <3> QED
        BY <3>2, <3>3
  <2>2. l[Len(q) + 1] = y /\ r[Len(q) + 1] = y
    <3>1. l[Len(q) + 1] = y
        OBVIOUS
    <3>2. Len(q) + 1 # t /\ Append(q, y)[Len(q) + 1] = y /\ Len(q) + 1 \in DOMAIN Append(q, y)
        OBVIOUS
    <3> QED
        BY <3>1, <3>2, Zenon
  <2>3. \A i \in 1 .. Len(l) : i \in DOMAIN q \/ i = Len(q) + 1
      BY <1>1
  <2> HIDE DEF l, r
  <2> QED
      BY <2>1, <2>2, <2>3
<1> HIDE DEF l, r
<1>3. l = r
    BY <1>1, <1>2, SeqEqual, Zenon
<1> QED
    BY <1>3 DEF l, r

(* A subtype of a Value type of its own: the Value type is added, and then  *)
(* the type gets it as its subtype.                                         *)
LEMMA SubValueInv ==
    ASSUME ValuesInv, TypeCall, NEW t \in mine, NEW vt \in SubValueTypes,
           NEW type \in DataType(Names),
           type.kind = heap[t].kind, type.dims = heap[t].dims,
           type.sub = Append(heap[t].sub, Len(heap) + 1), type.kind # "VECTOR",
           type.kind = "UDT" => DOMAIN type.names = DOMAIN type.sub,
           heap' = Append([heap EXCEPT ![t] = type], Value(vt)),
           reshaped' = (reshaped \/ values # <<>>),
           UNCHANGED <<mine, column, values, bound>>
    PROVE ValuesInv'
<1> DEFINE g == Append(heap, Value(vt))
           n == Len(heap) + 1
<1>1. Closed(heap) /\ mine \subseteq DOMAIN heap /\ t \in DOMAIN heap
    BY InvParts DEF Types
<1>2. /\ heap \in Seq(DataType(Names)) /\ heap[t] \in DataType(Names)
      /\ \A i \in DOMAIN heap[t].sub : heap[t].sub[i] \in DOMAIN heap
    BY <1>1 DEF Closed
<1>3. Value(vt) \in DataType(Names)
    BY MadeTypes, ValuesAssumption, Zenon
<1>4. Grows(heap, g)
  <2> DEFINE v == Value(vt)
  <2>1. v \in DataType(Names) /\ v.kind = "VALUE" /\ v.sub = <<>>
      BY <1>3 DEF Value
  <2> HIDE DEF v
  <2>2. Grows(heap, Append(heap, v))
      BY <1>1, <2>1, GrowsByNew
  <2> QED
      BY <2>2 DEF v
<1>5. heap' = [g EXCEPT ![t] = type]
    BY <1>1, <1>2, <1>3, Commute
<1>6. n \in DOMAIN g /\ n \in Nat \ {0} /\ t \in DOMAIN g /\ g[t] = heap[t] /\ DOMAIN heap \subseteq DOMAIN g
    BY <1>1, <1>2, <1>3
<1> HIDE DEF g, n
<1>7. heap[t].sub \in Seq(Nat \ {0}) /\ type.sub = Append(heap[t].sub, n)
    BY <1>2, Parts, Zenon DEF n
<1>8. /\ DOMAIN heap[t].sub \subseteq DOMAIN type.sub
      /\ \A i \in DOMAIN type.sub :
             type.sub[i] = n \/ (i \in DOMAIN heap[t].sub /\ type.sub[i] = heap[t].sub[i])
  <2>1. PICK q : q = heap[t].sub BY Zenon
  <2>2. PICK r : r = type.sub BY Zenon
  <2>3. q \in Seq(Nat \ {0}) /\ n \in Nat \ {0} /\ r = Append(q, n) BY <1>6, <1>7, <2>1, <2>2, Zenon
  <2>4. DOMAIN q \subseteq DOMAIN r BY <2>3, AppendedPlaces
  <2>5. \A i \in DOMAIN r : r[i] = n \/ (i \in DOMAIN q /\ r[i] = q[i])
    BY <2>3, AppendedPlaces
  <2> QED BY <2>1, <2>2, <2>4, <2>5, Zenon
<1>9. \A i \in DOMAIN type.sub : type.sub[i] \in DOMAIN g
    BY <1>2, <1>6, <1>8
<1>10. Grows(g, [g EXCEPT ![t] = type])
  <2>1. Closed(g)
      BY <1>4 DEF Grows
  <2> QED
      BY <2>1, <1>6, <1>8, <1>9, GrowsByChange, Zenon
<1>11. Grows(heap, heap')
    BY <1>4, <1>5, <1>10, GrowsTwice, Zenon
<1>12. mine' \subseteq DOMAIN heap'
    BY <1>1, <1>11 DEF Grows
<1>13. reshaped' \in BOOLEAN
    BY Zenon
<1> QED
    BY <1>11, <1>12, <1>13, TypeStep

LEMMA AddSubValueTypeInv ==
    ASSUME ValuesInv, NEW t \in mine, NEW vt \in SubValueTypes,
           \/ AddSubValueType(t, vt)
           \/ \E n \in Names : AddSubValueTypeByName(t, n, vt)
    PROVE ValuesInv'
<1>1. /\ Closed(heap) /\ t \in DOMAIN heap /\ heap[t] \in DataType(Names)
      /\ Len(heap) + 1 \in Nat \ {0}
    BY InvParts DEF Types, Closed
<1>2. CASE AddSubValueType(t, vt)
  <2> DEFINE type == WithSub(heap[t], Len(heap) + 1)
  <2>1. /\ TypeCall /\ HasRoom(heap[t])
        /\ heap' = Append([heap EXCEPT ![t] = type], Value(vt))
        /\ reshaped' = (reshaped \/ values # <<>>)
        /\ UNCHANGED <<mine, column, values, bound>>
      BY <1>2, Zenon DEF AddSubValueType
  <2>2. /\ type.kind = heap[t].kind /\ type.dims = heap[t].dims
        /\ type.sub = Append(heap[t].sub, Len(heap) + 1) /\ type \in DataType(Names)
    <3>1. type \in DataType(Names)
        BY <1>1, ChangedSub
    <3> QED
        BY <3>1 DEF WithSub
  <2>3. type.kind # "VECTOR" /\ type.kind # "UDT"
      BY <2>1, <2>2, RoomKind
  <2> HIDE DEF type
  <2> QED
      BY <2>1, <2>2, <2>3, SubValueInv, Zenon
<1>3. ASSUME NEW n \in Names, AddSubValueTypeByName(t, n, vt) PROVE ValuesInv'
  <2> DEFINE type == WithField(heap[t], n, Len(heap) + 1)
  <2>1. /\ TypeCall /\ heap[t].kind = "UDT"
        /\ heap' = Append([heap EXCEPT ![t] = type], Value(vt))
        /\ reshaped' = (reshaped \/ values # <<>>)
        /\ UNCHANGED <<mine, column, values, bound>>
      BY <1>3, Zenon DEF AddSubValueTypeByName
  <2>2. /\ type.kind = heap[t].kind /\ type.dims = heap[t].dims
        /\ type.sub = Append(heap[t].sub, Len(heap) + 1)
        /\ type.names = Append(heap[t].names, n) /\ type \in DataType(Names)
    <3>1. type \in DataType(Names)
        BY <1>1, ChangedField
    <3> QED
        BY <3>1 DEF WithField
  <2> HIDE DEF type
  <2>3. heap[t].sub \in Seq(Nat \ {0}) /\ heap[t].names \in Seq(Names)
      BY <1>1, Parts, Zenon
  <2>4. DOMAIN heap[t].names = DOMAIN heap[t].sub
      BY <1>1, <2>1 DEF Closed
  <2>5. DOMAIN type.names = DOMAIN type.sub
      BY <1>1, <2>2, <2>3, <2>4, AppendedDomains
  <2>6. type.kind # "VECTOR"
      BY <2>1, <2>2
  <2> QED
      BY <2>1, <2>2, <2>5, <2>6, SubValueInv, Zenon
<1> QED
    BY <1>2, <1>3

(* cass_data_type_set_keyspace(_n) and cass_data_type_set_type_name(_n).    *)
LEMMA NameTypeInv ==
    ASSUME ValuesInv, NEW t \in mine, NEW n \in Names, NameType(t, n)
    PROVE ValuesInv'
<1>1. /\ Closed(heap) /\ t \in DOMAIN heap /\ heap[t] \in DataType(Names)
      /\ TypeCall /\ heap[t].kind = "UDT"
    BY InvParts DEF Types, Closed, NameType
<1>2. /\ \A i \in DOMAIN heap[t].sub : heap[t].sub[i] \in DOMAIN heap
      /\ DOMAIN heap[t].names = DOMAIN heap[t].sub
    BY <1>1 DEF Closed
<1>3. ASSUME NEW type \in DataType(Names), Reshape(t, type), type.kind = heap[t].kind,
             type.dims = heap[t].dims, type.sub = heap[t].sub, type.names = heap[t].names
      PROVE ValuesInv'
    BY <1>1, <1>2, <1>3, ReshapeInv
<1>4. CASE Reshape(t, WithKeyspace(heap[t], n))
  <2> DEFINE type == WithKeyspace(heap[t], n)
  <2>1. /\ type \in DataType(Names) /\ type.kind = heap[t].kind /\ type.dims = heap[t].dims
        /\ type.sub = heap[t].sub /\ type.names = heap[t].names
    <3>1. type \in DataType(Names)
        BY <1>1, ChangedNames
    <3> QED
        BY <3>1 DEF WithKeyspace
  <2> HIDE DEF type
  <2>2. Reshape(t, type)
      BY <1>4 DEF type
  <2> QED
      BY <1>3, <2>1, <2>2
<1>5. CASE Reshape(t, WithName(heap[t], n))
  <2> DEFINE type == WithName(heap[t], n)
  <2>1. /\ type \in DataType(Names) /\ type.kind = heap[t].kind /\ type.dims = heap[t].dims
        /\ type.sub = heap[t].sub /\ type.names = heap[t].names
    <3>1. type \in DataType(Names)
        BY <1>1, ChangedNames
    <3> QED
        BY <3>1 DEF WithName
  <2> HIDE DEF type
  <2>2. Reshape(t, type)
      BY <1>5 DEF type
  <2> QED
      BY <1>3, <2>1, <2>2
<1> QED
    BY <1>4, <1>5 DEF NameType

-----------------------------------------------------------------------------
(* The calls on values.                                                     *)

LEMMA CreateInv ==
    ASSUME ValuesInv, NEW x, Create(x), ValueOK(heap, x)
    PROVE ValuesInv'
<1>1. /\ Closed(heap) /\ values \in Seq({values[v] : v \in DOMAIN values})
      /\ \A v \in DOMAIN values : ValueOK(heap, values[v])
    BY InvParts
<1>2. /\ Call /\ values' = Append(values, x)
      /\ heap' = heap /\ mine' = mine /\ column' = column /\ reshaped' = reshaped
    BY DEF Create
<1>3. (\E T : values' \in Seq(T)) /\ \A v \in DOMAIN values' : ValueOK(heap, values'[v])
    BY <1>1, <1>2, ValuesAppended
<1>4. Grows(heap, heap')
    BY <1>1, <1>2, GrowsNot
<1>5. \A v \in DOMAIN values' : ValueOK(heap', values'[v])
    BY <1>2, <1>3, Zenon
<1> QED
    BY <1>2, <1>3, <1>4, <1>5, ValueStep, Zenon

LEMMA StoreInv ==
    ASSUME ValuesInv, NEW w \in DOMAIN values, NEW items, Store(w, items),
           \/ values[w].kind \in Collections
           \/ DOMAIN items = DOMAIN values[w].items
    PROVE ValuesInv'
<1> DEFINE x == Compound(values[w].kind, values[w].type, items)
<1>1. /\ Closed(heap) /\ values \in Seq({values[v] : v \in DOMAIN values})
      /\ \A v \in DOMAIN values : ValueOK(heap, values[v])
    BY InvParts
<1>2. /\ Call /\ values' = [values EXCEPT ![w] = x]
      /\ heap' = heap /\ mine' = mine /\ column' = column /\ reshaped' = reshaped
    BY DEF Store
<1>3. x.kind = values[w].kind /\ x.type = values[w].type /\ x.items = items
    BY DEF Compound
<1> HIDE DEF x
<1>4. ValueOK(heap, values[w])
    BY <1>1
<1>5. ValueOK(heap, x)
    BY <1>3, <1>4 DEF ValueOK, Collections
<1>6. (\E T : values' \in Seq(T)) /\ \A v \in DOMAIN values' : ValueOK(heap, values'[v])
    BY <1>1, <1>2, <1>5, ValuesStored, Zenon
<1>7. Grows(heap, heap')
    BY <1>1, <1>2, GrowsNot
<1>8. \A v \in DOMAIN values' : ValueOK(heap', values'[v])
    BY <1>2, <1>6, Zenon
<1> QED
    BY <1>2, <1>6, <1>7, <1>8, ValueStep, Zenon

(* cass_collection_new, cass_tuple_new and the four _new_from_data_type.    *)
LEMMA NewValueInv ==
    ASSUME ValuesInv,
           \/ \E kind \in Collections : NewCollection(kind)
           \/ \E n \in TupleSizes : NewTuple(n)
           \/ \E t \in Types : NewFromDataType(t)
    PROVE ValuesInv'
<1>1. ASSUME NEW kind \in Collections, NewCollection(kind) PROVE ValuesInv'
  <2> DEFINE x == Compound(kind, NoType, <<>>)
  <2>1. ValueOK(heap, x)
      BY DEF ValueOK, Compound, NoType, Compounds, Collections
  <2>2. Create(x)
      BY <1>1 DEF NewCollection
  <2> HIDE DEF x
  <2> QED
      BY <2>1, <2>2, CreateInv
<1>2. ASSUME NEW n \in TupleSizes, NewTuple(n) PROVE ValuesInv'
  <2> DEFINE x == Compound("TUPLE", NoType, Slots(n))
  <2>1. ValueOK(heap, x)
      BY DEF ValueOK, Compound, NoType, Compounds
  <2>2. Create(x)
      BY <1>2 DEF NewTuple
  <2> HIDE DEF x
  <2> QED
      BY <2>1, <2>2, CreateInv
<1>3. ASSUME NEW t \in Types, NewFromDataType(t) PROVE ValuesInv'
  <2> DEFINE n == SlotCount(heap[t])
             x == Compound(heap[t].kind, t, Slots(n))
  <2>1. Closed(heap) /\ t \in DOMAIN heap /\ t \in Nat /\ t # NoType /\ heap[t] \in DataType(Names)
      BY InvParts DEF Types, Closed, NoType
  <2>2. heap[t].kind \in Compounds /\ Create(x)
      BY <1>3 DEF NewFromDataType
  <2>3. x.kind = heap[t].kind /\ x.type = t /\ DOMAIN x.items = 1 .. n
      BY DEF Compound, Slots
  <2>4. heap[t].sub \in Seq(Nat \ {0})
      BY <2>1, Parts, Zenon
  <2>5. DOMAIN heap[t].sub = 1 .. Len(heap[t].sub)
      BY <2>4
  <2>6. /\ heap[t].kind = "VECTOR" => n = heap[t].dims
        /\ heap[t].kind \in {"TUPLE", "UDT"} => n = Len(heap[t].sub)
      BY DEF SlotCount
  <2> HIDE DEF x, n
  <2>7. ValueOK(heap, x)
      BY <2>1, <2>2, <2>3, <2>5, <2>6 DEF ValueOK
  <2> QED
      BY <2>2, <2>7, CreateInv
<1> QED
    BY <1>1, <1>2, <1>3

LEMMA AppendedTwice ==
    ASSUME NEW T, NEW q \in Seq(T), NEW x \in T, NEW y \in T
    PROVE q \o <<x, y>> = Append(Append(q, x), y)
<1> DEFINE l == q \o <<x, y>>
           r == Append(Append(q, x), y)
<1>1. l \in Seq(T) /\ r \in Seq(T) /\ Len(l) = Len(r) /\ \A i \in 1 .. Len(l) : l[i] = r[i]
    OBVIOUS
<1> HIDE DEF l, r
<1>2. l = r
    BY <1>1, SeqEqual
<1> QED
    BY <1>2 DEF l, r

(* cass_vector_new: the element type, the vector type and the value.        *)
LEMMA NewNativeVectorInv ==
    ASSUME ValuesInv, NEW vt \in SubValueTypes, NEW d \in Dims, NewNativeVector(vt, d)
    PROVE ValuesInv'
<1> DEFINE n == Len(heap) + 1
           e == Value(vt)
           g == Append(heap, e)
           type == Vector(n, d)
           x == Compound("VECTOR", Len(heap) + 2, Slots(d))
<1>1. /\ Closed(heap) /\ values \in Seq({values[v] : v \in DOMAIN values})
      /\ \A v \in DOMAIN values : ValueOK(heap, values[v])
      /\ heap \in Seq(DataType(Names)) /\ Len(heap) \in Nat
    BY InvParts DEF Closed
<1>2. d \in Nat /\ vt \in ValueTypes
    BY ValuesAssumption, Zenon
<1>3. /\ Call /\ d # 0 /\ heap' = heap \o <<e, type>> /\ values' = Append(values, x)
      /\ mine' = mine /\ column' = column /\ reshaped' = reshaped
    BY DEF NewNativeVector
<1>4. e \in DataType(Names) /\ type \in DataType(Names)
    BY <1>1, <1>2, MadeTypes
<1>5. heap' = Append(g, type)
    BY <1>1, <1>3, <1>4, AppendedTwice
<1>6. Grows(heap, g)
  <2>1. e.kind = "VALUE" /\ e.sub = <<>>
      BY DEF Value
  <2> HIDE DEF e
  <2> QED
      BY <1>1, <1>4, <2>1, GrowsByNew
<1>7. Closed(g) /\ Len(g) = n
    BY <1>1, <1>4, <1>6 DEF Grows
<1>8. /\ type.kind = "VECTOR" /\ type.dims = d /\ DOMAIN type.sub = {1} /\ type.sub[1] = n
    BY DEF Vector
<1>9. /\ x.kind = "VECTOR" /\ x.type = Len(heap) + 2 /\ DOMAIN x.items = 1 .. d
    BY DEF Compound, Slots
<1>10. Grows(g, heap')
  <2> HIDE DEF g, type
  <2>1. \A i \in DOMAIN type.sub : type.sub[i] \in 1 .. Len(g) + 1
      BY <1>1, <1>7, <1>8
  <2>2. type.kind # "UDT"
      BY <1>8
  <2> QED
      BY <1>3, <1>4, <1>5, <1>7, <1>8, <2>1, <2>2, GrowsByNew, Zenon
<1>11. Grows(heap, heap')
    BY <1>6, <1>10, GrowsTwice
<1>12. Len(heap) + 2 \in DOMAIN heap' /\ heap'[Len(heap) + 2] = type
  <2> HIDE DEF g, type
  <2>1. g \in Seq(DataType(Names))
      BY <1>7 DEF Closed
  <2> QED
      BY <1>1, <1>4, <1>5, <1>7, <2>1
<1>13. ValueOK(heap', x)
  <2> HIDE DEF x, type
  <2> QED
      BY <1>1, <1>8, <1>9, <1>12 DEF ValueOK, NoType, Compounds
<1>14. \A v \in DOMAIN values : ValueOK(heap', values[v])
    BY <1>1, <1>11, GrowsKeeps
<1>15. (\E T : values' \in Seq(T)) /\ \A v \in DOMAIN values' : ValueOK(heap', values'[v])
  <2> HIDE DEF x
  <2> QED
      BY <1>1, <1>3, <1>13, <1>14, ValuesAppended, Zenon
<1> QED
    BY <1>3, <1>11, <1>15, ValueStep, Zenon

(* The setters and appenders keep the number of slots of a tuple, a UDT and *)
(* a vector.                                                                *)
LEMMA SetterInv ==
    ASSUME ValuesInv, NEW v \in DOMAIN values, NEW x,
           \/ AppendItem(v, x)
           \/ \E i \in 1 .. MaxItems : SetItem(v, i, x)
           \/ \E n \in Names : SetFieldByName(v, n, x)
    PROVE ValuesInv'
<1>1. CASE AppendItem(v, x)
    BY <1>1, StoreInv DEF AppendItem
<1>2. ASSUME NEW i \in 1 .. MaxItems, SetItem(v, i, x) PROVE ValuesInv'
  <2>1. DOMAIN [values[v].items EXCEPT ![i] = x] = DOMAIN values[v].items
      OBVIOUS
  <2>2. Store(v, [values[v].items EXCEPT ![i] = x])
      BY <1>2 DEF SetItem
  <2> QED
      BY <2>1, <2>2, StoreInv
<1>3. ASSUME NEW n \in Names, SetFieldByName(v, n, x) PROVE ValuesInv'
  <2>1. PICK set : Store(v, [i \in DOMAIN values[v].items |-> IF i \in set THEN x ELSE values[v].items[i]])
      BY <1>3, Zenon DEF SetFieldByName
  <2> DEFINE items == [i \in DOMAIN values[v].items |-> IF i \in set THEN x ELSE values[v].items[i]]
  <2>2. DOMAIN items = DOMAIN values[v].items /\ Store(v, items)
      BY <2>1
  <2> HIDE DEF items
  <2> QED
      BY <2>2, StoreInv
<1> QED
    BY <1>1, <1>2, <1>3

LEMMA BindInv ==
    ASSUME ValuesInv, NEW w \in DOMAIN values, Bind(w)
    PROVE ValuesInv'
<1>1. /\ Closed(heap) /\ values \in Seq({values[v] : v \in DOMAIN values})
      /\ \A v \in DOMAIN values : ValueOK(heap, values[v])
    BY InvParts
<1>2. Call /\ UNCHANGED <<heap, mine, column, values, reshaped>>
    BY DEF Bind
<1>3. Grows(heap, heap')
    BY <1>1, <1>2, GrowsNot
<1>4. (\E T : values' \in Seq(T)) /\ \A v \in DOMAIN values' : ValueOK(heap', values'[v])
    BY <1>1, <1>2, Zenon
<1> QED
    BY <1>2, <1>3, <1>4, ValueStep, Zenon

-----------------------------------------------------------------------------
(* In every state the program can reach the types are closed and every slot *)
(* of a typed tuple, UDT or vector has a subtype to be checked against: the *)
(* setters of tuple.rs, user_type.rs and vector.rs never index past the end *)
(* of the subtypes, however the types were changed in between.              *)
THEOREM ValuesInvariant == Spec => []ValuesInv
<1>1. Init => ValuesInv
  <2> SUFFICES ASSUME Init PROVE ValuesInv
      OBVIOUS
  <2>1. PICK s \in Starts : heap = s.heap /\ column = s.column /\ mine = s.mine
      BY DEF Init
  <2>2. Closed(heap) /\ column \in DOMAIN heap /\ mine \subseteq DOMAIN heap
      BY <2>1, ValuesAssumption, Zenon DEF Closed
  <2>3. values = <<>> /\ reshaped = FALSE /\ calls = 0 /\ typeCalls = 0
      BY Zenon DEF Init
  <2>4. values \in Seq({values[v] : v \in DOMAIN values}) /\ DOMAIN values = {}
      BY <2>3
  <2>5. reshaped \in BOOLEAN
      BY <2>3, Zenon
  <2>6. calls \in 0 .. MaxCalls /\ typeCalls \in 0 .. MaxTypeCalls
      BY <2>3, Bounds
  <2>7. \A v \in DOMAIN values : ValueOK(heap, values[v])
      BY <2>4
  <2> QED
      BY <2>2, <2>4, <2>5, <2>6, <2>7, InvParts, Zenon DEF Types
<1>2. ValuesInv /\ [Next]_vars => ValuesInv'
  <2> SUFFICES ASSUME ValuesInv, [Next]_vars PROVE ValuesInv'
      OBVIOUS
  <2>1. CASE UNCHANGED vars
      BY <2>1, Zenon DEF vars, ValuesInv, TypeOK, HeapInv, SlotsTyped, Types
  <2>2. CASE \/ \E vt \in NewTypes : NewDataType(vt)
             \/ \E t \in Types : NewFromExisting(t)
             \/ \E t \in Types, d \in Dims : NewVectorType(t, d)
      BY <2>2, NewTypeInv
  <2>3. CASE \/ \E kind \in Collections : NewCollection(kind)
             \/ \E n \in TupleSizes : NewTuple(n)
             \/ \E t \in Types : NewFromDataType(t)
      BY <2>3, NewValueInv
  <2>4. ASSUME NEW t \in mine, NEW s \in Types,
               AddSubType(t, s) \/ \E n \in Names : AddSubTypeByName(t, n, s)
        PROVE ValuesInv'
      BY <2>4, AddSubTypeInv, AddSubTypeByNameInv
  <2>5. ASSUME NEW t \in mine, NEW vt \in SubValueTypes,
               \/ AddSubValueType(t, vt)
               \/ \E n \in Names : AddSubValueTypeByName(t, n, vt)
        PROVE ValuesInv'
      BY <2>5, AddSubValueTypeInv
  <2>6. ASSUME NEW t \in mine, NEW n \in Names, NameType(t, n) PROVE ValuesInv'
      BY <2>6, NameTypeInv
  <2>7. ASSUME NEW vt \in SubValueTypes, NEW d \in Dims, NewNativeVector(vt, d) PROVE ValuesInv'
      BY <2>7, NewNativeVectorInv
  <2>8. ASSUME NEW v \in DOMAIN values, NEW x,
               \/ AppendItem(v, x)
               \/ \E i \in 1 .. MaxItems : SetItem(v, i, x)
               \/ \E n \in Names : SetFieldByName(v, n, x)
        PROVE ValuesInv'
      BY <2>8, SetterInv
  <2>9. ASSUME NEW v \in DOMAIN values, Bind(v) PROVE ValuesInv'
      BY <2>9, BindInv
  <2> QED
      BY <2>1, <2>2, <2>3, <2>4, <2>5, <2>6, <2>7, <2>8, <2>9, Zenon DEF Next
<1> QED
    BY <1>1, <1>2, PTL DEF Spec
=============================================================================
