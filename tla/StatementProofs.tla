--------------------------- MODULE StatementProofs ---------------------------
(***************************************************************************)
(* The names of a simple statement always have slots of their own, and its *)
(* row has the values bound to those names, for any query, any number of   *)
(* parameters and any sequence of calls.  The metadata of the results of a *)
(* prepared one is right for any number of concurrent requests and any     *)
(* reuse of memory.                                                        *)
(***************************************************************************)
EXTENDS Binding, ResultMetadata, FiniteSetTheorems, TLAPS

USE BindingAssumption

(* What a new statement looks like.                                          *)
LEMMA FreshInv ==
    ASSUME NEW count \in 0 .. MaxCount, bound = AllUnset(count), index = NoNames
    PROVE /\ bound \in Seq(Slot) /\ Len(bound) = count
          /\ DOMAIN index = {} /\ IsFiniteSet(DOMAIN index)
          /\ Cardinality(DOMAIN index) = 0
    BY FS_EmptySet DEF AllUnset, NoNames, Slot

(* Binding by name uses a slot no other name has.                            *)
LEMMA BindNameInv ==
    ASSUME BindInv, NEW n \in Names, NEW v \in Values \cup {Null},
           BindSimpleByName(n, v)
    PROVE BindInv'
<1> USE DEF BindInv
<1> DEFINE i == SlotOf(n)
<1>0. Cardinality(DOMAIN index) \in Nat
    BY FS_CardinalityType
<1>1. CASE i > Len(bound)
  <2>1. UNCHANGED <<kind, bound, index, history, batch>> /\ calls' \in 0 .. MaxCalls
    <3>1. i \in Nat
        BY <1>0 DEF SlotOf, TypeOK
    <3> QED
        BY <1>1, <3>1 DEF BindSimpleByName, history, TypeOK, Call
  <2> QED
      BY <2>1 DEF TypeOK, SlotInv, history
<1>2. CASE i <= Len(bound)
  <2>1. i \in 1 .. Len(bound)
      BY <1>0, <1>2 DEF SlotOf, TypeOK
  <2>2. /\ index' = [m \in DOMAIN index \cup {n} |-> IF m = n THEN i ELSE index[m]]
        /\ bound' = [bound EXCEPT ![i] = v]
        /\ asked' = [asked EXCEPT ![n] = v]
        /\ UNCHANGED <<kind, meant, byIndex, offered, batch>>
        /\ calls' \in 0 .. MaxCalls
      BY <2>1 DEF BindSimpleByName, TypeOK, Call
  <2>3. bound' \in Seq(Slot) /\ Len(bound') = Len(bound)
      BY <2>1, <2>2 DEF TypeOK, Slot
  <2>4. TypeOK'
      BY <2>1, <2>2, <2>3 DEF TypeOK, Slot
  <2>5. /\ IsFiniteSet(DOMAIN index')
        /\ Cardinality(DOMAIN index') = IF n \in DOMAIN index THEN Cardinality(DOMAIN index)
                                        ELSE Cardinality(DOMAIN index) + 1
      BY <2>2, FS_AddElement
  <2>6. SlotInv'
    <3>1. /\ Cardinality(DOMAIN index') <= Len(bound')
          /\ \A m \in DOMAIN index' : index'[m] <= Cardinality(DOMAIN index')
      <4>1. CASE n \in DOMAIN index
        <5>1. i = index[n] /\ DOMAIN index' = DOMAIN index
              /\ \A m \in DOMAIN index' : index'[m] = index[m]
            BY <4>1, <2>2, Zenon DEF SlotOf
        <5> QED
            BY <4>1, <5>1, <2>3, <2>5 DEF SlotInv
      <4>2. CASE n \notin DOMAIN index
        <5>1. /\ i = Cardinality(DOMAIN index) + 1 /\ i = Cardinality(DOMAIN index')
              /\ \A m \in DOMAIN index' : m = n \/ (m \in DOMAIN index /\ index'[m] = index[m])
              /\ index'[n] = i
            BY <4>2, <2>2, <2>5 DEF SlotOf
        <5>2. \A m \in DOMAIN index : index[m] \in Nat /\ index[m] <= Cardinality(DOMAIN index)
            BY DEF SlotInv, TypeOK
        <5>3. ASSUME NEW m \in DOMAIN index' PROVE index'[m] <= Cardinality(DOMAIN index')
            BY <5>1, <5>2, <1>0, <2>1
        <5> QED
            BY <5>1, <5>3, <2>1, <2>3
      <4> QED
          BY <4>1, <4>2
    <3>2. \A m, k \in DOMAIN index' : index'[m] = index'[k] => m = k
        BY <1>0, <2>1, <2>2 DEF SlotInv, SlotOf, TypeOK
    <3>3. ~byIndex' => \A m \in DOMAIN index' : bound'[index'[m]] = asked'[m]
      <4> SUFFICES ASSUME ~byIndex, NEW m \in DOMAIN index' PROVE bound'[index'[m]] = asked'[m]
          BY <2>2, Zenon
      <4>1. CASE m = n
          BY <4>1, <2>1, <2>2 DEF TypeOK
      <4>2. CASE m # n
        <5>1. m \in DOMAIN index /\ index'[m] = index[m] /\ index[m] # i
            BY <4>2, <1>0, <2>2 DEF SlotInv, SlotOf, TypeOK
        <5>2. bound[index[m]] = asked[m]
            BY <5>1 DEF SlotInv
        <5>3. index[m] \in 1 .. Len(bound)
            BY <5>1, <1>0 DEF SlotInv, TypeOK
        <5> QED
            BY <4>2, <5>1, <5>2, <5>3, <2>1, <2>2 DEF TypeOK
      <4> QED
          BY <4>1, <4>2
    <3> QED
        BY <3>1, <3>2, <3>3, <2>2, Zenon DEF SlotInv, BindSimpleByName
  <2> QED
      BY <2>4, <2>5, <2>6
<1> QED
  <2>1. i \in Nat /\ Len(bound) \in Nat
      BY <1>0 DEF SlotOf, TypeOK
  <2> QED
      BY <1>1, <1>2, <2>1

(* Prepared statements have no names.                                        *)
LEMMA OtherInv ==
    ASSUME BindInv, NEW v \in Values \cup {Null},
           \/ \E i \in 1 .. MaxCount + 1 : BindByIndex(i, v)
           \/ \E n \in Names, quoted \in BOOLEAN : BindPreparedByName(n, quoted, v)
           \/ AddStatement
    PROVE BindInv'
<1> USE DEF BindInv
<1>1. ASSUME NEW i \in 1 .. MaxCount + 1, BindByIndex(i, v) PROVE BindInv'
  <2>1. /\ bound' \in Seq(Slot) /\ Len(bound') = Len(bound)
        /\ meant' \in [Cols -> Slot] /\ offered' \in [Cols -> SUBSET Slot]
        /\ UNCHANGED <<kind, index, asked, batch>> /\ calls' \in 0 .. MaxCalls
    <3>1. UNCHANGED <<kind, index, asked, batch>> /\ calls' \in 0 .. MaxCalls
        BY <1>1 DEF BindByIndex, TypeOK, Call
    <3>2. CASE Bindable(i, v)
      <4>1. i \in 1 .. Len(bound) /\ v \in Slot
          BY <3>2 DEF Bindable, TypeOK, Slot
      <4>2. /\ bound' = [bound EXCEPT ![i] = v]
            /\ meant' = [c \in Cols |-> IF c = i THEN v ELSE meant[c]]
            /\ offered' = [c \in Cols |-> IF c = i THEN {} ELSE offered[c]]
          BY <1>1, <3>2 DEF BindByIndex
      <4> QED
          BY <3>1, <4>1, <4>2 DEF TypeOK
    <3>3. CASE ~Bindable(i, v)
      <4>1. UNCHANGED <<bound, meant, offered>>
          BY <1>1, <3>3 DEF BindByIndex
      <4> QED
          BY <3>1, <4>1 DEF TypeOK
    <3> QED
        BY <3>2, <3>3
  <2>2. byIndex' /\ byIndex' \in BOOLEAN
      BY <1>1, Zenon DEF BindByIndex
  <2>3. TypeOK'
      BY <2>1, <2>2 DEF TypeOK
  <2> QED
      BY <2>1, <2>2, <2>3 DEF SlotInv
<1>2. ASSUME NEW n \in Names, NEW quoted \in BOOLEAN, BindPreparedByName(n, quoted, v)
      PROVE BindInv'
  <2>1. DOMAIN index = {}
      BY <1>2 DEF BindPreparedByName, SlotInv
  <2>2. UNCHANGED <<kind, index, asked, byIndex, batch>> /\ calls' \in 0 .. MaxCalls
      BY <1>2 DEF BindPreparedByName, Call, TypeOK
  <2>3. bound' \in Seq(Slot) /\ Len(bound') = Len(bound)
    <3> DEFINE all == Matches(n, quoted)
               done == {i \in all : \A j \in all : j <= i => Bindable(j, v)}
               new == [i \in 1 .. Len(bound) |-> IF i \in done THEN v ELSE bound[i]]
    <3>1. bound' = new
        BY <1>2 DEF BindPreparedByName, TypeOK
    <3>2. \A i \in 1 .. Len(bound) : new[i] \in Slot
        BY DEF TypeOK, Slot
    <3> HIDE DEF done
    <3> QED
        BY <3>1, <3>2 DEF TypeOK
  <2>4. meant' \in [Cols -> Slot]
      BY <1>2 DEF BindPreparedByName, TypeOK, Slot
  <2>5. offered' \in [Cols -> SUBSET Slot]
    <3>1. \A c \in Cols : offered[c] \in SUBSET Slot /\ offered[c] \cup {v} \in SUBSET Slot
        BY DEF TypeOK, Slot
    <3> QED
        BY <1>2, <3>1, Zenon DEF BindPreparedByName
  <2>6. TypeOK'
      BY <2>2, <2>3, <2>4, <2>5 DEF TypeOK
  <2> QED
      BY <2>1, <2>2, <2>3, <2>6 DEF SlotInv
<1>3. CASE AddStatement
    BY <1>3 DEF AddStatement, TypeOK, Call, SlotInv, history
<1> QED
    BY <1>1, <1>2, <1>3

(* The invariant holds in every reachable state.                             *)
THEOREM BindingInvariant == Spec => []BindInv
<1>1. Init => BindInv
  <2> SUFFICES ASSUME Init PROVE BindInv
      OBVIOUS
  <2>1. PICK count \in 0 .. MaxCount : bound = AllUnset(count)
      BY DEF Init
  <2>2. /\ bound \in Seq(Slot) /\ Len(bound) = count
        /\ DOMAIN index = {} /\ IsFiniteSet(DOMAIN index)
        /\ Cardinality(DOMAIN index) = 0
      BY <2>1, FreshInv DEF Init
  <2>3. byIndex \in BOOLEAN
      BY Zenon DEF Init
  <2>4. TypeOK
      BY <2>2, <2>3 DEF Init, TypeOK, Slot
  <2> QED
      BY <2>2, <2>4 DEF BindInv, SlotInv
<1>2. BindInv /\ [Next]_vars => BindInv'
  <2> SUFFICES ASSUME BindInv, [Next]_vars PROVE BindInv'
      OBVIOUS
  <2>1. ASSUME NEW count \in 0 .. MaxCount, ResetParameters(count) PROVE BindInv'
    <3>1. /\ bound' \in Seq(Slot) /\ Len(bound') = count
          /\ DOMAIN index' = {} /\ IsFiniteSet(DOMAIN index')
          /\ Cardinality(DOMAIN index') = 0
        BY <2>1, FS_EmptySet DEF ResetParameters, AllUnset, NoNames, Slot
    <3>2. /\ UNCHANGED <<kind, batch>> /\ calls' \in 0 .. MaxCalls
          /\ asked' \in [Names -> Slot] /\ meant' \in [Cols -> Slot]
          /\ offered' \in [Cols -> SUBSET Slot]
        BY <2>1 DEF ResetParameters, BindInv, TypeOK, Call, Slot
    <3>3. byIndex' \in BOOLEAN
        BY <2>1, Zenon DEF ResetParameters
    <3>4. TypeOK'
        BY <3>1, <3>2, <3>3 DEF BindInv, TypeOK
    <3> QED
        BY <3>1, <3>4 DEF BindInv, SlotInv
  <2>2. CASE UNCHANGED vars
      BY <2>2 DEF vars, BindInv, TypeOK, SlotInv
  <2>3. CASE AddStatement
      BY <2>3, OtherInv
  <2> QED
      BY <2>1, <2>2, <2>3, BindNameInv, OtherInv DEF Next, BindByName
<1> QED
    BY <1>1, <1>2, PTL DEF Spec

(* Every name of a simple statement has a slot of its own.                   *)
THEOREM SlotsForNames == Spec => []NamesHaveSlots
<1>1. BindInv => NamesHaveSlots
  <2> SUFFICES ASSUME BindInv, NEW n \in DOMAIN index PROVE index[n] \in DOMAIN bound
      BY DEF BindInv, SlotInv, NamesHaveSlots
  <2>1. Cardinality(DOMAIN index) \in Nat
      BY FS_CardinalityType DEF BindInv
  <2>2. index[n] \in 1 .. Len(bound)
      BY <2>1 DEF BindInv, SlotInv, TypeOK
  <2> QED
      BY <2>2 DEF BindInv, TypeOK
<1> QED
    BY <1>1, BindingInvariant, PTL

(* A statement bound by name sends each name's value for that name's marker. *)
THEOREM RowByName == Spec => []NamedRow
<1>1. BindInv => NamedRow
  <2> SUFFICES ASSUME BindInv, kind = "Simple", ~byIndex, DOMAIN index # {}, Row # Error,
                      NEW i \in Cols
               PROVE Row[i] = asked[Columns[i].name]
      BY DEF NamedRow
  <2>1. Columns[i].name \in DOMAIN index /\ Row[i] = bound[index[Columns[i].name]]
      BY DEF Row
  <2> QED
      BY <2>1 DEF BindInv, SlotInv
<1> QED
    BY <1>1, BindingInvariant, PTL

(* What prepared statements hold.                                            *)
LEMMA PreparedStep ==
    ASSUME BindInv, PreparedTyped, PreparedAsAsked, [Next]_vars
    PROVE PreparedTyped' /\ PreparedAsAsked'
<1> DEFINE Kept == PreparedTyped' /\ PreparedAsAsked'
<1> USE DEF PreparedTyped, PreparedAsAsked
<1>1. ASSUME NEW i \in 1 .. MaxCount + 1, NEW v \in Values \cup {Null}, BindByIndex(i, v)
      PROVE Kept
  <2>1. UNCHANGED kind
      BY <1>1 DEF BindByIndex
  <2>2. CASE Bindable(i, v)
    <3>1. /\ bound' = [bound EXCEPT ![i] = v] /\ i \in DOMAIN bound
          /\ meant' = [c \in Cols |-> IF c = i THEN v ELSE meant[c]]
          /\ offered' = [c \in Cols |-> IF c = i THEN {} ELSE offered[c]]
        BY <1>1, <2>2 DEF BindByIndex, Bindable
    <3> QED
        BY <2>1, <2>2, <3>1 DEF Bindable, BindInv, TypeOK
  <2>3. CASE ~Bindable(i, v)
      BY <1>1, <2>1, <2>3 DEF BindByIndex
  <2> QED
      BY <2>2, <2>3
<1>2. ASSUME NEW n \in Names, NEW v \in Values \cup {Null}, BindSimpleByName(n, v)
      PROVE Kept
    BY <1>2 DEF BindSimpleByName
<1>3. ASSUME NEW n \in Names, NEW quoted \in BOOLEAN, NEW v \in Values \cup {Null},
             BindPreparedByName(n, quoted, v)
      PROVE Kept
  <2> DEFINE all == Matches(n, quoted)
             done == {i \in all : \A j \in all : j <= i => Bindable(j, v)}
  <2>1. /\ bound' = [i \in DOMAIN bound |-> IF i \in done THEN v ELSE bound[i]]
        /\ meant' = [c \in Cols |-> IF all = done /\ SameName(Columns[c].name, n, quoted)
                                   THEN v ELSE meant[c]]
        /\ offered' = [c \in Cols |->
               IF ~SameName(Columns[c].name, n, quoted) THEN offered[c]
               ELSE IF all = done THEN {}
               ELSE IF is_type_compatible(v, Columns[c].type) THEN offered[c] \cup {v}
               ELSE offered[c]]
        /\ UNCHANGED kind /\ kind = "Prepared"
      BY <1>3 DEF BindPreparedByName
  <2>2. /\ \A i \in done : i \in all /\ Bindable(i, v)
        /\ \A i \in Cols : i \in all <=> SameName(Columns[i].name, n, quoted)
    <3>1. \A i \in Cols : i \in all <=> SameName(Columns[i].name, n, quoted)
        BY Zenon DEF Matches
    <3>2. \A i \in all : i \in Cols
        BY Zenon DEF Matches
    <3>3. \A i \in Cols : i \in Nat /\ i <= i
        BY DEF Cols
    <3> HIDE DEF all
    <3> QED
        BY <3>1, <3>2, <3>3, Zenon
  <2> HIDE DEF done, all
  <2>3. PreparedTyped'
      BY <2>1, <2>2 DEF Bindable
  <2>4. PreparedAsAsked'
    <3> SUFFICES ASSUME NEW i \in DOMAIN bound, i \in Cols
                 PROVE bound'[i] \in {meant'[i]} \cup offered'[i]
        BY <2>1
    <3>1. bound[i] \in {meant[i]} \cup offered[i]
        BY <2>1
    <3>2. CASE i \in done
      <4>1. bound'[i] = v /\ i \in all /\ is_type_compatible(v, Columns[i].type)
          BY <3>2, <2>1, <2>2 DEF Bindable
      <4> QED
          BY <4>1, <2>1, <2>2
    <3>3. CASE i \notin done
        BY <3>1, <3>3, <2>1, <2>2
    <3> QED
        BY <3>2, <3>3
  <2> QED
      BY <2>1, <2>3, <2>4
<1>4. ASSUME NEW count \in 0 .. MaxCount, ResetParameters(count) PROVE Kept
    BY <1>4 DEF ResetParameters, AllUnset
<1>5. CASE AddStatement
    BY <1>5 DEF AddStatement, history
<1>6. CASE UNCHANGED vars
    BY <1>6 DEF vars
<1> HIDE DEF Kept
<1> QED
    BY <1>1, <1>2, <1>3, <1>4, <1>5, <1>6 DEF Next, BindByName, Kept

(* A prepared statement holds what the last binds meant, or failed ones left, *)
(* never in a column of another type.                                        *)
THEOREM PreparedHolds == Spec => [](PreparedTyped /\ PreparedAsAsked)
<1>1. Init => PreparedTyped /\ PreparedAsAsked
    BY DEF Init, PreparedTyped, PreparedAsAsked, AllUnset
<1> QED
    BY <1>1, PreparedStep, BindingInvariant, PTL DEF Spec

(* However binds by index, binds by name and resets follow each other        *)
(* (CassStatement::bind_cql_value, bind_cql_value_by_name), a prepared        *)
(* statement holds for each column what was meant for it, or what a bind by   *)
(* name that failed later had for a column of that name, of its type.        *)
THEOREM PreparedColumns == Spec => []PreparedExact
<1>1. PreparedTyped /\ PreparedAsAsked => PreparedExact BY DEF PreparedExact
<1> QED BY <1>1, PreparedHolds, PTL

-----------------------------------------------------------------------------
USE MetadataAssumption

(* Every step of a request preserves the invariant.                          *)
LEMMA MetadataStep ==
    ASSUME MetadataInv, NEW r \in Requests, Step(r)
    PROVE MetadataInv'
<1> USE DEF MetadataInv, MetadataTypeOK, CachePaired, MetadataOfRows
<1>1. CASE Send(r)
    BY <1>1 DEF Send
<1>2. CASE RespondCached(r)
    BY <1>2 DEF RespondCached
<1>3. ASSUME NEW a \in Addresses, NEW s \in Specs, RespondChanged(r, a, s)
      PROVE MetadataInv'
  <2>1. MetadataTypeOK'
      BY <1>3 DEF RespondChanged
  <2>2. CachePaired'
      BY <1>3 DEF RespondChanged, Live
  <2>3. MetadataOfRows'
      BY <1>3 DEF RespondChanged, Live
  <2> QED
      BY <2>1, <2>2, <2>3
<1>4. CASE FetchCurrent(r)
    BY <1>4 DEF FetchCurrent
<1>5. CASE CheckCache(r)
    BY <1>5 DEF CheckCache
<1>6. CASE StoreCache(r)
    BY <1>6 DEF StoreCache
<1>7. CASE GetMetadata(r)
    BY <1>7 DEF GetMetadata
<1>8. CASE FreeResult(r)
    BY <1>8 DEF FreeResult
<1> HIDE DEF MetadataInv
<1> QED
    BY <1>1, <1>2, <1>3, <1>4, <1>5, <1>6, <1>7, <1>8 DEF Step

(* The invariant holds in every reachable state.                             *)
THEOREM MetadataInvariant == MetadataSpec => []MetadataInv
<1>1. MetadataInit => MetadataInv
    BY DEF MetadataInit, MetadataInv, MetadataTypeOK, CachePaired, MetadataOfRows
<1>2. MetadataInv /\ [MetadataNext]_metadataVars => MetadataInv'
  <2>1. CASE UNCHANGED metadataVars
      BY <2>1 DEF metadataVars, MetadataInv, MetadataTypeOK, CachePaired, MetadataOfRows
  <2> QED
      BY <2>1, MetadataStep DEF MetadataNext
<1> QED
    BY <1>1, <1>2, PTL DEF MetadataSpec

(* Rows are read with the metadata of the specifications they came with.     *)
THEOREM RightMetadata == MetadataSpec => []MetadataOfRows
    BY MetadataInvariant, PTL DEF MetadataInv

(* The cached metadata is the one of the guard stored with it.               *)
THEOREM CacheStaysPaired == MetadataSpec => []CachePaired
    BY MetadataInvariant, PTL DEF MetadataInv
=============================================================================
