-------------------------- MODULE SchemaMetaProofs --------------------------
(***************************************************************************)
(* Lemmas about SchemaMeta.  Every map of a snapshot has an object of its  *)
(* own name for each name of the server's schema, and one order; so an     *)
(* iterator that goes through the positions of its map shows each once.    *)
(* The columns of a table fall in the two keys and the rest, and the rest  *)
(* can be sorted; so going through the indices shows each column once.     *)
(* ReadingProofs derives the theorems from them.                           *)
(***************************************************************************)
EXTENDS SchemaMeta, FiniteSetTheorems, SequenceTheorems, TLAPS

(* A sequence that grows along another one.                                 *)
LEMMA FirstAppend ==
  ASSUME NEW K, NEW n \in Nat, NEW o \in [1 .. n -> K], NEW g \in Nat, g + 1 <= n
  PROVE  Append([j \in 1 .. g |-> o[j]], o[g + 1]) = [j \in 1 .. g + 1 |-> o[j]]
<1> DEFINE s == [j \in 1 .. g |-> o[j]]  t == [j \in 1 .. g + 1 |-> o[j]]  e == o[g + 1]
<1>1. s \in Seq(K) /\ t \in Seq(K) /\ e \in K /\ Len(s) = g /\ Len(t) = g + 1 OBVIOUS
<1>2. (\A j \in 1 .. g : t[j] = s[j]) /\ t[g + 1] = e OBVIOUS
<1> HIDE DEF s, t, e
<1> DEFINE w == Append(s, e)
<1>3. /\ w \in Seq(K) /\ Len(w) = g + 1
      /\ \A j \in 1 .. g : w[j] = s[j]
      /\ w[g + 1] = e
  BY <1>1, AppendProperties
<1> HIDE DEF w
<1>4. \A j \in 1 .. Len(w) : w[j] = t[j] BY <1>2, <1>3
<1>5. w = t BY <1>1, <1>3, <1>4, SeqEqual
<1> QED BY <1>5 DEF w, s, t, e

LEMMA OrderFacts ==
  ASSUME NEW K, IsFiniteSet(K), NEW o \in Orders(K)
  PROVE  /\ Cardinality(K) \in Nat
         /\ o \in [1 .. Cardinality(K) -> K]
         /\ \A a, b \in 1 .. Cardinality(K) : o[a] = o[b] => a = b
         /\ \A k \in K : \E j \in 1 .. Cardinality(K) : o[j] = k
<1>1. Cardinality(K) \in Nat BY FS_CardinalityType
<1> QED BY <1>1 DEF Orders, Bijection, Injection, Surjection, IsInjective

(* The copy of a keyspace has an object for each of its objects.            *)
LEMMA TableCopied ==
  ASSUME NEW name, NEW table
  PROVE  LET t == create_table_metadata(name, table)
         IN  /\ t.name = name
             /\ DOMAIN t.columns_metadata = DOMAIN table.columns
             /\ \A c \in DOMAIN table.columns : t.columns_metadata[c].name = c
BY DEF create_table_metadata

LEMMA ViewsCopied ==
  ASSUME NEW keyspace, NEW t
  PROVE  /\ DOMAIN table_views(keyspace, t) = DOMAIN keyspace.views
         /\ \A v \in DOMAIN keyspace.views :
               LET view == table_views(keyspace, t)[v]
                   columns == view.view_metadata.columns_metadata
               IN  /\ view.name = v
                   /\ DOMAIN columns = DOMAIN keyspace.views[v].columns
                   /\ \A c \in DOMAIN columns : columns[c].name = c
BY TableCopied DEF table_views

(* What create_table_metadata copies, whatever views are added later.       *)
IsTable(t, name, table) ==
    /\ t.name = name
    /\ t.columns_metadata = [c \in DOMAIN table.columns |->
                                [name |-> c, column_kind |-> column_kind(table.columns[c])]]
    /\ t.partition_keys = table.partition_key /\ t.clustering_keys = table.clustering_key
    /\ t.non_key_sorted_columns = non_key_sorted_columns(t.columns_metadata)

(* The copy has these fields, and setting its views changes no other.       *)
LEMMA TableMade ==
  ASSUME NEW name, NEW table, NEW views
  PROVE  LET t == [create_table_metadata(name, table) EXCEPT !.views = views]
         IN  /\ IsTable(create_table_metadata(name, table), name, table)
             /\ IsTable(t, name, table) /\ t.views = views
<1> DEFINE columns == [c \in DOMAIN table.columns |->
                          [name |-> c, column_kind |-> column_kind(table.columns[c])]]
           others == non_key_sorted_columns(columns)
           m == [name |-> name, columns_metadata |-> columns,
                 partition_keys |-> table.partition_key, clustering_keys |-> table.clustering_key,
                 non_key_sorted_columns |-> others, views |-> <<>>]
           t == [m EXCEPT !.views = views]
<1>1. m = create_table_metadata(name, table) BY Zenon DEF create_table_metadata
<1>2. others = non_key_sorted_columns(columns) OBVIOUS
<1> HIDE DEF columns, others
<1>3. /\ m.name = name /\ m.columns_metadata = columns
      /\ m.partition_keys = table.partition_key /\ m.clustering_keys = table.clustering_key
      /\ m.non_key_sorted_columns = others
  OBVIOUS
<1>4. /\ t.name = name /\ t.columns_metadata = columns
      /\ t.partition_keys = table.partition_key /\ t.clustering_keys = table.clustering_key
      /\ t.non_key_sorted_columns = others /\ t.views = views
  OBVIOUS
<1> HIDE DEF m, t
<1>5. IsTable(m, name, table) /\ IsTable(t, name, table)
  BY <1>2, <1>3, <1>4, Zenon DEF IsTable, columns
<1> QED BY <1>1, <1>4, <1>5, Zenon DEF t

LEMMA TableAlone ==
  ASSUME NEW name, NEW table
  PROVE  IsTable(create_table_metadata(name, table), name, table)
BY TableMade, Zenon

(* The columns follow from the table alone.                                 *)
LEMMA SameColumns ==
  ASSUME NEW name, NEW table, NEW a, NEW b, IsTable(a, name, table), IsTable(b, name, table)
  PROVE  a.columns_metadata = b.columns_metadata /\ a.name = name
<1>1. ASSUME NEW t, IsTable(t, name, table)
      PROVE  /\ t.name = name
             /\ t.columns_metadata = [c \in DOMAIN table.columns |->
                                        [name |-> c, column_kind |-> column_kind(table.columns[c])]]
  BY <1>1, Zenon DEF IsTable
<1>2. PICK columns : columns = [c \in DOMAIN table.columns |->
                                 [name |-> c, column_kind |-> column_kind(table.columns[c])]]
  BY Zenon
<1>3. a.columns_metadata = columns /\ b.columns_metadata = columns BY <1>1, <1>2, Zenon
<1> QED BY <1>1, <1>3, Zenon

(* A copy that was given its views.                                         *)
WithViews(t, name, table, views) ==
    t = [create_table_metadata(name, table) EXCEPT !.views = views]

LEMMA TableWithViews ==
  ASSUME NEW name, NEW table, NEW views, NEW t, WithViews(t, name, table, views)
  PROVE  IsTable(t, name, table) /\ t.views = views
BY TableMade, Zenon DEF WithViews

LEMMA RangeApart ==
  ASSUME NEW f, Null \notin Range(f)
  PROVE  \A x \in DOMAIN f : f[x] # Null
BY Zenon DEF Range

LEMMA KeyspaceCopied ==
  ASSUME NEW name, NEW keyspace, NEW last \in LastTables(keyspace),
         WellFormed(keyspace), NullApart(keyspace_meta(name, keyspace, last))
  PROVE  /\ KeyspaceOK(keyspace_meta(name, keyspace, last), keyspace)
         /\ keyspace_meta(name, keyspace, last) # Null
         /\ keyspace_meta(name, keyspace, last).name = name
<1> DEFINE k == keyspace_meta(name, keyspace, last)
<1>1. /\ k.name = name
      /\ k.user_types = [u \in keyspace.user_defined_types |-> [name |-> u]]
      /\ k.tables = [t \in DOMAIN keyspace.tables |->
                       [create_table_metadata(t, keyspace.tables[t]) EXCEPT
                          !.views = table_views(keyspace, t)]]
      /\ k.views = IF last = Null THEN <<>> ELSE table_views(keyspace, last)
  BY DEF keyspace_meta
<1> HIDE DEF k
<1>2. NullApart(k) BY DEF k
<1>3. k # Null BY <1>2 DEF NullApart
<1>4. ObjectsOK(k.user_types, keyspace.user_defined_types)
  <2>1. \A u \in DOMAIN k.user_types : k.user_types[u] # Null BY <1>2, RangeApart DEF NullApart
  <2>2. k.user_types = [u \in keyspace.user_defined_types |-> [name |-> u]] BY <1>1
  <2>3. \A u \in keyspace.user_defined_types : k.user_types[u].name = u BY <2>2
  <2> QED BY <2>1, <2>2, <2>3 DEF ObjectsOK
<1>5. ObjectsOK(k.views, DOMAIN keyspace.views)
  <2>1. CASE last = Null
    <3>1. DOMAIN keyspace.views = {}
      BY <2>1, SchemaAssumption DEF LastTables, WellFormed
    <3>2. k.views = <<>> BY <1>1, <2>1
    <3> QED BY <3>1, <3>2 DEF ObjectsOK
  <2>2. CASE last # Null
    <3>1. \A v \in DOMAIN k.views : k.views[v] # Null BY <1>2, RangeApart DEF NullApart
    <3>2. k.views = table_views(keyspace, last) BY <1>1, <2>2
    <3> QED BY <3>1, <3>2, ViewsCopied DEF ObjectsOK
  <2> QED BY <2>1, <2>2
<1>6. /\ DOMAIN k.tables = DOMAIN keyspace.tables
      /\ \A t \in DOMAIN keyspace.tables :
            /\ k.tables[t].name = t
            /\ k.tables[t].columns_metadata =
                  create_table_metadata(t, keyspace.tables[t]).columns_metadata
            /\ k.tables[t].views = table_views(keyspace, t)
  <2>1. DOMAIN k.tables = DOMAIN keyspace.tables BY <1>1, Zenon
  <2>2. ASSUME NEW t \in DOMAIN keyspace.tables
        PROVE  /\ k.tables[t].name = t
               /\ k.tables[t].columns_metadata =
                     create_table_metadata(t, keyspace.tables[t]).columns_metadata
               /\ k.tables[t].views = table_views(keyspace, t)
    <3>1. PICK table : table = k.tables[t] BY Zenon
    <3>2. IsTable(table, t, keyspace.tables[t]) /\ table.views = table_views(keyspace, t)
      <4>1. WithViews(table, t, keyspace.tables[t], table_views(keyspace, t))
        BY <1>1, <3>1, Zenon DEF WithViews
      <4> QED BY <4>1, TableWithViews, Zenon
    <3>3. IsTable(create_table_metadata(t, keyspace.tables[t]), t, keyspace.tables[t])
      BY TableAlone, Zenon
    <3>4. \A a, b : IsTable(a, t, keyspace.tables[t]) /\ IsTable(b, t, keyspace.tables[t])
                   => a.columns_metadata = b.columns_metadata /\ a.name = t
      BY SameColumns, Zenon
    <3> QED BY <3>1, <3>2, <3>3, <3>4, Zenon
  <2> QED BY <2>1, <2>2, Zenon
<1>7. ObjectsOK(k.tables, DOMAIN keyspace.tables)
  BY <1>2, <1>6 DEF ObjectsOK, NullApart, Range
<1>8. ASSUME NEW t \in DOMAIN keyspace.tables
      PROVE  TableOK(k.tables[t], keyspace.tables[t], keyspace)
  <2> DEFINE table == k.tables[t]
  <2>1. /\ Null \notin Range(table.columns_metadata) \cup Range(table.views)
        /\ \A v \in DOMAIN table.views : Null \notin Range(table.views[v].view_metadata.columns_metadata)
    BY <1>2, <1>6 DEF NullApart
  <2>2. /\ DOMAIN table.columns_metadata = DOMAIN keyspace.tables[t].columns
        /\ \A c \in DOMAIN keyspace.tables[t].columns : table.columns_metadata[c].name = c
    BY <1>6, TableCopied
  <2>3. table.views = table_views(keyspace, t) BY <1>6
  <2> HIDE DEF table
  <2>4. ObjectsOK(table.columns_metadata, DOMAIN keyspace.tables[t].columns)
    BY <2>1, <2>2 DEF ObjectsOK, Range
  <2>5. ObjectsOK(table.views, DOMAIN keyspace.views)
    BY <2>1, <2>3, ViewsCopied DEF ObjectsOK, Range
  <2>6. \A v \in DOMAIN keyspace.views :
           ObjectsOK(table.views[v].view_metadata.columns_metadata, DOMAIN keyspace.views[v].columns)
    BY <2>1, <2>3, ViewsCopied DEF ObjectsOK, Range
  <2>7. TableOK(table, keyspace.tables[t], keyspace) BY <2>4, <2>5, <2>6 DEF TableOK
  <2> QED BY <2>7 DEF table
<1>9. KeyspaceOK(k, keyspace) BY <1>4, <1>5, <1>7, <1>8 DEF KeyspaceOK
<1> QED BY <1>1, <1>3, <1>9 DEF k

-----------------------------------------------------------------------------
(* The map an iterator of a kind walks over, and the one getter that shows  *)
(* its items.                                                               *)
Map(m) ==
    CASE m[1] = "KeyspacesMeta" -> snapshot
      [] m[1] = "TablesMeta" -> snapshot[m[2][1]].tables
      [] m[1] = "UserTypes" -> snapshot[m[2][1]].user_types
      [] m[1] = "ColumnsFromTable" -> snapshot[m[2][1]].tables[m[2][2]].columns_metadata
      [] m[1] = "ColumnsFromView" ->
            snapshot[m[2][1]].tables[m[2][2]].views[m[2][3]].view_metadata.columns_metadata
      [] m[1] = "ViewsFromTable" -> snapshot[m[2][1]].tables[m[2][2]].views
      [] OTHER -> snapshot[m[2][1]].views

Kinds == {"KeyspacesMeta", "TablesMeta", "UserTypes", "ColumnsFromTable", "ColumnsFromView",
          "ViewsFromTable", "ViewsFromKeyspace"}

LEMMA KindOfMap ==
  ASSUME NEW m, IsMap(m)
  PROVE  m[1] \in Kinds
BY DEF IsMap, Kinds

LEMMA OneGetter ==
  ASSUME NEW it, it.inner \in Kinds
  PROVE  Shown(it) = {Nth(Map(MapOf(it)), it)} \ {Null}
<1>1. MapOf(it)[1] = it.inner /\ MapOf(it)[2] = it.of BY DEF MapOf
<1> DEFINE map == Map(MapOf(it))
<1>2. CASE it.inner = "KeyspacesMeta"
  <2>1. map = snapshot BY <1>1, <1>2 DEF Map
  <2> QED BY <1>2, <2>1 DEF Shown, get_keyspace_meta, get_table_meta, get_user_type,
             get_column_meta, get_materialized_view_meta
<1>3. CASE it.inner = "TablesMeta"
  <2>1. map = snapshot[it.of[1]].tables BY <1>1, <1>3 DEF Map
  <2> QED BY <1>3, <2>1 DEF Shown, get_keyspace_meta, get_table_meta, get_user_type,
             get_column_meta, get_materialized_view_meta
<1>4. CASE it.inner = "UserTypes"
  <2>1. map = snapshot[it.of[1]].user_types BY <1>1, <1>4 DEF Map
  <2> QED BY <1>4, <2>1 DEF Shown, get_keyspace_meta, get_table_meta, get_user_type,
             get_column_meta, get_materialized_view_meta
<1>5. CASE it.inner = "ColumnsFromTable"
  <2>1. map = snapshot[it.of[1]].tables[it.of[2]].columns_metadata BY <1>1, <1>5 DEF Map
  <2> QED BY <1>5, <2>1 DEF Shown, get_keyspace_meta, get_table_meta, get_user_type,
             get_column_meta, get_materialized_view_meta
<1>6. CASE it.inner = "ColumnsFromView"
  <2>1. map = snapshot[it.of[1]].tables[it.of[2]].views[it.of[3]].view_metadata.columns_metadata
    BY <1>1, <1>6 DEF Map
  <2> QED BY <1>6, <2>1, Zenon DEF Shown, get_keyspace_meta, get_table_meta, get_user_type,
             get_column_meta, get_materialized_view_meta
<1>7. CASE it.inner = "ViewsFromTable"
  <2>1. map = snapshot[it.of[1]].tables[it.of[2]].views BY <1>1, <1>7 DEF Map
  <2> QED BY <1>7, <2>1 DEF Shown, get_keyspace_meta, get_table_meta, get_user_type,
             get_column_meta, get_materialized_view_meta
<1>8. CASE it.inner = "ViewsFromKeyspace"
  <2>1. map = snapshot[it.of[1]].views BY <1>1, <1>8 DEF Map
  <2> QED BY <1>8, <2>1 DEF Shown, get_keyspace_meta, get_table_meta, get_user_type,
             get_column_meta, get_materialized_view_meta
<1> QED BY <1>2, <1>3, <1>4, <1>5, <1>6, <1>7, <1>8 DEF Kinds

(* The columns the server declares have names of columns.                   *)
LEMMA ColumnsNamed ==
  ASSUME NEW keyspace, WellFormed(keyspace)
  PROVE  /\ \A t \in DOMAIN keyspace.tables : DOMAIN keyspace.tables[t].columns \in SUBSET ColumnNames
         /\ \A v \in DOMAIN keyspace.views : DOMAIN keyspace.views[v].columns \in SUBSET ColumnNames
BY Zenon DEF WellFormed, TableDeclared

LEMMA MapObjects ==
  ASSUME SchemaInv, snapshot # Null, NEW m, IsMap(m)
  PROVE  ObjectsOK(Map(m), ToShow(m)) /\ IsFiniteSet(ToShow(m))
<1>1. as_of \in Schemas /\ ObjectsOK(snapshot, DOMAIN as_of) BY DEF SchemaInv
<1>2. DOMAIN as_of \in SUBSET Names BY <1>1, SchemaAssumption
<1>3. CASE m = <<"KeyspacesMeta", <<>>>>
  <2>1. Map(m) = snapshot /\ ToShow(m) = DOMAIN as_of BY <1>3 DEF Map, ToShow
  <2> QED BY <1>1, <1>2, <2>1, FS_Subset, SchemaAssumption
<1>4. ASSUME NEW k \in DOMAIN as_of PROVE KeyspaceOK(snapshot[k], as_of[k]) /\ WellFormed(as_of[k])
  BY <1>1, SchemaAssumption DEF SchemaInv
<1>5. ASSUME NEW k \in DOMAIN as_of,
             m \in {"TablesMeta", "ViewsFromKeyspace", "UserTypes"} \X {<<k>>}
      PROVE  ObjectsOK(Map(m), ToShow(m)) /\ IsFiniteSet(ToShow(m))
  <2>1. m[1] \in {"TablesMeta", "ViewsFromKeyspace", "UserTypes"} /\ m[2] = <<k>> BY <1>5
  <2>2. ToShow(m) \in SUBSET Names BY <1>4, <2>1 DEF ToShow, WellFormed
  <2>3. ObjectsOK(Map(m), ToShow(m)) BY <1>4, <2>1 DEF ToShow, Map, KeyspaceOK
  <2> QED BY <2>2, <2>3, FS_Subset, SchemaAssumption
<1>6. ASSUME NEW k \in DOMAIN as_of, NEW t \in DOMAIN as_of[k].tables,
             m \in {"ColumnsFromTable", "ViewsFromTable"} \X {<<k, t>>}
      PROVE  ObjectsOK(Map(m), ToShow(m)) /\ IsFiniteSet(ToShow(m))
  <2>1. m[1] \in {"ColumnsFromTable", "ViewsFromTable"} /\ m[2] = <<k, t>> BY <1>6
  <2>2. ToShow(m) \in SUBSET Names \/ ToShow(m) \in SUBSET ColumnNames
    BY <1>4, <2>1, ColumnsNamed DEF ToShow, WellFormed
  <2>3. TableOK(snapshot[k].tables[t], as_of[k].tables[t], as_of[k]) BY <1>4 DEF KeyspaceOK
  <2>4. ObjectsOK(Map(m), ToShow(m)) BY <2>1, <2>3 DEF ToShow, Map, TableOK
  <2> QED BY <2>2, <2>4, FS_Subset, SchemaAssumption
<1>7. ASSUME NEW k \in DOMAIN as_of, NEW t \in DOMAIN as_of[k].tables,
             NEW v \in DOMAIN as_of[k].views, m = <<"ColumnsFromView", <<k, t, v>>>>
      PROVE  ObjectsOK(Map(m), ToShow(m)) /\ IsFiniteSet(ToShow(m))
  <2>1. m[1] = "ColumnsFromView" /\ m[2] = <<k, t, v>> BY <1>7
  <2>2. ToShow(m) \in SUBSET ColumnNames BY <1>4, <2>1, ColumnsNamed DEF ToShow
  <2>3. TableOK(snapshot[k].tables[t], as_of[k].tables[t], as_of[k]) BY <1>4 DEF KeyspaceOK
  <2>4. ObjectsOK(Map(m), ToShow(m)) BY <2>1, <2>3 DEF ToShow, Map, TableOK
  <2> QED BY <2>2, <2>4, FS_Subset, SchemaAssumption
<1> QED BY <1>3, <1>5, <1>6, <1>7 DEF IsMap

-----------------------------------------------------------------------------
(* A step that gives iterator i the state it, and perhaps an order to a map *)
(* that had none.                                                           *)
LEMMA WalkStep ==
  ASSUME SchemaInv, snapshot # Null, NEW i \in SchemaIterators, NEW it, SetSchemaIter(i, it),
         walks' \in Nat,
         it = Null \/ WalkOK(it)',
         DOMAIN order \subseteq DOMAIN order',
         \A m \in DOMAIN order : order'[m] = order[m],
         \A m \in DOMAIN order' : m \notin DOMAIN order =>
             IsMap(m) /\ order'[m] \in Orders(ToShow(m))
  PROVE  SchemaInv'
<1>1. snapshot' = snapshot /\ as_of' = as_of /\ schema_iter' = [schema_iter EXCEPT ![i] = it]
  BY DEF SetSchemaIter
<1>2. \A m : IsMap(m)' = IsMap(m) /\ ToShow(m)' = ToShow(m) BY <1>1 DEF IsMap, ToShow
<1>3. ASSUME NEW j \in SchemaIterators, schema_iter'[j] # Null PROVE WalkOK(schema_iter[j])'
  <2>1. CASE j = i
    <3>1. schema_iter'[j] = it BY <1>1, <2>1 DEF SchemaInv
    <3> QED BY <1>3, <3>1 DEF WalkOK, MapOf
  <2>2. CASE j # i
    <3>1. schema_iter'[j] = schema_iter[j] BY <1>1, <2>2 DEF SchemaInv
    <3>2. PICK w : w = schema_iter[j] BY Zenon
    <3>3. WalkOK(w) BY <1>3, <3>1, <3>2 DEF SchemaInv
    <3>4. MapOf(w) \in DOMAIN order BY <3>3 DEF WalkOK
    <3>5. MapOf(w) \in DOMAIN order' /\ order'[MapOf(w)] = order[MapOf(w)] BY <3>4
    <3>6. ToShow(MapOf(w))' = ToShow(MapOf(w)) BY <1>1 DEF ToShow, MapOf
    <3>7. WalkOK(w)' BY <3>3, <3>5, <3>6 DEF WalkOK, MapOf
    <3> QED BY <3>1, <3>2, <3>7 DEF WalkOK, MapOf
  <2> QED BY <2>1, <2>2
<1>4. \A m \in DOMAIN order' : IsMap(m)' /\ order'[m] \in Orders(ToShow(m)')
  BY <1>2 DEF SchemaInv
<1>5. DOMAIN schema_iter' = SchemaIterators BY <1>1 DEF SchemaInv
<1>6. /\ as_of' \in Schemas
      /\ ObjectsOK(snapshot', DOMAIN as_of')
      /\ \A k \in DOMAIN as_of' : KeyspaceOK(snapshot'[k], as_of'[k])
  BY <1>1 DEF SchemaInv
<1> QED BY <1>1, <1>3, <1>4, <1>5, <1>6 DEF SchemaInv

LEMMA NewIteratorWalks ==
  ASSUME SchemaInv, snapshot # Null, NEW i \in SchemaIterators, NEW inner, NEW of,
         IsMap(<<inner, of>>),
         NEW keys, keys = ToShow(<<inner, of>>),
         NewIterator(i, inner, of, keys, Cardinality(keys))
  PROVE  SchemaInv' /\ walks' = walks + 1
<1> DEFINE m == <<inner, of>>
           it == [inner |-> inner, of |-> of, count |-> Cardinality(keys), position |-> Null,
                  more |-> TRUE, shown |-> <<>>]
<1>1. MapOf(it) = m BY DEF MapOf
<1>2. SetSchemaIter(i, it) /\ walks' = walks + 1
  BY DEF NewIterator
<1>3. \/ m \in DOMAIN order /\ order' = order
      \/ /\ m \notin DOMAIN order
         /\ \E o \in Orders(keys) :
               order' = [n \in DOMAIN order \cup {m} |-> IF n = m THEN o ELSE order[n]]
  <2>1. \/ MapOf(it) \in DOMAIN order /\ UNCHANGED order
        \/ /\ MapOf(it) \notin DOMAIN order
           /\ \E o \in Orders(keys) :
                 order' = [n \in DOMAIN order \cup {MapOf(it)} |->
                             IF n = MapOf(it) THEN o ELSE order[n]]
    BY Zenon DEF NewIterator
  <2> HIDE DEF it, m
  <2> QED BY <1>1, <2>1
<1>4. /\ m \in DOMAIN order'
      /\ DOMAIN order \subseteq DOMAIN order'
      /\ \A n \in DOMAIN order : order'[n] = order[n]
      /\ \A n \in DOMAIN order' : n \notin DOMAIN order => n = m /\ order'[n] \in Orders(keys)
  BY <1>3
<1>5. Cardinality(keys) \in Nat BY MapObjects, FS_CardinalityType
<1>6. ToShow(m)' = keys BY <1>2, Zenon DEF SetSchemaIter, ToShow
<1>7. WalkOK(it)'
  <2>1. [n \in 1 .. 0 |-> order'[m][n]] = <<>> OBVIOUS
  <2>2. it.position = Null /\ it.inner = inner /\ it.of = of OBVIOUS
  <2>3. (0 <= Cardinality(keys)) = TRUE /\ 0 <= Cardinality(keys) + 1 BY <1>5
  <2>4. Walked(it, order'[m], Cardinality(keys)) BY <2>1, <2>2, <2>3, Zenon DEF Walked
  <2> QED BY <1>1, <1>4, <1>6, <2>4 DEF WalkOK, MapOf
<1> HIDE DEF it
<1>8. walks' \in Nat BY <1>2 DEF SchemaInv
<1>9. \A n \in DOMAIN order' : n \notin DOMAIN order => IsMap(n) /\ order'[n] \in Orders(ToShow(n))
  BY <1>4
<1> QED BY <1>2, <1>4, <1>7, <1>8, <1>9, WalkStep

(* What cass_iterator_next finds after g of the n names in order o.         *)
LEMMA NextItem ==
  ASSUME SchemaInv, snapshot # Null, NEW it, IsMap(MapOf(it)), MapOf(it) \in DOMAIN order,
         it.position \in Nat
  PROVE  LET o == order[MapOf(it)]
             n == Cardinality(ToShow(MapOf(it)))
         IN  IF it.position < n
             THEN /\ Shown(it) # {} /\ (CHOOSE item \in Shown(it) : TRUE).name = o[it.position + 1]
                  /\ Cardinality(Shown(it)) = 1
             ELSE Shown(it) = {} /\ Cardinality(Shown(it)) = 0
<1> DEFINE m == MapOf(it)  o == order[m]  n == Cardinality(ToShow(m))  map == Map(m)
           item == map[o[it.position + 1]]
<1>1. ObjectsOK(map, ToShow(m)) /\ IsFiniteSet(ToShow(m)) BY MapObjects
<1>2. o \in Orders(ToShow(m)) BY DEF SchemaInv
<1>3. n \in Nat /\ o \in [1 .. n -> ToShow(m)]
  <2> HIDE DEF o
  <2> QED BY <1>1, <1>2, OrderFacts
<1>4. Shown(it) = {Nth(map, it)} \ {Null}
  <2>1. it.inner \in Kinds BY KindOfMap DEF MapOf
  <2> QED BY <2>1, OneGetter
<1>5. it.position # Null BY SchemaAssumption
<1>6. CASE it.position < n
  <2>1. it.position + 1 \in 1 .. n BY <1>3, <1>6
  <2>2. Nth(map, it) = item BY <1>3, <1>5, <2>1 DEF Nth
  <2>3. o[it.position + 1] \in ToShow(m) BY <1>3, <2>1
  <2>4. item # Null /\ item.name = o[it.position + 1] BY <1>1, <2>3 DEF ObjectsOK
  <2> HIDE DEF item, map, n, o
  <2>5. Shown(it) = {item} BY <1>4, <2>2, <2>4
  <2>6. (CHOOSE x \in Shown(it) : TRUE) = item BY <2>5
  <2>7. Cardinality(Shown(it)) = 1 BY <2>5, FS_Singleton
  <2> QED BY <1>6, <2>4, <2>5, <2>6, <2>7 DEF n, o
<1>7. CASE ~(it.position < n)
  <2>1. it.position + 1 \notin DOMAIN o BY <1>3, <1>7
  <2>2. Nth(map, it) = Null BY <2>1 DEF Nth
  <2> HIDE DEF map, n, o
  <2>3. Shown(it) = {} BY <1>4, <2>2
  <2> QED BY <1>7, <2>3, FS_EmptySet DEF n
<1> QED BY <1>6, <1>7

LEMMA NextWalks ==
  ASSUME SchemaInv, NEW i \in SchemaIterators, schema_next(i)
  PROVE  SchemaInv' /\ walks' = walks
<1>1. PICK w : w = schema_iter[i] BY Zenon
<1>2. WalkOK(w) /\ snapshot # Null /\ w.more BY <1>1 DEF schema_next, SchemaInv
<1>3. PICK m : m = MapOf(w) BY Zenon
<1>4. m \in DOMAIN order /\ Walked(w, order[m], Cardinality(ToShow(m))) BY <1>2, <1>3 DEF WalkOK
<1>5. IsMap(m) BY <1>2, <1>4 DEF SchemaInv
<1>6. PICK o : o = order[m] BY Zenon
<1>7. PICK n : n = Cardinality(ToShow(m)) BY Zenon
<1>8. IsFiniteSet(ToShow(m)) /\ o \in Orders(ToShow(m))
  BY <1>2, <1>4, <1>5, <1>6, MapObjects DEF SchemaInv
<1>9. n \in Nat /\ o \in [1 .. n -> ToShow(m)] BY <1>7, <1>8, OrderFacts
<1>10. PICK g : g = IF w.position = Null THEN 0 ELSE w.position + 1 BY Zenon
<1>11. /\ w.position \in Nat \cup {Null}
       /\ w = [inner |-> w.inner, of |-> w.of, count |-> n, position |-> w.position,
               more |-> g <= n, shown |-> [k \in 1 .. (IF g <= n THEN g ELSE n) |-> o[k]]]
  BY <1>4, <1>6, <1>7, <1>10 DEF Walked
<1>12. g \in Nat BY <1>10, <1>11
<1>13. w.more = (g <= n) /\ w.count = n /\ w.shown = [k \in 1 .. (IF g <= n THEN g ELSE n) |-> o[k]]
  <2> DEFINE shown == [k \in 1 .. (IF g <= n THEN g ELSE n) |-> o[k]]
             r == [inner |-> w.inner, of |-> w.of, count |-> n, position |-> w.position,
                   more |-> g <= n, shown |-> shown]
  <2>1. r.more = (g <= n) /\ r.count = n /\ r.shown = shown BY Zenon
  <2>2. w = r BY <1>11
  <2> HIDE DEF r, shown
  <2>3. w.more = (g <= n) /\ w.count = n /\ w.shown = shown BY <2>1, <2>2, Zenon
  <2> QED BY <2>3 DEF shown
<1>14. g <= n /\ w.shown = [k \in 1 .. g |-> o[k]] BY <1>2, <1>13, Zenon
<1>15. PICK it : it = next(w) BY Zenon
<1>16. it.inner = w.inner /\ it.of = w.of /\ it.count = n /\ it.position = g /\ it.shown = w.shown
  BY <1>10, <1>11, <1>13, <1>15 DEF next
<1>17. MapOf(it) = m BY <1>3, <1>16 DEF MapOf
<1>18. PICK shown : shown = IF Shown(it) = {} THEN it.shown
                            ELSE Append(it.shown, (CHOOSE item \in Shown(it) : TRUE).name)
  BY Zenon
<1>19. shown = [k \in 1 .. (IF g + 1 <= n THEN g + 1 ELSE n) |-> o[k]]
  <2>1. CASE g < n
    <3>1. Shown(it) # {} /\ (CHOOSE item \in Shown(it) : TRUE).name = o[g + 1]
      BY <1>2, <1>4, <1>5, <1>6, <1>7, <1>12, <1>16, <1>17, <2>1, NextItem
    <3>2. shown = Append([k \in 1 .. g |-> o[k]], o[g + 1]) BY <1>14, <1>16, <1>18, <3>1, Zenon
    <3>3. g + 1 <= n BY <1>9, <1>12, <2>1
    <3>4. shown = [k \in 1 .. g + 1 |-> o[k]] BY <1>9, <1>12, <3>2, <3>3, FirstAppend
    <3> QED BY <3>3, <3>4
  <2>2. CASE ~(g < n)
    <3>1. Shown(it) = {}
      BY <1>2, <1>4, <1>5, <1>6, <1>7, <1>12, <1>16, <1>17, <2>2, NextItem
    <3>2. g = n /\ ~(g + 1 <= n) BY <1>9, <1>12, <1>14, <2>2
    <3>3. shown = [k \in 1 .. n |-> o[k]] BY <1>14, <1>16, <1>18, <3>1, <3>2
    <3> QED BY <3>2, <3>3
  <2> QED BY <2>1, <2>2
<1> DEFINE new == [inner |-> it.inner, of |-> it.of, count |-> it.count, position |-> it.position,
                   more |-> it.position < it.count, shown |-> shown]
<1>20. SetSchemaIter(i, new) /\ order' = order /\ walks' = walks
  BY <1>1, <1>15, <1>18 DEF schema_next
<1>21. Walked(new, o, n)
  <2>1. new = [inner |-> w.inner, of |-> w.of, count |-> n, position |-> g,
               more |-> g < n, shown |-> shown]
    BY <1>16, Zenon
  <2>2. (g < n) = (g + 1 <= n) /\ g # Null /\ g + 1 <= n + 1 BY <1>9, <1>12, <1>14, SchemaAssumption
  <2> HIDE DEF new
  <2>3. new.position = g /\ new.inner = w.inner /\ new.of = w.of BY <2>1, Zenon
  <2> QED BY <1>12, <1>19, <2>1, <2>2, <2>3, Zenon DEF Walked
<1>22. MapOf(new) = m BY <1>3, <1>16 DEF MapOf
<1> HIDE DEF new
<1>23. ToShow(m)' = ToShow(m) BY <1>20 DEF SetSchemaIter, ToShow
<1>24. WalkOK(new)' BY <1>4, <1>6, <1>7, <1>20, <1>21, <1>22, <1>23, Zenon DEF WalkOK, MapOf
<1>25. walks' \in Nat BY <1>20 DEF SchemaInv
<1> QED BY <1>2, <1>20, <1>24, <1>25, WalkStep

(* Constructors and cass_iterator_free.                                     *)
LEMMA SchemaIteratorWalks ==
  ASSUME SchemaInv, snapshot # Null, NEW i \in SchemaIterators,
         \/ keyspaces_from_schema_meta(i)
         \/ \E k \in DOMAIN snapshot :
               \/ tables_from_keyspace_meta(i, k)
               \/ views_from_keyspace_meta(i, k)
               \/ user_types_from_keyspace_meta(i, k)
               \/ \E t \in DOMAIN snapshot[k].tables :
                     \/ columns_from_table_meta(i, k, t)
                     \/ views_from_table_meta(i, k, t)
                     \/ \E v \in DOMAIN snapshot[k].tables[t].views : columns_from_view_meta(i, k, t, v)
  PROVE  SchemaInv' /\ walks' = walks + 1
<1>1. DOMAIN snapshot = DOMAIN as_of BY DEF SchemaInv, ObjectsOK
<1>2. ASSUME NEW inner, NEW of, NEW keys, IsMap(<<inner, of>>), keys = DOMAIN Map(<<inner, of>>),
             NewIterator(i, inner, of, keys, Cardinality(keys))
      PROVE  SchemaInv' /\ walks' = walks + 1
  <2>1. keys = ToShow(<<inner, of>>) BY <1>2, MapObjects DEF ObjectsOK
  <2> QED BY <1>2, <2>1, NewIteratorWalks, Zenon
<1>3. CASE keyspaces_from_schema_meta(i)
  <2>1. IsMap(<<"KeyspacesMeta", <<>>>>) BY DEF IsMap
  <2>2. Map(<<"KeyspacesMeta", <<>>>>) = snapshot BY DEF Map
  <2>3. PICK keys : keys = DOMAIN snapshot BY Zenon
  <2> QED BY <1>2, <1>3, <2>1, <2>2, <2>3, Zenon DEF keyspaces_from_schema_meta
<1>4. ASSUME NEW k \in DOMAIN snapshot, tables_from_keyspace_meta(i, k)
      PROVE  SchemaInv' /\ walks' = walks + 1
  <2>1. IsMap(<<"TablesMeta", <<k>>>>) BY <1>1 DEF IsMap
  <2>2. Map(<<"TablesMeta", <<k>>>>) = snapshot[k].tables BY DEF Map
  <2>3. PICK keys : keys = DOMAIN snapshot[k].tables BY Zenon
  <2> QED BY <1>2, <1>4, <2>1, <2>2, <2>3, Zenon DEF tables_from_keyspace_meta
<1>5. ASSUME NEW k \in DOMAIN snapshot, views_from_keyspace_meta(i, k)
      PROVE  SchemaInv' /\ walks' = walks + 1
  <2>1. IsMap(<<"ViewsFromKeyspace", <<k>>>>) BY <1>1 DEF IsMap
  <2>2. Map(<<"ViewsFromKeyspace", <<k>>>>) = snapshot[k].views BY DEF Map
  <2>3. PICK keys : keys = DOMAIN snapshot[k].views BY Zenon
  <2> QED BY <1>2, <1>5, <2>1, <2>2, <2>3, Zenon DEF views_from_keyspace_meta
<1>6. ASSUME NEW k \in DOMAIN snapshot, user_types_from_keyspace_meta(i, k)
      PROVE  SchemaInv' /\ walks' = walks + 1
  <2>1. IsMap(<<"UserTypes", <<k>>>>) BY <1>1 DEF IsMap
  <2>2. Map(<<"UserTypes", <<k>>>>) = snapshot[k].user_types BY DEF Map
  <2>3. PICK keys : keys = DOMAIN snapshot[k].user_types BY Zenon
  <2> QED BY <1>2, <1>6, <2>1, <2>2, <2>3, Zenon DEF user_types_from_keyspace_meta
<1>7. ASSUME NEW k \in DOMAIN snapshot
      PROVE  /\ k \in DOMAIN as_of /\ DOMAIN snapshot[k].tables = DOMAIN as_of[k].tables
             /\ \A t \in DOMAIN as_of[k].tables :
                   DOMAIN snapshot[k].tables[t].views = DOMAIN as_of[k].views
  BY <1>1, Zenon DEF SchemaInv, KeyspaceOK, TableOK, ObjectsOK
<1>8. ASSUME NEW k \in DOMAIN snapshot, NEW t \in DOMAIN snapshot[k].tables,
             columns_from_table_meta(i, k, t)
      PROVE  SchemaInv' /\ walks' = walks + 1
  <2>1. IsMap(<<"ColumnsFromTable", <<k, t>>>>) BY <1>7 DEF IsMap
  <2>2. Map(<<"ColumnsFromTable", <<k, t>>>>) = snapshot[k].tables[t].columns_metadata BY DEF Map
  <2>3. PICK keys : keys = DOMAIN snapshot[k].tables[t].columns_metadata BY Zenon
  <2> QED BY <1>2, <1>8, <2>1, <2>2, <2>3, Zenon DEF columns_from_table_meta
<1>9. ASSUME NEW k \in DOMAIN snapshot, NEW t \in DOMAIN snapshot[k].tables,
             views_from_table_meta(i, k, t)
      PROVE  SchemaInv' /\ walks' = walks + 1
  <2>1. IsMap(<<"ViewsFromTable", <<k, t>>>>) BY <1>7 DEF IsMap
  <2>2. Map(<<"ViewsFromTable", <<k, t>>>>) = snapshot[k].tables[t].views BY DEF Map
  <2>3. PICK keys : keys = DOMAIN snapshot[k].tables[t].views BY Zenon
  <2> QED BY <1>2, <1>9, <2>1, <2>2, <2>3, Zenon DEF views_from_table_meta
<1>10. ASSUME NEW k \in DOMAIN snapshot, NEW t \in DOMAIN snapshot[k].tables,
              NEW v \in DOMAIN snapshot[k].tables[t].views, columns_from_view_meta(i, k, t, v)
       PROVE  SchemaInv' /\ walks' = walks + 1
  <2>1. IsMap(<<"ColumnsFromView", <<k, t, v>>>>) BY <1>7 DEF IsMap
  <2>2. Map(<<"ColumnsFromView", <<k, t, v>>>>) =
           snapshot[k].tables[t].views[v].view_metadata.columns_metadata
    BY DEF Map
  <2>3. PICK keys : keys = DOMAIN snapshot[k].tables[t].views[v].view_metadata.columns_metadata
    BY Zenon
  <2> QED BY <1>2, <1>10, <2>1, <2>2, <2>3, Zenon DEF columns_from_view_meta
<1> QED BY <1>3, <1>4, <1>5, <1>6, <1>8, <1>9, <1>10, Zenon

LEMMA FreeWalks ==
  ASSUME SchemaInv, NEW i \in SchemaIterators, schema_iterator_free(i)
  PROVE  SchemaInv' /\ walks' = walks
<1>1. SetSchemaIter(i, Null) /\ order' = order /\ walks' = walks BY DEF schema_iterator_free
<1>2. snapshot # Null /\ walks' \in Nat BY <1>1 DEF schema_iterator_free, SchemaInv
<1> QED BY <1>1, <1>2, WalkStep

LEMMA SnapshotMade ==
  ASSUME SchemaInv, NEW server \in Schemas, get_schema_meta(server)
  PROVE  SchemaInv'
<1>1. PICK last \in [DOMAIN server -> Names \cup {Null}] :
         /\ \A k \in DOMAIN server : last[k] \in LastTables(server[k])
         /\ snapshot' = [k \in DOMAIN server |-> keyspace_meta(k, server[k], last[k])]
  BY DEF get_schema_meta
<1>2. as_of' = server /\ order' = <<>> /\ walks' = 0 /\ schema_iter' = schema_iter /\ snapshot = Null
  BY DEF get_schema_meta
<1>3. ASSUME NEW k \in DOMAIN server
      PROVE  /\ KeyspaceOK(snapshot'[k], server[k])
             /\ snapshot'[k] # Null /\ snapshot'[k].name = k
  <2>1. last[k] \in LastTables(server[k]) BY <1>1
  <2>2. WellFormed(server[k]) /\ NullApart(keyspace_meta(k, server[k], last[k]))
    BY <2>1, SchemaAssumption
  <2>3. snapshot'[k] = keyspace_meta(k, server[k], last[k]) BY <1>1
  <2> QED BY <2>1, <2>2, <2>3, KeyspaceCopied
<1>4. ObjectsOK(snapshot', DOMAIN as_of') BY <1>1, <1>2, <1>3 DEF ObjectsOK
<1>5. \A j \in SchemaIterators : schema_iter'[j] = Null BY <1>2 DEF SchemaInv
<1>6. DOMAIN order' = {} BY <1>2
<1> QED BY <1>2, <1>3, <1>4, <1>5, <1>6 DEF SchemaInv

LEMMA SnapshotFreed ==
  ASSUME SchemaInv, schema_meta_free
  PROVE  SchemaInv' /\ walks' = walks
BY DEF SchemaInv, schema_meta_free

(* Steps on a snapshot count at most one walk.                              *)
LEMMA SchemaStep ==
  ASSUME SchemaInv, SchemaNext
  PROVE  SchemaInv' /\ (snapshot # Null => walks' - walks \in {0, 1})
<1>1. walks \in Nat BY DEF SchemaInv
<1>2. ASSUME NEW server \in Schemas, get_schema_meta(server)
      PROVE  SchemaInv' /\ snapshot = Null
  BY <1>2, SnapshotMade DEF get_schema_meta
<1>3. CASE schema_meta_free BY <1>1, <1>3, SnapshotFreed
<1>4. ASSUME NEW i \in SchemaIterators, schema_next(i) \/ schema_iterator_free(i)
      PROVE  SchemaInv' /\ walks' = walks
  BY <1>4, NextWalks, FreeWalks
<1>5. ASSUME NEW i \in SchemaIterators, snapshot # Null,
             \/ keyspaces_from_schema_meta(i)
             \/ \E k \in DOMAIN snapshot :
                   \/ tables_from_keyspace_meta(i, k)
                   \/ views_from_keyspace_meta(i, k)
                   \/ user_types_from_keyspace_meta(i, k)
                   \/ \E t \in DOMAIN snapshot[k].tables :
                         \/ columns_from_table_meta(i, k, t)
                         \/ views_from_table_meta(i, k, t)
                         \/ \E v \in DOMAIN snapshot[k].tables[t].views : columns_from_view_meta(i, k, t, v)
      PROVE  SchemaInv' /\ walks' = walks + 1
  BY <1>5, SchemaIteratorWalks
<1> QED BY <1>1, <1>2, <1>3, <1>4, <1>5 DEF SchemaNext

(* A walk on its way: g calls of next over a map with n names.              *)
LEMMA WalkFacts ==
  ASSUME SchemaInv, snapshot # Null, NEW w, WalkOK(w)
  PROVE  LET m == MapOf(w)
             n == Cardinality(ToShow(m))
             g == IF w.position = Null THEN 0 ELSE w.position + 1
         IN  /\ m \in DOMAIN order /\ IsMap(m)
             /\ IsFiniteSet(ToShow(m)) /\ order[m] \in Orders(ToShow(m)) /\ n \in Nat
             /\ w.position \in Nat \cup {Null} /\ g <= n + 1
             /\ w.more = (g <= n)
             /\ w.shown = [k \in 1 .. (IF g <= n THEN g ELSE n) |-> order[m][k]]
<1>1. PICK m : m = MapOf(w) BY Zenon
<1>2. PICK n : n = Cardinality(ToShow(m)) BY Zenon
<1>3. PICK g : g = IF w.position = Null THEN 0 ELSE w.position + 1 BY Zenon
<1>4. m \in DOMAIN order /\ Walked(w, order[m], n) BY <1>1, <1>2 DEF WalkOK
<1>5. IsMap(m) /\ order[m] \in Orders(ToShow(m)) BY <1>4 DEF SchemaInv
<1>6. IsFiniteSet(ToShow(m)) /\ n \in Nat BY <1>2, <1>5, MapObjects, FS_CardinalityType
<1> DEFINE shown == [k \in 1 .. (IF g <= n THEN g ELSE n) |-> order[m][k]]
           r == [inner |-> w.inner, of |-> w.of, count |-> n, position |-> w.position,
                 more |-> g <= n, shown |-> shown]
<1>7. r.more = (g <= n) /\ r.shown = shown BY Zenon
<1>8. w = r /\ w.position \in Nat \cup {Null} /\ g <= n + 1 BY <1>3, <1>4 DEF Walked
<1> HIDE DEF r, shown
<1>9. w.more = (g <= n) /\ w.shown = shown BY <1>7, <1>8, Zenon
<1>10. w.shown = [k \in 1 .. (IF g <= n THEN g ELSE n) |-> order[m][k]] BY <1>9 DEF shown
<1> QED BY <1>1, <1>2, <1>3, <1>4, <1>5, <1>6, <1>8, <1>9, <1>10, Zenon

LEMMA InvWalk == SchemaInv => WalkComplete
<1> SUFFICES ASSUME SchemaInv, NEW i \in SchemaIterators, schema_iter[i] # Null
             PROVE  LET it == schema_iter[i]
                    IN  /\ IsInjective(it.shown)
                        /\ it.more \/ Range(it.shown) = ToShow(MapOf(it))
                        /\ Range(it.shown) \subseteq ToShow(MapOf(it))
                        /\ Cardinality(Shown(it)) = IF it.position # Null /\ it.more THEN 1 ELSE 0
                        /\ \A j \in SchemaIterators : schema_iter[j] # Null =>
                              LET other == schema_iter[j]
                              IN  MapOf(it) = MapOf(other) =>
                                    \A n \in DOMAIN it.shown \cap DOMAIN other.shown :
                                        it.shown[n] = other.shown[n]
  BY DEF WalkComplete
<1>1. PICK w : w = schema_iter[i] BY Zenon
<1>2. snapshot # Null /\ WalkOK(w) BY <1>1 DEF SchemaInv
<1>3. PICK m : m = MapOf(w) BY Zenon
<1>4. PICK n : n = Cardinality(ToShow(m)) BY Zenon
<1>5. PICK g : g = IF w.position = Null THEN 0 ELSE w.position + 1 BY Zenon
<1>6. PICK o : o = order[m] BY Zenon
<1>7. PICK top : top = IF g <= n THEN g ELSE n BY Zenon
<1>8. /\ m \in DOMAIN order /\ IsMap(m)
      /\ IsFiniteSet(ToShow(m)) /\ o \in Orders(ToShow(m)) /\ n \in Nat
      /\ w.position \in Nat \cup {Null} /\ g <= n + 1
      /\ w.more = (g <= n)
      /\ w.shown = [k \in 1 .. top |-> o[k]]
  BY <1>2, <1>3, <1>4, <1>5, <1>6, <1>7, WalkFacts
<1>9. g \in Nat BY <1>5, <1>8
<1>10. /\ o \in [1 .. n -> ToShow(m)]
       /\ \A a, b \in 1 .. n : o[a] = o[b] => a = b
       /\ \A k \in ToShow(m) : \E j \in 1 .. n : o[j] = k
  BY <1>4, <1>8, OrderFacts
<1>11. top \in 0 .. n BY <1>7, <1>8, <1>9
<1>12. DOMAIN w.shown = 1 .. top /\ \A k \in 1 .. top : w.shown[k] = o[k] /\ k \in 1 .. n
  BY <1>8, <1>11
<1>13. IsInjective(w.shown) BY <1>10, <1>12 DEF IsInjective
<1>14. Range(w.shown) \subseteq ToShow(m) BY <1>10, <1>12 DEF Range
<1>15. w.more \/ Range(w.shown) = ToShow(m)
  <2> SUFFICES ASSUME ~ w.more PROVE ToShow(m) \subseteq Range(w.shown) BY <1>14
  <2>1. ~(g <= n) BY <1>8, Zenon
  <2>2. top = n BY <1>7, <2>1
  <2> QED BY <1>10, <1>12, <2>2 DEF Range
<1>16. Cardinality(Shown(w)) = IF w.position # Null /\ w.more THEN 1 ELSE 0
  <2>1. CASE w.position = Null
    <3>1. w.inner \in Kinds BY <1>3, <1>8, KindOfMap DEF MapOf
    <3>2. Shown(w) = {Nth(Map(MapOf(w)), w)} \ {Null} BY <3>1, OneGetter
    <3>3. Nth(Map(MapOf(w)), w) = Null BY <2>1 DEF Nth
    <3>4. Shown(w) = {} BY <3>2, <3>3
    <3> QED BY <2>1, <3>4, FS_EmptySet
  <2>2. CASE w.position # Null
    <3>1. w.position \in Nat /\ g = w.position + 1 BY <1>5, <1>8, <2>2
    <3>2. Cardinality(Shown(w)) = IF w.position < n THEN 1 ELSE 0
      BY <1>2, <1>3, <1>4, <1>8, <3>1, NextItem, Zenon
    <3>3. (w.position < n) = (g <= n) BY <1>8, <3>1
    <3>4. CASE g <= n BY <1>8, <2>2, <3>2, <3>3, <3>4, Zenon
    <3>5. CASE ~(g <= n) BY <1>8, <2>2, <3>2, <3>3, <3>5, Zenon
    <3> QED BY <3>4, <3>5
  <2> QED BY <2>1, <2>2
<1>17. ASSUME NEW j \in SchemaIterators, schema_iter[j] # Null,
              MapOf(schema_iter[j]) = m,
              NEW k \in DOMAIN w.shown \cap DOMAIN schema_iter[j].shown
       PROVE  w.shown[k] = schema_iter[j].shown[k]
  <2>1. PICK v : v = schema_iter[j] BY Zenon
  <2>2. WalkOK(v) /\ MapOf(v) = m BY <1>17, <2>1 DEF SchemaInv
  <2>3. PICK q : q = LET n1 == Cardinality(ToShow(m))
                         g1 == IF v.position = Null THEN 0 ELSE v.position + 1
                     IN  IF g1 <= n1 THEN g1 ELSE n1
    BY Zenon
  <2>6. v.shown = [x \in 1 .. q |-> o[x]] BY <1>2, <1>6, <2>2, <2>3, WalkFacts
  <2>4. k \in DOMAIN v.shown BY <2>1
  <2>5. v.shown[k] = o[k] BY <2>4, <2>6
  <2> QED BY <1>12, <2>1, <2>5
<1> QED BY <1>1, <1>3, <1>13, <1>14, <1>15, <1>16, <1>17

-----------------------------------------------------------------------------
(* A finite set of numbers can be sorted: a number's place is the number of *)
(* those up to it.                                                          *)
LEMMA Sortable ==
  ASSUME NEW S \in SUBSET Nat, IsFiniteSet(S)
  PROVE  \E s \in Orders(S) : Ascending(s)
<1> DEFINE n == Cardinality(S)
           upto(c) == {d \in S : d <= c}
           rank == [c \in S |-> Cardinality(upto(c))]
<1>1. n \in Nat BY FS_CardinalityType
<1>2. ASSUME NEW c \in S
      PROVE  IsFiniteSet(upto(c)) /\ Cardinality(upto(c)) \in 1 .. n
  <2>1. upto(c) \in SUBSET S /\ c \in upto(c) /\ upto(c) # {} BY <1>2
  <2> HIDE DEF upto
  <2>2. IsFiniteSet(upto(c)) /\ Cardinality(upto(c)) <= n BY <2>1, FS_Subset
  <2>3. Cardinality(upto(c)) \in Nat BY <2>2, FS_CardinalityType
  <2>4. Cardinality(upto(c)) # 0 BY <2>1, <2>2, FS_EmptySet
  <2> QED BY <1>1, <2>2, <2>3, <2>4
<1>3. ASSUME NEW c \in S, NEW d \in S, c < d
      PROVE  Cardinality(upto(c)) < Cardinality(upto(d))
  <2>0. c \in Nat /\ d \in Nat /\ \A e \in S : e \in Nat BY Zenon
  <2>1. upto(c) \in SUBSET upto(d) /\ upto(c) # upto(d)
    <3>1. \A e \in S : e <= c => e <= d BY <1>3, <2>0
    <3>2. d <= d /\ ~(d <= c) BY <1>3, <2>0
    <3>3. d \in upto(d) /\ d \notin upto(c) BY <3>2
    <3>4. upto(c) \subseteq upto(d) BY <3>1
    <3> QED BY <3>3, <3>4, Zenon
  <2> HIDE DEF upto
  <2>2. Cardinality(upto(c)) <= Cardinality(upto(d)) /\ Cardinality(upto(c)) # Cardinality(upto(d))
    BY <1>2, <2>1, FS_Subset
  <2> QED BY <1>1, <1>2, <2>2
<1> HIDE DEF upto
<1>4. rank \in [S -> 1 .. n] /\ \A c, d \in S : c < d => rank[c] < rank[d] BY <1>2, <1>3
<1> HIDE DEF rank
<1>5. \A c, d \in S : rank[c] = rank[d] => c = d BY <1>1, <1>4
<1>6. rank \in Injection(S, 1 .. n) BY <1>4, <1>5 DEF Injection, IsInjective
<1>7. IsFiniteSet(1 .. n) /\ Cardinality(1 .. n) = n BY <1>1, FS_Interval
<1>8. rank \in Surjection(S, 1 .. n) BY <1>6, <1>7, FS_Injection
<1>9. \A i \in 1 .. n : \E c \in S : rank[c] = i BY <1>8 DEF Surjection
<1> DEFINE s == [i \in 1 .. n |-> CHOOSE c \in S : rank[c] = i]
<1>10. s \in [1 .. n -> S] /\ \A i \in 1 .. n : rank[s[i]] = i BY <1>9
<1> HIDE DEF s
<1>11. \A i, j \in 1 .. n : s[i] = s[j] => i = j BY <1>10
<1>12. \A c \in S : s[rank[c]] = c BY <1>4, <1>5, <1>10
<1>13. s \in Orders(S)
  <2>1. s \in Injection(1 .. n, S) BY <1>10, <1>11 DEF Injection, IsInjective
  <2>2. s \in Surjection(1 .. n, S) BY <1>4, <1>10, <1>12 DEF Surjection
  <2> QED BY <2>1, <2>2 DEF Orders, Bijection
<1>14. Ascending(s)
  <2> SUFFICES ASSUME NEW i \in 1 .. n, NEW j \in 1 .. n, i < j PROVE s[i] < s[j]
    BY <1>10 DEF Ascending
  <2>1. PICK c \in S, d \in S : c = s[i] /\ d = s[j] /\ rank[c] = i /\ rank[d] = j BY <1>10
  <2>2. ~(d < c) /\ c # d BY <1>1, <1>4, <2>1
  <2> QED BY <2>1, <2>2
<1> QED BY <1>13, <1>14

(* The number of elements in an order, which is a sequence.                 *)
LEMMA OrderLength ==
  ASSUME NEW K, IsFiniteSet(K), NEW o \in Orders(K)
  PROVE  Len(o) = Cardinality(K)
<1>1. Cardinality(K) \in Nat /\ o \in [1 .. Cardinality(K) -> K] BY OrderFacts, Zenon
<1> QED BY <1>1

(* The size of a set in three parts.                                        *)
LEMMA ThreeParts ==
  ASSUME NEW A, NEW B, NEW C, IsFiniteSet(A), IsFiniteSet(B), IsFiniteSet(C),
         A \cap B = {}, (A \cup B) \cap C = {}
  PROVE  Cardinality((A \cup B) \cup C) = Cardinality(A) + Cardinality(B) + Cardinality(C)
<1>1. Cardinality(A) \in Nat /\ Cardinality(B) \in Nat /\ Cardinality(C) \in Nat
  BY FS_CardinalityType
<1>2. /\ IsFiniteSet(A \cup B)
      /\ Cardinality(A \cup B) = Cardinality(A) + Cardinality(B) - Cardinality(A \cap B)
  BY FS_Union
<1>3. Cardinality(A \cap B) = 0 /\ Cardinality((A \cup B) \cap C) = 0 BY FS_EmptySet
<1>4. Cardinality((A \cup B) \cup C) =
        Cardinality(A \cup B) + Cardinality(C) - Cardinality((A \cup B) \cap C)
  BY <1>2, FS_Union
<1> QED BY <1>1, <1>2, <1>3, <1>4

(* A copy of a table that has all its columns.                              *)
CopyOf(t, name, table) ==
    IsTable(t, name, table) /\ \A c \in DOMAIN table.columns : t.columns_metadata[c] # Null

(* The columns come in three parts, each of them listed once.               *)
ThreeKinds(S, columns, P, C, N, p, c, r) ==
    /\ p \in Nat /\ c \in Nat /\ r \in Nat
    /\ Len(P) = p /\ Len(C) = c /\ Len(N) = r
    /\ P \in [1 .. p -> S] /\ C \in [1 .. c -> S] /\ N \in [1 .. r -> S]
    /\ \A i \in 1 .. p : columns[P[i]].column_kind = "PARTITION_KEY"
    /\ \A i \in 1 .. c : columns[C[i]].column_kind = "CLUSTERING_KEY"
    /\ \A i, j \in 1 .. r : i < j => N[i] < N[j]
    /\ \A x \in S :
          \/ \E i \in 1 .. p : x = P[i]
          \/ \E i \in 1 .. c : x = C[i]
          \/ \E i \in 1 .. r : x = N[i]
    /\ Cardinality(S) = p + c + r

(* Columns keep the kind they were declared with.                           *)
LEMMA KindsCopied ==
  /\ column_kind("PartitionKey") = "PARTITION_KEY"
  /\ column_kind("Clustering") = "CLUSTERING_KEY"
  /\ column_kind("Regular") = "REGULAR" /\ column_kind("Static") = "STATIC"
BY DEF column_kind

(* The two keys and the sorted rest are those three parts.                  *)
LEMMA TableColumns ==
  ASSUME NEW t, NEW name, NEW table, CopyOf(t, name, table), TableDeclared(table)
  PROVE  \E p, c, r : ThreeKinds(DOMAIN table.columns, t.columns_metadata, t.partition_keys,
                             t.clustering_keys, t.non_key_sorted_columns, p, c, r)
<1> DEFINE S == DOMAIN table.columns
           A == {x \in S : table.columns[x] = "PartitionKey"}
           B == {x \in S : table.columns[x] = "Clustering"}
           K == {x \in S : table.columns[x] \notin {"PartitionKey", "Clustering"}}
           kind(x) == t.columns_metadata[x].column_kind
<1>1. /\ S \subseteq ColumnNames
      /\ \A x \in S : table.columns[x] \in {"Regular", "Static", "Clustering", "PartitionKey"}
      /\ table.partition_key \in Orders(A) /\ table.clustering_key \in Orders(B)
  BY Zenon DEF TableDeclared
<1>2. IsFiniteSet(S) /\ S \in SUBSET Nat BY <1>1, SchemaAssumption, FS_Subset
<1>3. A \in SUBSET S /\ B \in SUBSET S /\ K \in SUBSET S BY Zenon
<1>4. IsFiniteSet(A) /\ IsFiniteSet(B) /\ IsFiniteSet(K) BY <1>2, <1>3, FS_Subset
<1>5. A \cap B = {} /\ (A \cup B) \cap K = {} /\ S = (A \cup B) \cup K OBVIOUS
<1>6. /\ DOMAIN t.columns_metadata = S
      /\ \A x \in S : kind(x) = column_kind(table.columns[x])
  BY DEF CopyOf, IsTable
<1>7. /\ \A x \in A : kind(x) = "PARTITION_KEY"
      /\ \A x \in B : kind(x) = "CLUSTERING_KEY"
      /\ \A x \in K : kind(x) \in {"REGULAR", "STATIC"}
  BY <1>1, <1>6, KindsCopied
<1>8. {x \in DOMAIN t.columns_metadata :
          t.columns_metadata[x].column_kind \notin {"PARTITION_KEY", "CLUSTERING_KEY"}} = K
  BY <1>5, <1>6, <1>7
<1> HIDE DEF A, B, K, S, kind
<1>9. K \in SUBSET Nat BY <1>2, <1>3
<1>10. \E s \in Orders(K) : Ascending(s) BY <1>4, <1>9, Sortable
<1>11. t.non_key_sorted_columns = CHOOSE s \in Orders(K) : Ascending(s)
  BY <1>8, Zenon DEF CopyOf, IsTable, non_key_sorted_columns
<1>12. t.non_key_sorted_columns \in Orders(K) /\ Ascending(t.non_key_sorted_columns)
  BY <1>10, <1>11, Zenon
<1>13. t.partition_keys \in Orders(A) /\ t.clustering_keys \in Orders(B)
  BY <1>1, Zenon DEF CopyOf, IsTable
<1>14. PICK P \in Orders(A), C \in Orders(B), N \in Orders(K) :
          P = t.partition_keys /\ C = t.clustering_keys /\ N = t.non_key_sorted_columns
  BY <1>12, <1>13, Zenon
<1> DEFINE p == Cardinality(A)
           c == Cardinality(B)
           r == Cardinality(K)
<1>15. /\ p \in Nat /\ P \in [1 .. p -> A] /\ (\A x \in A : \E i \in 1 .. p : P[i] = x) /\ Len(P) = p
  BY <1>4, OrderFacts, OrderLength, Zenon
<1>16. /\ c \in Nat /\ C \in [1 .. c -> B] /\ (\A x \in B : \E i \in 1 .. c : C[i] = x) /\ Len(C) = c
  BY <1>4, OrderFacts, OrderLength, Zenon
<1>17. /\ r \in Nat /\ N \in [1 .. r -> K] /\ (\A x \in K : \E i \in 1 .. r : N[i] = x) /\ Len(N) = r
  BY <1>4, OrderFacts, OrderLength, Zenon
<1>18. Cardinality(S) = p + c + r BY <1>4, <1>5, ThreeParts
<1> HIDE DEF p, c, r
<1>19. P \in [1 .. p -> S] /\ C \in [1 .. c -> S] /\ N \in [1 .. r -> S]
  BY <1>3, <1>15, <1>16, <1>17
<1>20. \A i, j \in 1 .. r : i < j => N[i] < N[j]
  <2>1. Ascending(N) /\ DOMAIN N = 1 .. r BY <1>12, <1>14, <1>17, Zenon
  <2> QED BY <2>1, Zenon DEF Ascending
<1>21. \A x \in S : x \in A \/ x \in B \/ x \in K BY <1>5, Zenon
<1>22. \A x \in S : \/ \E i \in 1 .. p : x = P[i]
                    \/ \E i \in 1 .. c : x = C[i]
                    \/ \E i \in 1 .. r : x = N[i]
  BY <1>15, <1>16, <1>17, <1>21, Zenon
<1>23. /\ \A i \in 1 .. p : t.columns_metadata[P[i]].column_kind = "PARTITION_KEY"
       /\ \A i \in 1 .. c : t.columns_metadata[C[i]].column_kind = "CLUSTERING_KEY"
  <2>1. /\ \A i \in 1 .. p : P[i] \in A
        /\ \A i \in 1 .. c : C[i] \in B
    BY <1>15, <1>16
  <2> QED BY <1>7, <2>1, Zenon DEF kind
<1>24. ThreeKinds(S, t.columns_metadata, P, C, N, p, c, r)
  BY <1>15, <1>16, <1>17, <1>18, <1>19, <1>20, <1>22, <1>23, Zenon DEF ThreeKinds
<1> QED BY <1>14, <1>24, Zenon DEF S

(* Where a column is found by its index.                                    *)
Placed(t, columns, P, C, N, p, c, r) ==
    /\ \A i \in 1 .. p : table_meta_column(t, i - 1) = columns[P[i]]
    /\ \A i \in 1 .. c : table_meta_column(t, p + i - 1) = columns[C[i]]
    /\ \A i \in 1 .. r : table_meta_column(t, p + c + i - 1) = columns[N[i]]
    /\ table_meta_column(t, p + c + r) = Null
    /\ \A i \in 1 .. p : table_meta_partition_key(t, i - 1) = Get(columns, P[i])
    /\ \A i \in 1 .. c : table_meta_clustering_key(t, i - 1) = Get(columns, C[i])

(* cass_table_meta_column goes through them one after the other.            *)
LEMMA ColumnAt ==
  ASSUME NEW t, NEW S, NEW p, NEW c, NEW r,
         ThreeKinds(S, t.columns_metadata, t.partition_keys, t.clustering_keys,
                 t.non_key_sorted_columns, p, c, r)
  PROVE  Placed(t, t.columns_metadata, t.partition_keys, t.clustering_keys,
                t.non_key_sorted_columns, p, c, r)
<1>1. /\ p \in Nat /\ c \in Nat /\ r \in Nat
      /\ Len(t.partition_keys) = p /\ Len(t.clustering_keys) = c
      /\ Len(t.non_key_sorted_columns) = r
  BY Zenon DEF ThreeKinds
<1>2. ASSUME NEW i \in 1 .. p
      PROVE  /\ table_meta_column(t, i - 1) = t.columns_metadata[t.partition_keys[i]]
             /\ table_meta_partition_key(t, i - 1) = Get(t.columns_metadata, t.partition_keys[i])
  <2>1. i - 1 < p /\ (i - 1) + 1 = i BY <1>1
  <2> QED BY <1>1, <2>1, Zenon DEF table_meta_column, table_meta_partition_key
<1>3. ASSUME NEW i \in 1 .. c
      PROVE  /\ table_meta_column(t, p + i - 1) = t.columns_metadata[t.clustering_keys[i]]
             /\ table_meta_clustering_key(t, i - 1) = Get(t.columns_metadata, t.clustering_keys[i])
  <2>1. /\ ~(p + i - 1 < p) /\ (p + i - 1) - p < c /\ (p + i - 1) - p + 1 = i
        /\ i - 1 < c /\ (i - 1) + 1 = i
    BY <1>1
  <2> QED BY <1>1, <2>1, Zenon DEF table_meta_column, table_meta_clustering_key
<1>4. ASSUME NEW i \in 1 .. r
      PROVE  table_meta_column(t, p + c + i - 1) = t.columns_metadata[t.non_key_sorted_columns[i]]
  <2>1. /\ ~(p + c + i - 1 < p) /\ ~((p + c + i - 1) - p < c)
        /\ (p + c + i - 1) - p - c < r /\ (p + c + i - 1) - p - c + 1 = i
    BY <1>1
  <2> QED BY <1>1, <2>1, Zenon DEF table_meta_column
<1>5. table_meta_column(t, p + c + r) = Null
  <2>1. /\ ~(p + c + r < p) /\ ~((p + c + r) - p < c) /\ ~((p + c + r) - p - c < r)
    BY <1>1
  <2> QED BY <1>1, <2>1, Zenon DEF table_meta_column
<1> QED BY <1>2, <1>3, <1>4, <1>5, Zenon DEF Placed

(* A copy of a table that is as declared is faithful to it.                 *)
LEMMA CopyFaithful ==
  ASSUME NEW t, NEW name, NEW table, CopyOf(t, name, table), TableDeclared(table)
  PROVE  TableFaithful(t, name, table)
<1> DEFINE S == DOMAIN table.columns
           columns == t.columns_metadata
           P == t.partition_keys
           C == t.clustering_keys
           N == t.non_key_sorted_columns
           column(i) == table_meta_column(t, i)
<1>1. PICK p, c, r : ThreeKinds(S, columns, P, C, N, p, c, r) BY TableColumns, Zenon
<1>2. /\ DOMAIN columns = S /\ t.name = name
      /\ \A x \in S : columns[x] # Null /\ columns[x].name = x
      /\ P = table.partition_key /\ C = table.clustering_key
  BY DEF CopyOf, IsTable
<1>3. Placed(t, columns, P, C, N, p, c, r) BY <1>1, ColumnAt, Zenon
<1> HIDE DEF S, columns, P, C, N
<1>4. /\ p \in Nat /\ c \in Nat /\ r \in Nat /\ Cardinality(S) = p + c + r
      /\ Len(P) = p /\ Len(C) = c
      /\ P \in [1 .. p -> S] /\ C \in [1 .. c -> S] /\ N \in [1 .. r -> S]
  BY <1>1, Zenon DEF ThreeKinds
<1> DEFINE n == table_meta_column_count(t)
           pks == table_meta_partition_key_count(t)
           cks == table_meta_clustering_key_count(t)
<1>5. n = p + c + r /\ pks = p /\ cks = c
  BY <1>2, <1>4, Zenon DEF table_meta_column_count, table_meta_partition_key_count,
     table_meta_clustering_key_count, columns, P, C
<1> HIDE DEF column, n, pks, cks
<1>6. ASSUME NEW i \in 0 .. p - 1
      PROVE  /\ column(i) = table_meta_partition_key(t, i)
             /\ column(i).name = table.partition_key[i + 1]
             /\ column(i).column_kind = "PARTITION_KEY"
             /\ column(i) \in {columns[x] : x \in S}
  <2>1. PICK j \in 1 .. p : j = i + 1 /\ i = j - 1 BY <1>4
  <2>2. P[j] \in S BY <1>4, Zenon
  <2>3. Get(columns, P[j]) = columns[P[j]] BY <1>2, <2>2, Zenon DEF Get
  <2>4. columns[P[j]].column_kind = "PARTITION_KEY" BY <1>1, Zenon DEF ThreeKinds
  <2>5. column(i) = columns[P[j]] BY <1>3, <2>1, Zenon DEF Placed, column
  <2>6. table_meta_partition_key(t, i) = Get(columns, P[j]) BY <1>3, <2>1, Zenon DEF Placed, column
  <2>7. columns[P[j]].name = table.partition_key[i + 1] BY <1>2, <2>1, <2>2, Zenon
  <2> QED BY <2>2, <2>3, <2>4, <2>5, <2>6, <2>7, Zenon
<1>7. ASSUME NEW i \in 0 .. c - 1
      PROVE  /\ column(p + i) = table_meta_clustering_key(t, i)
             /\ column(p + i).name = table.clustering_key[i + 1]
             /\ column(p + i).column_kind = "CLUSTERING_KEY"
             /\ column(p + i) \in {columns[x] : x \in S}
  <2>1. PICK j \in 1 .. c : j = i + 1 /\ i = j - 1 /\ p + i = p + j - 1 BY <1>4
  <2>2. C[j] \in S BY <1>4, Zenon
  <2>3. Get(columns, C[j]) = columns[C[j]] BY <1>2, <2>2, Zenon DEF Get
  <2>4. columns[C[j]].column_kind = "CLUSTERING_KEY" BY <1>1, Zenon DEF ThreeKinds
  <2>5. column(p + i) = columns[C[j]] BY <1>3, <2>1, Zenon DEF Placed, column
  <2>6. table_meta_clustering_key(t, i) = Get(columns, C[j]) BY <1>3, <2>1, Zenon DEF Placed, column
  <2>7. columns[C[j]].name = table.clustering_key[i + 1] BY <1>2, <2>1, <2>2, Zenon
  <2> QED BY <2>2, <2>3, <2>4, <2>5, <2>6, <2>7, Zenon
<1>8. ASSUME NEW i \in p + c .. p + c + r - 1
      PROVE  \E j \in 1 .. r : j = i - p - c + 1 /\ column(i) = columns[N[j]] /\ N[j] \in S
  <2>1. PICK j \in 1 .. r : j = i - p - c + 1 /\ i = p + c + j - 1 BY <1>4
  <2>2. N[j] \in S BY <1>4, Zenon
  <2> QED BY <1>3, <2>1, <2>2, Zenon DEF Placed, column
<1>9. \A i, j \in pks + cks .. n - 1 : i < j => column(i).name < column(j).name
  <2> SUFFICES ASSUME NEW i \in pks + cks .. n - 1, NEW j \in pks + cks .. n - 1, i < j
               PROVE  column(i).name < column(j).name
    BY Zenon
  <2>0. i \in p + c .. p + c + r - 1 /\ j \in p + c .. p + c + r - 1 BY <1>4, <1>5
  <2>1. PICK a \in 1 .. r : a = i - p - c + 1 /\ column(i) = columns[N[a]] /\ N[a] \in S
    BY <1>8, <2>0, Zenon
  <2>2. PICK b \in 1 .. r : b = j - p - c + 1 /\ column(j) = columns[N[b]] /\ N[b] \in S
    BY <1>8, <2>0, Zenon
  <2>3. a < b BY <1>4, <2>1, <2>2
  <2>4. N[a] < N[b] BY <1>1, <2>3, Zenon DEF ThreeKinds
  <2> QED BY <1>2, <2>1, <2>2, <2>4, Zenon
<1>10. {column(i) : i \in 0 .. n - 1} = {columns[x] : x \in S}
  <2>1. ASSUME NEW i \in 0 .. n - 1 PROVE column(i) \in {columns[x] : x \in S}
    <3>1. CASE i \in 0 .. p - 1 BY <1>6, <3>1, Zenon
    <3>2. CASE i \in p .. p + c - 1
      <4>1. PICK j \in 0 .. c - 1 : i = p + j
        <5>1. i - p \in 0 .. c - 1 /\ i = p + (i - p) BY <1>4, <3>2
        <5> QED BY <5>1, Zenon
      <4> QED BY <1>7, <4>1, Zenon
    <3>3. CASE i \in p + c .. p + c + r - 1 BY <1>8, <3>3, Zenon
    <3> QED BY <1>4, <1>5, <3>1, <3>2, <3>3
  <2>2. ASSUME NEW x \in S PROVE \E i \in 0 .. n - 1 : column(i) = columns[x]
    <3>1. CASE \E i \in 1 .. p : x = P[i]
      <4>1. PICK i \in 1 .. p : x = P[i] BY <3>1, Zenon
      <4>2. i - 1 \in 0 .. n - 1 BY <1>4, <1>5
      <4> QED BY <1>3, <4>1, <4>2, Zenon DEF Placed, column
    <3>2. CASE \E i \in 1 .. c : x = C[i]
      <4>1. PICK i \in 1 .. c : x = C[i] BY <3>2, Zenon
      <4>2. p + i - 1 \in 0 .. n - 1 BY <1>4, <1>5
      <4> QED BY <1>3, <4>1, <4>2, Zenon DEF Placed, column
    <3>3. CASE \E i \in 1 .. r : x = N[i]
      <4>1. PICK i \in 1 .. r : x = N[i] BY <3>3, Zenon
      <4>2. p + c + i - 1 \in 0 .. n - 1 BY <1>4, <1>5
      <4> QED BY <1>3, <4>1, <4>2, Zenon DEF Placed, column
    <3> QED BY <1>1, <3>1, <3>2, <3>3, Zenon DEF ThreeKinds
  <2> QED BY <2>1, <2>2, Zenon
<1>11. \A x \in ColumnNames : table_meta_column_by_name(t, x) # Null <=> x \in S
  BY <1>2, Zenon DEF table_meta_column_by_name, Get, columns
<1>12. n = Cardinality(S) /\ column(n) = Null BY <1>3, <1>4, <1>5, Zenon DEF Placed, column
<1>13. pks = Len(table.partition_key) /\ cks = Len(table.clustering_key)
  BY <1>2, <1>4, <1>5, Zenon
<1>14. \A i \in 0 .. pks - 1 : /\ column(i) = table_meta_partition_key(t, i)
                               /\ column(i).name = table.partition_key[i + 1]
                               /\ column(i).column_kind = "PARTITION_KEY"
  BY <1>5, <1>6, Zenon
<1>15. \A i \in 0 .. cks - 1 : /\ column(pks + i) = table_meta_clustering_key(t, i)
                               /\ column(pks + i).name = table.clustering_key[i + 1]
                               /\ column(pks + i).column_kind = "CLUSTERING_KEY"
  BY <1>5, <1>7, Zenon
<1> QED
  BY <1>2, <1>9, <1>10, <1>11, <1>12, <1>13, <1>14, <1>15, Zenon
     DEF TableFaithful, S, columns, column, n, pks, cks

(* Tables and the tables in views are such copies.                          *)
LEMMA TableIsCopy ==
  ASSUME NEW name, NEW table, NEW t, IsTable(t, name, table),
         ObjectsOK(t.columns_metadata, DOMAIN table.columns)
  PROVE  CopyOf(t, name, table)
BY Zenon DEF CopyOf, ObjectsOK

(* Whatever the order of its columns, a view shows each of them by index.   *)
LEMMA ViewColumns ==
  ASSUME NEW v, NEW S, IsFiniteSet(S), DOMAIN v.view_metadata.columns_metadata = S,
         NEW o \in Orders(S)
  PROVE  /\ view_meta_column(v, Cardinality(S), o) = Null
         /\ {view_meta_column(v, i, o) : i \in 0 .. Cardinality(S) - 1}
               = {v.view_metadata.columns_metadata[c] : c \in S}
<1> DEFINE n == Cardinality(S)
           columns == v.view_metadata.columns_metadata
<1>1. /\ n \in Nat /\ o \in [1 .. n -> S]
      /\ \A c \in S : \E j \in 1 .. n : o[j] = c
  <2> HIDE DEF columns
  <2>1. Cardinality(S) \in Nat BY OrderFacts
  <2>2. o \in [1 .. Cardinality(S) -> S] BY OrderFacts
  <2>3. \A c \in S : \E j \in 1 .. Cardinality(S) : o[j] = c BY OrderFacts
  <2> QED BY <2>1, <2>2, <2>3
<1>2. DOMAIN o = 1 .. n BY <1>1, Zenon
<1> HIDE DEF n
<1>3. n + 1 \notin 1 .. n BY <1>1
<1>4. view_meta_column(v, n, o) = Null BY <1>2, <1>3, Zenon DEF view_meta_column
<1>5. ASSUME NEW i \in 0 .. n - 1
      PROVE  view_meta_column(v, i, o) \in {columns[c] : c \in S}
  <2>1. i + 1 \in 1 .. n BY <1>1
  <2>2. o[i + 1] \in S BY <1>1, <2>1, Zenon
  <2> QED BY <1>2, <2>1, <2>2, Zenon DEF view_meta_column
<1>6. ASSUME NEW c \in S PROVE \E i \in 0 .. n - 1 : view_meta_column(v, i, o) = columns[c]
  <2>1. PICK j \in 1 .. n : o[j] = c BY <1>1, Zenon
  <2>2. PICK i \in 0 .. n - 1 : i + 1 = j
    <3>1. j - 1 \in 0 .. n - 1 /\ (j - 1) + 1 = j BY <1>1
    <3> QED BY <3>1, Zenon
  <2> QED BY <1>2, <2>1, <2>2, Zenon DEF view_meta_column
<1>7. {view_meta_column(v, i, o) : i \in 0 .. n - 1} = {columns[c] : c \in S}
  BY <1>5, <1>6, Zenon
<1> QED BY <1>4, <1>7, Zenon DEF n

(* A view whose table is faithful.                                          *)
LEMMA ViewOfTable ==
  ASSUME NEW v, NEW name, NEW view, v.name = name,
         TableFaithful(v.view_metadata, name, view),
         ObjectsOK(v.view_metadata.columns_metadata, DOMAIN view.columns),
         DOMAIN view.columns \in SUBSET ColumnNames
  PROVE  ViewFaithful(v, name, view)
<1> DEFINE S == DOMAIN view.columns
           columns == v.view_metadata.columns_metadata
           n == view_meta_column_count(v)
           t == v.view_metadata
<1>1. IsFiniteSet(S) BY SchemaAssumption, FS_Subset
<1>2. DOMAIN columns = S /\ n = Cardinality(S) BY Zenon DEF ObjectsOK, view_meta_column_count
<1>3. \A o \in Orders(DOMAIN columns) :
         /\ view_meta_column(v, n, o) = Null
         /\ {view_meta_column(v, i, o) : i \in 0 .. n - 1} = {columns[c] : c \in S}
  BY <1>1, <1>2, ViewColumns, Zenon
<1>4. /\ table_meta_partition_key_count(t) = Len(view.partition_key)
      /\ table_meta_clustering_key_count(t) = Len(view.clustering_key)
      /\ \A i \in 0 .. Len(view.partition_key) - 1 :
            /\ table_meta_partition_key(t, i).name = view.partition_key[i + 1]
            /\ table_meta_partition_key(t, i).column_kind = "PARTITION_KEY"
      /\ \A i \in 0 .. Len(view.clustering_key) - 1 :
            /\ table_meta_clustering_key(t, i).name = view.clustering_key[i + 1]
            /\ table_meta_clustering_key(t, i).column_kind = "CLUSTERING_KEY"
      /\ \A c \in ColumnNames : table_meta_column_by_name(t, c) # Null <=> c \in S
  BY Zenon DEF TableFaithful
<1> HIDE DEF S, columns, n
<1> QED
  BY <1>2, <1>3, <1>4, Zenon
     DEF ViewFaithful, view_meta_partition_key_count, view_meta_clustering_key_count,
         view_meta_partition_key, view_meta_clustering_key, view_meta_column_by_name,
         table_meta_partition_key_count, table_meta_clustering_key_count,
         table_meta_column_by_name, S, columns, n

(* A view that a table of the keyspace has.                                 *)
LEMMA ViewIsFaithful ==
  ASSUME NEW keyspace, WellFormed(keyspace), NEW t, NEW v \in DOMAIN keyspace.views,
         NEW view, view = table_views(keyspace, t)[v],
         ObjectsOK(view.view_metadata.columns_metadata, DOMAIN keyspace.views[v].columns)
  PROVE  ViewFaithful(view, v, keyspace.views[v]) /\ view.base_table = t
<1>1. /\ view.name = v /\ view.base_table = t
      /\ view.view_metadata = create_table_metadata(v, keyspace.views[v])
  BY DEF table_views
<1>2. CopyOf(view.view_metadata, v, keyspace.views[v]) BY <1>1, TableAlone, TableIsCopy, Zenon
<1>3. TableDeclared(keyspace.views[v]) BY Zenon DEF WellFormed
<1>4. TableFaithful(view.view_metadata, v, keyspace.views[v]) BY <1>2, <1>3, CopyFaithful, Zenon
<1>5. DOMAIN keyspace.views[v].columns \in SUBSET ColumnNames BY ColumnsNamed, Zenon
<1> QED BY <1>1, <1>4, <1>5, ViewOfTable, Zenon

(* The copy of a keyspace is faithful to it.                                *)
LEMMA KeyspaceIsFaithful ==
  ASSUME NEW name, NEW keyspace, NEW last \in LastTables(keyspace),
         WellFormed(keyspace), NullApart(keyspace_meta(name, keyspace, last))
  PROVE  KeyspaceFaithful(keyspace_meta(name, keyspace, last), keyspace)
<1> DEFINE k == keyspace_meta(name, keyspace, last)
<1>1. /\ k.tables = [t \in DOMAIN keyspace.tables |->
                       [create_table_metadata(t, keyspace.tables[t]) EXCEPT
                          !.views = table_views(keyspace, t)]]
      /\ k.views = IF last = Null THEN <<>> ELSE table_views(keyspace, last)
  BY DEF keyspace_meta
<1>2. KeyspaceOK(k, keyspace) BY KeyspaceCopied, Zenon
<1> HIDE DEF k
<1>3. /\ ObjectsOK(k.user_types, keyspace.user_defined_types)
      /\ ObjectsOK(k.tables, DOMAIN keyspace.tables)
      /\ ObjectsOK(k.views, DOMAIN keyspace.views)
      /\ \A t \in DOMAIN keyspace.tables : TableOK(k.tables[t], keyspace.tables[t], keyspace)
  BY <1>2, Zenon DEF KeyspaceOK
<1>4. ASSUME NEW t \in DOMAIN keyspace.tables
      PROVE  /\ TableFaithful(k.tables[t], t, keyspace.tables[t])
             /\ k.tables[t].views = table_views(keyspace, t)
             /\ k.tables[t] # Null /\ Get(k.tables, t) = k.tables[t]
  <2>1. PICK table : table = k.tables[t] BY Zenon
  <2>2. WithViews(table, t, keyspace.tables[t], table_views(keyspace, t))
    BY <1>1, <2>1, Zenon DEF WithViews
  <2>3. table.views = table_views(keyspace, t) /\ IsTable(table, t, keyspace.tables[t])
    BY <2>2, TableWithViews, Zenon
  <2>4. ObjectsOK(table.columns_metadata, DOMAIN keyspace.tables[t].columns)
    BY <1>3, <2>1, Zenon DEF TableOK
  <2>5. CopyOf(table, t, keyspace.tables[t]) BY <2>3, <2>4, TableIsCopy, Zenon
  <2>6. TableDeclared(keyspace.tables[t]) BY Zenon DEF WellFormed
  <2>7. TableFaithful(table, t, keyspace.tables[t]) BY <2>5, <2>6, CopyFaithful, Zenon
  <2> QED BY <1>3, <2>1, <2>3, <2>7, Zenon DEF ObjectsOK, Get
<1>5. ASSUME NEW t \in DOMAIN keyspace.tables, NEW v \in DOMAIN keyspace.views
      PROVE  LET view == table_meta_view_by_name(k.tables[t], v)
             IN  /\ view = table_views(keyspace, t)[v]
                 /\ ViewFaithful(view, v, keyspace.views[v])
                 /\ view_meta_base_table(k, view) = k.tables[t]
  <2>1. /\ ObjectsOK(k.tables[t].views, DOMAIN keyspace.views)
        /\ ObjectsOK(k.tables[t].views[v].view_metadata.columns_metadata,
                     DOMAIN keyspace.views[v].columns)
    BY <1>3, Zenon DEF TableOK
  <2>2. PICK view : view = k.tables[t].views[v] BY Zenon
  <2>3. view = table_views(keyspace, t)[v] BY <1>4, <2>2, Zenon
  <2>4. table_meta_view_by_name(k.tables[t], v) = view
    BY <2>1, <2>2, Zenon DEF ObjectsOK, table_meta_view_by_name, Get
  <2>5. ObjectsOK(view.view_metadata.columns_metadata, DOMAIN keyspace.views[v].columns)
    BY <2>1, <2>2, Zenon
  <2>6. ViewFaithful(view, v, keyspace.views[v]) /\ view.base_table = t
    BY <2>3, <2>5, ViewIsFaithful, SMT
  <2>7. view_meta_base_table(k, view) = k.tables[t]
    BY <1>4, <2>6, Zenon DEF view_meta_base_table
  <2> QED BY <2>3, <2>4, <2>6, <2>7, Zenon
<1>6. ASSUME NEW n \in DOMAIN keyspace.views
      PROVE  LET v == keyspace_meta_view_by_name(k, n)
             IN  /\ ViewFaithful(v, n, keyspace.views[n])
                 /\ view_meta_base_table(k, v) # Null
                 /\ table_meta_view_by_name(view_meta_base_table(k, v), n) = v
  <2>1. last \in DOMAIN keyspace.tables /\ last # Null
    <3>1. DOMAIN keyspace.tables # {} BY Zenon DEF WellFormed
    <3>2. last \in DOMAIN keyspace.tables BY <3>1, Zenon DEF LastTables
    <3>3. DOMAIN keyspace.tables \subseteq Names BY Zenon DEF WellFormed
    <3>4. Null \notin Names BY Zenon, SchemaAssumption
    <3> QED BY <3>2, <3>3, <3>4, Zenon
  <2>2. k.views = table_views(keyspace, last) BY <1>1, <2>1, Zenon
  <2>3. keyspace_meta_view_by_name(k, n) = table_views(keyspace, last)[n]
    BY <1>3, <2>2, Zenon DEF keyspace_meta_view_by_name, Get, ObjectsOK
  <2>4. PICK v : v = table_meta_view_by_name(k.tables[last], n) BY Zenon
  <2>5. /\ v = table_views(keyspace, last)[n] /\ ViewFaithful(v, n, keyspace.views[n])
        /\ view_meta_base_table(k, v) = k.tables[last] /\ k.tables[last] # Null
    BY <1>4, <1>5, <2>1, <2>4, Zenon
  <2> QED BY <2>3, <2>4, <2>5, Zenon
<1>7. ASSUME NEW n \in Names
      PROVE  keyspace_meta_user_type_by_name(k, n) # Null <=> n \in keyspace.user_defined_types
  BY <1>3, Zenon DEF keyspace_meta_user_type_by_name, Get, ObjectsOK
<1>8. ASSUME NEW n \in Names
      PROVE  LET t == keyspace_meta_table_by_name(k, n)
             IN  IF n \notin DOMAIN keyspace.tables THEN t = Null
                 ELSE TableFaithful(t, n, keyspace.tables[n]) /\ ViewsFaithful(k, t, n, keyspace)
  <2>1. CASE n \notin DOMAIN keyspace.tables
    BY <1>3, <2>1, Zenon DEF keyspace_meta_table_by_name, Get, ObjectsOK
  <2>2. CASE n \in DOMAIN keyspace.tables
    <3>1. keyspace_meta_table_by_name(k, n) = k.tables[n]
      BY <1>4, <2>2, Zenon DEF keyspace_meta_table_by_name
    <3>2. PICK t : t = k.tables[n] BY Zenon
    <3>3. ObjectsOK(t.views, DOMAIN keyspace.views) BY <1>3, <2>2, <3>2, Zenon DEF TableOK
    <3>4. \A v : table_meta_view_by_name(t, v) # Null <=> v \in DOMAIN keyspace.views
      BY <3>3, Zenon DEF ObjectsOK, table_meta_view_by_name, Get
    <3>5. {v \in Names : table_meta_view_by_name(t, v) # Null} = DOMAIN keyspace.views
      <4>1. DOMAIN keyspace.views \subseteq Names BY Zenon DEF WellFormed
      <4> QED BY <3>4, <4>1, Zenon
    <3>6. table_meta_view_count(t)
            = Cardinality({v \in Names : table_meta_view_by_name(t, v) # Null})
      BY <3>3, <3>5, Zenon DEF table_meta_view_count, ObjectsOK
    <3>7. \A v \in DOMAIN keyspace.views :
             /\ ViewFaithful(table_meta_view_by_name(t, v), v, keyspace.views[v])
             /\ view_meta_base_table(k, table_meta_view_by_name(t, v)) = t
      BY <1>5, <2>2, <3>2, Zenon
    <3>8. ViewsFaithful(k, t, n, keyspace) BY <3>4, <3>6, <3>7, Zenon DEF ViewsFaithful
    <3> QED BY <1>4, <2>2, <3>1, <3>2, <3>8, Zenon
  <2> QED BY <2>1, <2>2, Zenon
<1>9. ASSUME NEW n \in Names
      PROVE  n \notin DOMAIN keyspace.views => keyspace_meta_view_by_name(k, n) = Null
  BY <1>3, Zenon DEF keyspace_meta_view_by_name, Get, ObjectsOK
<1>10. KeyspaceFaithful(k, keyspace)
  BY <1>6, <1>7, <1>8, <1>9, Zenon DEF KeyspaceFaithful
<1> QED BY <1>10, Zenon DEF k

(* Every step keeps a snapshot faithful.                                    *)
LEMMA FaithfulStep ==
  ASSUME SnapshotFaithful, SchemaNext
  PROVE  SnapshotFaithful'
<1>1. ASSUME NEW server \in Schemas, get_schema_meta(server) PROVE SnapshotFaithful'
  <2>1. PICK last \in [DOMAIN server -> Names \cup {Null}] :
          /\ \A k \in DOMAIN server : last[k] \in LastTables(server[k])
          /\ snapshot' = [k \in DOMAIN server |-> keyspace_meta(k, server[k], last[k])]
    BY <1>1, Zenon DEF get_schema_meta
  <2>2. as_of' = server BY <1>1, Zenon DEF get_schema_meta
  <2>3. ASSUME NEW n \in DOMAIN server
        PROVE  /\ snapshot'[n].name = n
               /\ KeyspaceFaithful(snapshot'[n], server[n])
    <3>1. WellFormed(server[n]) /\ NullApart(keyspace_meta(n, server[n], last[n]))
      BY <2>1, SchemaAssumption, Zenon
    <3>2. snapshot'[n] = keyspace_meta(n, server[n], last[n]) BY <2>1, Zenon
    <3>3. keyspace_meta(n, server[n], last[n]).name = n BY <2>1, <3>1, KeyspaceCopied, Zenon
    <3> QED BY <2>1, <3>1, <3>2, <3>3, KeyspaceIsFaithful, Zenon
  <2>4. DOMAIN snapshot' = DOMAIN server BY <2>1, Zenon
  <2>5. ASSUME NEW n \in Names
        PROVE  IF n \notin DOMAIN server THEN Get(snapshot', n) = Null
               ELSE /\ Get(snapshot', n).name = n
                    /\ KeyspaceFaithful(Get(snapshot', n), server[n])
    BY <2>3, <2>4, Zenon DEF Get
  <2> QED BY <2>2, <2>5, Zenon DEF SnapshotFaithful, schema_meta_keyspace_by_name
<1>2. CASE schema_meta_free
  BY <1>2, Zenon DEF schema_meta_free, SnapshotFaithful
<1>3. CASE UNCHANGED <<snapshot, as_of>>
  BY <1>3, Zenon DEF SnapshotFaithful, schema_meta_keyspace_by_name
<1>4. \A i, inner, of, keys, count :
         NewIterator(i, inner, of, keys, count) => UNCHANGED <<snapshot, as_of>>
  BY Zenon DEF NewIterator, SetSchemaIter
<1>5. ASSUME NEW i \in SchemaIterators, schema_next(i) \/ schema_iterator_free(i)
      PROVE  UNCHANGED <<snapshot, as_of>>
  BY <1>5, Zenon DEF schema_next, schema_iterator_free, SetSchemaIter
<1>6. ASSUME NEW i \in SchemaIterators, NEW k,
             \/ keyspaces_from_schema_meta(i) \/ tables_from_keyspace_meta(i, k)
             \/ views_from_keyspace_meta(i, k) \/ user_types_from_keyspace_meta(i, k)
             \/ \E t : \/ columns_from_table_meta(i, k, t) \/ views_from_table_meta(i, k, t)
                      \/ \E v : columns_from_view_meta(i, k, t, v)
      PROVE  UNCHANGED <<snapshot, as_of>>
  BY <1>4, <1>6, Zenon DEF keyspaces_from_schema_meta, tables_from_keyspace_meta,
     views_from_keyspace_meta, user_types_from_keyspace_meta, columns_from_table_meta,
     views_from_table_meta, columns_from_view_meta
<1> QED BY <1>1, <1>2, <1>3, <1>5, <1>6, Zenon DEF SchemaNext
=============================================================================
