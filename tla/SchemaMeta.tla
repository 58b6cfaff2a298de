----------------------------- MODULE SchemaMeta -----------------------------
(***************************************************************************)
(* The schema metadata (session.rs, metadata.rs, iterator.rs).             *)
(* cass_session_get_schema_meta copies the schema the driver knows into an *)
(* object of its own, a CassSchemaMeta, that the application looks things  *)
(* up in and walks over with iterators.  A HashMap is a function; the      *)
(* order it iterates in is any order of its keys, chosen here when it is   *)
(* first looked at and kept from then on.  Column names are numbers, in    *)
(* alphabetical order.  Of a user type only the name is kept, of a column  *)
(* only the kind.                                                          *)
(***************************************************************************)
EXTENDS Naturals, Sequences, FiniteSets, Functions

CONSTANTS Schemas,       \* what the driver may find on the server: functions
                         \* from names to its Keyspace
          Names,         \* names of keyspaces, types, tables and views
          ColumnNames,
          SchemaIterators,
          Null,          \* a null pointer, and a position before the first
          MaxWalks       \* iterators made over one snapshot

VARIABLES snapshot,    \* the CassSchemaMeta the application has, or Null
          as_of,       \* history: the schema it is a copy of
          order,       \* the order of its maps that have been iterated over
          schema_iter, \* the iterators over it
          walks

schemaVars == <<snapshot, as_of, order, schema_iter, walks>>

SchemaInit ==
    /\ snapshot = Null /\ as_of = Null
    /\ order = <<>>
    /\ schema_iter = [i \in SchemaIterators |-> Null]
    /\ walks = 0

-----------------------------------------------------------------------------
(* The copy.                                                                *)
column_kind(kind) ==
    CASE kind = "Regular" -> "REGULAR"
      [] kind = "Static" -> "STATIC"
      [] kind = "Clustering" -> "CLUSTERING_KEY"
      [] kind = "PartitionKey" -> "PARTITION_KEY"

(* The orders a HashMap with these keys may iterate in.                     *)
Orders(keys) == Bijection(1 .. Cardinality(keys), keys)
Ascending(s) == \A i, j \in DOMAIN s : i < j => s[i] < s[j]

BugStaticsAreKeys(columns) ==       \* only regular columns follow the keys
    CHOOSE s \in Orders({c \in DOMAIN columns : columns[c].column_kind = "REGULAR"}) :
        Ascending(s)

non_key_sorted_columns(columns) ==
    CHOOSE s \in Orders({c \in DOMAIN columns :
            columns[c].column_kind \notin {"PARTITION_KEY", "CLUSTERING_KEY"}}) : Ascending(s)

(* For a table, and for the table in a view.                                *)
create_table_metadata(table_name, table) ==
    LET columns == [c \in DOMAIN table.columns |->
                        [name |-> c, column_kind |-> column_kind(table.columns[c])]]
    IN  [name |-> table_name, columns_metadata |-> columns,
         partition_keys |-> table.partition_key, clustering_keys |-> table.clustering_key,
         non_key_sorted_columns |-> non_key_sorted_columns(columns), views |-> <<>>]

(* A table gets all views of its keyspace, each with that table, by a Weak, *)
(* for the base table; the name of the base table that the driver has is    *)
(* not looked at.                                                           *)
table_views(keyspace, table_name) ==
    [v \in DOMAIN keyspace.views |->
        [name |-> v, view_metadata |-> create_table_metadata(v, keyspace.views[v]),
         base_table |-> table_name]]

(* The keyspace's own map of views is written by every table: those of the  *)
(* last one in the driver's map stay.                                       *)
keyspace_meta(keyspace_name, keyspace, last) ==
    [name |-> keyspace_name,
     user_types |-> [u \in keyspace.user_defined_types |-> [name |-> u]],
     tables |-> [t \in DOMAIN keyspace.tables |->
                    [create_table_metadata(t, keyspace.tables[t]) EXCEPT
                        !.views = table_views(keyspace, t)]],
     views |-> IF last = Null THEN <<>> ELSE table_views(keyspace, last)]

LastTables(keyspace) == IF DOMAIN keyspace.tables = {} THEN {Null} ELSE DOMAIN keyspace.tables

(* The driver lists the columns of each key, by their position in it.       *)
TableDeclared(table) ==
    LET columns == table.columns
        OfKind(kind) == {c \in DOMAIN columns : columns[c] = kind}
    IN  /\ DOMAIN columns \subseteq ColumnNames
        /\ \A c \in DOMAIN columns : columns[c] \in {"Regular", "Static", "Clustering", "PartitionKey"}
        /\ table.partition_key \in Orders(OfKind("PartitionKey"))
        /\ table.clustering_key \in Orders(OfKind("Clustering"))

(* The base table of a view is in the view's keyspace.                      *)
WellFormed(keyspace) ==
    /\ keyspace.user_defined_types \subseteq Names
    /\ DOMAIN keyspace.tables \subseteq Names /\ DOMAIN keyspace.views \subseteq Names
    /\ \A t \in DOMAIN keyspace.tables : TableDeclared(keyspace.tables[t])
    /\ \A v \in DOMAIN keyspace.views : TableDeclared(keyspace.views[v])
    /\ \A v \in DOMAIN keyspace.views : keyspace.views[v].base_table_name \in DOMAIN keyspace.tables

(* No object of the copy of a keyspace is Null.                             *)
NullApart(k) ==
    /\ k # Null
    /\ Null \notin Range(k.user_types) \cup Range(k.tables) \cup Range(k.views)
    /\ \A t \in DOMAIN k.tables :
          /\ Null \notin Range(k.tables[t].columns_metadata) \cup Range(k.tables[t].views)
          /\ \A v \in DOMAIN k.tables[t].views :
                Null \notin Range(k.tables[t].views[v].view_metadata.columns_metadata)

ASSUME SchemaAssumption ==
    /\ MaxWalks \in Nat /\ Null \notin Nat /\ Null \notin Names
    /\ IsFiniteSet(Names) /\ IsFiniteSet(ColumnNames) /\ ColumnNames \subseteq Nat
    /\ \A s \in Schemas :
          /\ DOMAIN s \subseteq Names
          /\ \A k \in DOMAIN s :
                /\ WellFormed(s[k])
                /\ \A last \in LastTables(s[k]) : NullApart(keyspace_meta(k, s[k], last))

(* cass_session_get_schema_meta, with the schema the driver knows at that   *)
(* moment; a session that is not connected, or is connecting or closing,    *)
(* yields null and nothing else happens.                                    *)
get_schema_meta(server) ==
    /\ snapshot = Null
    /\ \E last \in [DOMAIN server -> Names \cup {Null}] :
          /\ \A k \in DOMAIN server : last[k] \in LastTables(server[k])
          /\ snapshot' = [k \in DOMAIN server |-> keyspace_meta(k, server[k], last[k])]
    /\ as_of' = server
    /\ order' = <<>> /\ walks' = 0
    /\ UNCHANGED schema_iter

(* cass_schema_meta_free; not under an iterator.                            *)
schema_meta_free ==
    /\ snapshot # Null
    /\ \A i \in SchemaIterators : schema_iter[i] = Null
    /\ snapshot' = Null /\ as_of' = Null
    /\ order' = <<>>
    /\ UNCHANGED <<schema_iter, walks>>

-----------------------------------------------------------------------------
(* Looking things up.                                                       *)
Get(map, key) == IF key \in DOMAIN map THEN map[key] ELSE Null

schema_meta_keyspace_by_name(keyspace) == Get(snapshot, keyspace)
keyspace_meta_user_type_by_name(k, type) == Get(k.user_types, type)
keyspace_meta_table_by_name(k, table) == Get(k.tables, table)
keyspace_meta_view_by_name(k, view) == Get(k.views, view)
table_meta_view_by_name(t, view) == Get(t.views, view)
table_meta_view_count(t) == Cardinality(DOMAIN t.views)
table_meta_column_by_name(t, column) == Get(t.columns_metadata, column)
table_meta_column_count(t) == Cardinality(DOMAIN t.columns_metadata)
table_meta_partition_key_count(t) == Len(t.partition_keys)
table_meta_clustering_key_count(t) == Len(t.clustering_keys)
view_meta_column_by_name(v, column) == Get(v.view_metadata.columns_metadata, column)
view_meta_base_table(k, v) == Get(k.tables, v.base_table)

table_meta_partition_key(t, index) ==
    IF index < Len(t.partition_keys)
    THEN Get(t.columns_metadata, t.partition_keys[index + 1]) ELSE Null

table_meta_clustering_key(t, index) ==
    IF index < Len(t.clustering_keys)
    THEN Get(t.columns_metadata, t.clustering_keys[index + 1]) ELSE Null

table_meta_column(t, index) ==
    LET pks == Len(t.partition_keys)
        cks == Len(t.clustering_keys)
    IN  IF index < pks THEN t.columns_metadata[t.partition_keys[index + 1]]
        ELSE IF index - pks < cks THEN t.columns_metadata[t.clustering_keys[index - pks + 1]]
        ELSE IF index - pks - cks < Len(t.non_key_sorted_columns)
        THEN t.columns_metadata[t.non_key_sorted_columns[index - pks - cks + 1]]
        ELSE Null

view_meta_partition_key_count(v) == Len(v.view_metadata.partition_keys)
view_meta_clustering_key_count(v) == Len(v.view_metadata.clustering_keys)
view_meta_partition_key(v, index) == table_meta_partition_key(v.view_metadata, index)
view_meta_clustering_key(v, index) == table_meta_clustering_key(v.view_metadata, index)
view_meta_column_count(v) == Cardinality(DOMAIN v.view_metadata.columns_metadata)

(* By index the columns of a view come in the order of their map, those of  *)
(* a table in the order above.                                              *)
view_meta_column(v, index, in_order) ==
    IF index + 1 \in DOMAIN in_order
    THEN v.view_metadata.columns_metadata[in_order[index + 1]] ELSE Null

-----------------------------------------------------------------------------
(* Walking.  An iterator is of a kind, inner, and refers by names to the    *)
(* object it walks over; a view is referred to through the table it was     *)
(* made for.  "shown" is history: the names that were current so far.       *)
MapOf(it) == <<it.inner, it.of>>

SetSchemaIter(i, it) ==
    /\ schema_iter' = [schema_iter EXCEPT ![i] = it]
    /\ UNCHANGED <<snapshot, as_of>>

NewIterator(i, inner, of, keys, count) ==
    LET it == [inner |-> inner, of |-> of, count |-> count, position |-> Null,
               more |-> TRUE, shown |-> <<>>]
    IN  /\ schema_iter[i] = Null /\ walks < MaxWalks
        /\ \/ MapOf(it) \in DOMAIN order /\ UNCHANGED order
           \/ /\ MapOf(it) \notin DOMAIN order
              /\ \E o \in Orders(keys) :
                    order' = [m \in DOMAIN order \cup {MapOf(it)} |->
                                IF m = MapOf(it) THEN o ELSE order[m]]
        /\ walks' = walks + 1
        /\ SetSchemaIter(i, it)

keyspaces_from_schema_meta(i) ==
    NewIterator(i, "KeyspacesMeta", <<>>, DOMAIN snapshot, Cardinality(DOMAIN snapshot))

tables_from_keyspace_meta(i, k) ==
    NewIterator(i, "TablesMeta", <<k>>, DOMAIN snapshot[k].tables,
                Cardinality(DOMAIN snapshot[k].tables))

BugCountOfTables(i, k) ==           \* counts the tables
    NewIterator(i, "ViewsFromKeyspace", <<k>>, DOMAIN snapshot[k].views,
                Cardinality(DOMAIN snapshot[k].tables))

views_from_keyspace_meta(i, k) ==
    NewIterator(i, "ViewsFromKeyspace", <<k>>, DOMAIN snapshot[k].views,
                Cardinality(DOMAIN snapshot[k].views))

user_types_from_keyspace_meta(i, k) ==
    NewIterator(i, "UserTypes", <<k>>, DOMAIN snapshot[k].user_types,
                Cardinality(DOMAIN snapshot[k].user_types))

columns_from_table_meta(i, k, t) ==
    LET columns == snapshot[k].tables[t].columns_metadata
    IN  NewIterator(i, "ColumnsFromTable", <<k, t>>, DOMAIN columns, Cardinality(DOMAIN columns))

views_from_table_meta(i, k, t) ==
    LET views == snapshot[k].tables[t].views
    IN  NewIterator(i, "ViewsFromTable", <<k, t>>, DOMAIN views, Cardinality(DOMAIN views))

columns_from_view_meta(i, k, t, v) ==
    LET columns == snapshot[k].tables[t].views[v].view_metadata.columns_metadata
    IN  NewIterator(i, "ColumnsFromView", <<k, t, v>>, DOMAIN columns, Cardinality(DOMAIN columns))

(* iter().nth(position) of a map.                                           *)
Nth(map, it) ==
    IF it.position # Null /\ it.position + 1 \in DOMAIN order[MapOf(it)]
    THEN map[order[MapOf(it)][it.position + 1]] ELSE Null

(* The getters of cass_iterator_*; null for iterators of other kinds.       *)
get_keyspace_meta(it) == IF it.inner = "KeyspacesMeta" THEN Nth(snapshot, it) ELSE Null
get_table_meta(it) ==
    IF it.inner = "TablesMeta" THEN Nth(snapshot[it.of[1]].tables, it) ELSE Null
get_user_type(it) ==
    IF it.inner = "UserTypes" THEN Nth(snapshot[it.of[1]].user_types, it) ELSE Null
get_column_meta(it) ==
    CASE it.inner = "ColumnsFromTable" ->
            Nth(snapshot[it.of[1]].tables[it.of[2]].columns_metadata, it)
      [] it.inner = "ColumnsFromView" ->
            Nth(snapshot[it.of[1]].tables[it.of[2]].views[it.of[3]].view_metadata.columns_metadata, it)
      [] OTHER -> Null
get_materialized_view_meta(it) ==
    CASE it.inner = "ViewsFromKeyspace" -> Nth(snapshot[it.of[1]].views, it)
      [] it.inner = "ViewsFromTable" -> Nth(snapshot[it.of[1]].tables[it.of[2]].views, it)
      [] OTHER -> Null

Shown(it) == {get_keyspace_meta(it), get_table_meta(it), get_user_type(it),
              get_column_meta(it), get_materialized_view_meta(it)} \ {Null}

next(it) == [it EXCEPT !.position = IF @ = Null THEN 0 ELSE @ + 1]

(* cass_iterator_next on one of these, until once after the end.            *)
schema_next(i) ==
    /\ schema_iter[i] # Null
    /\ schema_iter[i].more
    /\ LET it == next(schema_iter[i])
       IN  SetSchemaIter(i, [inner |-> it.inner, of |-> it.of, count |-> it.count,
                position |-> it.position, more |-> it.position < it.count,
                shown |-> IF Shown(it) = {} THEN it.shown
                          ELSE Append(it.shown, (CHOOSE item \in Shown(it) : TRUE).name)])
    /\ UNCHANGED <<order, walks>>

schema_iterator_free(i) ==
    /\ schema_iter[i] # Null
    /\ SetSchemaIter(i, Null)
    /\ UNCHANGED <<order, walks>>

SchemaNext ==
    \/ \E server \in Schemas : get_schema_meta(server)
    \/ schema_meta_free
    \/ \E i \in SchemaIterators :
          \/ schema_next(i) \/ schema_iterator_free(i)
          \/ /\ snapshot # Null
             /\ \/ keyspaces_from_schema_meta(i)
                \/ \E k \in DOMAIN snapshot :
                      \/ tables_from_keyspace_meta(i, k)
                      \/ views_from_keyspace_meta(i, k)
                      \/ user_types_from_keyspace_meta(i, k)
                      \/ \E t \in DOMAIN snapshot[k].tables :
                            \/ columns_from_table_meta(i, k, t)
                            \/ views_from_table_meta(i, k, t)
                            \/ \E v \in DOMAIN snapshot[k].tables[t].views :
                                  columns_from_view_meta(i, k, t, v)

-----------------------------------------------------------------------------
(* A table as the application sees it: every column once; by index first    *)
(* the partition key, then the clustering key, each in its order, then the   *)
(* other columns, static ones among them, alphabetically; by name only the   *)
(* columns there are.                                                        *)
TableFaithful(t, name, table) ==
    LET n == table_meta_column_count(t)
        pks == table_meta_partition_key_count(t)
        cks == table_meta_clustering_key_count(t)
        column(i) == table_meta_column(t, i)
    IN  /\ t.name = name
        /\ n = Cardinality(DOMAIN table.columns) /\ column(n) = Null
        /\ {column(i) : i \in 0 .. n - 1} = {t.columns_metadata[c] : c \in DOMAIN table.columns}
        /\ pks = Len(table.partition_key) /\ cks = Len(table.clustering_key)
        /\ \A i \in 0 .. pks - 1 :
              /\ column(i) = table_meta_partition_key(t, i)
              /\ column(i).name = table.partition_key[i + 1]
              /\ column(i).column_kind = "PARTITION_KEY"
        /\ \A i \in 0 .. cks - 1 :
              /\ column(pks + i) = table_meta_clustering_key(t, i)
              /\ column(pks + i).name = table.clustering_key[i + 1]
              /\ column(pks + i).column_kind = "CLUSTERING_KEY"
        /\ \A i, j \in pks + cks .. n - 1 : i < j => column(i).name < column(j).name
        /\ \A c \in ColumnNames : (table_meta_column_by_name(t, c) # Null)
                                        <=> (c \in DOMAIN table.columns)

(* A view as the application sees it: the columns of the keys at their       *)
(* positions; by index every column once, in an order that is not promised.  *)
ViewFaithful(v, name, view) ==
    LET columns == v.view_metadata.columns_metadata
        n == view_meta_column_count(v)
        partition_key(i) == view_meta_partition_key(v, i)
        clustering_key(i) == view_meta_clustering_key(v, i)
    IN  /\ v.name = name
        /\ n = Cardinality(DOMAIN view.columns)
        /\ \A o \in Orders(DOMAIN columns) :
              /\ view_meta_column(v, n, o) = Null
              /\ {view_meta_column(v, i, o) : i \in 0 .. n - 1}
                    = {columns[c] : c \in DOMAIN view.columns}
        /\ view_meta_partition_key_count(v) = Len(view.partition_key)
        /\ view_meta_clustering_key_count(v) = Len(view.clustering_key)
        /\ \A i \in 0 .. Len(view.partition_key) - 1 :
              /\ partition_key(i).name = view.partition_key[i + 1]
              /\ partition_key(i).column_kind = "PARTITION_KEY"
        /\ \A i \in 0 .. Len(view.clustering_key) - 1 :
              /\ clustering_key(i).name = view.clustering_key[i + 1]
              /\ clustering_key(i).column_kind = "CLUSTERING_KEY"
        /\ \A c \in ColumnNames : (view_meta_column_by_name(v, c) # Null)
                                        <=> (c \in DOMAIN view.columns)

(* The views a table t has that is called n: those of which it is the base   *)
(* table are among them, with t as their base, and all of them are views of  *)
(* the keyspace.                                                             *)
ViewsFaithful(k, t, n, keyspace) ==
    /\ table_meta_view_count(t) = Cardinality({v \in Names : table_meta_view_by_name(t, v) # Null})
    /\ \A v \in Names :
          LET view == table_meta_view_by_name(t, v)
          IN  /\ view # Null =>
                    v \in DOMAIN keyspace.views /\ ViewFaithful(view, v, keyspace.views[v])
              /\ v \in DOMAIN keyspace.views /\ keyspace.views[v].base_table_name = n =>
                    view # Null /\ view_meta_base_table(k, view) = t

KeyspaceFaithful(k, keyspace) ==
    \A n \in Names :
        /\ (keyspace_meta_user_type_by_name(k, n) # Null) <=> (n \in keyspace.user_defined_types)
        /\ LET t == keyspace_meta_table_by_name(k, n)
           IN  IF n \notin DOMAIN keyspace.tables THEN t = Null
               ELSE TableFaithful(t, n, keyspace.tables[n]) /\ ViewsFaithful(k, t, n, keyspace)
        /\ LET v == keyspace_meta_view_by_name(k, n)
           IN  IF n \notin DOMAIN keyspace.views THEN v = Null
               ELSE /\ ViewFaithful(v, n, keyspace.views[n])
                    /\ view_meta_base_table(k, v) # Null
                    /\ table_meta_view_by_name(view_meta_base_table(k, v), n) = v

(* What cass_session_get_schema_meta made is a copy of the driver's schema:  *)
(* every keyspace, user type, table, column, key and view of it is found     *)
(* under its name and nothing else is, the columns of a table by index in    *)
(* the documented order.  A view is found under its base table, with that    *)
(* table as its base.  Found through the keyspace, its base is some live     *)
(* table that has the view.  Nothing is said of the views of other tables    *)
(* that a table has too, nor of which table the latter base is, where        *)
(* session.rs:740 does not do what cassandra.h:3614 and :3754 say.           *)
SnapshotFaithful ==
    snapshot # Null =>
        \A n \in Names :
            LET k == schema_meta_keyspace_by_name(n)
            IN  IF n \notin DOMAIN as_of THEN k = Null
                ELSE k.name = n /\ KeyspaceFaithful(k, as_of[n])

(* The names an iterator over a map of the snapshot should go through.       *)
ToShow(m) ==
    CASE m[1] = "KeyspacesMeta" -> DOMAIN as_of
      [] m[1] = "TablesMeta" -> DOMAIN as_of[m[2][1]].tables
      [] m[1] = "UserTypes" -> as_of[m[2][1]].user_defined_types
      [] m[1] = "ColumnsFromTable" -> DOMAIN as_of[m[2][1]].tables[m[2][2]].columns
      [] m[1] = "ColumnsFromView" -> DOMAIN as_of[m[2][1]].views[m[2][3]].columns
      [] OTHER -> DOMAIN as_of[m[2][1]].views

(* An iterator over the metadata shows everything its object has exactly     *)
(* once before cass_iterator_next returns false, in an order that stays the  *)
(* same for the life of the snapshot; the current item is there exactly when *)
(* next said so, and only for the getter of the iterator's own kind.  What a *)
(* table has as views is here what session.rs:740 put there, all those of    *)
(* its keyspace.                                                             *)
WalkComplete ==
    \A i \in SchemaIterators : schema_iter[i] # Null =>
        LET it == schema_iter[i]
        IN  /\ IsInjective(it.shown)
            /\ it.more \/ Range(it.shown) = ToShow(MapOf(it))
            /\ Range(it.shown) \subseteq ToShow(MapOf(it))
            /\ Cardinality(Shown(it)) = IF it.position # Null /\ it.more THEN 1 ELSE 0
            /\ \A j \in SchemaIterators : schema_iter[j] # Null =>
                  LET other == schema_iter[j]
                  IN  MapOf(it) = MapOf(other) =>
                        \A n \in DOMAIN it.shown \cap DOMAIN other.shown :
                            it.shown[n] = other.shown[n]

(* What makes it so, and is inductive.  A map of the snapshot has an object  *)
(* of its own name for each of the names.                                    *)
ObjectsOK(map, names) ==
    DOMAIN map = names /\ \A n \in names : map[n] # Null /\ map[n].name = n

TableOK(table, of, keyspace) ==
    /\ ObjectsOK(table.columns_metadata, DOMAIN of.columns)
    /\ ObjectsOK(table.views, DOMAIN keyspace.views)
    /\ \A v \in DOMAIN keyspace.views :
          ObjectsOK(table.views[v].view_metadata.columns_metadata, DOMAIN keyspace.views[v].columns)

KeyspaceOK(k, keyspace) ==
    /\ ObjectsOK(k.user_types, keyspace.user_defined_types)
    /\ ObjectsOK(k.tables, DOMAIN keyspace.tables)
    /\ ObjectsOK(k.views, DOMAIN keyspace.views)
    /\ \A t \in DOMAIN keyspace.tables : TableOK(k.tables[t], keyspace.tables[t], keyspace)

(* The maps an iterator can be made over.                                    *)
IsMap(m) ==
    \/ m = <<"KeyspacesMeta", <<>>>>
    \/ \E k \in DOMAIN as_of :
          \/ m \in {"TablesMeta", "ViewsFromKeyspace", "UserTypes"} \X {<<k>>}
          \/ \E t \in DOMAIN as_of[k].tables :
                \/ m \in {"ColumnsFromTable", "ViewsFromTable"} \X {<<k, t>>}
                \/ \E v \in DOMAIN as_of[k].views : m = <<"ColumnsFromView", <<k, t, v>>>>

(* After its first calls of next an iterator has shown that many names, in   *)
(* the order of its map; the call after the last name says there is no more. *)
Walked(it, in_order, names) ==
    LET nexts == IF it.position = Null THEN 0 ELSE it.position + 1
    IN  /\ it.position \in Nat \cup {Null} /\ nexts <= names + 1
        /\ it = [inner |-> it.inner, of |-> it.of, count |-> names, position |-> it.position,
                 more |-> nexts <= names,
                 shown |-> [n \in 1 .. (IF nexts <= names THEN nexts ELSE names) |-> in_order[n]]]

WalkOK(it) ==
    /\ MapOf(it) \in DOMAIN order
    /\ Walked(it, order[MapOf(it)], Cardinality(ToShow(MapOf(it))))

SchemaInv ==
    /\ walks \in Nat
    /\ DOMAIN schema_iter = SchemaIterators
    /\ \A i \in SchemaIterators : schema_iter[i] # Null => snapshot # Null /\ WalkOK(schema_iter[i])
    /\ snapshot # Null =>
          /\ as_of \in Schemas
          /\ ObjectsOK(snapshot, DOMAIN as_of)
          /\ \A k \in DOMAIN as_of : KeyspaceOK(snapshot[k], as_of[k])
          /\ \A m \in DOMAIN order : IsMap(m) /\ order[m] \in Orders(ToShow(m))
=============================================================================
