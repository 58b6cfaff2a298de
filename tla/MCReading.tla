------------------------------ MODULE MCReading ------------------------------
(* A bounded instance of Reading.  The first schema has two tables and a    *)
(* view, among them a column of every kind and a partition key that is not  *)
(* in alphabetical order; the second a keyspace with two views and an empty *)
(* keyspace; the third nothing.                                             *)
EXTENDS Reading, TLC

McColumnName ==
    <<[letters |-> "a", spelling |-> "mixed"], [letters |-> "a", spelling |-> "lower"]>>
McSizes == {0, 1, 2}
McNames == {"ks", "empty", "t", "u", "v", "w"}
McColumnNames == 1 .. 5

McTable(columns, pk, ck) == [columns |-> columns, partition_key |-> pk, clustering_key |-> ck]
McWide == McTable(<<"Regular", "Static", "Clustering", "PartitionKey">>, <<4>>, <<3>>)
McNarrow == McTable(<<"PartitionKey">>, <<1>>, <<>>)
McPair == McTable(<<"PartitionKey", "PartitionKey">>, <<2, 1>>, <<>>)

McView(base, table) ==
    [columns |-> table.columns, partition_key |-> table.partition_key,
     clustering_key |-> table.clustering_key, base_table_name |-> base]

McKeyspace(types, tables, views) ==
    [user_defined_types |-> types, tables |-> tables, views |-> views]

McSchemas ==
    {"ks" :> McKeyspace({"u"}, "t" :> McWide @@ "u" :> McNarrow, "v" :> McView("t", McPair)),
     "ks" :> McKeyspace({"u", "w"}, "t" :> McNarrow, "v" :> McView("t", McNarrow) @@ "w" :> McView("t", McPair))
       @@ "empty" :> McKeyspace({}, <<>>, <<>>),
     <<>>}

McSymmetry == Permutations(Requests) \cup Permutations(Iterators)
                \cup Permutations(SchemaIterators)
=============================================================================
