------------------------------- MODULE Reading -------------------------------
(***************************************************************************)
(* An application that reads query results and the schema at the same      *)
(* time: both through CassIterators, all advanced by cass_iterator_next    *)
(* (iterator.rs).  An iterator over the schema counts as a call, fetching  *)
(* the schema as SchemaCost calls: they bound how much one behaviour does. *)
(***************************************************************************)
EXTENDS Paging, SchemaMeta

CONSTANT SchemaCost
ASSUME ReadingAssumption == SchemaCost \in Nat

ReadingInit == Init /\ SchemaInit

ReadingNext ==
    \/ Next /\ UNCHANGED schemaVars
    \/ /\ SchemaNext
       /\ calls' = IF snapshot = Null THEN calls + SchemaCost ELSE calls + (walks' - walks)
       /\ calls' <= MaxCalls
       /\ UNCHANGED <<stmt, seen, token, req, iter>>

ReadingSpec == ReadingInit /\ [][ReadingNext]_<<vars, schemaVars>>

(* Rows are read in order (Paging) and walks are on their way (SchemaMeta).  *)
ReadingInv == PagingInv /\ SchemaInv
=============================================================================
