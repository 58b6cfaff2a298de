------------------------------- MODULE Binding -------------------------------
(***************************************************************************)
(* Binding values to a statement by index and by name, and the row that is *)
(* sent for it, alone or in a batch (statements/statement.rs, batch.rs and *)
(* prepared.rs).  A simple statement learns the order of its markers only  *)
(* when it is serialized, a prepared one knows its columns from the start. *)
(* Slots are numbered from 1, in the code from 0.                          *)
(***************************************************************************)
EXTENDS Naturals, Sequences, FiniteSets

CONSTANTS Columns,      \* the markers of the query: [name, type] records
          Names, Lower, \* names an application may use; eq_ignore_ascii_case
          Values, TypeOf, Null, Unset,
          Error,
          MaxCount,     \* bound on parameter_count
          MaxCalls

ASSUME BindingAssumption ==
    /\ Columns \in Seq([name : Names, type : {TypeOf[v] : v \in Values}])
    /\ Lower \in [Names -> Names]
    /\ Null \notin Values /\ Unset \notin Values \cup {Null}
    /\ MaxCount \in Nat /\ MaxCount >= Len(Columns) /\ MaxCalls \in Nat

Slot == Values \cup {Null, Unset}

VARIABLES kind,     \* BoundStatement: "Simple" or "Prepared"
          bound,    \* bound_values
          index,    \* name_to_bound_index of a simple statement
          asked,    \* history: the value last bound to each name, and
          meant,    \* for a prepared statement to each column
          byIndex,  \* history: has a value been bound by index
          offered,  \* history: what binds by name that failed since then may
                    \* have left in each column
          batch,    \* CassBatchState.bound_values, and with each entry what
                    \* executing the statement alone would have sent
          calls

vars == <<kind, bound, index, asked, meant, byIndex, offered, batch, calls>>
history == <<asked, meant, byIndex, offered>>

Cols == DOMAIN Columns

TypeOK ==
    /\ kind \in {"Simple", "Prepared"}
    /\ bound \in Seq(Slot) /\ Len(bound) <= MaxCount
    /\ DOMAIN index \subseteq Names /\ \A n \in DOMAIN index : index[n] \in Nat \ {0}
    /\ asked \in [Names -> Slot] /\ meant \in [Cols -> Slot]
    /\ byIndex \in BOOLEAN /\ offered \in [Cols -> SUBSET Slot]
    /\ \A k \in DOMAIN batch : batch[k].values \in Seq(Slot)
    /\ calls \in 0 .. MaxCalls

NoNames == [n \in {} |-> 1]
AllUnset(count) == [i \in 1 .. count |-> Unset]

(* cass_statement_new(_n) or cass_prepared_bind.                            *)
Init ==
    /\ \/ kind = "Simple" /\ \E count \in 0 .. MaxCount : bound = AllUnset(count)
       \/ kind = "Prepared" /\ bound = AllUnset(Len(Columns))
    /\ index = NoNames
    /\ asked = [n \in Names |-> Unset] /\ meant = [i \in Cols |-> Unset]
    /\ byIndex = FALSE /\ offered = [i \in Cols |-> {}]
    /\ batch = <<>>
    /\ calls = 0

Call == calls < MaxCalls /\ calls' = calls + 1

(* is_type_compatible, for values without structure.                        *)
is_type_compatible(v, type) == v = Null \/ TypeOf[v] = type

-----------------------------------------------------------------------------
(* BoundSimpleStatement and BoundPreparedStatement::bind_cql_value succeed. *)
Bindable(i, v) ==
    /\ i \in DOMAIN bound
    /\ kind = "Prepared" => i \in Cols /\ is_type_compatible(v, Columns[i].type)

(* cass_statement_bind_*.                                                   *)
BindByIndex(i, v) ==
    /\ Call
    /\ IF Bindable(i, v)
       THEN /\ bound' = [bound EXCEPT ![i] = v]
            /\ meant' = [c \in Cols |-> IF c = i THEN v ELSE meant[c]]
            /\ offered' = [c \in Cols |-> IF c = i THEN {} ELSE offered[c]]
       ELSE UNCHANGED <<bound, meant, offered>>
    /\ byIndex' = TRUE
    /\ UNCHANGED <<kind, index, asked, batch>>

BugFirstUnset(n) ==          \* a null is taken for a free slot
    IF n \in DOMAIN index THEN index[n]
    ELSE IF \E i \in DOMAIN bound : bound[i] \in {Unset, Null}
         THEN CHOOSE i \in DOMAIN bound : bound[i] \in {Unset, Null}
         ELSE Len(bound) + 1

(* The slot a simple statement uses for a name, old or new.                 *)
SlotOf(n) == IF n \in DOMAIN index THEN index[n] ELSE Cardinality(DOMAIN index) + 1

(* BoundSimpleStatement::bind_cql_value_by_name: quotes are stripped, and   *)
(* the case of the name always matters.                                     *)
BindSimpleByName(n, v) ==
    /\ Call
    /\ kind = "Simple"
    /\ LET i == SlotOf(n)
       IN  \/ /\ i <= Len(bound)
              /\ index' = [m \in DOMAIN index \cup {n} |-> IF m = n THEN i ELSE index[m]]
              /\ bound' = [bound EXCEPT ![i] = v]
              /\ asked' = [asked EXCEPT ![n] = v]
           \/ /\ i > Len(bound)
              /\ UNCHANGED <<index, bound, asked>>
    /\ UNCHANGED <<kind, meant, byIndex, offered, batch>>

SameName(column, n, quoted) ==
    IF quoted THEN column = n ELSE Lower[column] = Lower[n]

BugFirstMatch(n, quoted) ==  \* only the first of the columns with that name
    {i \in Cols : /\ SameName(Columns[i].name, n, quoted)
                  /\ \A j \in 1 .. i - 1 : ~SameName(Columns[j].name, n, quoted)}

Matches(n, quoted) == {i \in Cols : SameName(Columns[i].name, n, quoted)}

(* BoundPreparedStatement::bind_cql_value_by_name binds the columns of that  *)
(* name one after the other and stops at the first that fails.              *)
BindPreparedByName(n, quoted, v) ==
    /\ Call
    /\ kind = "Prepared"
    /\ LET all == Matches(n, quoted)
           done == {i \in all : \A j \in all : j <= i => Bindable(j, v)}
       IN  /\ bound' = [i \in DOMAIN bound |-> IF i \in done THEN v ELSE bound[i]]
           /\ meant' = [c \in Cols |-> IF all = done /\ SameName(Columns[c].name, n, quoted)
                                      THEN v ELSE meant[c]]
           /\ offered' = [c \in Cols |->
                  IF ~SameName(Columns[c].name, n, quoted) THEN offered[c]
                  ELSE IF all = done THEN {}
                  ELSE IF is_type_compatible(v, Columns[c].type) THEN offered[c] \cup {v}
                  ELSE offered[c]]
    /\ UNCHANGED <<kind, index, asked, byIndex, batch>>

(* cass_statement_bind_*_by_name(_n): an empty name, or one that is no      *)
(* string, is refused first and has no effect.                              *)
BindByName(n, quoted, v) ==
    \/ BindSimpleByName(n, v)
    \/ BindPreparedByName(n, quoted, v)

(* cass_statement_reset_parameters: any count, also for prepared statements.*)
ResetParameters(count) ==
    /\ Call
    /\ bound' = AllUnset(count)
    /\ index' = NoNames
    /\ asked' = [n \in Names |-> Unset] /\ meant' = [i \in Cols |-> Unset]
    /\ byIndex' = FALSE /\ offered' = [i \in Cols |-> {}]
    /\ UNCHANGED <<kind, batch>>

-----------------------------------------------------------------------------
(* The row the driver sends for a list of values, in the order of markers:  *)
(* a list of another length is refused.                                     *)
Positional(values) == IF Len(values) = Len(Columns) THEN values ELSE Error

BugBindOrder == Positional(bound)   \* the names are not looked at

(* What cass_session_execute sends: SimpleQueryRowSerializer::serialize for *)
(* simple statements; an unknown name is an error.                          *)
Row ==
    IF kind = "Prepared" \/ DOMAIN index = {} THEN Positional(bound)
    ELSE IF \A i \in Cols : Columns[i].name \in DOMAIN index
         THEN [i \in Cols |-> bound[index[Columns[i].name]]]
         ELSE Error

(* cass_batch_add_statement copies the values, and not the names.           *)
AddStatement ==
    /\ Call
    /\ batch' = Append(batch, [values |-> bound, alone |-> Row])
    /\ UNCHANGED <<kind, bound, index, history>>

Next ==
    \/ \E v \in Values \cup {Null} :
          \/ \E i \in 1 .. MaxCount + 1 : BindByIndex(i, v)
          \/ \E n \in Names, quoted \in BOOLEAN : BindByName(n, quoted, v)
    \/ \E count \in 0 .. MaxCount : ResetParameters(count)
    \/ AddStatement

Spec == Init /\ [][Next]_vars

-----------------------------------------------------------------------------
(* Every name of a simple statement has a slot of its own inside the vector  *)
(* (`self.bound_values[*bound_values_idx]` never panics), whatever mix of    *)
(* binds and resets came before.                                             *)
NamesHaveSlots ==
    /\ \A n \in DOMAIN index : index[n] \in DOMAIN bound
    /\ \A m, n \in DOMAIN index : index[m] = index[n] => m = n

(* A simple statement whose values were all bound by name sends, for every   *)
(* marker, the value last bound to that marker's name, in whatever order the *)
(* names were bound; or it sends nothing.                                    *)
NamedRow ==
    kind = "Simple" /\ ~byIndex /\ DOMAIN index # {} /\ Row # Error =>
        \A i \in Cols : Row[i] = asked[Columns[i].name]

(* A prepared statement holds for every column the value that the last        *)
(* successful bind meant for it, by index or by any name that matches; or, if *)
(* binds by name have failed since then, a value one of them had for a column *)
(* of that name and type.  A bind that stops half-way touches no other column.*)
PreparedAsAsked ==
    kind = "Prepared" =>
        \A i \in DOMAIN bound : i \in Cols => bound[i] \in {meant[i]} \cup offered[i]

(* No bind, complete or half-way, and no reset to another length, leaves a   *)
(* value in a column of another type.                                        *)
PreparedTyped ==
    kind = "Prepared" =>
        \A i \in DOMAIN bound : bound[i] # Unset =>
            i \in Cols /\ is_type_compatible(bound[i], Columns[i].type)

(* So a prepared statement sends for each column what was meant for it, but  *)
(* for what a failed bind left there, and only values of its type.           *)
PreparedExact == PreparedTyped /\ PreparedAsAsked

(* binding-parameters.md: "Variables also could be bound by name", in a      *)
(* batch as well.                                                            *)
BatchHonoursNames ==
    \A k \in DOMAIN batch :
        batch[k].alone # Error => Positional(batch[k].values) = batch[k].alone

(* The inductive invariant behind NamesHaveSlots and NamedRow: the slots in  *)
(* use are 1 .. the number of names, each by one name, and hold what was     *)
(* last bound to it.                                                         *)
SlotInv ==
    /\ kind = "Prepared" => DOMAIN index = {}
    /\ Cardinality(DOMAIN index) <= Len(bound)
    /\ \A n \in DOMAIN index : index[n] <= Cardinality(DOMAIN index)
    /\ \A m, n \in DOMAIN index : index[m] = index[n] => m = n
    /\ ~byIndex => \A n \in DOMAIN index : bound[index[n]] = asked[n]

BindInv == TypeOK /\ IsFiniteSet(DOMAIN index) /\ SlotInv

=============================================================================
