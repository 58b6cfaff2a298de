------------------------------ MODULE MCBinding ------------------------------
(* A small instance of Binding for TLC: three markers, of which two share a *)
(* name up to its case and have different types.                            *)
EXTENDS Binding, TLC

CONSTANTS i1, i2, t1

MCNames == {"a", "A", "b"}
MCLower == [n \in MCNames |-> IF n = "A" THEN "a" ELSE n]
MCTypeOf == (i1 :> "int") @@ (i2 :> "int") @@ (t1 :> "text")
MCColumns == <<[name |-> "b", type |-> "int"], [name |-> "a", type |-> "int"],
               [name |-> "A", type |-> "text"]>>
=============================================================================
