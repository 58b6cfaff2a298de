------------------------------ MODULE MCValues ------------------------------
(* Bounded instances of Values and ValueWire.                               *)
EXTENDS ValueWire

Mc(kind, sub) == [Untyped(kind) EXCEPT !.sub = sub]
McUdt(names, sub) == [Untyped("UDT") EXCEPT !.sub = sub, !.names = names, !.udt = <<"a", "b">>]
McStart(types, c) ==
    [heap |-> types, column |-> c, mine |-> c + 1 .. Len(types)]

(* A column, and after it types of the application: for a column of type    *)
(* tuple<timestamp, varchar> a tuple that still lacks its second subtype,   *)
(* for a UDT one with its first field only, and a vector over such a tuple. *)
(* In the last column a vector is an item of a list that may be untyped.    *)
McStarts ==
    {McStart(<<Value("BLOB"), Mc("LIST", <<1>>)>>, 2),
     McStart(<<Value("TIMESTAMP"), Value("VARINT"), Mc("MAP", <<1, 2>>), Mc("MAP", <<1>>)>>, 3),
     McStart(<<Value("TIMESTAMP"), Value("VARCHAR"), Mc("TUPLE", <<1, 2>>), Mc("TUPLE", <<1>>)>>, 3),
     McStart(<<Value("TIMESTAMP"), Value("VARCHAR"), McUdt(<<"a", "b">>, <<1, 2>>),
               McUdt(<<"a">>, <<1>>)>>, 3),
     McStart(<<Value("VARCHAR"), Vector(1, 1), Vector(2, 2)>>, 3),
     McStart(<<Value("TIMESTAMP"), Vector(1, 2), Vector(2, 1)>>, 3),
     McStart(<<Value("TIMESTAMP"), Mc("TUPLE", <<1>>), Mc("SET", <<2>>)>>, 3),
     McStart(<<Value("TIMESTAMP"), Value("VARCHAR"), Mc("TUPLE", <<1, 2>>), Vector(3, 1),
               Mc("TUPLE", <<1>>), Vector(5, 1)>>, 4),
     McStart(<<Value("TIME"), Vector(1, 1), Mc("LIST", <<2>>)>>, 3)}

McScalars ==
    {[kind |-> "BIGINT", type |-> NoType, bytes |-> <<7>>, items |-> <<>>],
     [kind |-> "TEXT", type |-> NoType, bytes |-> <<>>, items |-> <<>>],
     [kind |-> "TEXT", type |-> NoType, bytes |-> [i \in 1 .. 128 |-> 5], items |-> <<>>]}
McNames == {"a", "b"}
McNewTypes == {"TEXT", "TUPLE"}
McSubValueTypes == {"BIGINT", "TEXT"}
McDims == {0, 1}
McTupleSizes == {1}
=============================================================================
