---------------------------- MODULE ReadingProofs ----------------------------
(***************************************************************************)
(* Proofs about Reading: about the schema by the lemmas of                 *)
(* SchemaMetaProofs, about rows by the ones below.  Wherever a paging      *)
(* state is kept, in the statement, in a token or in a request, the rows   *)
(* before it are exactly those that were read, so every page continues     *)
(* where the one before it ended; and an iterator is at the row of its     *)
(* page that it has counted.                                               *)
(***************************************************************************)
EXTENDS Reading, SchemaMetaProofs

(* Pages that follow each other join.                                       *)
LEMMA RowsTyped ==
  ASSUME NEW a \in Nat, NEW b \in Nat
  PROVE  Rows(a, b) \in Seq(Nat)
BY DEF Rows

LEMMA RowsJoin ==
  ASSUME NEW a \in Nat, NEW b \in Nat, a <= b
  PROVE  Rows(0, a) \o Rows(a, b) = Rows(0, b)
<1>1. Rows(0, a) \in Seq(Nat) /\ Rows(a, b) \in Seq(Nat) /\ Rows(0, b) \in Seq(Nat)
  BY RowsTyped, Zenon
<1>2. Len(Rows(0, a)) = a /\ Len(Rows(a, b)) = b - a /\ Len(Rows(0, b)) = b
  BY DEF Rows
<1> DEFINE s == Rows(0, a)  t == Rows(a, b)
<1>3. /\ s \o t \in Seq(Nat)
      /\ Len(s \o t) = Len(s) + Len(t)
      /\ \A i \in 1 .. Len(s) + Len(t) : (s \o t)[i] =
                IF i <= Len(s) THEN s[i] ELSE t[i - Len(s)]
  <2> HIDE DEF s, t
  <2>1. s \in Seq(Nat) /\ t \in Seq(Nat) BY <1>1 DEF s, t
  <2> QED BY <2>1, ConcatProperties
<1>4. \A i \in 1 .. b : (s \o t)[i] = Rows(0, b)[i]
  <2> SUFFICES ASSUME NEW i \in 1 .. b PROVE (s \o t)[i] = Rows(0, b)[i]
    BY Zenon
  <2>1. (s \o t)[i] = IF i <= a THEN s[i] ELSE t[i - a] BY <1>2, <1>3
  <2>2. (IF i <= a THEN s[i] ELSE t[i - a]) = i BY DEF Rows
  <2>3. Rows(0, b)[i] = i BY DEF Rows
  <2> QED BY <2>1, <2>2, <2>3, Zenon
<1>5. Len(s \o t) = b
  <2>1. Len(s) = a /\ Len(t) = b - a BY <1>2
  <2> HIDE DEF s, t
  <2> QED BY <2>1, <1>3
<1> DEFINE v == s \o t  w == Rows(0, b)
<1>6. v \in Seq(Nat) /\ w \in Seq(Nat) /\ Len(v) = Len(w) BY <1>1, <1>2, <1>3, <1>5
<1>7. \A i \in 1 .. Len(v) : v[i] = w[i] BY <1>4, <1>5
<1> HIDE DEF v, w
<1>8. v = w BY <1>6, <1>7, SeqEqual
<1> QED BY <1>8 DEF v, w

LEMMA CellsTyped ==
  ASSUME NEW n \in Nat
  PROVE  Cells(n) \in Seq(Nat \X Nat)
<1>1. Columns \in Nat BY PagingAssumption
<1>2. \A c \in 1 .. Columns : <<n, c>> \in Nat \X Nat BY <1>1
<1> QED BY <1>1, <1>2 DEF Cells

LEMMA EmptyRows == Rows(0, 0) = <<>>
BY DEF Rows

(* None is neither a request, nor a result, nor an iterator.                *)
LEMMA Apart ==
  ASSUME NEW q
  PROVE  /\ q \in Sent => q # None /\ q.pc # "result"
         /\ q \in Result => q # None /\ q.pc = "result"
         /\ q \in Iterator => q # None /\ q.of \in Requests
BY PagingAssumption DEF Sent, Result, Iterator

LEMMA IsResultOK ==
  ASSUME PagingInv, NEW r \in Requests, IsResult(r)
  PROVE  ResultOK(req[r])
BY Apart DEF PagingInv, IsResult, SentOK

LEMMA IsSentOK ==
  ASSUME PagingInv, NEW r \in Requests, req[r] # None, req[r].pc = "sent"
  PROVE  SentOK(req[r])
BY Apart DEF PagingInv, ResultOK

(* A result is well formed if the rows before its page have been read.      *)
LEMMA PayloadOK ==
  ASSUME NEW first \in Nat, NEW last \in Nat, first <= last, last <= Total,
         NEW response \in {"HasMorePages", "NoMorePages"},
         response = "HasMorePages" \/ last = Total
  PROVE  ResultOK(from_result_payload(first, last, response, Rows(0, first)))
<1> DEFINE q == from_result_payload(first, last, response, Rows(0, first))
<1>1. first_row(first, last) \in Seq(Nat \X Nat) \cup {None}
  BY CellsTyped DEF first_row, from_raw_row_and_metadata
<1>2. Rows(0, first) \o Rows(first, last) = Rows(0, last) BY RowsJoin, Zenon
<1>3. Rows(0, last) \in Seq(Nat) BY RowsTyped
<1>4. q = [pc |-> "result", first |-> first, last |-> last,
           first_row |-> first_row(first, last), response |-> response,
           seen |-> Rows(0, last)]
  BY <1>2 DEF from_result_payload
<1> HIDE DEF q
<1>5. q \in Result BY <1>1, <1>3, <1>4 DEF Result
<1>6. ResultOK(q) BY <1>4, <1>5 DEF ResultOK
<1> QED BY <1>6 DEF q

-----------------------------------------------------------------------------
LEMMA InitInv == Init => PagingInv
<1> SUFFICES ASSUME Init PROVE PagingInv OBVIOUS
<1>1. Total \in Nat /\ MaxCalls \in Nat BY PagingAssumption
<1>2. StmtInv /\ TokenInv BY <1>1, EmptyRows DEF Init, StmtInv, TokenInv
<1> QED BY <1>1, <1>2 DEF Init, PagingInv

(* A step that leaves requests and iterators alone.                         *)
LEMMA StatementStep ==
  ASSUME PagingInv, StmtInv', TokenInv', UNCHANGED <<req, iter>>, calls' \in 0 .. MaxCalls
  PROVE  PagingInv'
BY DEF PagingInv

LEMMA CallCounts ==
  ASSUME PagingInv, Call
  PROVE  calls' \in 0 .. MaxCalls
BY PagingAssumption DEF PagingInv, Call

LEMMA ContinueInv ==
  ASSUME PagingInv, NEW state \in 0 .. Total, Continue(state, Rows(0, state))
  PROVE  StmtInv'
BY DEF PagingInv, StmtInv, Continue

LEMMA SizeStep ==
  ASSUME PagingInv, NEW n \in Sizes, set_paging_size(n)
  PROVE  PagingInv'
<1>1. n \in Nat BY PagingAssumption
<1>2. StmtInv' BY <1>1, Zenon DEF PagingInv, StmtInv, set_paging_size
<1>3. TokenInv' BY DEF PagingInv, TokenInv, set_paging_size
<1> QED BY <1>2, <1>3, CallCounts, StatementStep DEF set_paging_size

LEMMA StateStep ==
  ASSUME PagingInv, NEW r \in Requests, set_paging_state(r)
  PROVE  PagingInv'
<1>1. ResultOK(req[r]) BY IsResultOK DEF set_paging_state
<1>2. \E state \in 0 .. Total : Continue(state, Rows(0, state))
  <2>1. req[r].last \in 0 .. Total /\ req[r].seen = Rows(0, req[r].last)
    BY <1>1, PagingAssumption DEF ResultOK, Result
  <2>2. CASE HasMorePages(r) BY <2>1, <2>2 DEF set_paging_state
  <2>3. CASE ~HasMorePages(r)
    <3>1. Continue(0, Rows(0, 0)) BY <2>3, EmptyRows DEF set_paging_state
    <3> QED BY <3>1, PagingAssumption
  <2> QED BY <2>2, <2>3
<1>3. StmtInv' BY <1>2, ContinueInv
<1>4. TokenInv' BY DEF PagingInv, TokenInv, set_paging_state
<1> QED BY <1>3, <1>4, CallCounts, StatementStep DEF set_paging_state

LEMMA TakeTokenStep ==
  ASSUME PagingInv, NEW r \in Requests, paging_state_token(r)
  PROVE  PagingInv'
<1>1. ResultOK(req[r]) BY IsResultOK DEF paging_state_token
<1>2. TokenInv' BY <1>1 DEF TokenInv, paging_state_token, ResultOK, Result
<1>3. StmtInv' BY DEF PagingInv, StmtInv, paging_state_token
<1> QED BY <1>2, <1>3, StatementStep DEF paging_state_token, PagingInv

LEMMA TokenStep ==
  ASSUME PagingInv, set_paging_state_token
  PROVE  PagingInv'
<1>1. \E state \in 0 .. Total : Continue(state, Rows(0, state))
  BY EmptyRows, PagingAssumption DEF PagingInv, TokenInv, set_paging_state_token
<1>2. StmtInv' BY <1>1, ContinueInv
<1>3. TokenInv' BY DEF PagingInv, TokenInv, set_paging_state_token
<1> QED BY <1>2, <1>3, CallCounts, StatementStep DEF set_paging_state_token
-----------------------------------------------------------------------------
(* A step that changes one request.  No iterator runs over it, unless it    *)
(* stays the result it was.                                                 *)
LEMMA RequestStep ==
  ASSUME PagingInv, NEW r \in Requests, NEW q,
         req' = [req EXCEPT ![r] = q],
         q = None \/ SentOK(q) \/ ResultOK(q),
         ~IsResult(r) \/ (\A i \in Iterators : iter[i] # None => iter[i].of # r),
         UNCHANGED <<stmt, seen, token, iter>>, calls' \in 0 .. MaxCalls
  PROVE  PagingInv'
<1>1. StmtInv' /\ TokenInv' BY DEF PagingInv, StmtInv, TokenInv
<1>2. DOMAIN req' = Requests /\ DOMAIN iter' = Iterators BY DEF PagingInv
<1>3. \A p \in Requests : req'[p] = None \/ SentOK(req'[p]) \/ ResultOK(req'[p])
  BY DEF PagingInv
<1>4. ASSUME NEW i \in Iterators, iter[i] # None
      PROVE  IteratorOK(iter[i], req'[iter[i].of])
  <2>1. IteratorOK(iter[i], req[iter[i].of]) BY <1>4 DEF PagingInv
  <2>2. iter[i].of \in Requests BY <2>1, Apart DEF IteratorOK
  <2>3. IsResult(iter[i].of) BY <2>1, Apart DEF IteratorOK, ResultOK, IsResult
  <2>4. iter[i].of # r BY <1>4, <2>3
  <2>5. req'[iter[i].of] = req[iter[i].of] BY <2>2, <2>4 DEF PagingInv
  <2> QED BY <2>1, <2>5
<1>5. (\A p \in Requests : req[p] = None \/ SentOK(req[p]) \/ ResultOK(req[p]))'
  BY <1>3
<1>6. (\A i \in Iterators : iter[i] = None \/ IteratorOK(iter[i], req[iter[i].of]))'
  BY <1>4
<1> QED BY <1>1, <1>2, <1>5, <1>6 DEF PagingInv

LEMMA ExecuteStep ==
  ASSUME PagingInv, NEW r \in Requests, Execute(r)
  PROVE  PagingInv'
<1> DEFINE q == [pc |-> "sent", paging_enabled |-> stmt.paging_enabled,
                 page_size |-> stmt.page_size, paging_state |-> stmt.paging_state,
                 seen |-> seen]
<1>1. stmt.paging_state \in Nat /\ stmt.page_size \in Nat /\ stmt.paging_enabled \in BOOLEAN
  BY PagingAssumption DEF PagingInv, StmtInv
<1>2. seen \in Seq(Nat) BY <1>1, RowsTyped DEF PagingInv, StmtInv
<1>3. q \in Sent BY <1>1, <1>2 DEF Sent
<1>4. SentOK(q) BY <1>3 DEF SentOK, PagingInv, StmtInv
<1>5. req' = [req EXCEPT ![r] = q] BY DEF Execute
<1>6. ~IsResult(r) BY DEF Execute, IsResult
<1>7. UNCHANGED <<stmt, seen, token, iter>> /\ calls' \in 0 .. MaxCalls
  BY CallCounts DEF Execute
<1> HIDE DEF q
<1> QED BY <1>4, <1>5, <1>6, <1>7, RequestStep, Zenon

LEMMA RespondStep ==
  ASSUME PagingInv, NEW r \in Requests, Respond(r)
  PROVE  PagingInv'
<1>1. SentOK(req[r]) BY IsSentOK DEF Respond
<1>2. ~IsResult(r) BY DEF Respond, IsResult
<1>3. UNCHANGED <<stmt, seen, token, iter>> /\ calls' \in 0 .. MaxCalls
  BY DEF Respond, PagingInv
<1>4. ASSUME NEW p \in Pages(req[r].paging_state, req[r].page_size),
             req' = [req EXCEPT ![r] =
                        from_result_payload(@.paging_state, p.last, p.response, @.seen)]
      PROVE  PagingInv'
  <2> DEFINE q == from_result_payload(req[r].paging_state, p.last, p.response, req[r].seen)
  <2>1. /\ req[r].paging_state \in Nat /\ req[r].seen = Rows(0, req[r].paging_state)
        /\ p.last \in Nat /\ req[r].paging_state <= p.last /\ p.last <= Total
        /\ p.response \in {"HasMorePages", "NoMorePages"}
        /\ p.response = "HasMorePages" \/ p.last = Total
    BY <1>1, PagingAssumption DEF SentOK, Sent, Pages
  <2>2. ResultOK(q) BY <2>1, PayloadOK
  <2>3. req' = [req EXCEPT ![r] = q] BY <1>4
  <2> HIDE DEF q
  <2> QED BY <2>2, <2>3, <1>2, <1>3, RequestStep, Zenon
<1>5. ASSUME req' = [req EXCEPT ![r] = from_result_payload(0, Total, "NoMorePages", <<>>)]
      PROVE  PagingInv'
  <2>1. ResultOK(from_result_payload(0, Total, "NoMorePages", <<>>))
    BY PayloadOK, EmptyRows, PagingAssumption
  <2> QED BY <2>1, <1>2, <1>3, <1>5, RequestStep, Zenon
<1>6. ASSUME req' = [req EXCEPT ![r].pc = "error"]
      PROVE  PagingInv'
  <2> DEFINE q == [req[r] EXCEPT !.pc = "error"]
  <2>1. SentOK(q) BY <1>1 DEF SentOK, Sent
  <2>2. req' = [req EXCEPT ![r] = q] BY <1>6
  <2> HIDE DEF q
  <2> QED BY <2>1, <2>2, <1>2, <1>3, RequestStep, Zenon
<1> QED BY <1>4, <1>5, <1>6 DEF Respond

LEMMA FreeStep ==
  ASSUME PagingInv, NEW r \in Requests, Free(r)
  PROVE  PagingInv'
<1>1. calls' \in 0 .. MaxCalls BY DEF Free, PagingInv
<1> QED BY <1>1, RequestStep, Zenon DEF Free
-----------------------------------------------------------------------------
(* A step that changes one iterator.                                        *)
LEMMA IteratorStep ==
  ASSUME PagingInv, NEW i \in Iterators, NEW it, SetIter(i, it),
         it = None \/ IteratorOK(it, req[it.of])
  PROVE  PagingInv'
<1>1. StmtInv' /\ TokenInv' BY DEF PagingInv, StmtInv, TokenInv, SetIter
<1>2. \A j \in Iterators : iter'[j] = None \/ IteratorOK(iter'[j], req[iter'[j].of])
  BY DEF PagingInv, SetIter
<1>3. DOMAIN iter' = Iterators /\ UNCHANGED <<req, calls>> BY DEF PagingInv, SetIter
<1> QED BY <1>1, <1>2, <1>3 DEF PagingInv

LEMMA NewIteratorStep ==
  ASSUME PagingInv, NEW i \in Iterators, NEW r \in Requests, iterator_from_result(i, r)
  PROVE  PagingInv'
<1> DEFINE it == [of |-> r, taken |-> 0, current_row |-> None, position |-> 0]
<1>1. ResultOK(req[r]) BY IsResultOK DEF iterator_from_result
<1>2. it \in Iterator BY DEF Iterator
<1>3. IteratorOK(it, req[r]) BY <1>1, <1>2 DEF IteratorOK
<1>4. SetIter(i, it) /\ it.of = r BY DEF iterator_from_result
<1> HIDE DEF it
<1>5. IteratorOK(it, req[it.of]) BY <1>3, <1>4, Zenon
<1> QED BY <1>4, <1>5, IteratorStep, Zenon

(* The page an iterator runs over.                                          *)
LEMMA PageRows ==
  ASSUME PagingInv, NEW i \in Iterators, iter[i] # None
  PROVE  LET q == req[iter[i].of]
         IN  /\ IteratorOK(iter[i], q) /\ iter[i].of \in Requests
             /\ q.first \in Nat /\ q.last \in Nat /\ q.first <= q.last
             /\ Len(Page(i)) = q.last - q.first
             /\ DOMAIN Page(i) = 1 .. q.last - q.first
             /\ \A n \in 1 .. q.last - q.first : Page(i)[n] = q.first + n
<1> DEFINE q == req[iter[i].of]
<1>1. IteratorOK(iter[i], q) BY DEF PagingInv
<1>2. iter[i].of \in Requests BY <1>1, Apart DEF IteratorOK
<1>3. q.first \in Nat /\ q.last \in Nat /\ q.first <= q.last
  BY <1>1 DEF IteratorOK, ResultOK, Result
<1>4. Page(i) = Rows(q.first, q.last) BY DEF Page
<1>5. /\ Len(Page(i)) = q.last - q.first
      /\ DOMAIN Page(i) = 1 .. q.last - q.first
      /\ \A n \in 1 .. q.last - q.first : Page(i)[n] = q.first + n
  <2> HIDE DEF q
  <2> QED BY <1>3, <1>4 DEF Rows
<1> QED BY <1>1, <1>2, <1>3, <1>5

LEMMA ResultNextStep ==
  ASSUME PagingInv, NEW i \in Iterators, result_next(i)
  PROVE  PagingInv'
<1> DEFINE q == req[iter[i].of]
           row == IF iter[i].taken < Len(Page(i))
                  THEN from_raw_row_and_metadata(Page(i)[iter[i].taken + 1],
                                                 iter[i].current_row)
                  ELSE None
           it == [of |-> iter[i].of, taken |-> iter[i].taken + 1, position |-> 0,
                  current_row |-> row]
<1>1. /\ IteratorOK(iter[i], q) /\ iter[i].of \in Requests
      /\ q.first \in Nat /\ q.last \in Nat /\ q.first <= q.last
      /\ Len(Page(i)) = q.last - q.first
      /\ \A n \in 1 .. q.last - q.first : Page(i)[n] = q.first + n
  BY PageRows DEF result_next
<1>2. iter[i] \in Iterator /\ ResultOK(q) /\ iter[i].taken \in Nat
  BY <1>1 DEF IteratorOK, Iterator
<1>3. row = IF iter[i].taken + 1 \in 1 .. q.last - q.first
            THEN Cells(q.first + (iter[i].taken + 1)) ELSE None
  <2>1. PICK n : n = iter[i].taken BY Zenon
  <2>2. PICK page : page = Page(i) BY Zenon
  <2>3. row = IF n < Len(page) THEN Cells(page[n + 1]) ELSE None
    BY <2>1, <2>2, Zenon DEF from_raw_row_and_metadata
  <2>4. n < Len(page) <=> n + 1 \in 1 .. q.last - q.first BY <1>1, <1>2, <2>1, <2>2
  <2>5. n + 1 \in 1 .. q.last - q.first => page[n + 1] = q.first + (n + 1) BY <1>1, <2>2, Zenon
  <2> QED BY <2>1, <2>3, <2>4, <2>5, Zenon
<1>5. SetIter(i, it) BY DEF result_next
<1> HIDE DEF q, row
<1>4. row \in Seq(Nat \X Nat) \cup {None}
  <2>1. CASE row = None BY <2>1
  <2>2. CASE row # None
    <3>1. q.first + (iter[i].taken + 1) \in Nat BY <1>1, <1>2
    <3>2. Cells(q.first + (iter[i].taken + 1)) \in Seq(Nat \X Nat) BY <3>1, CellsTyped, Zenon
    <3> QED BY <2>2, <1>3, <3>2
  <2> QED BY <2>1, <2>2
<1>6. it \in Iterator /\ it.of = iter[i].of /\ it.taken = iter[i].taken + 1
         /\ it.current_row = row
  BY <1>1, <1>2, <1>4 DEF Iterator
<1> HIDE DEF it
<1>7. IteratorOK(it, q) BY <1>2, <1>3, <1>6 DEF IteratorOK
<1>8. IteratorOK(it, req[it.of]) BY <1>6, <1>7, Zenon DEF q
<1> QED BY <1>5, <1>8, IteratorStep, Zenon

LEMMA RowNextStep ==
  ASSUME PagingInv, NEW i \in Iterators, row_next(i)
  PROVE  PagingInv'
<1> DEFINE it == [iter[i] EXCEPT !.position = @ + 1]
<1>1. IteratorOK(iter[i], req[iter[i].of]) BY PageRows DEF row_next
<1>2. it \in Iterator /\ it.of = iter[i].of /\ it.taken = iter[i].taken
         /\ it.current_row = iter[i].current_row
  BY <1>1 DEF IteratorOK, Iterator
<1>3. SetIter(i, it) BY DEF row_next
<1> HIDE DEF it
<1>4. IteratorOK(it, req[it.of]) BY <1>1, <1>2 DEF IteratorOK
<1> QED BY <1>3, <1>4, IteratorStep, Zenon

LEMMA FreeIteratorStep ==
  ASSUME PagingInv, NEW i \in Iterators, iterator_free(i)
  PROVE  PagingInv'
BY IteratorStep DEF iterator_free

-----------------------------------------------------------------------------
LEMMA NextInv == PagingInv /\ [Next]_vars => PagingInv'
<1> SUFFICES ASSUME PagingInv, [Next]_vars PROVE PagingInv' OBVIOUS
<1>1. CASE UNCHANGED vars
  <2>1. UNCHANGED <<stmt, seen, token, req, iter, calls>> BY <1>1 DEF vars
  <2>2. StmtInv' /\ TokenInv' BY <2>1 DEF PagingInv, StmtInv, TokenInv
  <2> QED BY <2>1, <2>2 DEF PagingInv
<1>2. CASE Next
  BY <1>2, SizeStep, TokenStep, StateStep, TakeTokenStep, ExecuteStep, RespondStep, FreeStep,
     NewIteratorStep, ResultNextStep, RowNextStep, FreeIteratorStep DEF Next
<1> QED BY <1>1, <1>2

LEMMA InvTraversal == PagingInv => TraversalExact
BY IsResultOK DEF TraversalExact, ResultOK, HasMorePages

(* The row an iterator is at.                                               *)
LEMMA CurrentRow ==
  ASSUME PagingInv, NEW i \in Iterators, iter[i] # None
  PROVE  /\ IsResult(iter[i].of) /\ ResultOK(req[iter[i].of])
         /\ DOMAIN Page(i) = 1 .. result_row_count(iter[i].of)
         /\ iter[i].taken \in DOMAIN Page(i) =>
               /\ Page(i)[iter[i].taken] = req[iter[i].of].first + iter[i].taken
               /\ get_row(i) = Cells(Page(i)[iter[i].taken]) /\ get_row(i) # None
         /\ iter[i].taken \notin DOMAIN Page(i) => get_row(i) = None
<1>1. PICK q : q = req[iter[i].of] BY Zenon
<1>2. PICK it : it = iter[i] BY Zenon
<1>3. PICK page : page = Page(i) BY Zenon
<1>4. /\ IteratorOK(it, q) /\ it.of \in Requests
      /\ q.first \in Nat /\ q.last \in Nat /\ q.first <= q.last
      /\ DOMAIN page = 1 .. q.last - q.first
      /\ \A n \in 1 .. q.last - q.first : page[n] = q.first + n
  BY <1>1, <1>2, <1>3, PageRows, Zenon
<1>5. ResultOK(q) /\ q.pc = "result" /\ q # None BY <1>4, Apart DEF IteratorOK, ResultOK, Result
<1>6. it.current_row = IF it.taken \in 1 .. q.last - q.first
                       THEN Cells(q.first + it.taken) ELSE None
  BY <1>4 DEF IteratorOK
<1>7. /\ get_row(i) = it.current_row /\ result_row_count(iter[i].of) = q.last - q.first
      /\ IsResult(iter[i].of)
  BY <1>1, <1>2, <1>5, Zenon DEF get_row, result_row_count, IsResult
<1>8. it.taken \in DOMAIN page =>
         /\ page[it.taken] = q.first + it.taken
         /\ it.current_row = Cells(page[it.taken]) /\ it.current_row # None
  <2> SUFFICES ASSUME it.taken \in DOMAIN page
               PROVE  /\ page[it.taken] = q.first + it.taken
                      /\ it.current_row = Cells(page[it.taken]) /\ it.current_row # None
    OBVIOUS
  <2>1. page[it.taken] = q.first + it.taken /\ page[it.taken] \in Nat BY <1>4
  <2>2. it.current_row = Cells(page[it.taken]) BY <1>4, <1>6, <2>1
  <2> QED BY <2>1, <2>2, CellsTyped, PagingAssumption
<1>9. it.taken \notin DOMAIN page => it.current_row = None BY <1>4, <1>6
<1> QED BY <1>1, <1>2, <1>3, <1>4, <1>5, <1>7, <1>8, <1>9, Zenon

(* A column that is the first of its name is the one found.                 *)
LEMMA FoundByName ==
  ASSUME NEW row \in Nat, NEW name, NEW quoted, NEW c \in 1 .. Columns,
         SameName(ColumnName[c], name, quoted),
         \A d \in 1 .. c - 1 : ~SameName(ColumnName[d], name, quoted)
  PROVE  row_get_column_by_name(Cells(row), name, quoted) = <<row, c>>
<1> DEFINE found(d) == SameName(ColumnName[d], name, quoted)
           first(d) == found(d) /\ \A e \in 1 .. d - 1 : ~found(e)
           pick == CHOOSE d \in 1 .. Columns : first(d)
<1>1. Columns \in Nat BY PagingAssumption
<1>2. first(c) OBVIOUS
<1> HIDE DEF found
<1>3. \A d \in 1 .. Columns : first(d) => d = c
  <2> SUFFICES ASSUME NEW d \in 1 .. Columns, first(d) PROVE d = c OBVIOUS
  <2>1. ~(d < c) BY <1>1, <1>2
  <2>2. ~(c < d) BY <1>1, <1>2
  <2> QED BY <1>1, <2>1, <2>2
<1> HIDE DEF first
<1>4. pick \in 1 .. Columns /\ first(pick) BY <1>2
<1>5. pick = c BY <1>3, <1>4
<1>6. row_get_column_by_name(Cells(row), name, quoted) = row_get_column(Cells(row), pick)
  BY <1>2 DEF row_get_column_by_name, first, found
<1>7. row_get_column(Cells(row), c) = <<row, c>> BY DEF row_get_column, Cells
<1> QED BY <1>5, <1>6, <1>7, Zenon

LEMMA InvNames == PagingInv => NamesExact
<1> SUFFICES ASSUME PagingInv, NEW i \in Iterators, iter[i] # None, get_row(i) # None,
                    NEW c \in 1 .. Columns
             PROVE  LET name == result_column_name(c)
                        before == {result_column_name(d) : d \in 1 .. c - 1}
                        cell == <<Page(i)[iter[i].taken], c>>
                    IN  /\ name \notin before => row_get_column_by_name(get_row(i), name, TRUE) = cell
                        /\ (\A other \in before : other.letters # name.letters) =>
                              \A spelling \in {ColumnName[d].spelling : d \in 1 .. Columns} :
                                  row_get_column_by_name(get_row(i),
                                      [name EXCEPT !.spelling = spelling], FALSE) = cell
  BY Zenon DEF NamesExact
<1>1. PICK row : row = Page(i)[iter[i].taken] BY Zenon
<1>2. get_row(i) = Cells(row) /\ row \in Nat
  <2>1. iter[i].taken \in DOMAIN Page(i) BY CurrentRow
  <2>2. /\ req[iter[i].of].first \in Nat /\ req[iter[i].of].last \in Nat
        /\ DOMAIN Page(i) = 1 .. req[iter[i].of].last - req[iter[i].of].first
    BY PageRows
  <2>3. Page(i)[iter[i].taken] = req[iter[i].of].first + iter[i].taken BY <2>1, CurrentRow
  <2>4. Page(i)[iter[i].taken] \in Nat
    <3>1. PICK first : first = req[iter[i].of].first BY Zenon
    <3>2. PICK last : last = req[iter[i].of].last BY Zenon
    <3>3. PICK taken : taken = iter[i].taken BY Zenon
    <3>4. first \in Nat /\ last \in Nat /\ taken \in 1 .. last - first
      BY <2>1, <2>2, <3>1, <3>2, <3>3, Zenon
    <3>5. first + taken \in Nat BY <3>4
    <3> QED BY <2>3, <3>1, <3>3, <3>5, Zenon
  <2> QED BY <1>1, <2>1, <2>4, CurrentRow
<1>3. ColumnName \in [1 .. Columns -> Name] /\ Columns \in Nat BY PagingAssumption
<1>4. ASSUME \A d \in 1 .. c - 1 : ColumnName[d] # ColumnName[c]
      PROVE  row_get_column_by_name(Cells(row), ColumnName[c], TRUE) = <<row, c>>
  <2>1. PICK name : name = ColumnName[c] BY Zenon
  <2>2. /\ SameName(ColumnName[c], name, TRUE)
        /\ \A d \in 1 .. c - 1 : ~SameName(ColumnName[d], name, TRUE)
    BY <1>4, <2>1 DEF SameName
  <2>3. row_get_column_by_name(Cells(row), name, TRUE) = <<row, c>>
    BY <1>2, <2>2, FoundByName, Zenon
  <2> QED BY <2>1, <2>3, Zenon
<1>5. ASSUME \A d \in 1 .. c - 1 : ColumnName[d].letters # ColumnName[c].letters,
             NEW spelling
      PROVE  row_get_column_by_name(Cells(row), [ColumnName[c] EXCEPT !.spelling = spelling],
                                    FALSE) = <<row, c>>
  <2> DEFINE name == [ColumnName[c] EXCEPT !.spelling = spelling]
  <2>1. name.letters = ColumnName[c].letters BY <1>3 DEF Name
  <2> HIDE DEF name
  <2>2. /\ SameName(ColumnName[c], name, FALSE)
        /\ \A d \in 1 .. c - 1 : ~SameName(ColumnName[d], name, FALSE)
    BY <1>5, <2>1 DEF SameName
  <2>3. row_get_column_by_name(Cells(row), name, FALSE) = <<row, c>>
    BY <1>2, <2>2, FoundByName, Zenon
  <2> QED BY <2>3, Zenon DEF name
<1> QED BY <1>1, <1>2, <1>4, <1>5, Zenon DEF result_column_name

LEMMA InvRows == PagingInv => RowsExact
<1> SUFFICES ASSUME PagingInv, NEW i \in Iterators, iter[i] # None
             PROVE  LET taken == iter[i].taken
                        there == taken \in 1 .. result_row_count(iter[i].of)
                    IN  /\ IsResult(iter[i].of)
                        /\ (get_row(i) # None) <=> there
                        /\ taken = 1 => get_row(i) = result_first_row(iter[i].of)
                        /\ get_column(i) = IF there /\ iter[i].position \in 1 .. Columns
                                           THEN <<Page(i)[taken], iter[i].position>> ELSE None
  BY InvNames DEF RowsExact
<1>1. PICK q : q = req[iter[i].of] BY Zenon
<1>2. PICK taken : taken = iter[i].taken BY Zenon
<1>3. PICK page : page = Page(i) BY Zenon
<1>4. PICK row : row = get_row(i) BY Zenon
<1>5. /\ IsResult(iter[i].of) /\ ResultOK(q)
      /\ DOMAIN page = 1 .. result_row_count(iter[i].of)
      /\ taken \in DOMAIN page => /\ page[taken] = q.first + taken
                                  /\ row = Cells(page[taken]) /\ row # None
      /\ taken \notin DOMAIN page => row = None
  BY <1>1, <1>2, <1>3, <1>4, CurrentRow, Zenon
<1>6. /\ q.first \in Nat /\ q.last \in Nat /\ q.first <= q.last
      /\ DOMAIN page = 1 .. q.last - q.first
  BY <1>1, <1>3, PageRows, Zenon
<1>7. taken = 1 => row = q.first_row
  <2>1. q.first_row = IF q.first = q.last THEN None ELSE Cells(q.first + 1)
    BY <1>5, <1>6 DEF ResultOK, first_row, from_raw_row_and_metadata
  <2>2. taken = 1 /\ q.first = q.last => taken \notin DOMAIN page BY <1>6
  <2>3. taken = 1 /\ q.first # q.last => taken \in DOMAIN page BY <1>6
  <2> QED BY <1>5, <2>1, <2>2, <2>3
<1>8. /\ result_first_row(iter[i].of) = q.first_row
      /\ get_column(i) = IF row # None /\ iter[i].position \in DOMAIN row
                         THEN row[iter[i].position] ELSE None
  BY <1>1, <1>4, Zenon DEF result_first_row, get_column, get_row
<1>9. PICK at : at = iter[i].position BY Zenon
<1>10. PICK column : column = get_column(i) BY Zenon
<1>11. taken \in DOMAIN page =>
          column = IF at \in 1 .. Columns THEN <<page[taken], at>> ELSE None
  <2>1. PICK cells : cells = Cells(page[taken]) BY Zenon
  <2>2. cells = [c \in 1 .. Columns |-> <<page[taken], c>>] BY <2>1, Zenon DEF Cells
  <2>3. column = IF row # None /\ at \in DOMAIN row THEN row[at] ELSE None
    BY <1>8, <1>9, <1>10
  <2> QED BY <1>5, <2>1, <2>2, <2>3
<1>12. taken \notin DOMAIN page => column = None BY <1>5, <1>8, <1>10
<1>13. PICK count : count = result_row_count(iter[i].of) BY Zenon
<1>14. /\ (row # None) <=> taken \in 1 .. count
       /\ column = IF taken \in 1 .. count /\ at \in 1 .. Columns
                   THEN <<page[taken], at>> ELSE None
  BY <1>5, <1>11, <1>12, <1>13
<1> QED BY <1>2, <1>3, <1>4, <1>5, <1>7, <1>8, <1>9, <1>10, <1>13, <1>14, Zenon

-----------------------------------------------------------------------------
(* Both together.                                                           *)
LEMMA ReadingInitInv == ReadingInit => ReadingInv
<1> SUFFICES ASSUME ReadingInit PROVE ReadingInv OBVIOUS
<1>1. PagingInv BY InitInv DEF ReadingInit
<1>2. SchemaInv BY DEF ReadingInit, SchemaInit, SchemaInv
<1> QED BY <1>1, <1>2 DEF ReadingInv

LEMMA ReadingNextInv == ReadingInv /\ [ReadingNext]_<<vars, schemaVars>> => ReadingInv'
<1> SUFFICES ASSUME ReadingInv, [ReadingNext]_<<vars, schemaVars>> PROVE ReadingInv' OBVIOUS
<1>1. PagingInv /\ SchemaInv BY DEF ReadingInv
<1>2. UNCHANGED schemaVars => SchemaInv'
  <2> SUFFICES ASSUME UNCHANGED schemaVars PROVE SchemaInv' OBVIOUS
  <2>1. UNCHANGED <<snapshot, as_of, order, schema_iter, walks>> BY DEF schemaVars
  <2>2. \A m : ToShow(m)' = ToShow(m) /\ IsMap(m)' = IsMap(m) BY <2>1 DEF ToShow, IsMap
  <2>3. \A it : WalkOK(it)' = WalkOK(it) BY <2>1, <2>2 DEF WalkOK
  <2> QED BY <1>1, <2>1, <2>2, <2>3 DEF SchemaInv
<1>3. CASE UNCHANGED <<vars, schemaVars>> BY <1>1, <1>2, <1>3, NextInv DEF ReadingInv
<1>4. CASE Next /\ UNCHANGED schemaVars BY <1>1, <1>2, <1>4, NextInv DEF ReadingInv
<1>5. CASE /\ SchemaNext
           /\ calls' = IF snapshot = Null THEN calls + SchemaCost ELSE calls + (walks' - walks)
           /\ calls' <= MaxCalls
           /\ UNCHANGED <<stmt, seen, token, req, iter>>
  <2>1. SchemaInv' /\ (snapshot # Null => walks' - walks \in {0, 1}) BY <1>1, <1>5, SchemaStep
  <2>2. calls \in Nat /\ SchemaCost \in Nat /\ MaxCalls \in Nat
    BY <1>1, PagingAssumption, ReadingAssumption DEF PagingInv
  <2>3. calls' \in 0 .. MaxCalls BY <1>5, <2>1, <2>2
  <2>4. StmtInv' /\ TokenInv' BY <1>1, <1>5 DEF PagingInv, StmtInv, TokenInv
  <2>5. PagingInv' BY <1>1, <1>5, <2>3, <2>4, StatementStep
  <2> QED BY <2>1, <2>5 DEF ReadingInv
<1> QED BY <1>3, <1>4, <1>5 DEF ReadingNext

(* The paging state in the statement, in a kept token and in every request   *)
(* stands for the rows read so far (statement.rs, session.rs), every         *)
(* iterator over rows is at the row of its page that it should be at, and    *)
(* every iterator over a schema has shown its first names (iterator.rs).     *)
THEOREM ReadingInvariant == ReadingSpec => []ReadingInv
<1>1. ReadingInit => ReadingInv BY ReadingInitInv
<1>2. ReadingInv /\ [ReadingNext]_<<vars, schemaVars>> => ReadingInv' BY ReadingNextInv
<1> QED BY <1>1, <1>2, PTL DEF ReadingSpec

(* Following the paging states reads every row once and in order, however    *)
(* setters, executions, failures and late responses interleave.              *)
THEOREM EveryRowOnce == ReadingSpec => []TraversalExact
<1>1. ReadingInv => TraversalExact BY InvTraversal DEF ReadingInv
<1> QED BY <1>1, ReadingInvariant, PTL

(* Iterators show each row of their page, with its own columns although the  *)
(* buffer of the row before is reused (CassRow::from_raw_row_and_metadata),  *)
(* and the columns are found by their names (cass_row_get_column_by_name_n). *)
THEOREM RowsInOrder == ReadingSpec => []RowsExact
<1>1. ReadingInv => RowsExact BY InvRows DEF ReadingInv
<1> QED BY <1>1, ReadingInvariant, PTL

(* For any schema, an iterator over a map of the snapshot shows every name   *)
(* once, in an order all iterators of that map share, before                 *)
(* cass_iterator_next returns false.                                         *)
THEOREM WalksComplete == ReadingSpec => []WalkComplete
<1>1. ReadingInv => WalkComplete BY InvWalk DEF ReadingInv
<1> QED BY <1>1, ReadingInvariant, PTL

(* Every snapshot shows the schema the driver had when it was taken: each    *)
(* keyspace, table, view, user type and column under its own name, the       *)
(* columns of every key at the positions the server gave them; by index the  *)
(* columns of a table with the others by name after the keys, those of a     *)
(* view in whatever order its map has, each once; under every table the      *)
(* views it is the base of (create_table_metadata,                           *)
(* cass_session_get_schema_meta, the lookups by name and by index of         *)
(* metadata.rs).                                                             *)
THEOREM SnapshotsFaithful == ReadingSpec => []SnapshotFaithful
<1>1. ReadingInit => SnapshotFaithful BY Zenon DEF ReadingInit, SchemaInit, SnapshotFaithful
<1>2. SnapshotFaithful /\ [ReadingNext]_<<vars, schemaVars>> => SnapshotFaithful'
  <2> SUFFICES ASSUME SnapshotFaithful, [ReadingNext]_<<vars, schemaVars>> PROVE SnapshotFaithful'
    BY Zenon
  <2>1. SchemaNext \/ UNCHANGED schemaVars BY Zenon DEF ReadingNext
  <2>2. CASE SchemaNext BY <2>2, FaithfulStep, Zenon
  <2>3. CASE UNCHANGED schemaVars
    <3>1. UNCHANGED <<snapshot, as_of>> BY <2>3, Zenon DEF schemaVars
    <3> QED BY <3>1, Zenon DEF SnapshotFaithful, schema_meta_keyspace_by_name
  <2> QED BY <2>1, <2>2, <2>3, Zenon
<1> QED BY <1>1, <1>2, PTL DEF ReadingSpec
=============================================================================
