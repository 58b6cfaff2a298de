------------------------------- MODULE Paging -------------------------------
(***************************************************************************)
(* Reading a query page by page (statements/statement.rs, session.rs,      *)
(* query_result.rs, iterator.rs).  A statement carries a page size and a   *)
(* paging state; an execution takes a copy of both, and its result says    *)
(* whether more pages follow and with which paging state.  The application *)
(* may set them in any order, while other executions are under way, and    *)
(* walks over results with iterators.  The server has Total rows for the   *)
(* query; a paging state is the number of rows before the next page, and   *)
(* start is 0.  A result without rows, NonRows in the code, is that of a   *)
(* query with Total = 0.                                                   *)
(***************************************************************************)
EXTENDS Naturals, Sequences

CONSTANTS Total, Columns,  \* rows of the query, columns of a row
          ColumnName,      \* of each column: its letters, and which are capitals
          Sizes,           \* page sizes that are set; 0 turns paging off
          Requests, Iterators, None,
          MaxCalls         \* setters and executions in a behaviour

Rows(first, last) == [i \in 1 .. last - first |-> first + i]
Cells(row) == [c \in 1 .. Columns |-> <<row, c>>]

Name == [letters : STRING, spelling : STRING]

Sent == [pc : {"sent", "error"}, paging_enabled : BOOLEAN, page_size : Nat,
         paging_state : Nat, seen : Seq(Nat)]
Result == [pc : {"result"}, first : Nat, last : Nat, first_row : Seq(Nat \X Nat) \cup {None},
           response : {"HasMorePages", "NoMorePages"}, seen : Seq(Nat)]
Iterator == [of : Requests, taken : Nat, current_row : Seq(Nat \X Nat) \cup {None},
             position : Nat]

ASSUME PagingAssumption ==
    /\ Total \in Nat /\ Columns \in Nat /\ Sizes \subseteq Nat
    /\ ColumnName \in [1 .. Columns -> Name]
    /\ MaxCalls \in Nat
    /\ None \notin Seq(Nat \X Nat) /\ None \notin Sent /\ None \notin Result
    /\ None \notin Iterator

VARIABLES stmt,   \* CassStatement
          seen,   \* history: the rows an application that follows the pages
                  \* has read before the page at stmt.paging_state
          token,  \* a paging state the application has kept, and its seen
          req,    \* the executions, and their results
          iter,   \* the iterators over results, each with one over its row
          calls

vars == <<stmt, seen, token, req, iter, calls>>

(* CassStatement::new: paging is off.                                       *)
Init ==
    /\ stmt = [paging_enabled |-> FALSE, page_size |-> 0, paging_state |-> 0]
    /\ seen = <<>>
    /\ token = [paging_state |-> 0, seen |-> <<>>]
    /\ req = [r \in Requests |-> None]
    /\ iter = [i \in Iterators |-> None]
    /\ calls = 0

Call == calls < MaxCalls /\ calls' = calls + 1
IsResult(r) == req[r] # None /\ req[r].pc = "result"
HasMorePages(r) == req[r].response = "HasMorePages"

-----------------------------------------------------------------------------
(* The statement.                                                           *)
BugSizeZeroIsPaged(n) ==        \* only negative sizes turn paging off
    /\ Call
    /\ stmt' = [stmt EXCEPT !.paging_enabled = TRUE, !.page_size = n]
    /\ UNCHANGED <<seen, token, req, iter>>

set_paging_size(n) ==
    /\ Call
    /\ stmt' = IF n = 0 THEN [stmt EXCEPT !.paging_enabled = FALSE]
               ELSE [stmt EXCEPT !.paging_enabled = TRUE, !.page_size = n]
    /\ UNCHANGED <<seen, token, req, iter>>

Continue(state, rows) ==
    /\ stmt' = [stmt EXCEPT !.paging_state = state]
    /\ seen' = rows

(* After the last page the statement starts over.                           *)
set_paging_state(r) ==
    /\ Call /\ IsResult(r)
    /\ IF HasMorePages(r) THEN Continue(req[r].last, req[r].seen)
                      ELSE Continue(0, <<>>)
    /\ UNCHANGED <<token, req, iter>>

(* cass_result_paging_state_token; without more pages it is an error and    *)
(* nothing is written.                                                      *)
paging_state_token(r) ==
    /\ IsResult(r) /\ HasMorePages(r)
    /\ token' = [paging_state |-> req[r].last, seen |-> req[r].seen]
    /\ UNCHANGED <<stmt, seen, req, iter, calls>>

(* A token that was kept; null or an empty one starts over.                 *)
set_paging_state_token ==
    /\ Call
    /\ \/ Continue(token.paging_state, token.seen)
       \/ Continue(0, <<>>)
    /\ UNCHANGED <<token, req, iter>>

-----------------------------------------------------------------------------
(* cass_session_execute: the paging state and the statement are cloned.     *)
Execute(r) ==
    /\ Call /\ req[r] = None
    /\ req' = [req EXCEPT ![r] =
            [pc |-> "sent", paging_enabled |-> stmt.paging_enabled,
             page_size |-> stmt.page_size, paging_state |-> stmt.paging_state,
             seen |-> seen]]
    /\ UNCHANGED <<stmt, seen, token, iter>>

(* CassRow::from_raw_row_and_metadata empties the vector of the old row and *)
(* fills it again.                                                          *)
BugOldRowNotCleared(row, old_row) ==
    IF old_row = None THEN Cells(row) ELSE old_row \o Cells(row)

from_raw_row_and_metadata(row, old_row) == Cells(row)

(* init_first_row.                                                          *)
first_row(first, last) ==
    IF first = last THEN None ELSE from_raw_row_and_metadata(first + 1, None)

(* CassResult::from_result_payload.                                         *)
from_result_payload(first, last, response, rows) ==
    [pc |-> "result", first |-> first, last |-> last,
     first_row |-> first_row(first, last), response |-> response,
     seen |-> rows \o Rows(first, last)]

(* What the server answers to a request for a page: at most page_size rows, *)
(* perhaps none, and it may find out only later that no more rows follow.   *)
Pages(state, size) ==
    {p \in [last : state .. Total, response : {"HasMorePages", "NoMorePages"}] :
        p.last <= state + size /\ (p.last < Total => p.response = "HasMorePages")}

BugStateReadLate(r) ==          \* the paging state is not part of the copy
    /\ req[r] # None /\ req[r].pc = "sent"
    /\ \/ /\ req[r].paging_enabled
          /\ \E p \in Pages(stmt.paging_state, req[r].page_size) :
                req' = [req EXCEPT ![r] =
                    from_result_payload(stmt.paging_state, p.last, p.response, @.seen)]
       \/ /\ ~req[r].paging_enabled
          /\ req' = [req EXCEPT ![r] = from_result_payload(0, Total, "NoMorePages", <<>>)]
    /\ UNCHANGED <<stmt, seen, token, iter, calls>>

(* The future runs: query_single_page or execute_single_page, or without    *)
(* paging the unpaged ones, which take no paging state.                     *)
Respond(r) ==
    /\ req[r] # None /\ req[r].pc = "sent"
    /\ \/ /\ req[r].paging_enabled
          /\ \E p \in Pages(req[r].paging_state, req[r].page_size) :
                req' = [req EXCEPT ![r] =
                    from_result_payload(@.paging_state, p.last, p.response, @.seen)]
       \/ /\ ~req[r].paging_enabled
          /\ req' = [req EXCEPT ![r] = from_result_payload(0, Total, "NoMorePages", <<>>)]
       \/ req' = [req EXCEPT ![r].pc = "error"]
    /\ UNCHANGED <<stmt, seen, token, iter, calls>>

(* cass_result_free, cass_future_free; not under an iterator.               *)
Free(r) ==
    /\ req[r] # None /\ req[r].pc \in {"result", "error"}
    /\ \A i \in Iterators : iter[i] # None => iter[i].of # r
    /\ req' = [req EXCEPT ![r] = None]
    /\ UNCHANGED <<stmt, seen, token, iter, calls>>

-----------------------------------------------------------------------------
(* The iterators.                                                           *)
SetIter(i, it) == iter' = [iter EXCEPT ![i] = it] /\ UNCHANGED <<stmt, seen, token, req, calls>>

iterator_from_result(i, r) ==
    /\ iter[i] = None /\ IsResult(r)
    /\ SetIter(i, [of |-> r, taken |-> 0, current_row |-> None, position |-> 0])

Page(i) == Rows(req[iter[i].of].first, req[iter[i].of].last)

(* CassResultIterator::next, called until once after the end.  A row        *)
(* iterator is made anew for every row.                                     *)
result_next(i) ==
    /\ iter[i] # None /\ iter[i].taken <= Len(Page(i))
    /\ SetIter(i, [of |-> iter[i].of, taken |-> iter[i].taken + 1, position |-> 0,
            current_row |-> IF iter[i].taken < Len(Page(i))
                            THEN from_raw_row_and_metadata(Page(i)[iter[i].taken + 1],
                                                           iter[i].current_row)
                            ELSE None])

(* CassRowIterator::next; position counts its calls.                        *)
row_next(i) ==
    /\ iter[i] # None /\ iter[i].current_row # None
    /\ iter[i].position <= Len(iter[i].current_row)
    /\ SetIter(i, [iter[i] EXCEPT !.position = @ + 1])

(* cass_iterator_get_row: null before the first and after the last.         *)
get_row(i) == iter[i].current_row

(* cass_iterator_get_column: null before the first and after the last.      *)
get_column(i) ==
    IF iter[i].current_row # None /\ iter[i].position \in DOMAIN iter[i].current_row
    THEN iter[i].current_row[iter[i].position] ELSE None

result_row_count(r) == req[r].last - req[r].first
result_first_row(r) == req[r].first_row

(* cass_row_get_column and cass_result_column_name, counted from 1.         *)
row_get_column(row, c) == IF c \in DOMAIN row THEN row[c] ELSE None
result_column_name(c) == ColumnName[c]

(* cass_row_get_column_by_name: the first column of that name; letters      *)
(* count as they are spelled only if the name is in quotes.                 *)
SameName(spec, name, is_case_sensitive) ==
    IF is_case_sensitive THEN spec = name ELSE spec.letters = name.letters

row_get_column_by_name(row, name, quoted) ==
    LET found(c) == SameName(ColumnName[c], name, quoted)
        first(c) == found(c) /\ \A d \in 1 .. c - 1 : ~found(d)
    IN  IF \E c \in 1 .. Columns : first(c)
        THEN row_get_column(row, CHOOSE c \in 1 .. Columns : first(c)) ELSE None

iterator_free(i) == iter[i] # None /\ SetIter(i, None)

Next ==
    \/ \E n \in Sizes : set_paging_size(n)
    \/ set_paging_state_token
    \/ \E r \in Requests :
          \/ set_paging_state(r) \/ paging_state_token(r)
          \/ Execute(r) \/ Respond(r) \/ Free(r)
    \/ \E i \in Iterators :
          \/ \E r \in Requests : iterator_from_result(i, r)
          \/ result_next(i) \/ row_next(i) \/ iterator_free(i)

Spec == Init /\ [][Next]_vars

-----------------------------------------------------------------------------
(* Whatever is set while executions are under way, fail or are repeated, an  *)
(* application that continues from the paging state of a result, or from a   *)
(* token it kept, has read every row up to the end of its page exactly once  *)
(* and in order; and all rows of the query when no more pages follow.        *)
TraversalExact ==
    \A r \in Requests : IsResult(r) =>
        /\ req[r].seen = Rows(0, req[r].last)
        /\ HasMorePages(r) \/ req[r].last = Total

(* A row can be read by name: the name cass_result_column_name gives for a   *)
(* column, in quotes, reads that column of the current row, and without      *)
(* quotes in any spelling too, unless a column before it is named the same   *)
(* in that sense.                                                            *)
NamesExact ==
    \A i \in Iterators : iter[i] # None /\ get_row(i) # None =>
        \A c \in 1 .. Columns :
            LET name == result_column_name(c)
                before == {result_column_name(d) : d \in 1 .. c - 1}
                cell == <<Page(i)[iter[i].taken], c>>
            IN  /\ name \notin before => row_get_column_by_name(get_row(i), name, TRUE) = cell
                /\ (\A other \in before : other.letters # name.letters) =>
                      \A spelling \in {ColumnName[d].spelling : d \in 1 .. Columns} :
                          row_get_column_by_name(get_row(i), [name EXCEPT !.spelling = spelling],
                                                 FALSE) = cell

(* The n-th call of cass_iterator_next makes the n-th row of the page the    *)
(* current one, with its own columns although the vector of the row before   *)
(* is used again; past cass_result_row_count, and for columns a row does not *)
(* have, there is nothing to read.  The first of them is what                *)
(* cass_result_first_row returns, and their columns are found by name.       *)
RowsExact ==
    /\ \A i \in Iterators : iter[i] # None =>
          LET taken == iter[i].taken
              there == taken \in 1 .. result_row_count(iter[i].of)
          IN  /\ IsResult(iter[i].of)
              /\ (get_row(i) # None) <=> there
              /\ taken = 1 => get_row(i) = result_first_row(iter[i].of)
              /\ get_column(i) = IF there /\ iter[i].position \in 1 .. Columns
                                 THEN <<Page(i)[taken], iter[i].position>> ELSE None
    /\ NamesExact

(* What makes them so, and is inductive: the types, and that wherever a      *)
(* paging state is kept the rows before it are those that have been read.    *)
StmtInv ==
    /\ stmt \in [paging_enabled : BOOLEAN, page_size : Nat, paging_state : 0 .. Total]
    /\ stmt.paging_enabled => stmt.page_size # 0
    /\ seen = Rows(0, stmt.paging_state)

TokenInv ==
    /\ token.paging_state \in 0 .. Total
    /\ token.seen = Rows(0, token.paging_state)

SentOK(q) ==
    /\ q \in Sent
    /\ q.paging_state <= Total /\ q.seen = Rows(0, q.paging_state)

ResultOK(q) ==
    /\ q \in Result
    /\ q.first <= q.last /\ q.last <= Total
    /\ q.first_row = first_row(q.first, q.last)
    /\ q.seen = Rows(0, q.last)
    /\ q.response = "HasMorePages" \/ q.last = Total

IteratorOK(it, q) ==
    /\ it \in Iterator
    /\ ResultOK(q)
    /\ it.current_row = IF it.taken \in 1 .. q.last - q.first
                        THEN Cells(q.first + it.taken) ELSE None

PagingInv ==
    /\ StmtInv /\ TokenInv
    /\ DOMAIN req = Requests /\ DOMAIN iter = Iterators
    /\ \A r \in Requests : req[r] = None \/ SentOK(req[r]) \/ ResultOK(req[r])
    /\ \A i \in Iterators : iter[i] = None \/ IteratorOK(iter[i], req[iter[i].of])
    /\ calls \in 0 .. MaxCalls

=============================================================================
