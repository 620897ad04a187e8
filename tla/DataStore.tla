----------------------------- MODULE DataStore -----------------------------
(***************************************************************************)
(* DbInterface with its CMysqlConnect and CMysqlStore (connectpool.cpp,    *)
(* dbInterface.cc): one thread that connects, sends texts of one or more   *)
(* statements, and reads cells of what came back.                          *)
(*                                                                         *)
(* The MySQL client library is external. What matters of it: a text has    *)
(* one result per statement, which comes with rows, or without, or is an   *)
(* error that ends the text; a result with rows has to be fetched before   *)
(* the session takes another command; ping opens a lost session again.     *)
(***************************************************************************)
EXTENDS Integers, Sequences, SequencesExt, FiniteSets

CONSTANTS Columns,   \* names of columns
          Texts,     \* sequences of results, each [kind, cols, rows]
          MaxCalls   \* bound: statements sent

VARIABLES
    conn,       \* what connPtr_ points to: "NULL", "unset", "failed", "up", "lost"
    store,      \* storePtr_ # NULL
    connptr,    \* m_connptr # NULL
    unread,     \* the session holds a result nobody fetched
    fieldtype,  \* m_fieldtype: names, a column's index is its place
    recordset,  \* m_recordset: rows, each the columns its cells are of
    row,        \* m_row; -1 stands for the largest unsigned long
    text,       \* history: the last text that was sent
    calls, crashed

vars == << conn, store, connptr, unread, fieldtype, recordset, row, text, calls, crashed >>

TypeOK ==
    /\ conn \in {"NULL", "unset", "failed", "up", "lost"}
    /\ {store, connptr, unread, crashed} \subseteq BOOLEAN
    /\ fieldtype \in Seq(Columns) /\ \A i \in DOMAIN recordset : recordset[i] \in Seq(Columns)
    /\ row \in Int /\ text \in Texts \cup {<< >>} /\ calls \in 0 .. MaxCalls

Init ==
    /\ conn = "NULL" /\ store = FALSE /\ connptr = FALSE /\ unread = FALSE
    /\ fieldtype = << >> /\ recordset = << >> /\ row = 0
    /\ text = << >> /\ calls = 0 /\ crashed = FALSE

\* mysql_ping, as GetConnect calls it: it fails out of sync, and on a session that
\* never was; a lost session may come back.
Ping(next)    == IF conn = "lost" THEN next \in {"up", "lost"} ELSE next = conn
Answers(next) == next = "up" /\ ~unread

\* ConnectDb; a Connect that throws is caught. What SetTransAction returns is not.
ConnectDb ==
    /\ conn = "NULL" /\ ~crashed
    /\ \/ conn' \in {"unset", "failed"} /\ UNCHANGED << store, connptr >>
       \/ store' = TRUE /\ conn' \in {"up", "lost"} /\ connptr' = (conn' = "up")
    /\ fieldtype' = << >> /\ recordset' = << >> /\ row' = 0 /\ text' = << >>
    /\ UNCHANGED << unread, calls, crashed >>

DisConnect ==
    /\ conn # "NULL" /\ ~crashed
    /\ conn' = "NULL" /\ store' = FALSE /\ connptr' = FALSE /\ unread' = FALSE
    /\ UNCHANGED << fieldtype, recordset, row, text, calls, crashed >>

\* The server goes away.
Lose ==
    /\ conn = "up" /\ conn' = "lost" /\ unread' = FALSE
    /\ UNCHANGED << store, connptr, fieldtype, recordset, row, text, calls, crashed >>

-----------------------------------------------------------------------------

\* The results of t up to the first error, which mysql_next_result reports.
Upto(t, kinds) ==
    LET stops == {i \in DOMAIN t : t[i].kind \in kinds} \cup {Len(t) + 1}
    IN  SubSeq(t, 1, (CHOOSE i \in stops : \A j \in stops : i <= j) - 1)

\* The results with rows, and what they hold.
Fetched(t)     == SelectSeq(t, LAMBDA r : r.kind = "rows")
AllColumns(rs) == FlattenSeq([i \in DOMAIN rs |-> rs[i].cols])
AllRows(rs)    == FlattenSeq([i \in DOMAIN rs |-> [j \in 1 .. rs[i].rows |-> rs[i].cols]])

\* Mutant: Clear forgets the fields.
FieldsStay(rs) == fieldtype \o AllColumns(rs)

Fields(rs) == AllColumns(rs)

\* Query: mysql_query opens a lost session again, as ping does.
Query(t) ==
    /\ store /\ connptr /\ ~crashed /\ calls < MaxCalls
    /\ \E next \in {"up", "lost"} :
        /\ Ping(next) /\ conn' = next
        /\ LET rs == IF Answers(next) THEN Fetched(Upto(t, {"error"})) ELSE << >>
           IN  /\ fieldtype' = Fields(rs)
               /\ recordset' = AllRows(rs) /\ row' = Len(AllRows(rs))
    /\ text' = t /\ calls' = calls + 1
    /\ UNCHANGED << store, connptr, unread, crashed >>

\* Without a session behind the store, or without a store, Query ends the program.
QueryNull ==
    /\ ~crashed /\ ~(store /\ connptr) /\ crashed' = TRUE
    /\ UNCHANGED << conn, store, connptr, unread, fieldtype, recordset, row, text, calls >>

\* Exec goes on to the next result until there is one with rows, which it does not
\* fetch.
Affected(t) ==
    LET done == Upto(t, {"error", "rows"})
    IN  Len(done) - IF Len(done) < Len(t) /\ t[Len(done) + 1].kind = "rows" THEN 1 ELSE 0

\* CallProcedure: GetConnect, which dereferences connPtr_, and Exec.
CallProcedure(t) ==
    /\ ~crashed /\ conn # "NULL" /\ calls < MaxCalls
    /\ \E next \in {"unset", "failed", "up", "lost"} :
        /\ Ping(next) /\ conn' = next
        /\ IF ~Answers(next) THEN UNCHANGED << unread, fieldtype, recordset, row, text, crashed >>
           ELSE IF ~connptr
           THEN crashed' = TRUE /\ UNCHANGED << unread, fieldtype, recordset, row, text >>
           ELSE /\ fieldtype' = << >> /\ recordset' = << >> /\ text' = t
                /\ row' = IF t[1].kind = "error" THEN 0 ELSE Affected(t)
                /\ unread' = \E i \in DOMAIN t : /\ t[i].kind = "rows"
                                                 /\ \A j \in 1 .. i - 1 : t[j].kind = "none"
                /\ UNCHANGED crashed
    /\ calls' = calls + 1 /\ UNCHANGED << store, connptr >>

Next ==
    \/ ConnectDb \/ DisConnect \/ Lose \/ QueryNull
    \/ \E t \in Texts : Query(t) \/ CallProcedure(t)

Spec == Init /\ [][Next]_vars

-----------------------------------------------------------------------------

\* The rows FindRow lets through, and the index GetFieldIndex finds; 0 for none.
FindRow(i) == (row < 0 \/ i <= row) /\ recordset # << >>
GetFieldIndex(name) ==
    LET at == {i \in DOMAIN fieldtype : fieldtype[i] = name}
    IN  IF at = {} THEN 0 ELSE CHOOSE i \in at : \A j \in at : i <= j

\* GetItemValue of a row and a column, and the cell by the name of its column: the
\* column it is of, nothing if it is refused, or a read out of range.
Refused    == "refused"
OutOfRange == "out of range"
GetItemValue(i, k) ==
    IF ~(k \in DOMAIN fieldtype /\ FindRow(i)) THEN Refused
    ELSE IF i \in DOMAIN recordset /\ k \in DOMAIN recordset[i]
    THEN recordset[i][k] ELSE OutOfRange
GetItemString(i, name) == GetItemValue(i, GetFieldIndex(name))

Sets(t) == Len(Fetched(t))

\* Whatever was queried, executed, lost and connected again before, a row and a
\* column that GetItemValue lets through are of the last text, and the cell found by
\* a name is of that column, as long as a text has one result with rows. (A text
\* with two has all columns of both in m_fieldtype: its cells are read out of range.)
CellsAreThere ==
    (store /\ Sets(text) <= 1) =>
        \A i \in 1 .. MaxCalls :
            /\ \A k \in 0 .. Len(fieldtype) + 1 : GetItemValue(i, k) # OutOfRange
            /\ \A name \in Columns : GetItemString(i, name) \in {name, Refused}
=============================================================================
