-------------------------------- MODULE Mysql --------------------------------
(***************************************************************************)
(* The MySQL client of db/dan_mysql.hpp: the life of a danMysql and of the *)
(* handles the C library gives it, and a danMysqlDo, which puts arguments  *)
(* in the place of question marks and keeps the rows of its queries.       *)
(*                                                                         *)
(* A string is a sequence of characters; apart from the question mark and  *)
(* the quotation mark, what they are plays no part.                        *)
(***************************************************************************)
EXTENDS Integers, SequencesExt

CONSTANTS Chars,       \* the characters
          Sqls,        \* the statements objects are made for
          Strings,     \* the values setString is given
          ArgsWrap,    \* 2^8: argsCount_ is a uint8_t
          MaxHandles,  \* bound: calls of mysql_init
          MaxRows, MaxFields,   \* bounds: the size of a result
          MaxQueries   \* bound: queries of one danMysqlDo

ASSUME MysqlAssumption ==
  /\ ArgsWrap \in Nat \ {0}
  /\ Sqls \subseteq Seq(Chars) /\ Strings \subseteq Seq(Chars)
  /\ MaxHandles \in Nat /\ MaxRows \in Nat /\ MaxFields \in Nat /\ MaxQueries \in Nat

VARIABLES handle,        \* what mysql_init returned, each: "open" or "closed"
          mysql_,        \* the handle in use, 0: nullptr
          isConnected_,
          statement,     \* the danMysqlDo: its fields
          result,        \* history: the last result, and which query's it is
          life           \* the danMysql: "alive" or "gone"; or the process is, by
                         \* a handle "freed twice" or a query with "no handle"

mysqlVars == <<handle, mysql_, isConnected_, statement, result, life>>

Quote == "\""
Backslash == "\\"
Number == <<"9">>
Null == <<"N", "U", "L", "L">>

ASSUME CharsAssumption == {"9", "N", "U", "L", Quote, Backslash} \subseteq Chars

-----------------------------------------------------------------------------
(* danMysqlDo *)

Marks(sql) == Cardinality({k \in DOMAIN sql : sql[k] = "?"})

Made(sql) == [sql_ |-> sql, argsCount_ |-> Marks(sql) % ArgsWrap,
              args_ |-> [i \in {} |-> Null],
              fieldNum |-> 0, rowValue_ |-> [r \in {} |-> 0]]

NoResult == [rows |-> 0, fields |-> 0, query |-> 0]

MysqlInit ==
  /\ handle = <<>> /\ mysql_ = 0 /\ isConnected_ = FALSE
  /\ statement = Made(<<>>)
  /\ result = NoResult
  /\ life = "alive"

(* operator[]: an argument that was not set is empty. *)
Arg(i) == IF i \in DOMAIN statement.args_ THEN statement.args_[i] ELSE <<>>

(* Mutant of Begin: the search goes on behind the place of the last mark.  *)
BeginBehind(foundPos) == foundPos + 1

(* Where makeSql looks for the next mark: from the place of the last one,  *)
(* which is now the beginning of its argument. *)
Begin(foundPos) == foundPos

(* The first mark from there; there always is one. *)
Found(sql, begin) ==
  CHOOSE p \in {k \in begin .. Len(sql) : sql[k] = "?"} \cup {Len(sql) + 1} :
    \A k \in begin .. Len(sql) : sql[k] = "?" => p <= k

Replaced(sql, p, arg) == SubSeq(sql, 1, p - 1) \o arg \o SubSeq(sql, p + 1, Len(sql))

(* The statement after i rounds of the loop, and the place found last. *)
makeSql ==
  LET round[i \in 0 .. statement.argsCount_] ==
        IF i = 0 THEN [sql |-> statement.sql_, foundPos |-> 1]
        ELSE LET sql == round[i - 1].sql
                 p == Found(sql, Begin(round[i - 1].foundPos))
             IN  [sql |-> Replaced(sql, p, Arg(i - 1)), foundPos |-> p]
  IN  round[statement.argsCount_].sql

(* Mutant of CanSet: any index is taken. *)
CanSetAny(idx) == TRUE

(* The test of setString, setInt, setDouble and setNull: one index more    *)
(* than there are arguments passes. *)
CanSet(idx) == idx <= statement.argsCount_

Set(idx, value) ==
  /\ CanSet(idx)
  /\ statement' = [statement EXCEPT !.args_ =
       [i \in DOMAIN @ \cup {idx} |-> IF i = idx THEN value ELSE @[i]]]
  /\ UNCHANGED <<handle, mysql_, isConnected_, result, life>>

(* escapeString: nothing without a connection. *)
Escaped(value) ==
  IF isConnected_
    THEN FlattenSeq([k \in DOMAIN value |->
           IF value[k] = Quote THEN <<Backslash, Quote>> ELSE <<value[k]>>])
    ELSE <<>>

SetString(idx, value) == Set(idx, <<Quote>> \o Escaped(value) \o <<Quote>>)
SetNumber(idx) == Set(idx, Number)
SetNull(idx) == Set(idx, Null)

(* What mysql_query does: without a handle, or with a closed one, it kills *)
(* the process; without a connection, or by the server's will, it fails.   *)
QueryResults ==
  IF mysql_ = 0 \/ handle[mysql_] = "closed" THEN {"no handle"}
  ELSE IF isConnected_ THEN {"done", "error"} ELSE {"error"}

(* Mutant of Rows: a row that is there stays, as with map::insert. *)
RowsKept(old, rows, q) ==
  [r \in DOMAIN old \cup 0 .. rows - 1 |-> IF r \in DOMAIN old THEN old[r] ELSE q]

(* The rows of query q go over the ones of the query before, as many as    *)
(* there are; a row is known by its query. *)
Rows(old, rows, q) ==
  [r \in DOMAIN old \cup 0 .. rows - 1 |-> IF r < rows THEN q ELSE old[r]]

(* doQuery; a statement without a result is taken for an error. *)
DoQuery ==
  /\ result.query < MaxQueries
  /\ \/ /\ "no handle" \in QueryResults
        /\ life' = "no handle"
        /\ UNCHANGED <<statement, result>>
     \/ /\ "done" \in QueryResults
        /\ \E rows \in 0 .. MaxRows, fields \in 1 .. MaxFields :
             /\ result' = [rows |-> rows, fields |-> fields, query |-> result.query + 1]
             /\ statement' = [statement EXCEPT
                  !.rowValue_ = Rows(@, rows, result'.query),
                  !.fieldNum = IF @ < fields THEN fields ELSE @]
        /\ UNCHANGED life
  /\ UNCHANGED <<handle, mysql_, isConnected_>>

(* doInsert: nothing of what it returns is kept. *)
DoInsert ==
  /\ "no handle" \in QueryResults
  /\ life' = "no handle"
  /\ UNCHANGED <<handle, mysql_, isConnected_, statement, result>>

(* getFieldValue: of a row and a field that are there, the row's. *)
getFieldValue(row, field) ==
  IF row < Cardinality(DOMAIN statement.rowValue_) /\ field < statement.fieldNum
    THEN statement.rowValue_[row] ELSE 0

NewStatement ==
  /\ \E sql \in Sqls : statement' = Made(sql)
  /\ result' = NoResult
  /\ UNCHANGED <<handle, mysql_, isConnected_, life>>

MysqlDo ==
  \/ \E idx \in 0 .. statement.argsCount_ + 1 :
        (\E value \in Strings : SetString(idx, value)) \/ SetNumber(idx) \/ SetNull(idx)
  \/ DoQuery \/ DoInsert
  \/ NewStatement

-----------------------------------------------------------------------------
(* danMysql *)

(* mysql_close of a handle that is closed frees it twice. *)
ClosedTwice == mysql_ # 0 /\ handle[mysql_] = "closed"

(* Mutant of Disconnected: connecting again does not disconnect first. *)
DisconnectedNot == handle

(* The handles after disconnect(), which keeps mysql_. *)
Disconnected == IF mysql_ = 0 THEN handle ELSE [handle EXCEPT ![mysql_] = "closed"]

FreeTwice == /\ ClosedTwice
             /\ life' = "freed twice"
             /\ UNCHANGED <<handle, mysql_, isConnected_>>

(* Mutant of Disconnect: the flag stays. *)
DisconnectFlagged ==
  /\ \/ FreeTwice
     \/ /\ ~ ClosedTwice
        /\ handle' = Disconnected
        /\ UNCHANGED <<mysql_, isConnected_, life>>
  /\ UNCHANGED <<statement, result>>

Disconnect ==
  /\ \/ FreeTwice
     \/ /\ ~ ClosedTwice
        /\ handle' = Disconnected
        /\ isConnected_' = FALSE
        /\ UNCHANGED <<mysql_, life>>
  /\ UNCHANGED <<statement, result>>

(* Mutant of Opened: a connection that fails closes its handle. *)
OpenedClosing(handles, connected) ==
  Append(handles, IF connected THEN "open" ELSE "closed")

(* mysql_init: a failed mysql_real_connect leaves the handle. *)
Opened(handles, connected) == Append(handles, "open")

Connect ==
  /\ Len(handle) < MaxHandles
  /\ \/ FreeTwice
     \/ /\ ~ ClosedTwice
        /\ \E connected \in BOOLEAN : /\ handle' = Opened(Disconnected, connected)
                                    /\ isConnected_' = connected
        /\ mysql_' = Len(handle) + 1
        /\ UNCHANGED life
  /\ UNCHANGED <<statement, result>>

(* The destructor. *)
Destruct ==
  /\ \/ FreeTwice
     \/ /\ ~ ClosedTwice
        /\ handle' = Disconnected
        /\ isConnected_' = FALSE
        /\ life' = "gone"
        /\ UNCHANGED mysql_
  /\ UNCHANGED <<statement, result>>

MysqlNext == life = "alive" /\ (MysqlDo \/ Connect \/ Disconnect \/ Destruct)

-----------------------------------------------------------------------------

(* Every variable has its type; no more arguments are kept than the test   *)
(* of the setters lets pass. *)
MysqlTypeOK ==
  /\ handle \in Seq({"open", "closed"})
  /\ mysql_ \in 0 .. Len(handle)
  /\ isConnected_ \in BOOLEAN
  /\ statement.argsCount_ \in 0 .. ArgsWrap - 1
  /\ DOMAIN statement.args_ \subseteq 0 .. statement.argsCount_
  /\ life \in {"alive", "gone", "freed twice", "no handle"}

(* An object that takes itself for connected, and so escapes strings with  *)
(* its handle, has one that is open: whatever connecting, failing to and   *)
(* disconnecting came before.                                              *)
ConnectedIsOpen == isConnected_ => mysql_ # 0 /\ handle[mysql_] = "open"

(* Each handle is closed once.  It would be if disconnect() left nothing   *)
(* for connecting or the destructor to close again; as it keeps the handle *)
(* SupportProofs has it only where none but those two call disconnect().   *)
FreedOnce == life # "freed twice"

(* A handle that is open is the one in use: reconnecting and destroying    *)
(* the object leak none.                                                   *)
HandleOwned == \A h \in DOMAIN handle : handle[h] = "open" => h = mysql_

(* Every mark of a statement is replaced by its argument, all at once. *)
Substituted ==
  FlattenSeq([k \in DOMAIN statement.sql_ |->
    IF statement.sql_[k] = "?" THEN Arg(Marks(SubSeq(statement.sql_, 1, k)) - 1)
    ELSE <<statement.sql_[k]>>])

(* makeSql replaces every mark by its argument, also when an argument is   *)
(* empty or was never set, provided no argument but the last has a mark in *)
(* it, which it would take for the next one, and argsCount_ did not wrap.  *)
SqlExact ==
  /\ Marks(statement.sql_) < ArgsWrap
  /\ \A i \in 0 .. statement.argsCount_ - 2 : Marks(Arg(i)) = 0
  => makeSql = Substituted

(* The rows of the last query are read as they came, whatever the queries  *)
(* before it left in the object; and there are no more of them unless a    *)
(* query before it had more.                                               *)
RowsCurrent ==
  /\ \A row \in 0 .. result.rows - 1, field \in 0 .. result.fields - 1 :
       getFieldValue(row, field) = result.query
  /\ result.query = 1 => DOMAIN statement.rowValue_ = 0 .. result.rows - 1

=============================================================================
