---------------------------- MODULE SupportProofs ----------------------------
(***************************************************************************)
(* Proofs about Support: the MySQL client, the timers and the memory of    *)
(* the stacks, each by an invariant of its own part.                       *)
(***************************************************************************)
EXTENDS Support, SequenceLemmas, FiniteSetTheorems

-----------------------------------------------------------------------------
(* The MySQL client. *)

(* The rows are numbered without a gap, the last result's first. *)
RowsNumbered ==
  /\ result.rows \in Nat /\ result.fields \in Nat /\ result.query \in Nat
  /\ statement.fieldNum \in Nat /\ result.fields <= statement.fieldNum
  /\ \E k \in Nat : DOMAIN statement.rowValue_ = 0 .. k - 1 /\ result.rows <= k
  /\ \A r \in 0 .. result.rows - 1 : statement.rowValue_[r] = result.query
  /\ result.query = 0 => DOMAIN statement.rowValue_ = {}
  /\ result.query = 1 => DOMAIN statement.rowValue_ = 0 .. result.rows - 1

(* Text is text, and the marks are counted as far as they can be.          *)
Worded ==
  /\ statement.sql_ \in Seq(Chars)
  /\ statement.argsCount_ = Marks(statement.sql_) % ArgsWrap
  /\ \A i \in DOMAIN statement.args_ : statement.args_[i] \in Seq(Chars)

Fields(s) == s = [sql_ |-> s.sql_, argsCount_ |-> s.argsCount_, args_ |-> s.args_,
                  fieldNum |-> s.fieldNum, rowValue_ |-> s.rowValue_]

MysqlInv == /\ MysqlTypeOK /\ Fields(statement)
            /\ ConnectedIsOpen /\ HandleOwned /\ RowsNumbered /\ Worded

(* A text of which no mark is counted has none. *)
LEMMA MarksNone ==
  ASSUME NEW u \in Seq(Chars)
  PROVE  Marks(u) \in Nat /\ (Marks(u) = 0 => \A k \in 1 .. Len(u) : u[k] # "?")
<1>1. Len(u) \in Nat /\ DOMAIN u = 1 .. Len(u)
  BY LenProperties
<1>2. IsFiniteSet({k \in DOMAIN u : u[k] = "?"})
  <2>1. IsFiniteSet(1 .. Len(u))
    BY <1>1, FS_Interval
  <2> QED
    BY <1>1, <2>1, FS_Subset
<1>3. Marks(u) = 0 => {k \in DOMAIN u : u[k] = "?"} = {}
  BY <1>2, FS_EmptySet DEF Marks
<1>4. Marks(u) \in Nat
  BY <1>2, FS_CardinalityType DEF Marks
<1> QED
  BY <1>1, <1>3, <1>4

(* The statements have less than ArgsWrap arguments, as they are counted. *)
LEMMA ArgsCounted ==
  ASSUME NEW sql \in Seq(Chars)
  PROVE  Made(sql).argsCount_ \in 0 .. ArgsWrap - 1
<1>1. Marks(sql) \in Nat
  BY MarksNone
<1> QED
  BY <1>1, MysqlAssumption DEF Made

(* An object begins without handle, and without rows. *)
LEMMA MysqlStarts ==
  ASSUME MysqlInit
  PROVE  MysqlInv
<1>1. /\ handle = <<>> /\ mysql_ = 0 /\ isConnected_ = FALSE /\ life = "alive"
      /\ statement = Made(<<>>) /\ result = NoResult
  BY DEF MysqlInit
<1>2. statement.argsCount_ \in 0 .. ArgsWrap - 1
  <2>1. <<>> \in Seq(Chars)
    OBVIOUS
  <2> QED
    BY <1>1, <2>1, ArgsCounted
<1>3. handle \in Seq({"open", "closed"}) /\ Len(handle) = 0 /\ DOMAIN handle = {}
  BY <1>1
<1>4. MysqlTypeOK
  <2>1. DOMAIN statement.args_ = {}
    BY <1>1 DEF Made
  <2>2. mysql_ \in 0 .. Len(handle)
    BY <1>1, <1>3
  <2>3. isConnected_ \in BOOLEAN /\ life \in {"alive", "gone", "freed twice", "no handle"}
    BY <1>1
  <2>4. DOMAIN statement.args_ \subseteq 0 .. statement.argsCount_
    BY <2>1
  <2> QED
    BY <1>2, <1>3, <2>2, <2>3, <2>4 DEF MysqlTypeOK
<1>5. RowsNumbered
  BY <1>1 DEF RowsNumbered, Made, NoResult
<1>6. Fields(statement)
  BY <1>1 DEF Fields, Made
<1>7. Worded
  <2>1. /\ statement.sql_ = <<>> /\ statement.argsCount_ = Marks(<<>>) % ArgsWrap
        /\ DOMAIN statement.args_ = {}
    BY <1>1 DEF Made
  <2>2. <<>> \in Seq(Chars)
    OBVIOUS
  <2> QED
    BY <2>1, <2>2 DEF Worded
<1> QED
  BY <1>1, <1>3, <1>4, <1>5, <1>6, <1>7 DEF MysqlInv, ConnectedIsOpen, HandleOwned

(* A setter changes one argument, of an index the test lets pass. *)
LEMMA SetKeeps ==
  ASSUME MysqlInv, NEW idx \in 0 .. statement.argsCount_ + 1, NEW value \in Seq(Chars),
         Set(idx, value)
  PROVE  MysqlInv'
<1> DEFINE args == [i \in DOMAIN statement.args_ \cup {idx} |->
                      IF i = idx THEN value ELSE statement.args_[i]]
<1>1. /\ MysqlTypeOK /\ Fields(statement) /\ RowsNumbered
      /\ idx <= statement.argsCount_ /\ statement' = [statement EXCEPT !.args_ = args]
      /\ UNCHANGED <<handle, mysql_, isConnected_, result, life>>
  BY DEF MysqlInv, Set, CanSet
<1>2. /\ DOMAIN args = DOMAIN statement.args_ \cup {idx}
      /\ \A i \in DOMAIN args : args[i] \in Seq(Chars)
  BY DEF MysqlInv, Worded
<1> HIDE DEF args
<1>3. /\ statement'.argsCount_ = statement.argsCount_ /\ statement'.args_ = args
      /\ statement'.fieldNum = statement.fieldNum /\ statement'.rowValue_ = statement.rowValue_
      /\ Fields(statement)' /\ statement'.sql_ = statement.sql_
  BY <1>1 DEF Fields
<1>4. MysqlTypeOK'
  <2>1. handle' \in Seq({"open", "closed"}) /\ mysql_' \in 0 .. Len(handle')
    BY <1>1 DEF MysqlTypeOK
  <2>2. isConnected_' \in BOOLEAN
    BY <1>1 DEF MysqlTypeOK
  <2>3. life' \in {"alive", "gone", "freed twice", "no handle"}
    BY <1>1 DEF MysqlTypeOK
  <2>4. statement'.argsCount_ \in 0 .. ArgsWrap - 1
    BY <1>1, <1>3 DEF MysqlTypeOK
  <2>5. DOMAIN statement'.args_ \subseteq 0 .. statement'.argsCount_
    <3>1. /\ statement.argsCount_ \in 0 .. ArgsWrap - 1
          /\ DOMAIN statement.args_ \subseteq 0 .. statement.argsCount_
      BY <1>1 DEF MysqlTypeOK
    <3>2. statement.argsCount_ \in Nat
      BY <3>1, MysqlAssumption
    <3>3. idx \in 0 .. statement.argsCount_
      BY <1>1, <3>2
    <3> QED
      BY <1>2, <1>3, <3>1, <3>3
  <2> QED
    BY <2>1, <2>2, <2>3, <2>4, <2>5 DEF MysqlTypeOK
<1>5. RowsNumbered'
  BY <1>1, <1>3 DEF RowsNumbered
<1>6. Worded'
  BY <1>2, <1>3 DEF MysqlInv, Worded
<1> QED
  BY <1>1, <1>3, <1>4, <1>5, <1>6 DEF MysqlInv, ConnectedIsOpen, HandleOwned

(* Two ranges that begin together make one, the longer of them. *)
LEMMA RangesJoin ==
  ASSUME NEW k \in Nat, NEW n \in Nat
  PROVE  \E m \in Nat : (0 .. k - 1) \cup (0 .. n - 1) = 0 .. m - 1 /\ k <= m /\ n <= m
<1>1. CASE k <= n
  <2>1. (0 .. k - 1) \cup (0 .. n - 1) = 0 .. n - 1
    BY <1>1
  <2> QED
    BY <1>1, <2>1
<1>2. CASE ~ (k <= n)
  <2>1. (0 .. k - 1) \cup (0 .. n - 1) = 0 .. k - 1
    BY <1>2
  <2>2. n <= k /\ k <= k
    BY <1>2
  <2> QED
    BY <2>1, <2>2
<1> QED
  BY <1>1, <1>2

(* A query's rows go over those there are. *)
LEMMA QueryKeeps ==
  ASSUME MysqlInv, life = "alive", DoQuery
  PROVE  MysqlInv'
<1>1. /\ MysqlTypeOK /\ Fields(statement) /\ RowsNumbered
      /\ UNCHANGED <<handle, mysql_, isConnected_>>
  BY DEF MysqlInv, DoQuery
<1>2. CASE life' = "no handle" /\ UNCHANGED <<statement, result>>
  BY <1>1, <1>2 DEF MysqlInv, MysqlTypeOK, ConnectedIsOpen, HandleOwned, RowsNumbered,
                    Fields, Worded
<1>3. ASSUME NEW rows \in 0 .. MaxRows, NEW fields \in 1 .. MaxFields,
             result' = [rows |-> rows, fields |-> fields, query |-> result.query + 1],
             statement' = [statement EXCEPT
               !.rowValue_ = Rows(@, rows, result'.query),
               !.fieldNum = IF @ < fields THEN fields ELSE @],
             UNCHANGED life
      PROVE  MysqlInv'
  <2> DEFINE old == statement.rowValue_
             q == result.query + 1
             new == Rows(old, rows, q)
             num == IF statement.fieldNum < fields THEN fields ELSE statement.fieldNum
  <2>1. rows \in Nat /\ fields \in Nat /\ q \in Nat /\ q # 0
    BY <1>1, MysqlAssumption DEF RowsNumbered
  <2>2. PICK k \in Nat : DOMAIN old = 0 .. k - 1 /\ result.rows <= k
    BY <1>1 DEF RowsNumbered
  <2>3. /\ DOMAIN new = DOMAIN old \cup 0 .. rows - 1
        /\ \A r \in 0 .. rows - 1 : new[r] = q
    BY <2>1 DEF Rows
  <2>4. PICK m \in Nat : DOMAIN new = 0 .. m - 1 /\ rows <= m
    <3> HIDE DEF new, old
    <3>1. PICK m \in Nat : (0 .. k - 1) \cup (0 .. rows - 1) = 0 .. m - 1 /\ k <= m /\ rows <= m
      BY <2>1, RangesJoin
    <3> QED
      BY <2>2, <2>3, <3>1
  <2>5. num \in Nat /\ fields <= num
    BY <1>1, <2>1 DEF RowsNumbered
  <2>6. q = 1 => DOMAIN new = 0 .. rows - 1
    <3>1. ASSUME q = 1
          PROVE  DOMAIN old = {}
      <4>1. result.query \in Nat /\ (result.query = 0 => DOMAIN statement.rowValue_ = {})
        BY <1>1 DEF RowsNumbered
      <4>2. result.query = 0
        BY <3>1, <4>1
      <4> QED
        BY <4>1, <4>2
    <3> HIDE DEF new, old, q
    <3> QED
      BY <2>3, <3>1
  <2>7. /\ statement'.argsCount_ = statement.argsCount_ /\ statement'.args_ = statement.args_
        /\ statement'.fieldNum = num /\ statement'.rowValue_ = new /\ Fields(statement)'
        /\ statement'.sql_ = statement.sql_
    <3>1. result'.query = q
      BY <1>3
    <3>2. statement' = [statement EXCEPT !.rowValue_ = new, !.fieldNum = num]
      BY <1>3, <3>1
    <3> HIDE DEF new, num
    <3> QED
      BY <1>1, <3>2 DEF Fields
  <2>8. result'.rows = rows /\ result'.fields = fields /\ result'.query = q
    BY <1>3
  <2> HIDE DEF new, num, q
  <2>9. RowsNumbered'
    BY <2>1, <2>3, <2>4, <2>5, <2>6, <2>7, <2>8 DEF RowsNumbered
  <2>10. MysqlTypeOK'
    BY <1>1, <1>3, <2>7 DEF MysqlTypeOK
  <2>11. Worded'
    BY <2>7 DEF MysqlInv, Worded
  <2> QED
    BY <1>1, <1>3, <2>7, <2>9, <2>10, <2>11 DEF MysqlInv, ConnectedIsOpen, HandleOwned
<1> QED
  BY <1>2, <1>3 DEF DoQuery

(* The next statement begins without arguments and rows. *)
LEMMA NewKeeps ==
  ASSUME MysqlInv, NewStatement
  PROVE  MysqlInv'
<1>1. PICK sql \in Sqls : statement' = Made(sql)
  BY DEF NewStatement
<1>2. MysqlTypeOK /\ result' = NoResult /\ UNCHANGED <<handle, mysql_, isConnected_, life>>
  BY DEF MysqlInv, NewStatement
<1>3. statement'.argsCount_ \in 0 .. ArgsWrap - 1
  BY <1>1, ArgsCounted, MysqlAssumption
<1>4. /\ DOMAIN statement'.args_ = {} /\ statement'.fieldNum = 0
      /\ DOMAIN statement'.rowValue_ = {} /\ Fields(statement)'
  BY <1>1 DEF Made, Fields
<1>5. MysqlTypeOK'
  BY <1>2, <1>3, <1>4 DEF MysqlTypeOK
<1>6. RowsNumbered'
  BY <1>2, <1>4 DEF RowsNumbered, NoResult
<1>7. Worded'
  <2>1. statement'.sql_ = sql /\ statement'.argsCount_ = Marks(sql) % ArgsWrap
    BY <1>1 DEF Made
  <2>2. sql \in Seq(Chars)
    BY MysqlAssumption
  <2> QED
    BY <1>4, <2>1, <2>2 DEF Worded
<1> QED
  BY <1>2, <1>4, <1>5, <1>6, <1>7 DEF MysqlInv, ConnectedIsOpen, HandleOwned

(* Connecting and destroying close the handle in use, disconnecting too,   *)
(* but then it stays in use. *)
LEMMA HandlesKeep ==
  ASSUME MysqlInv, Connect \/ Disconnect \/ Destruct
  PROVE  MysqlInv'
<1>1. /\ MysqlTypeOK /\ HandleOwned /\ UNCHANGED <<statement, result>>
      /\ handle \in Seq({"open", "closed"}) /\ Len(handle) \in Nat /\ DOMAIN handle = 1 .. Len(handle)
  <2>1. MysqlTypeOK /\ HandleOwned
    BY DEF MysqlInv
  <2>2. UNCHANGED <<statement, result>>
    BY DEF Connect, Disconnect, Destruct
  <2>3. handle \in Seq({"open", "closed"})
    BY <2>1 DEF MysqlTypeOK
  <2> QED
    BY <2>1, <2>2, <2>3, LenProperties
<1>2. Fields(statement)' /\ RowsNumbered' /\ Worded'
  BY <1>1 DEF MysqlInv, Fields, RowsNumbered, Worded
<1> DEFINE Typed == handle' \in Seq({"open", "closed"}) /\ mysql_' \in 0 .. Len(handle')
<1>3. /\ statement'.argsCount_ \in 0 .. ArgsWrap - 1
      /\ DOMAIN statement'.args_ \subseteq 0 .. statement'.argsCount_
  BY <1>1 DEF MysqlTypeOK
<1>4. ASSUME Typed, isConnected_' \in BOOLEAN,
             life' \in {"alive", "gone", "freed twice", "no handle"}
      PROVE  MysqlTypeOK'
  BY <1>3, <1>4 DEF MysqlTypeOK
<1>5. /\ isConnected_ \in BOOLEAN /\ mysql_ \in 0 .. Len(handle)
       /\ life \in {"alive", "gone", "freed twice", "no handle"}
  BY <1>1 DEF MysqlTypeOK
<1>6. CASE FreeTwice
  <2>1. UNCHANGED <<handle, mysql_, isConnected_>> /\ life' = "freed twice"
    BY <1>6 DEF FreeTwice
  <2>2. Typed
    BY <1>1, <1>5, <2>1
  <2>3. MysqlTypeOK'
    BY <1>4, <1>5, <2>1, <2>2
  <2>4. HandleOwned' /\ ConnectedIsOpen'
    BY <2>1 DEF MysqlInv, HandleOwned, ConnectedIsOpen
  <2> QED
    BY <1>2, <2>3, <2>4 DEF MysqlInv
<1>7. /\ Disconnected \in Seq({"open", "closed"}) /\ Len(Disconnected) = Len(handle)
        /\ \A h \in 1 .. Len(handle) : Disconnected[h] = "closed"
  <2>1. /\ mysql_ \in 0 .. Len(handle)
        /\ \A h \in 1 .. Len(handle) : handle[h] \in {"open", "closed"} /\ (handle[h] = "open" => h = mysql_)
    <3>1. handle \in [1 .. Len(handle) -> {"open", "closed"}]
      BY <1>1, LenProperties
    <3> QED
      BY <1>1, <1>5, <3>1 DEF HandleOwned
  <2>2. CASE mysql_ = 0
    BY <1>1, <2>1, <2>2 DEF Disconnected
  <2>3. CASE mysql_ # 0
    <3>1. Disconnected = [handle EXCEPT ![mysql_] = "closed"] /\ mysql_ \in 1 .. Len(handle)
      BY <1>1, <2>1, <2>3 DEF Disconnected
    <3>2. \A h \in 1 .. Len(handle) : Disconnected[h] = "closed"
      BY <1>1, <2>1, <3>1
    <3> QED
      BY <1>1, <3>1, <3>2
  <2> QED
    BY <2>2, <2>3
<1>8. CASE Disconnect /\ ~ ClosedTwice
  <2>1. /\ handle' = Disconnected /\ isConnected_' = FALSE
        /\ UNCHANGED <<mysql_, life>>
    BY <1>8 DEF Disconnect, FreeTwice
  <2>2. DOMAIN handle' = 1 .. Len(handle)
    BY <1>7, <2>1
  <2>3. MysqlTypeOK'
    <3>1. Typed
      BY <1>7, <1>5, <2>1
    <3> QED
      BY <1>4, <1>5, <2>1, <3>1
  <2>4. HandleOwned'
    BY <1>7, <2>1, <2>2 DEF HandleOwned
  <2>5. ConnectedIsOpen'
    BY <2>1 DEF ConnectedIsOpen
  <2> QED
    BY <1>2, <2>3, <2>4, <2>5 DEF MysqlInv
<1>9. CASE Destruct /\ ~ ClosedTwice
  <2>1. /\ handle' = Disconnected /\ isConnected_' = FALSE /\ life' = "gone"
        /\ UNCHANGED mysql_
    BY <1>9 DEF Destruct, FreeTwice
  <2>2. DOMAIN handle' = 1 .. Len(handle)
    BY <1>7, <2>1
  <2>3. MysqlTypeOK'
    <3>1. Typed
      BY <1>7, <1>5, <2>1
    <3> QED
      BY <1>4, <2>1, <3>1
  <2>4. HandleOwned'
    BY <1>7, <2>1, <2>2 DEF HandleOwned
  <2>5. ConnectedIsOpen'
    BY <2>1 DEF ConnectedIsOpen
  <2> QED
    BY <1>2, <2>3, <2>4, <2>5 DEF MysqlInv
<1>10. CASE Connect /\ ~ ClosedTwice
  <2>1. /\ handle' = Append(Disconnected, "open") /\ isConnected_' \in BOOLEAN
        /\ mysql_' = Len(handle) + 1 /\ UNCHANGED life
    BY <1>10 DEF Connect, Opened, FreeTwice
  <2>2. /\ handle' \in Seq({"open", "closed"}) /\ Len(handle') = Len(handle) + 1
        /\ \A h \in 1 .. Len(handle) : handle'[h] = "closed"
        /\ handle'[Len(handle) + 1] = "open" /\ DOMAIN handle' = 1 .. Len(handle) + 1
    BY <1>1, <1>7, <2>1, AppendProperties
  <2>3. Typed
    BY <1>1, <2>1, <2>2
  <2>4. MysqlTypeOK'
    BY <1>4, <1>5, <2>1, <2>3
  <2>5. HandleOwned'
    BY <1>1, <2>1, <2>2 DEF HandleOwned
  <2>6. ConnectedIsOpen'
    BY <1>1, <2>1, <2>2 DEF ConnectedIsOpen
  <2> QED
    BY <1>2, <2>4, <2>5, <2>6 DEF MysqlInv
<1> QED
  BY <1>6, <1>8, <1>9, <1>10 DEF Connect, Disconnect, Destruct

(* What escapeString makes of a text, between quotation marks, is one.     *)
LEMMA EscapedText ==
  ASSUME NEW value \in Strings
  PROVE  <<Quote>> \o Escaped(value) \o <<Quote>> \in Seq(Chars)
<1> DEFINE seqs == [k \in DOMAIN value |->
                      IF value[k] = Quote THEN <<Backslash, Quote>> ELSE <<value[k]>>]
<1>1. value \in Seq(Chars)
  BY MysqlAssumption
<1>2. PICK l \in Nat : l = Len(value) /\ DOMAIN value = 1 .. l
  BY <1>1, LenProperties
<1>3. ASSUME NEW k \in 1 .. l
      PROVE  (IF value[k] = Quote THEN <<Backslash, Quote>> ELSE <<value[k]>>) \in Seq(Chars)
  <2>1. value[k] \in Chars
    BY <1>1, <1>2, ElementOfSeq
  <2>2. <<Backslash, Quote>> \in Seq(Chars)
    BY CharsAssumption
  <2> QED
    BY <2>1, <2>2
<1>4. seqs \in Seq(Seq(Chars))
  <2>1. seqs \in [1 .. l -> Seq(Chars)]
    BY <1>2, <1>3
  <2> QED
    BY <2>1, Listed
<1>5. Escaped(value) \in Seq(Chars)
  <2>1. FlattenSeq(seqs) \in Seq(Chars)
    BY <1>4, FlattenTyped
  <2>2. <<>> \in Seq(Chars)
    OBVIOUS
  <2> QED
    BY <2>1, <2>2 DEF Escaped
<1>6. <<Quote>> \in Seq(Chars)
  BY CharsAssumption
<1>7. <<Quote>> \o Escaped(value) \in Seq(Chars)
  BY <1>5, <1>6, ConcatProperties
<1> QED
  BY <1>6, <1>7, ConcatProperties

(* Every step of the client keeps its invariant. *)
LEMMA MysqlKeeps ==
  ASSUME MysqlInv, MysqlNext
  PROVE  MysqlInv'
<1>1. CASE MysqlDo
  <2>1. CASE \E idx \in 0 .. statement.argsCount_ + 1 :
               (\E value \in Strings : SetString(idx, value)) \/ SetNumber(idx) \/ SetNull(idx)
    <3>1. PICK idx \in 0 .. statement.argsCount_ + 1 :
            (\E value \in Strings : SetString(idx, value)) \/ SetNumber(idx) \/ SetNull(idx)
      BY <2>1
    <3>2. PICK value \in Seq(Chars) : Set(idx, value)
      <4>1. ASSUME NEW value \in Strings, SetString(idx, value)
            PROVE  \E text \in Seq(Chars) : Set(idx, text)
        <5>1. <<Quote>> \o Escaped(value) \o <<Quote>> \in Seq(Chars)
          BY EscapedText
        <5> QED
          BY <4>1, <5>1 DEF SetString
      <4>2. Number \in Seq(Chars) /\ Null \in Seq(Chars)
        BY CharsAssumption DEF Number, Null
      <4> QED
        BY <3>1, <4>1, <4>2 DEF SetNumber, SetNull
    <3> QED
      BY <3>2, SetKeeps
  <2>2. CASE DoQuery
    BY <2>2, QueryKeeps DEF MysqlNext
  <2>3. CASE DoInsert
    BY <2>3 DEF DoInsert, MysqlInv, MysqlTypeOK, ConnectedIsOpen, HandleOwned,
                RowsNumbered, Fields, Worded
  <2>4. CASE NewStatement
    BY <2>4, NewKeeps
  <2> QED
    BY <1>1, <2>1, <2>2, <2>3, <2>4 DEF MysqlDo
<1>2. CASE Connect \/ Disconnect \/ Destruct
  BY <1>2, HandlesKeep
<1> QED
  BY <1>1, <1>2 DEF MysqlNext

(* What is numbered without a gap is read as it came. *)
LEMMA RowsRead ==
  ASSUME RowsNumbered
  PROVE  RowsCurrent
<1>1. PICK k \in Nat : DOMAIN statement.rowValue_ = 0 .. k - 1 /\ result.rows <= k
  BY DEF RowsNumbered
<1>2. Cardinality(DOMAIN statement.rowValue_) = k
  BY <1>1, FS_Interval
<1>3. ASSUME NEW row \in 0 .. result.rows - 1, NEW field \in 0 .. result.fields - 1
      PROVE  getFieldValue(row, field) = result.query
  <2>1. row < k /\ field < statement.fieldNum /\ statement.rowValue_[row] = result.query
    BY <1>1 DEF RowsNumbered
  <2> QED
    BY <1>2, <2>1 DEF getFieldValue
<1> QED
  BY <1>3 DEF RowsCurrent, RowsNumbered

-----------------------------------------------------------------------------
(* What makeSql makes of a statement s with arguments a: c counts the      *)
(* marks up to each place, and w is the text before it with all of them    *)
(* replaced. *)

Counts(c, s) ==
  /\ c \in [0 .. Len(s) -> Nat] /\ c[0] = 0
  /\ \A k \in 1 .. Len(s) : c[k] = c[k - 1] + (IF s[k] = "?" THEN 1 ELSE 0)

Total(c, s, n) == c[Len(s)] = n

Arguments(a) == a \in [Nat -> Seq(Chars)]

Writes(w, s, c, a) ==
  /\ w \in [0 .. Len(s) -> Seq(Chars)] /\ w[0] = <<>>
  /\ \A k \in 1 .. Len(s) : w[k] = w[k - 1] \o (IF s[k] = "?" THEN a[c[k] - 1] ELSE <<s[k]>>)

(* sql has the first q characters of s replaced, and the others as they    *)
(* are. *)
Halfway(sql, w, s, q) ==
  /\ sql \in Seq(Chars) /\ Len(sql) = Len(w[q]) + Len(s) - q
  /\ \A k \in 1 .. Len(w[q]) : sql[k] = w[q][k]
  /\ \A k \in 1 .. Len(s) - q : sql[Len(w[q]) + k] = s[q + k]

(* After i of n rounds, the first i marks are replaced, the last of them   *)
(* at f, and no argument has put a mark behind it but the last. *)
After(sql, f, i, n, w, s, c, q) ==
  /\ q \in 0 .. Len(s) /\ c[q] = i
  /\ Halfway(sql, w, s, q)
  /\ f \in 1 .. Len(w[q]) + 1
  /\ i < n => \A k \in f .. Len(w[q]) : w[q][k] # "?"

(* Of n arguments only the last has a mark in it, if any. *)
Plain(a, n) == \A i \in 0 .. n - 2 : \A k \in 1 .. Len(a[i]) : a[i][k] # "?"

(* A character that is no mark stays. *)
LEMMA Slides ==
  ASSUME NEW s \in Seq(Chars), NEW c, NEW w, NEW a, Arguments(a),
         Counts(c, s), Writes(w, s, c, a),
         NEW sql, NEW f, NEW i, NEW n \in Nat, NEW q, After(sql, f, i, n, w, s, c, q),
         q < Len(s), s[q + 1] # "?"
  PROVE  After(sql, f, i, n, w, s, c, q + 1)
<1>1. PICK l \in Nat : l = Len(s)
  BY LenProperties
<1>2. q \in 0 .. l /\ q \in Nat /\ q + 1 \in 1 .. l /\ q + 1 \in 0 .. l /\ c[q] = i
  <2>1. q \in 0 .. l /\ c[q] = i /\ q < l
    BY <1>1 DEF After
  <2> QED
    BY <2>1
<1>3. PICK p \in Nat : p = q + 1 /\ p - 1 = q
  BY <1>2
<1>4. c[p] = c[q] + 0 /\ c[q] \in Nat /\ s[p] \in Chars /\ w[p] = w[q] \o <<s[p]>>
  BY <1>1, <1>2, <1>3, ElementOfSeq DEF Counts, Writes
<1>5. PICK x \in Seq(Chars), y \in Seq(Chars), e \in Chars : x = w[q] /\ y = w[p] /\ e = s[p]
  BY <1>1, <1>2, <1>3, <1>4 DEF Writes
<1>6. PICK m \in Nat : m = Len(x)
  BY LenProperties
<1>7. y = Append(x, e) /\ Len(y) = m + 1 /\ y[m + 1] = e /\ \A k \in 1 .. m : y[k] = x[k]
  <2>1. x \o <<e>> = Append(x, e)
    BY AppendIsConcat
  <2>2. Len(Append(x, e)) = Len(x) + 1 /\ Append(x, e)[Len(x) + 1] = e
        /\ \A k \in 1 .. Len(x) : Append(x, e)[k] = x[k]
    BY AppendProperties
  <2> QED
    BY <1>4, <1>5, <1>6, <2>1, <2>2
<1>8. /\ sql \in Seq(Chars) /\ Len(sql) = m + l - q
      /\ \A k \in 1 .. m : sql[k] = x[k]
      /\ \A k \in 1 .. l - q : sql[m + k] = s[q + k]
      /\ f \in 1 .. m + 1 /\ (i < n => \A k \in f .. m : x[k] # "?")
  BY <1>1, <1>5, <1>6 DEF After, Halfway
<1>9. sql[m + 1] = e
  <2>1. 1 \in 1 .. l - q
    BY <1>2
  <2>2. sql[m + 1] = s[q + 1]
    BY <1>8, <2>1
  <2> QED
    BY <1>3, <1>5, <2>2
<1>10. \A k \in 1 .. m + 1 : sql[k] = y[k]
  <2> TAKE k \in 1 .. m + 1
  <2>1. CASE k = m + 1
    BY <1>7, <1>9, <2>1
  <2>2. CASE k # m + 1
    <3>1. k \in 1 .. m
      BY <2>2
    <3> QED
      BY <1>7, <1>8, <3>1
  <2> QED
    BY <2>1, <2>2
<1>11. \A k \in 1 .. l - p : sql[m + 1 + k] = s[p + k]
  <2> TAKE k \in 1 .. l - p
  <2>1. k + 1 \in 1 .. l - q /\ m + (k + 1) = m + 1 + k /\ q + (k + 1) = p + k
    BY <1>1, <1>2, <1>3, <1>6
  <2> QED
    BY <1>8, <2>1
<1>12. Len(sql) = m + 1 + l - p /\ f \in 1 .. m + 2
  BY <1>1, <1>2, <1>3, <1>6, <1>8
<1>13. i < n => \A k \in f .. m + 1 : y[k] # "?"
  <2>1. e # "?"
    BY <1>3, <1>5
  <2> SUFFICES ASSUME i < n, NEW k \in f .. m + 1 PROVE y[k] # "?"
    OBVIOUS
  <2>2. f \in Nat /\ k \in Nat /\ k >= 1 /\ k >= f
    BY <1>8
  <2>3. CASE k = m + 1
    BY <1>7, <2>1, <2>3
  <2>4. CASE k # m + 1
    <3>1. k \in 1 .. m /\ k \in f .. m
      BY <2>2, <2>4
    <3> QED
      BY <1>7, <1>8, <3>1
  <2> QED
    BY <2>3, <2>4
<1>14. Halfway(sql, w, s, p)
  BY <1>1, <1>5, <1>7, <1>8, <1>10, <1>11, <1>12 DEF Halfway
<1>15. Len(w[p]) + 1 = m + 2 /\ Len(w[p]) = m + 1
  BY <1>5, <1>6, <1>7
<1>16. c[p] = i
  BY <1>2, <1>4
<1> QED
  BY <1>1, <1>2, <1>3, <1>5, <1>12, <1>13, <1>14, <1>15, <1>16 DEF After
(* And so do all up to the next mark. *)
LEMMA SlidesFar ==
  ASSUME NEW s \in Seq(Chars), NEW c, NEW w, NEW a, Arguments(a),
         Counts(c, s), Writes(w, s, c, a),
         NEW sql, NEW f, NEW i, NEW n \in Nat, NEW q, After(sql, f, i, n, w, s, c, q),
         NEW r \in q .. Len(s), \A k \in q + 1 .. r : s[k] # "?"
  PROVE  After(sql, f, i, n, w, s, c, r)
<1>1. PICK l \in Nat : l = Len(s)
  BY LenProperties
<1>2. q \in 0 .. l /\ q \in Nat /\ r \in Nat /\ q <= r /\ r <= l
  <2>1. q \in 0 .. l
    BY <1>1 DEF After
  <2> QED
    BY <1>1, <2>1
<1> DEFINE T == {k \in q .. r : ~ After(sql, f, i, n, w, s, c, k)}
<1>3. ASSUME T # {}
      PROVE  FALSE
  <2>1. T \subseteq Nat
    BY <1>2
  <2>2. PICK k \in T : \A j \in T : k <= j
    BY <1>3, <2>1, Least
  <2>3. k \in q .. r /\ k # q
    BY <2>2
  <2>4. PICK j \in Nat : j = k - 1
    BY <1>2, <2>3
  <2>5. j \in q .. r /\ j + 1 = k /\ j < l /\ j + 1 \in q + 1 .. r /\ ~ (k <= j)
    BY <1>2, <2>3, <2>4
  <2>6. After(sql, f, i, n, w, s, c, j)
    BY <2>2, <2>5
  <2>7. After(sql, f, i, n, w, s, c, j + 1)
    BY <1>1, <2>5, <2>6, Slides
  <2> QED
    BY <2>2, <2>5, <2>7
<1>4. r \in q .. r
  BY <1>2
<1> QED
  BY <1>3, <1>4

(* Found finds the first mark. *)
LEMMA FoundIs ==
  ASSUME NEW sql \in Seq(Chars), NEW f \in Nat, NEW p \in f .. Len(sql),
         sql[p] = "?", \A k \in f .. p - 1 : sql[k] # "?"
  PROVE  Found(sql, f) = p
<1>1. PICK l \in Nat : l = Len(sql)
  BY LenProperties
<1> DEFINE S == {k \in f .. l : sql[k] = "?"} \cup {l + 1}
<1>2. p \in S /\ p \in Nat /\ f <= p /\ p <= l
  BY <1>1
<1>3. \A k \in f .. l : sql[k] = "?" => p <= k
  <2> SUFFICES ASSUME NEW k \in f .. l, sql[k] = "?", ~ (p <= k) PROVE FALSE
    OBVIOUS
  <2>1. k \in f .. p - 1
    BY <1>2
  <2> QED
    BY <2>1
<1>4. ASSUME NEW x \in S, \A k \in f .. l : sql[k] = "?" => x <= k
      PROVE  x = p
  <2>1. x <= p
    BY <1>2, <1>4
  <2>2. x # l + 1
    BY <1>2, <2>1
  <2>3. x \in f .. l /\ sql[x] = "?"
    BY <1>4, <2>2
  <2> QED
    BY <1>2, <1>3, <2>1, <2>3
<1>5. Found(sql, f) = CHOOSE x \in S : \A k \in f .. l : sql[k] = "?" => x <= k
  BY <1>1 DEF Found
<1> HIDE DEF S
<1> QED
  BY <1>2, <1>3, <1>4, <1>5

(* Replaced puts the argument in the place of the mark. *)
LEMMA Replaces ==
  ASSUME NEW sql \in Seq(Chars), NEW arg \in Seq(Chars), NEW p \in 1 .. Len(sql)
  PROVE  /\ Replaced(sql, p, arg) \in Seq(Chars)
         /\ Len(Replaced(sql, p, arg)) = Len(sql) - 1 + Len(arg)
         /\ \A k \in 1 .. p - 1 : Replaced(sql, p, arg)[k] = sql[k]
         /\ \A k \in 1 .. Len(arg) : Replaced(sql, p, arg)[p - 1 + k] = arg[k]
         /\ \A k \in 1 .. Len(sql) - p :
              Replaced(sql, p, arg)[p - 1 + Len(arg) + k] = sql[p + k]
<1>1. PICK l \in Nat, m \in Nat : l = Len(sql) /\ m = Len(arg)
  BY LenProperties
<1>2. p \in Nat /\ 1 <= p /\ p <= l
  BY <1>1
<1>3. PICK x \in Seq(Chars), z \in Seq(Chars) : x = SubSeq(sql, 1, p - 1) /\ z = SubSeq(sql, p + 1, l)
  <2>1. SubSeq(sql, 1, p - 1) \in Seq(Chars)
    BY <1>1, <1>2, SubSeqProperties
  <2>2. SubSeq(sql, p + 1, l) \in Seq(Chars)
    BY <1>1, <1>2, SubSeqProperties
  <2> QED
    BY <2>1, <2>2
<1>4. Len(x) = p - 1 /\ \A k \in 1 .. p - 1 : x[k] = sql[k]
  BY <1>1, <1>2, <1>3, SubSeqProperties
<1>5. Len(z) = l - p /\ \A k \in 1 .. l - p : z[k] = sql[p + k]
  <2>1. Len(z) = l - p /\ \A k \in 1 .. l - p : z[k] = sql[p + 1 + k - 1]
    BY <1>1, <1>2, <1>3, SubSeqProperties
  <2>2. \A k \in 1 .. l - p : p + 1 + k - 1 = p + k
    BY <1>2
  <2> QED
    BY <2>1, <2>2
<1>6. PICK y \in Seq(Chars) : y = x \o arg
  BY ConcatProperties
<1>7. Len(y) = p - 1 + m /\ (\A k \in 1 .. p - 1 : y[k] = x[k]) /\ \A k \in 1 .. m : y[p - 1 + k] = arg[k]
  <2>1. Len(y) = Len(x) + Len(arg)
        /\ \A k \in 1 .. Len(x) + Len(arg) : y[k] = IF k <= Len(x) THEN x[k] ELSE arg[k - Len(x)]
    BY <1>6, ConcatProperties
  <2>2. \A k \in 1 .. p - 1 + m : y[k] = IF k <= p - 1 THEN x[k] ELSE arg[k - (p - 1)]
    BY <1>1, <1>4, <2>1
  <2>3. \A k \in 1 .. p - 1 : k \in 1 .. p - 1 + m
    BY <1>1, <1>2
  <2>4. \A k \in 1 .. m : p - 1 + k \in 1 .. p - 1 + m /\ ~ (p - 1 + k <= p - 1) /\ p - 1 + k - (p - 1) = k
    BY <1>1, <1>2
  <2>5. \A k \in 1 .. p - 1 : y[k] = x[k]
    <3> TAKE k \in 1 .. p - 1
    <3>1. k <= p - 1
      BY <1>2
    <3> QED
      BY <2>2, <2>3, <3>1
  <2>6. \A k \in 1 .. m : y[p - 1 + k] = arg[k]
    <3> TAKE k \in 1 .. m
    <3>1. y[p - 1 + k] = arg[p - 1 + k - (p - 1)]
      BY <2>2, <2>4
    <3> QED
      BY <2>4, <3>1
  <2>7. Len(y) = p - 1 + m
    BY <1>1, <1>4, <2>1
  <2> QED
    BY <2>5, <2>6, <2>7
<1>8. PICK v \in Seq(Chars) : v = y \o z
  BY ConcatProperties
<1>9. PICK d \in Nat : d = p - 1 + m
  <2>1. p - 1 + m \in Nat
    BY <1>2
  <2> QED
    BY <2>1
<1>10. Len(v) = d + (l - p) /\ (\A k \in 1 .. d : v[k] = y[k]) /\ \A k \in 1 .. l - p : v[d + k] = z[k]
  <2>1. Len(v) = Len(y) + Len(z)
        /\ \A k \in 1 .. Len(y) + Len(z) : v[k] = IF k <= Len(y) THEN y[k] ELSE z[k - Len(y)]
    BY <1>8, ConcatProperties
  <2>2. \A k \in 1 .. d + (l - p) : v[k] = IF k <= d THEN y[k] ELSE z[k - d]
    BY <1>5, <1>7, <1>9, <2>1
  <2>3. \A k \in 1 .. d : k \in 1 .. d + (l - p)
    BY <1>1, <1>2, <1>9
  <2>4. \A k \in 1 .. l - p : d + k \in 1 .. d + (l - p) /\ ~ (d + k <= d) /\ d + k - d = k
    BY <1>1, <1>2, <1>9
  <2> QED
    BY <1>5, <1>7, <1>9, <2>1, <2>2, <2>3, <2>4
<1>11. Replaced(sql, p, arg) = v
  BY <1>1, <1>3, <1>6, <1>8 DEF Replaced
<1>12. Len(v) = l - 1 + m
  BY <1>1, <1>2, <1>9, <1>10
<1>13. \A k \in 1 .. p - 1 : v[k] = sql[k]
  <2>1. \A k \in 1 .. p - 1 : k \in 1 .. d
    BY <1>1, <1>2, <1>9
  <2> QED
    BY <1>4, <1>7, <1>10, <2>1
<1>14. \A k \in 1 .. m : v[p - 1 + k] = arg[k]
  <2>1. \A k \in 1 .. m : p - 1 + k \in 1 .. d
    BY <1>1, <1>2, <1>9
  <2> QED
    BY <1>7, <1>10, <2>1
<1>15. \A k \in 1 .. l - p : v[p - 1 + m + k] = sql[p + k]
  BY <1>5, <1>9, <1>10
<1> QED
  BY <1>1, <1>8, <1>11, <1>12, <1>13, <1>14, <1>15
(* A round replaces the next mark. *)
LEMMA Round ==
  ASSUME NEW s \in Seq(Chars), NEW c, NEW w, NEW a, Arguments(a),
         Counts(c, s), Writes(w, s, c, a),
         NEW n \in Nat, Total(c, s, n), NEW i \in Nat, i < n,
         Plain(a, n),
         NEW sql, NEW f, NEW q, After(sql, f, i, n, w, s, c, q)
  PROVE  \E t : After(Replaced(sql, Found(sql, f), a[i]), Found(sql, f), i + 1, n, w, s, c, t)
<1>1. PICK l \in Nat : l = Len(s)
  BY LenProperties
<1>2. q \in Nat /\ q <= l /\ q \in 0 .. l
  <2>1. q \in 0 .. l
    BY <1>1 DEF After
  <2> QED
    BY <2>1
<1> DEFINE T == {k \in q + 1 .. l : s[k] = "?"}
<1>3. ASSUME \A k \in q + 1 .. l : s[k] # "?"
      PROVE  FALSE
  <2>1. l \in q .. l /\ \A k \in q + 1 .. l : s[k] # "?"
    BY <1>2, <1>3
  <2>2. After(sql, f, i, n, w, s, c, l)
    BY <1>1, <2>1, SlidesFar
  <2>3. c[l] = i
    BY <2>2 DEF After
  <2> QED
    BY <1>1, <2>3 DEF Total
<1>4. PICK t : t \in q + 1 .. l /\ s[t] = "?" /\ \A k \in q + 1 .. l : s[k] = "?" => t <= k
  <2>1. T \subseteq Nat /\ T # {}
    BY <1>2, <1>3
  <2>2. PICK t \in T : \A k \in T : t <= k
    BY <2>1, Least
  <2> QED
    BY <2>2
<1> HIDE DEF T
<1>5. PICK r \in Nat : r = t - 1 /\ r + 1 = t /\ r \in q .. l /\ r < l /\ r \in 0 .. l /\ t \in 1 .. l /\ t \in 0 .. l
  <2>1. t \in q + 1 .. l /\ t - 1 \in Nat
    BY <1>2, <1>4
  <2> QED
    BY <1>2, <2>1
<1>6. \A k \in q + 1 .. r : s[k] # "?"
  <2> SUFFICES ASSUME NEW k \in q + 1 .. r, s[k] = "?" PROVE FALSE
    OBVIOUS
  <2>1. k \in q + 1 .. l /\ ~ (t <= k)
    BY <1>2, <1>5
  <2> QED
    BY <1>4, <2>1
<1>7. After(sql, f, i, n, w, s, c, r)
  BY <1>1, <1>5, <1>6, SlidesFar
<1>8. s[t] = "?" /\ c[t] = i + 1 /\ w[t] = w[r] \o a[i]
  <2>1. s[t] = "?"
    BY <1>4
  <2>2. c[r] = i
    BY <1>7 DEF After
  <2>3. c[t] = i + 1
    BY <1>1, <1>5, <2>1, <2>2 DEF Counts
  <2>4. w[t] = w[r] \o a[c[t] - 1]
    BY <1>1, <1>5, <2>1 DEF Writes
  <2>5. c[t] - 1 = i
    BY <2>3
  <2> QED
    BY <2>1, <2>3, <2>4, <2>5
<1>9. PICK x \in Seq(Chars), b \in Seq(Chars), y \in Seq(Chars) : x = w[r] /\ b = a[i] /\ y = w[t]
  BY <1>1, <1>5 DEF Writes, Arguments
<1>10. PICK z \in Nat, m \in Nat : z = Len(x) /\ m = Len(b)
  BY LenProperties
<1>11. Len(y) = z + m /\ (\A k \in 1 .. z : y[k] = x[k]) /\ \A k \in 1 .. m : y[z + k] = b[k]
  <2>1. Len(y) = Len(x) + Len(b)
        /\ \A k \in 1 .. Len(x) + Len(b) : y[k] = IF k <= Len(x) THEN x[k] ELSE b[k - Len(x)]
    <3>1. y = x \o b
      BY <1>8, <1>9
    <3>2. Len(x \o b) = Len(x) + Len(b)
          /\ \A k \in 1 .. Len(x) + Len(b) : (x \o b)[k] = IF k <= Len(x) THEN x[k] ELSE b[k - Len(x)]
      BY ConcatProperties
    <3> QED
      BY <3>1, <3>2
  <2>2. \A k \in 1 .. z + m : y[k] = IF k <= z THEN x[k] ELSE b[k - z]
    BY <1>10, <2>1
  <2>3. \A k \in 1 .. z : k \in 1 .. z + m /\ k <= z
    BY <1>10
  <2>4. \A k \in 1 .. m : z + k \in 1 .. z + m /\ ~ (z + k <= z) /\ z + k - z = k
    BY <1>10
  <2>5. \A k \in 1 .. z : y[k] = x[k]
    BY <2>2, <2>3
  <2>6. \A k \in 1 .. m : y[z + k] = b[k]
    <3> TAKE k \in 1 .. m
    <3>1. y[z + k] = b[z + k - z]
      BY <2>2, <2>4
    <3> QED
      BY <2>4, <3>1
  <2> QED
    BY <1>10, <2>1, <2>5, <2>6
<1>12. /\ sql \in Seq(Chars) /\ Len(sql) = z + l - r
       /\ \A k \in 1 .. z : sql[k] = x[k]
       /\ \A k \in 1 .. l - r : sql[z + k] = s[r + k]
       /\ f \in 1 .. z + 1 /\ \A k \in f .. z : x[k] # "?"
  BY <1>1, <1>7, <1>9, <1>10 DEF After, Halfway
<1>13. PICK p \in Nat : p = z + 1 /\ p - 1 = z
  BY <1>10
<1>14. Found(sql, f) = p
  <2>1. f \in Nat /\ f >= 1 /\ p \in f .. Len(sql)
    BY <1>5, <1>10, <1>12, <1>13
  <2>2. sql[p] = "?"
    <3>1. 1 \in 1 .. l - r
      BY <1>1, <1>5
    <3>2. sql[z + 1] = s[r + 1]
      BY <1>12, <3>1
    <3> QED
      BY <1>5, <1>8, <1>13, <3>2
  <2>3. \A k \in f .. p - 1 : sql[k] # "?"
    <3> TAKE k \in f .. p - 1
    <3>1. k \in f .. z /\ k \in 1 .. z
      BY <1>10, <1>13, <2>1
    <3> QED
      BY <1>12, <3>1
  <2> QED
    BY <1>12, <2>1, <2>2, <2>3, FoundIs
<1>15. PICK v : v = Replaced(sql, p, b)
  OBVIOUS
<1>16. /\ v \in Seq(Chars) /\ Len(v) = z + l - r - 1 + m
       /\ \A k \in 1 .. z : v[k] = sql[k]
       /\ \A k \in 1 .. m : v[z + k] = b[k]
       /\ \A k \in 1 .. z + l - r - p : v[z + m + k] = sql[p + k]
  <2>1. p \in 1 .. Len(sql)
    BY <1>5, <1>10, <1>12, <1>13
  <2>2. /\ v \in Seq(Chars) /\ Len(v) = Len(sql) - 1 + Len(b)
        /\ \A k \in 1 .. p - 1 : v[k] = sql[k]
        /\ \A k \in 1 .. Len(b) : v[p - 1 + k] = b[k]
        /\ \A k \in 1 .. Len(sql) - p : v[p - 1 + Len(b) + k] = sql[p + k]
    BY <1>12, <1>15, <2>1, Replaces
  <2>3. Len(sql) = z + l - r /\ Len(b) = m /\ p - 1 = z
    BY <1>10, <1>12, <1>13
  <2>4. Len(v) = z + l - r - 1 + m
    BY <2>2, <2>3
  <2>5. \A k \in 1 .. z : v[k] = sql[k]
    BY <2>2, <2>3
  <2>6. \A k \in 1 .. m : v[z + k] = b[k]
    BY <2>2, <2>3
  <2>7. \A k \in 1 .. z + l - r - p : v[z + m + k] = sql[p + k]
    <3> TAKE k \in 1 .. z + l - r - p
    <3>1. k \in 1 .. Len(sql) - p /\ p - 1 + Len(b) + k = z + m + k
      BY <2>3
    <3> QED
      BY <2>2, <3>1
  <2> QED
    BY <2>2, <2>4, <2>5, <2>6, <2>7
<1>17. Halfway(v, w, s, t)
  <2>1. Len(v) = z + m + l - t
    <3>1. z + l - r - 1 + m = z + m + l - t
      BY <1>5
    <3> QED
      BY <1>16, <3>1
  <2>2. \A k \in 1 .. z + m : v[k] = y[k]
    <3> TAKE k \in 1 .. z + m
    <3>1. CASE k <= z
      <4>1. k \in 1 .. z
        BY <1>10, <3>1
      <4> QED
        BY <1>11, <1>12, <1>16, <4>1
    <3>2. CASE ~ (k <= z)
      <4>1. PICK j \in Nat : j = k - z
        <5>1. k - z \in Nat
          BY <3>2
        <5> QED
          BY <5>1
      <4>2. j \in 1 .. m /\ z + j = k
        BY <1>10, <3>2, <4>1
      <4> QED
        BY <1>11, <1>16, <4>2
    <3> QED
      BY <3>1, <3>2
  <2>3. \A k \in 1 .. l - t : v[z + m + k] = s[t + k]
    <3> TAKE k \in 1 .. l - t
    <3>1. k \in 1 .. z + l - r - p /\ k + 1 \in 1 .. l - r /\ p + k = z + (k + 1) /\ r + (k + 1) = t + k
      BY <1>1, <1>5, <1>10, <1>13
    <3>2. v[z + m + k] = sql[p + k] /\ sql[z + (k + 1)] = s[r + (k + 1)]
      BY <1>12, <1>16, <3>1
    <3> QED
      BY <3>1, <3>2
  <2> QED
    BY <1>1, <1>9, <1>11, <1>16, <2>1, <2>2, <2>3 DEF Halfway
<1>18. i + 1 < n => \A k \in p .. z + m : y[k] # "?"
  <2> SUFFICES ASSUME i + 1 < n, NEW k \in p .. z + m PROVE y[k] # "?"
    OBVIOUS
  <2>1. PICK j \in Nat : j = k - z
    <3>1. k - z \in Nat
      BY <1>13
    <3> QED
      BY <3>1
  <2>2. j \in 1 .. m /\ z + j = k /\ i \in 0 .. n - 2
    BY <1>10, <1>13, <2>1
  <2>3. b[j] # "?"
    BY <1>9, <1>10, <2>2 DEF Plain
  <2> QED
    BY <1>11, <2>2, <2>3
<1>19. p \in 1 .. z + m + 1
  BY <1>10, <1>13
<1>20. After(v, p, i + 1, n, w, s, c, t)
  BY <1>1, <1>5, <1>8, <1>9, <1>11, <1>17, <1>18, <1>19 DEF After
<1> QED
  BY <1>9, <1>14, <1>15, <1>20
(* The recursion of makeSql. *)
Rounding(g, s, n) ==
  g = [i \in 0 .. n |->
        IF i = 0 THEN [sql |-> s, foundPos |-> 1]
        ELSE LET sql == g[i - 1].sql
                 p == Found(sql, Begin(g[i - 1].foundPos))
             IN  [sql |-> Replaced(sql, p, Arg(i - 1)), foundPos |-> p]]

LEMMA RoundingExists ==
  ASSUME NEW s, NEW k \in Nat
  PROVE  \E g : Rounding(g, s, k)
<1> DEFINE Step(h, i) == LET sql == h[i - 1].sql
                              p == Found(sql, Begin(h[i - 1].foundPos))
                          IN  [sql |-> Replaced(sql, p, Arg(i - 1)), foundPos |-> p]
           Start == [sql |-> s, foundPos |-> 1]
           T == {n \in Nat : \A g : ~ Rounding(g, s, n)}
<1>1. \A h, n : Rounding(h, s, n) <=> h = [i \in 0 .. n |-> IF i = 0 THEN Start ELSE Step(h, i)]
  BY DEF Rounding
<1>2. \A g, h, i : g[i - 1] = h[i - 1] => Step(g, i) = Step(h, i)
  OBVIOUS
<1> HIDE DEF Step, Start
<1>3. ASSUME T # {}
      PROVE  FALSE
  <2>1. PICK n \in T : \A m \in T : n <= m
    BY <1>3, Least
  <2>2. n # 0
    <3> DEFINE h == [i \in 0 .. 0 |-> Start]
    <3>1. h = [i \in 0 .. 0 |-> IF i = 0 THEN Start ELSE Step(h, i)]
      <4>1. \A i \in 0 .. 0 : i = 0
        OBVIOUS
      <4> QED
        BY <4>1
    <3>2. Rounding(h, s, 0)
      BY <1>1, <3>1
    <3> QED
      BY <2>1, <3>2
  <2>3. n \in Nat /\ n - 1 \in Nat /\ n - 1 \notin T
    BY <2>1, <2>2
  <2>4. PICK g : Rounding(g, s, n - 1)
    BY <2>3
  <2>5. g = [i \in 0 .. n - 1 |-> IF i = 0 THEN Start ELSE Step(g, i)]
    BY <1>1, <2>4
  <2> DEFINE f == [i \in 0 .. n |-> IF i = 0 THEN Start ELSE Step(g, i)]
  <2>6. ASSUME NEW i \in 0 .. n, i # 0
        PROVE  f[i - 1] = g[i - 1]
    <3>1. i - 1 \in 0 .. n /\ i - 1 \in 0 .. n - 1
      BY <2>3, <2>6
    <3>2. g[i - 1] = IF i - 1 = 0 THEN Start ELSE Step(g, i - 1)
      BY <2>5, <3>1
    <3> QED
      BY <3>1, <3>2
  <2>7. f = [i \in 0 .. n |-> IF i = 0 THEN Start ELSE Step(f, i)]
    <3>1. \A i \in 0 .. n : i # 0 => Step(g, i) = Step(f, i)
      BY <1>2, <2>6
    <3> QED
      BY <3>1
  <2>8. Rounding(f, s, n)
    BY <1>1, <2>7
  <2> QED
    BY <2>1, <2>8
<1> QED
  BY <1>3

(* makeSql is what the last round makes. *)
LEMMA MakeSqlIs ==
  ASSUME statement.argsCount_ \in Nat
  PROVE  \E g : /\ Rounding(g, statement.sql_, statement.argsCount_)
                /\ makeSql = g[statement.argsCount_].sql
<1> DEFINE round == CHOOSE g : g = [i \in 0 .. statement.argsCount_ |->
              IF i = 0 THEN [sql |-> statement.sql_, foundPos |-> 1]
              ELSE LET sql == g[i - 1].sql
                       p == Found(sql, Begin(g[i - 1].foundPos))
                   IN  [sql |-> Replaced(sql, p, Arg(i - 1)), foundPos |-> p]]
<1>1. makeSql = round[statement.argsCount_].sql
  BY DEF makeSql
<1>2. Rounding(round, statement.sql_, statement.argsCount_)
  BY RoundingExists DEF Rounding
<1> QED
  BY <1>1, <1>2

(* What a round begins with, and what it leaves. *)
LEMMA RoundingSteps ==
  ASSUME NEW g, NEW s, NEW n \in Nat, Rounding(g, s, n)
  PROVE  /\ g[0].sql = s /\ g[0].foundPos = 1
         /\ \A i \in 1 .. n :
              /\ g[i].foundPos = Found(g[i - 1].sql, g[i - 1].foundPos)
              /\ g[i].sql = Replaced(g[i - 1].sql, g[i].foundPos, Arg(i - 1))
<1>1. 0 \in 0 .. n /\ \A i \in 1 .. n : i \in 0 .. n /\ i # 0
  OBVIOUS
<1>2. g[0] = [sql |-> s, foundPos |-> 1]
  BY <1>1 DEF Rounding
<1>3. ASSUME NEW i \in 1 .. n
      PROVE  /\ g[i].foundPos = Found(g[i - 1].sql, g[i - 1].foundPos)
             /\ g[i].sql = Replaced(g[i - 1].sql, g[i].foundPos, Arg(i - 1))
  <2>1. PICK p : p = Found(g[i - 1].sql, Begin(g[i - 1].foundPos))
    OBVIOUS
  <2>2. g[i] = [sql |-> Replaced(g[i - 1].sql, p, Arg(i - 1)), foundPos |-> p]
    BY <1>1, <2>1 DEF Rounding
  <2>3. p = Found(g[i - 1].sql, g[i - 1].foundPos)
    BY <2>1 DEF Begin
  <2> QED
    BY <2>2, <2>3
<1> QED
  BY <1>2, <1>3
(* The marks of a text, counted from its beginning. *)
LEMMA MarksCount ==
  ASSUME NEW s \in Seq(Chars)
  PROVE  \E c : /\ Counts(c, s) /\ Total(c, s, Marks(s))
                /\ \A k \in 0 .. Len(s) : c[k] = Marks(SubSeq(s, 1, k))
<1>1. PICK l \in Nat : l = Len(s) /\ DOMAIN s = 1 .. l
  BY LenProperties
<1> DEFINE M(k) == {j \in 1 .. k : s[j] = "?"}
           c == [k \in 0 .. l |-> Cardinality(M(k))]
<1>2. ASSUME NEW k \in 0 .. l
      PROVE  IsFiniteSet(M(k)) /\ Cardinality(M(k)) \in Nat
  <2>1. IsFiniteSet(1 .. k)
    BY FS_Interval
  <2>2. IsFiniteSet(M(k))
    BY <2>1, FS_Subset
  <2> QED
    BY <2>2, FS_CardinalityType
<1>3. Cardinality(M(0)) = 0
  <2>1. M(0) = {}
    OBVIOUS
  <2> QED
    BY <2>1, FS_EmptySet
<1>4. ASSUME NEW k \in 1 .. l
      PROVE  Cardinality(M(k)) = Cardinality(M(k - 1)) + (IF s[k] = "?" THEN 1 ELSE 0)
  <2>1. k - 1 \in 0 .. l
    OBVIOUS
  <2>2. CASE s[k] = "?"
    <3>1. M(k) = M(k - 1) \cup {k} /\ k \notin M(k - 1)
      BY <2>2
    <3>2. Cardinality(M(k - 1) \cup {k}) = Cardinality(M(k - 1)) + 1
      BY <1>2, <2>1, <3>1, FS_AddElement
    <3> QED
      BY <2>2, <3>1, <3>2
  <2>3. CASE s[k] # "?"
    <3>1. M(k) = M(k - 1)
      BY <2>3
    <3> HIDE DEF M
    <3>2. Cardinality(M(k - 1)) \in Nat
      BY <1>2, <2>1
    <3> QED
      BY <2>3, <3>1, <3>2
  <2> QED
    BY <2>2, <2>3
<1>5. ASSUME NEW k \in 0 .. l
      PROVE  Marks(SubSeq(s, 1, k)) = Cardinality(M(k))
  <2>1. PICK u \in Seq(Chars) : u = SubSeq(s, 1, k)
    <3>1. 1 \in 1 .. Len(s) + 1 /\ k \in 1 - 1 .. Len(s)
      BY <1>1
    <3>2. SubSeq(s, 1, k) \in Seq(Chars)
      BY <3>1, SubSeqProperties
    <3> QED
      BY <3>2
  <2>2. Len(u) = k /\ DOMAIN u = 1 .. k /\ \A j \in 1 .. k : u[j] = s[j]
    BY <1>1, <2>1, SubSeqProperties
  <2>3. {j \in DOMAIN u : u[j] = "?"} = M(k)
    BY <2>2
  <2> QED
    BY <2>1, <2>3 DEF Marks
<1>6. Marks(s) = Cardinality(M(l))
  BY <1>1 DEF Marks
<1> HIDE DEF M
<1>7. c \in [0 .. l -> Nat] /\ 0 \in 0 .. l /\ l \in 0 .. l
  BY <1>2
<1>8. \A k \in 1 .. l : k \in 0 .. l /\ k - 1 \in 0 .. l
  OBVIOUS
<1>9. Counts(c, s)
  BY <1>1, <1>3, <1>4, <1>7, <1>8 DEF Counts
<1>10. Total(c, s, Marks(s))
  BY <1>1, <1>6, <1>7 DEF Total
<1>11. \A k \in 0 .. Len(s) : c[k] = Marks(SubSeq(s, 1, k))
  BY <1>1, <1>5
<1> QED
  BY <1>9, <1>10, <1>11

(* Substituted is put together from the front. *)
LEMMA Written ==
  ASSUME NEW s \in Seq(Chars), s = statement.sql_, NEW c, Counts(c, s),
         \A k \in 0 .. Len(s) : c[k] = Marks(SubSeq(s, 1, k)),
         NEW a, Arguments(a), a = [i \in Nat |-> Arg(i)]
  PROVE  \E w : Writes(w, s, c, a) /\ w[Len(s)] = Substituted
<1>1. PICK l \in Nat : l = Len(s) /\ DOMAIN s = 1 .. l
  BY LenProperties
<1> DEFINE seqs == [k \in 1 .. l |-> IF s[k] = "?" THEN a[c[k] - 1] ELSE <<s[k]>>]
<1>2. ASSUME NEW k \in 1 .. l
      PROVE  /\ (IF s[k] = "?" THEN Arg(Marks(SubSeq(s, 1, k)) - 1) ELSE <<s[k]>>) = seqs[k]
             /\ seqs[k] \in Seq(Chars)
  <2>1. CASE s[k] = "?"
    <3>1. k \in 0 .. l /\ k - 1 \in 0 .. l
      OBVIOUS
    <3>2. c[k] = c[k - 1] + 1 /\ c[k - 1] \in Nat /\ c[k] = Marks(SubSeq(s, 1, k))
      BY <1>1, <2>1, <3>1 DEF Counts
    <3>3. PICK i \in Nat : i = c[k] - 1
      BY <3>2
    <3>4. a[i] = Arg(i) /\ a[i] \in Seq(Chars)
      BY DEF Arguments
    <3> QED
      BY <2>1, <3>2, <3>3, <3>4
  <2>2. CASE s[k] # "?"
    <3>1. s[k] \in Chars
      BY <1>1, ElementOfSeq
    <3> QED
      BY <2>2, <3>1
  <2> QED
    BY <2>1, <2>2
<1>3. Substituted = FlattenSeq(seqs)
  <2>1. [k \in DOMAIN statement.sql_ |->
           IF statement.sql_[k] = "?" THEN Arg(Marks(SubSeq(statement.sql_, 1, k)) - 1)
           ELSE <<statement.sql_[k]>>] = seqs
    BY <1>1, <1>2
  <2> QED
    BY <2>1 DEF Substituted
<1>4. seqs \in Seq(Seq(Chars)) /\ Len(seqs) = l
  <2>1. seqs \in [1 .. l -> Seq(Chars)]
    BY <1>2
  <2> QED
    BY <2>1, Listed
<1>5. \A k \in 1 .. l : seqs[k] = IF s[k] = "?" THEN a[c[k] - 1] ELSE <<s[k]>>
  OBVIOUS
<1> HIDE DEF seqs
<1>6. CASE l = 0
  <2> DEFINE w == [k \in 0 .. l |-> <<>>]
  <2>1. seqs = <<>>
    BY <1>4, <1>6, EmptySeq
  <2>2. FlattenSeq(seqs) = <<>>
    BY <2>1 DEF FlattenSeq
  <2>3. w \in [0 .. l -> Seq(Chars)] /\ w[0] = <<>> /\ w[l] = <<>> /\ 1 .. l = {}
    BY <1>6
  <2>4. Writes(w, s, c, a)
    BY <1>1, <2>3 DEF Writes
  <2> QED
    BY <1>1, <1>3, <2>2, <2>3, <2>4
<1>7. CASE l # 0
  <2>1. PICK g : Along(g, seqs, l) /\ FlattenSeq(seqs) = g[l]
    BY <1>4, <1>7, FlattenIs
  <2>2. \A k \in 1 .. l : g[k] \in Seq(Chars)
    BY <1>4, <2>1, AlongTyped
  <2> DEFINE w == [k \in 0 .. l |-> IF k = 0 THEN <<>> ELSE g[k]]
  <2>3. w \in [0 .. l -> Seq(Chars)] /\ w[0] = <<>> /\ w[l] = g[l]
    <3>1. \A k \in 0 .. l : k # 0 => k \in 1 .. l
      OBVIOUS
    <3>2. 0 \in 0 .. l /\ l \in 0 .. l /\ <<>> \in Seq(Chars)
      BY <1>1
    <3> QED
      BY <1>7, <2>2, <3>1, <3>2
  <2>4. ASSUME NEW k \in 1 .. l
        PROVE  w[k] = w[k - 1] \o seqs[k]
    <3>1. g[k] = IF k = 1 THEN seqs[k] ELSE g[k - 1] \o seqs[k]
      BY <2>1 DEF Along
    <3>2. k \in 0 .. l /\ k - 1 \in 0 .. l /\ k # 0 /\ (k - 1 = 0 <=> k = 1)
      OBVIOUS
    <3>3. <<>> \o seqs[k] = seqs[k]
      BY <1>4, ElementOfSeq, ConcatEmptySeq
    <3> QED
      BY <3>1, <3>2, <3>3
  <2> HIDE DEF w
  <2>5. Writes(w, s, c, a)
    BY <1>1, <1>5, <2>3, <2>4 DEF Writes
  <2> QED
    BY <1>1, <1>3, <2>1, <2>3, <2>5
<1> QED
  BY <1>6, <1>7
(* Counting goes up only. *)
LEMMA CountsRise ==
  ASSUME NEW s \in Seq(Chars), NEW c, Counts(c, s), NEW k \in 0 .. Len(s)
  PROVE  c[k] <= c[Len(s)]
<1>1. PICK l \in Nat : l = Len(s)
  BY LenProperties
<1>2. k \in 0 .. l /\ \A j \in 0 .. l : c[j] \in Nat
  BY <1>1 DEF Counts
<1> DEFINE T == {j \in k .. l : ~ (c[k] <= c[j])}
<1>3. ASSUME T # {}
      PROVE  FALSE
  <2>1. T \subseteq Nat
    BY <1>2
  <2>2. PICK j \in T : \A i \in T : j <= i
    BY <1>3, <2>1, Least
  <2>3. j \in k .. l /\ ~ (c[k] <= c[j]) /\ c[k] \in Nat
    BY <1>2, <2>2
  <2>4. j # k
    BY <2>3
  <2>5. j \in 1 .. l /\ j - 1 \in k .. l /\ j - 1 \in 0 .. l /\ ~ (j <= j - 1)
    BY <1>2, <2>3, <2>4
  <2>6. c[k] <= c[j - 1]
    BY <2>2, <2>5
  <2>7. c[j] = c[j - 1] + (IF s[j] = "?" THEN 1 ELSE 0) /\ c[j - 1] \in Nat
    BY <1>1, <1>2, <2>5 DEF Counts
  <2>8. c[j - 1] <= c[j]
    BY <2>7
  <2> QED
    BY <2>3, <2>6, <2>7, <2>8
<1>4. l \in k .. l
  BY <1>2
<1> QED
  BY <1>1, <1>3, <1>4

(* When all marks are counted, all that is left are no marks. *)
LEMMA Finishes ==
  ASSUME NEW s \in Seq(Chars), NEW c, NEW w, NEW a, Arguments(a),
         Counts(c, s), Writes(w, s, c, a), NEW n \in Nat, Total(c, s, n),
         NEW sql, NEW f, NEW q, After(sql, f, n, n, w, s, c, q)
  PROVE  sql = w[Len(s)]
<1>1. PICK l \in Nat : l = Len(s)
  BY LenProperties
<1>2. q \in Nat /\ q <= l /\ q \in 0 .. l
  <2>1. q \in 0 .. l
    BY <1>1 DEF After
  <2> QED
    BY <2>1
<1>3. \A k \in q + 1 .. l : s[k] # "?"
  <2> DEFINE T == {k \in q + 1 .. l : s[k] = "?"}
  <2>1. ASSUME T # {}
        PROVE  FALSE
    <3>1. T \subseteq Nat
      BY <1>2
    <3>2. PICK t : t \in q + 1 .. l /\ s[t] = "?" /\ \A k \in q + 1 .. l : s[k] = "?" => t <= k
      BY <2>1, <3>1, Least
    <3> HIDE DEF T
    <3>3. PICK r \in Nat : r = t - 1 /\ r \in q .. l /\ t \in 1 .. l /\ t \in 0 .. l
      <4>1. t - 1 \in Nat /\ t - 1 \in q .. l /\ t \in 1 .. l /\ t \in 0 .. l
        BY <1>2, <3>2
      <4> QED
        BY <4>1
    <3>4. \A k \in q + 1 .. r : s[k] # "?"
      <4> SUFFICES ASSUME NEW k \in q + 1 .. r, s[k] = "?" PROVE FALSE
        OBVIOUS
      <4>1. k \in q + 1 .. l /\ ~ (t <= k)
        BY <1>2, <3>2, <3>3
      <4> QED
        BY <3>2, <4>1
    <3>5. After(sql, f, n, n, w, s, c, r)
      BY <1>1, <3>3, <3>4, SlidesFar
    <3>6. c[r] = n
      BY <3>5 DEF After
    <3>7. c[t] = n + 1
      BY <1>1, <3>2, <3>3, <3>6 DEF Counts
    <3>8. c[t] <= c[l] /\ c[l] = n
      BY <1>1, <3>3, CountsRise DEF Total
    <3> QED
      BY <3>7, <3>8
  <2> QED
    BY <2>1
<1>4. After(sql, f, n, n, w, s, c, l)
  <2>1. l \in q .. l
    BY <1>2
  <2> QED
    BY <1>1, <1>3, <2>1, SlidesFar
<1>5. PICK x \in Seq(Chars) : x = w[l]
  <2>1. l \in 0 .. l
    OBVIOUS
  <2> QED
    BY <1>1, <2>1 DEF Writes
<1>6. sql \in Seq(Chars) /\ Len(sql) = Len(x) + l - l /\ \A k \in 1 .. Len(x) : sql[k] = x[k]
  BY <1>1, <1>4, <1>5 DEF After, Halfway
<1>7. Len(x) + l - l = Len(x)
  <2>1. Len(x) \in Nat
    BY LenProperties
  <2> QED
    BY <2>1
<1>8. sql = x
  BY <1>6, <1>7, SeqEqual
<1> QED
  BY <1>1, <1>5, <1>8

(* Round after round, makeSql makes what Substituted says. *)
LEMMA SqlMade ==
  ASSUME Worded
  PROVE  SqlExact
<1> SUFFICES ASSUME Marks(statement.sql_) < ArgsWrap,
                    \A i \in 0 .. statement.argsCount_ - 2 : Marks(Arg(i)) = 0
             PROVE  makeSql = Substituted
  BY DEF SqlExact
<1>1. PICK s \in Seq(Chars) : s = statement.sql_
  BY DEF Worded
<1>2. PICK n \in Nat : n = Marks(s) /\ n = statement.argsCount_
  <2>1. Marks(s) \in Nat
    BY MarksNone
  <2>2. Marks(s) % ArgsWrap = Marks(s)
    BY <1>1, <2>1, MysqlAssumption
  <2> QED
    BY <1>1, <2>1, <2>2 DEF Worded
<1>3. \A i \in Nat : Arg(i) \in Seq(Chars)
  <2> TAKE i \in Nat
  <2>1. CASE i \in DOMAIN statement.args_
    BY <2>1 DEF Arg, Worded
  <2>2. CASE i \notin DOMAIN statement.args_
    <3>1. <<>> \in Seq(Chars)
      OBVIOUS
    <3> QED
      BY <2>2, <3>1 DEF Arg
  <2> QED
    BY <2>1, <2>2
<1>4. PICK a : a = [i \in Nat |-> Arg(i)]
  OBVIOUS
<1>5. Arguments(a) /\ \A i \in Nat : a[i] = Arg(i)
  BY <1>3, <1>4 DEF Arguments
<1>6. Plain(a, n)
  <2>1. ASSUME NEW i \in 0 .. n - 2
        PROVE  \A k \in 1 .. Len(a[i]) : a[i][k] # "?"
    <3>1. i \in Nat /\ Marks(Arg(i)) = 0
      BY <1>2, <2>1
    <3> QED
      BY <1>3, <1>5, <3>1, MarksNone
  <2> QED
    BY <2>1 DEF Plain
<1>7. PICK c : /\ Counts(c, s) /\ Total(c, s, n)
               /\ \A k \in 0 .. Len(s) : c[k] = Marks(SubSeq(s, 1, k))
  BY <1>2, MarksCount
<1>8. PICK w : Writes(w, s, c, a) /\ w[Len(s)] = Substituted
  BY <1>1, <1>4, <1>5, <1>7, Written
<1>9. PICK g : Rounding(g, s, n) /\ makeSql = g[n].sql
  BY <1>1, <1>2, MakeSqlIs
<1> DEFINE OK(i) == \E q : After(g[i].sql, g[i].foundPos, i, n, w, s, c, q)
           T == {i \in 0 .. n : ~ OK(i)}
<1>10. OK(0)
  <2>1. g[0].sql = s /\ g[0].foundPos = 1
    BY <1>9, RoundingSteps
  <2>2. Len(s) \in Nat /\ w[0] = <<>> /\ Len(w[0]) = 0 /\ c[0] = 0
    BY <1>7, <1>8, LenProperties, EmptySeq DEF Writes, Counts
  <2>3. Halfway(s, w, s, 0)
    BY <2>2 DEF Halfway
  <2>4. After(s, 1, 0, n, w, s, c, 0)
    BY <2>2, <2>3 DEF After
  <2> QED
    BY <2>1, <2>4
<1>11. ASSUME NEW i \in 1 .. n, OK(i - 1)
       PROVE  OK(i)
  <2>1. PICK j \in Nat : j = i - 1 /\ j < n /\ j + 1 = i
    OBVIOUS
  <2>2. PICK q : After(g[j].sql, g[j].foundPos, j, n, w, s, c, q)
    BY <1>11, <2>1
  <2>3. /\ g[i].foundPos = Found(g[j].sql, g[j].foundPos)
        /\ g[i].sql = Replaced(g[j].sql, g[i].foundPos, a[j])
    BY <1>5, <1>9, <2>1, RoundingSteps
  <2>4. \E t : After(Replaced(g[j].sql, Found(g[j].sql, g[j].foundPos), a[j]),
                     Found(g[j].sql, g[j].foundPos), j + 1, n, w, s, c, t)
    BY <1>5, <1>6, <1>7, <1>8, <2>1, <2>2, Round
  <2> QED
    BY <2>1, <2>3, <2>4
<1> HIDE DEF OK
<1>12. ASSUME T # {}
       PROVE  FALSE
  <2>1. T \subseteq Nat
    OBVIOUS
  <2>2. PICK i \in T : \A j \in T : i <= j
    BY <1>12, <2>1, Least
  <2>3. i \in 0 .. n /\ ~ OK(i) /\ i # 0
    BY <1>10, <2>2
  <2>4. i \in 1 .. n /\ i - 1 \in 0 .. n /\ ~ (i <= i - 1)
    BY <2>3
  <2>5. OK(i - 1)
    BY <2>2, <2>4
  <2> QED
    BY <1>11, <2>3, <2>4, <2>5
<1>13. OK(n)
  BY <1>12
<1>14. PICK q : After(g[n].sql, g[n].foundPos, n, n, w, s, c, q)
  BY <1>13 DEF OK
<1>15. g[n].sql = w[Len(s)]
  BY <1>5, <1>7, <1>8, <1>14, Finishes
<1> QED
  BY <1>8, <1>9, <1>15

-----------------------------------------------------------------------------
(* The theorems about the client. *)

(* The client's invariant holds, whatever the other parts do. *)
THEOREM MysqlInductive == Spec => []MysqlInv
<1>1. Init => MysqlInv
  BY MysqlStarts DEF Init
<1>2. MysqlInv /\ [Next]_vars => MysqlInv'
  <2> SUFFICES ASSUME MysqlInv, [Next]_vars
               PROVE  MysqlInv'
    OBVIOUS
  <2>1. CASE MysqlStep
    BY <2>1, MysqlKeeps DEF MysqlStep
  <2>2. CASE UNCHANGED mysqlVars
    BY <2>2 DEF mysqlVars, MysqlInv, MysqlTypeOK, ConnectedIsOpen, HandleOwned,
                RowsNumbered, Fields, Worded
  <2> QED
    BY <2>1, <2>2 DEF Next, TimersStep, OfTimers, HeapStep, Ended, vars
<1> QED
  BY <1>1, <1>2, PTL DEF Spec

(* While the object takes itself for connected its handle is open: strings *)
(* are escaped with no other (dan_mysql.hpp:213-268). *)
THEOREM ConnectedHandle == Spec => []ConnectedIsOpen
<1>1. MysqlInv => ConnectedIsOpen
  BY DEF MysqlInv
<1> QED
  BY <1>1, MysqlInductive, PTL

(* A call of disconnect() that returns.                                    *)
Disconnects == MysqlStep /\ Disconnect /\ life' = "alive"

(* Until there is one, the handle in use is open. *)
InUse == /\ life = "alive" /\ mysql_ # 0 => handle[mysql_] = "open"
         /\ FreedOnce

(* It takes a call of disconnect() from outside to have a handle closed    *)
(* twice: however often connections are made and fail, and whenever the    *)
(* object is destroyed, connect() and the destructor alone close each once *)
(* (dan_mysql.hpp:226-279). *)
THEOREM FreedTwiceAfterDisconnect ==
  Spec /\ [][~ Disconnects]_vars => []FreedOnce
<1>1. Init => InUse
  BY DEF Init, MysqlInit, InUse, FreedOnce
<1>2. ASSUME MysqlInv, InUse, [Next]_vars, [~ Disconnects]_vars
      PROVE  InUse'
  <2>1. CASE UNCHANGED mysqlVars
    BY <1>2, <2>1 DEF mysqlVars, InUse, FreedOnce
  <2>2. CASE MysqlStep
    <3>1. life = "alive" /\ (mysql_ # 0 => handle[mysql_] = "open") /\ ~ FreeTwice
          /\ handle \in Seq({"open", "closed"}) /\ mysql_ \in 0 .. Len(handle)
      BY <1>2, <2>2 DEF MysqlStep, MysqlNext, InUse, MysqlInv, MysqlTypeOK, FreeTwice, ClosedTwice
    <3>2. CASE MysqlDo
      BY <1>2, <3>1, <3>2 DEF MysqlDo, SetString, SetNumber, SetNull, Set, DoQuery, DoInsert,
                              NewStatement, InUse, FreedOnce
    <3>3. CASE Disconnect
      <4>1. UNCHANGED vars
        BY <1>2, <2>2, <3>1, <3>3 DEF Disconnects, Disconnect
      <4> QED
        BY <2>1, <4>1 DEF vars
    <3>4. CASE Destruct
      BY <3>1, <3>4 DEF Destruct, InUse, FreedOnce
    <3>5. CASE Connect
      <4>1. /\ handle' = Append(Disconnected, "open") /\ mysql_' = Len(handle) + 1
            /\ UNCHANGED life
        BY <3>1, <3>5 DEF Connect, Opened
      <4>2. Disconnected \in Seq({"open", "closed"}) /\ Len(Disconnected) = Len(handle)
        BY <3>1 DEF Disconnected
      <4>3. handle'[Len(handle) + 1] = "open"
        BY <4>1, <4>2
      <4> QED
        BY <3>1, <4>1, <4>3 DEF InUse, FreedOnce
    <3> QED
      BY <2>2, <3>2, <3>3, <3>4, <3>5 DEF MysqlStep, MysqlNext
  <2> QED
    BY <1>2, <2>1, <2>2 DEF Next, TimersStep, OfTimers, HeapStep, Ended, vars
<1>3. MysqlInv /\ InUse /\ [Next]_vars /\ [~ Disconnects]_vars => InUse'
  BY <1>2
<1>4. InUse => FreedOnce
  BY DEF InUse
<1> QED
  BY <1>1, <1>3, <1>4, MysqlInductive, PTL DEF Spec

(* Reconnecting and destroying leak no handle: of all mysql_init returned, *)
(* none but the one in use is open.                                        *)
THEOREM HandlesOwned == Spec => []HandleOwned
<1>1. MysqlInv => HandleOwned
  BY DEF MysqlInv
<1> QED
  BY <1>1, MysqlInductive, PTL

(* getFieldValue reads the last query's rows, whatever the ones before it  *)
(* left in the object. *)
THEOREM RowsAreCurrent == Spec => []RowsCurrent
<1>1. MysqlInv => RowsCurrent
  BY RowsRead DEF MysqlInv
<1> QED
  BY <1>1, MysqlInductive, PTL

(* makeSql replaces the marks by their arguments, one after the other from *)
(* the front (dan_mysql.hpp:126-138), and yet it is as if all were replaced *)
(* at once, for any statement and arguments, empty and unset ones too,     *)
(* unless one before the last has a mark or the count has wrapped.         *)
THEOREM SqlIsExact == Spec => []SqlExact
<1>1. MysqlInv => SqlExact
  BY SqlMade DEF MysqlInv
<1> QED
  BY <1>1, MysqlInductive, PTL

-----------------------------------------------------------------------------
(* The timers. *)

(* The heap has every periodic timer exactly once. *)
Once(heap) == \A d \in Periodic : \E k \in DOMAIN heap :
                \A i \in DOMAIN heap : heap[i].danFd = d <=> i = k

(* Every one but d, which is not there at all if it is periodic. *)
OnceBut(heap, d) == /\ \A e \in Periodic \ {d} : \E k \in DOMAIN heap :
                         \A i \in DOMAIN heap : heap[i].danFd = e <=> i = k
                    /\ d \in Periodic => \A i \in DOMAIN heap : heap[i].danFd # d

(* A periodic timer is never due at the time that is none. *)
Bounded(heap) == \A i \in DOMAIN heap : heap[i].danFd \in Periodic => heap[i].left < Forever

HeapOk(heap) == /\ heap \in Seq(Timer) /\ Len(heap) <= MaxTimers
                /\ Once(heap) /\ Bounded(heap)

TimersInv ==
  /\ HeapOk(timers_)
  /\ toLast \in 0 .. Wrap - 1 /\ procs \in BOOLEAN
  /\ Len(ran) <= 1 /\ ToSet(ran) \subseteq Timer
  /\ Periodic # {} => RunsInOrder

(* Nothing less than 2^32 microseconds away is a multiple of them away. *)
LEMMA NoMultiple ==
  ASSUME NEW n \in 1 .. Wrap - 1
  PROVE  (- n) % Wrap # 0
<1>1. Wrap \in Nat \ {0}
  BY TimersAssumption
<1>2. (- n) % Wrap = Wrap - n
  <2>1. - n = Wrap * (- 1) + (Wrap - n) /\ Wrap - n \in 0 .. Wrap - 1
    BY <1>1
  <2> QED
    BY <1>1, <2>1
<1> QED
  BY <1>1, <1>2

(* What a sequence is without its i-th element. *)
LEMMA Removal ==
  ASSUME NEW T, NEW s \in Seq(T), NEW i \in 1 .. Len(s)
  PROVE  /\ RemoveAt(s, i) \in Seq(T)
         /\ Len(RemoveAt(s, i)) = Len(s) - 1
         /\ \A j \in 1 .. Len(s) - 1 : RemoveAt(s, i)[j] = IF j < i THEN s[j] ELSE s[j + 1]
<1>1. Len(s) \in Nat /\ DOMAIN s = 1 .. Len(s)
  OBVIOUS
<1>2. PICK n \in Nat : n = Len(s)
  BY <1>1
<1> DEFINE a == SubSeq(s, 1, i - 1)
           b == SubSeq(s, i + 1, n)
<1>3. a \in Seq(T) /\ Len(a) = i - 1 /\ \A j \in 1 .. i - 1 : a[j] = s[j]
  BY <1>2
<1>4. b \in Seq(T) /\ Len(b) = n - i /\ \A j \in 1 .. n - i : b[j] = s[j + i]
  BY <1>2
<1>5. RemoveAt(s, i) = a \o b
  BY <1>2 DEF RemoveAt
<1> HIDE DEF a, b
<1>6. /\ a \o b \in Seq(T) /\ Len(a \o b) = n - 1
      /\ \A j \in 1 .. n - 1 : (a \o b)[j] = IF j <= i - 1 THEN a[j] ELSE b[j - (i - 1)]
  BY <1>2, <1>3, <1>4, ConcatProperties
<1>7. ASSUME NEW j \in 1 .. n - 1
      PROVE  (a \o b)[j] = IF j < i THEN s[j] ELSE s[j + 1]
  <2>1. CASE j < i
    BY <1>2, <1>3, <1>6, <2>1
  <2>2. CASE ~ (j < i)
    <3>1. (a \o b)[j] = b[j - (i - 1)] /\ j - (i - 1) \in 1 .. n - i
      BY <1>2, <1>6, <2>2
    <3>2. b[j - (i - 1)] = s[(j - (i - 1)) + i]
      BY <1>4, <3>1
    <3>3. (j - (i - 1)) + i = j + 1
      BY <1>2
    <3> QED
      BY <2>2, <3>1, <3>2, <3>3
  <2> QED
    BY <2>1, <2>2
<1> QED
  BY <1>2, <1>5, <1>6, <1>7

(* Exactly once, counted. *)
LEMMA OnceCounted ==
  ASSUME NEW d, NEW heap \in Seq(Timer), NEW k \in DOMAIN heap,
         \A i \in DOMAIN heap : heap[i].danFd = d <=> i = k
  PROVE  Cardinality({i \in DOMAIN heap : heap[i].danFd = d}) = 1
<1>1. {i \in DOMAIN heap : heap[i].danFd = d} = {k}
  OBVIOUS
<1> QED
  BY <1>1, FS_Singleton

(* The invariant has the type invariant. *)
LEMMA TimersTyped ==
  ASSUME TimersInv
  PROVE  TimersTypeOK
<1>1. timers_ \in Seq(Timer) /\ Once(timers_)
  BY DEF TimersInv, HeapOk
<1>2. ASSUME NEW d \in Periodic
      PROVE  Cardinality({i \in DOMAIN timers_ : timers_[i].danFd = d}) = 1
  <2>1. PICK k \in DOMAIN timers_ : \A i \in DOMAIN timers_ : timers_[i].danFd = d <=> i = k
    BY <1>1 DEF Once
  <2> QED
    BY <1>1, <2>1, OnceCounted
<1> QED
  BY <1>1, <1>2 DEF TimersInv, TimersTypeOK

(* A timer put at the end of the heap. *)
LEMMA Addition ==
  ASSUME NEW heap \in Seq(Timer), Bounded(heap), Len(heap) < MaxTimers, NEW d, NEW timeoutMs,
         \/ d \in Periodic /\ timeoutMs = Interval[d]
         \/ d \in Waiting /\ timeoutMs \in Timeouts,
         OnceBut(heap, d)
  PROVE  HeapOk(Added(heap, d, timeoutMs))
<1> DEFINE t == [danFd |-> d, left |-> IF timeoutMs = -1 THEN Forever ELSE timeoutMs]
<1>1. /\ Wrap \in Nat \ {0} /\ MaxTimers \in Nat /\ Interval \in [Periodic -> 1 .. Wrap - 1]
      /\ Timeouts \subseteq -1 .. Wrap - 1 /\ Periodic \cap Waiting = {}
  BY TimersAssumption
<1>2. t \in Timer /\ t.danFd = d /\ (d \in Periodic => t.left < Forever)
  <2>1. CASE d \in Periodic /\ timeoutMs = Interval[d]
    BY <1>1, <2>1 DEF Timer, Forever
  <2>2. CASE d \in Waiting /\ timeoutMs \in Timeouts
    BY <1>1, <2>2 DEF Timer, Forever
  <2> QED
    BY <2>1, <2>2
<1>3. Added(heap, d, timeoutMs) = Append(heap, t)
  BY DEF Added
<1> HIDE DEF t
<1>4. PICK n \in Nat : n = Len(heap) /\ DOMAIN heap = 1 .. n
  OBVIOUS
<1>5. PICK new \in Seq(Timer) : /\ new = Append(heap, t) /\ DOMAIN new = 1 .. n + 1 /\ Len(new) = n + 1
                                /\ \A i \in 1 .. n : new[i] = heap[i]
                                /\ new[n + 1] = t
  <2> DEFINE new == Append(heap, t)
  <2>1. /\ new \in Seq(Timer) /\ Len(new) = n + 1
        /\ \A i \in 1 .. n : new[i] = heap[i]
        /\ new[n + 1] = t
    BY <1>2, <1>4, AppendProperties
  <2>2. DOMAIN new = 1 .. n + 1
    BY <2>1, LenProperties
  <2> HIDE DEF new
  <2>3. new = Append(heap, t)
    BY DEF new
  <2> QED
    BY <2>1, <2>2, <2>3, Zenon
<1>6. Bounded(new)
  BY <1>2, <1>4, <1>5 DEF Bounded
<1>7. ASSUME NEW e \in Periodic
      PROVE  \E k \in DOMAIN new : \A i \in DOMAIN new : new[i].danFd = e <=> i = k
  <2>1. CASE e = d
    <3>1. \A i \in 1 .. n : heap[i].danFd # d
      BY <1>4, <1>7, <2>1 DEF OnceBut
    <3>2. n + 1 \in DOMAIN new /\ \A i \in DOMAIN new : new[i].danFd = e <=> i = n + 1
      BY <1>2, <1>4, <1>5, <2>1, <3>1
    <3> QED
      BY <3>2
  <2>2. CASE e # d
    <3>1. PICK k \in DOMAIN heap : \A i \in DOMAIN heap : heap[i].danFd = e <=> i = k
      BY <1>7, <2>2 DEF OnceBut
    <3>2. k \in DOMAIN new /\ \A i \in DOMAIN new : new[i].danFd = e <=> i = k
      BY <1>2, <1>4, <1>5, <2>2, <3>1
    <3> QED
      BY <3>2
  <2> QED
    BY <2>1, <2>2
<1>8. Len(new) <= MaxTimers
  BY <1>1, <1>4, <1>5
<1> QED
  BY <1>3, <1>5, <1>6, <1>7, <1>8 DEF HeapOk, Once

(* A heap without the i-th timer: whatever is periodic is still there      *)
(* once, but that one. *)
LEMMA Taken ==
  ASSUME HeapOk(timers_), NEW i \in DOMAIN timers_, NEW popped, popped = RemoveAt(timers_, i)
  PROVE  /\ popped \in Seq(Timer) /\ Len(popped) < MaxTimers /\ Bounded(popped)
         /\ ToSet(popped) \subseteq ToSet(timers_)
         /\ OnceBut(popped, timers_[i].danFd)
<1>1. timers_ \in Seq(Timer) /\ Len(timers_) <= MaxTimers /\ Once(timers_) /\ Bounded(timers_)
  BY DEF HeapOk
<1>2. PICK n \in Nat : n = Len(timers_) /\ DOMAIN timers_ = 1 .. n
  BY <1>1
<1>3. /\ popped \in Seq(Timer) /\ Len(popped) = n - 1 /\ DOMAIN popped = 1 .. n - 1
      /\ \A j \in 1 .. n - 1 : popped[j] = IF j < i THEN timers_[j] ELSE timers_[j + 1]
  BY <1>1, <1>2, Removal
<1>4. Len(popped) < MaxTimers
  BY <1>1, <1>2, <1>3, TimersAssumption
<1>5. Bounded(popped)
  BY <1>1, <1>2, <1>3 DEF Bounded
<1>6. ToSet(popped) \subseteq ToSet(timers_)
  BY <1>2, <1>3 DEF ToSet
<1>7. ASSUME NEW e \in Periodic \ {timers_[i].danFd}
      PROVE  \E k \in DOMAIN popped : \A j \in DOMAIN popped : popped[j].danFd = e <=> j = k
  <2>1. PICK k \in DOMAIN timers_ : \A j \in DOMAIN timers_ : timers_[j].danFd = e <=> j = k
    BY <1>1, <1>7, Zenon DEF Once
  <2>2. k # i
    BY <1>2, <1>7, <2>1
  <2> DEFINE m == IF k < i THEN k ELSE k - 1
  <2>3. m \in DOMAIN popped /\ \A j \in DOMAIN popped : popped[j].danFd = e <=> j = m
    <3>1. m \in DOMAIN popped
      BY <1>2, <1>3, <2>2
    <3>2. ASSUME NEW j \in DOMAIN popped
          PROVE  popped[j].danFd = e <=> j = m
      <4>1. CASE j < i
        BY <1>2, <1>3, <2>1, <2>2, <4>1
      <4>2. CASE ~ (j < i)
        BY <1>2, <1>3, <2>1, <2>2, <4>2
      <4> QED
        BY <4>1, <4>2
    <3> QED
      BY <3>1, <3>2
  <2> HIDE DEF m
  <2> QED
    BY <2>3
<1>8. ASSUME timers_[i].danFd \in Periodic, NEW j \in DOMAIN popped
      PROVE  popped[j].danFd # timers_[i].danFd
  <2>1. PICK k \in DOMAIN timers_ : \A l \in DOMAIN timers_ :
          timers_[l].danFd = timers_[i].danFd <=> l = k
    BY <1>1, <1>8, Zenon DEF Once
  <2>2. k = i
    BY <1>2, <2>1
  <2>3. CASE j < i
    BY <1>2, <1>3, <2>1, <2>2, <2>3
  <2>4. CASE ~ (j < i)
    BY <1>2, <1>3, <2>1, <2>2, <2>4
  <2> QED
    BY <2>3, <2>4
<1> QED
  BY <1>3, <1>4, <1>5, <1>6, <1>7, <1>8 DEF OnceBut

(* Initially the heap is the periodic timers. *)
LEMMA TimersStart ==
  ASSUME TimersInit
  PROVE  TimersInv
<1>1. /\ Wrap \in Nat \ {0} /\ MaxTimers \in Nat /\ Interval \in [Periodic -> 1 .. Wrap - 1]
      /\ IsFiniteSet(Periodic) /\ Cardinality(Periodic) <= MaxTimers
  BY TimersAssumption
<1>2. PICK n \in Nat : n = Cardinality(Periodic)
  BY <1>1, FS_CardinalityType
<1>3. PICK f : /\ f = SetToSeq(Periodic) /\ f \in [1 .. n -> Periodic] /\ IsInjective(f)
  <2>1. \E f : f \in Bijection(1 .. n, Periodic)
    BY <1>1, <1>2, FS_CardinalityType DEF ExistsBijection
  <2>2. \E f \in [1 .. n -> Periodic] : IsInjective(f)
    BY <2>1 DEF Bijection, Injection
  <2> QED
    BY <1>2, <2>2 DEF SetToSeq
<1>4. \A d \in Periodic : \E k \in 1 .. n : f[k] = d
  <2>1. f \in Injection(1 .. n, Periodic)
    BY <1>3 DEF Injection
  <2>2. Cardinality(1 .. n) = n
    BY FS_Interval
  <2>3. f \in Surjection(1 .. n, Periodic)
    BY <1>1, <1>2, <2>1, <2>2, FS_Injection
  <2> QED
    BY <2>3 DEF Surjection
<1>5. timers_ = [i \in 1 .. n |-> [danFd |-> f[i], left |-> Interval[f[i]]]]
  BY <1>2, <1>3 DEF TimersInit
<1>6. \A i \in 1 .. n : timers_[i] \in Timer /\ timers_[i].danFd = f[i] /\ timers_[i].left < Forever
  BY <1>1, <1>3, <1>5 DEF Timer, Forever
<1>7. timers_ \in Seq(Timer) /\ Len(timers_) = n /\ DOMAIN timers_ = 1 .. n
  <2>1. timers_ \in [1 .. n -> Timer]
    BY <1>5, <1>6
  <2> QED
    BY <2>1, SeqDef
<1>8. Bounded(timers_)
  BY <1>6, <1>7 DEF Bounded
<1>9. ASSUME NEW d \in Periodic
      PROVE  \E k \in DOMAIN timers_ : \A i \in DOMAIN timers_ : timers_[i].danFd = d <=> i = k
  <2>1. PICK k \in 1 .. n : f[k] = d
    BY <1>4
  <2>2. \A i \in 1 .. n : f[i] = d <=> i = k
    BY <1>3, <2>1 DEF IsInjective
  <2>3. k \in DOMAIN timers_ /\ \A i \in DOMAIN timers_ : timers_[i].danFd = d <=> i = k
    BY <1>6, <1>7, <2>1, <2>2
  <2> QED
    BY <2>3
<1>10. HeapOk(timers_)
  BY <1>1, <1>2, <1>7, <1>8, <1>9 DEF HeapOk, Once
<1>11. toLast \in 0 .. Wrap - 1 /\ procs = FALSE /\ ran = <<>>
  BY DEF TimersInit
<1>12. Len(ran) = 0 /\ ToSet(ran) = {}
  BY <1>11 DEF ToSet
<1>13. RunsInOrder
  BY <1>12 DEF RunsInOrder
<1>14. /\ toLast \in 0 .. Wrap - 1 /\ procs \in BOOLEAN
       /\ Len(ran) <= 1 /\ ToSet(ran) \subseteq Timer
  <2>1. toLast \in 0 .. Wrap - 1 /\ procs \in BOOLEAN /\ Len(ran) <= 1
    <3>1. Len(ran) <= 1
      BY <1>12
    <3>2. procs \in BOOLEAN
      BY <1>11
    <3> QED
      BY <1>11, <3>1, <3>2, Zenon
  <2>2. ToSet(ran) \subseteq Timer
    BY <1>12, Zenon
  <2> QED
    BY <2>1, <2>2
<1> QED
  BY <1>10, <1>13, <1>14, Zenon DEF TimersInv

(* There are no more different times left than timers. *)
LEMMA LeftsFew ==
  ASSUME NEW heap \in Seq(Timer), NEW lefts, lefts = {t.left : t \in ToSet(heap)}
  PROVE  IsFiniteSet(lefts) /\ Cardinality(lefts) <= Len(heap)
<1>1. PICK n \in Nat : n = Len(heap) /\ DOMAIN heap = 1 .. n
  OBVIOUS
<1> DEFINE f == [i \in 1 .. n |-> heap[i].left]
<1>2. f \in Surjection(1 .. n, lefts)
  BY <1>1 DEF Surjection, ToSet
<1>3. IsFiniteSet(1 .. n) /\ Cardinality(1 .. n) = n
  BY FS_Interval
<1> HIDE DEF f
<1> QED
  BY <1>1, <1>2, <1>3, FS_Surjection

(* The clock moves every timer, and the order among those that are due     *)
(* needs no more numbers than there are timers.                            *)
LEMMA TimePassesKeeps ==
  ASSUME TimersInv, TimePasses
  PROVE  TimersInv'
<1>1. /\ HeapOk(timers_) /\ toLast \in 0 .. Wrap - 1 /\ procs \in BOOLEAN
      /\ timers_ \in Seq(Timer) /\ Len(timers_) <= MaxTimers /\ Once(timers_) /\ Bounded(timers_)
      /\ Wrap \in Nat \ {0} /\ MaxTimers \in Nat
  BY TimersAssumption DEF TimersInv, HeapOk
<1>2. PICK n \in Nat : n = Len(timers_) /\ DOMAIN timers_ = 1 .. n
  BY <1>1
<1> DEFINE lefts == {t.left : t \in ToSet(timers_)}
           Left(l) == IF l = Forever THEN l
                      ELSE IF l > 0 THEN l - 1
                      ELSE - 1 - Cardinality(lefts \cap l + 1 .. 0)
<1>3. /\ timers_' = [i \in DOMAIN timers_ |-> [timers_[i] EXCEPT !.left = Left(timers_[i].left)]]
      /\ toLast' = (toLast - 1) % Wrap /\ ran' = <<>> /\ procs' = procs
  BY DEF TimePasses
<1>4. IsFiniteSet(lefts) /\ Cardinality(lefts) \in Nat /\ Cardinality(lefts) <= MaxTimers
  <2>1. IsFiniteSet(lefts) /\ Cardinality(lefts) <= n
    BY <1>1, <1>2, LeftsFew
  <2>2. Cardinality(lefts) \in Nat
    BY <2>1, FS_CardinalityType
  <2> QED
    BY <1>1, <1>2, <2>1, <2>2
<1>5. ASSUME NEW i \in 1 .. n
      PROVE  /\ Left(timers_[i].left) \in - MaxTimers .. Forever
             /\ timers_[i].left < Forever => Left(timers_[i].left) < Forever
  <2>1. PICK l \in - MaxTimers .. Forever : l = timers_[i].left
    <3>1. timers_[i] \in Timer
      BY <1>1, <1>2
    <3>2. timers_[i].left \in - MaxTimers .. Forever
      BY <3>1 DEF Timer
    <3> QED
      BY <3>2
  <2>2. CASE l > 0
    BY <1>1, <2>1, <2>2 DEF Forever
  <2>3. CASE ~ (l > 0)
    <3> DEFINE A == lefts \cap l + 1 .. 0
    <3>1. l \in lefts
      BY <1>2, <2>1 DEF ToSet
    <3>2. IsFiniteSet(lefts \ {l}) /\ Cardinality(lefts \ {l}) = Cardinality(lefts) - 1
      BY <1>4, <3>1, FS_RemoveElement
    <3>3. A \in SUBSET (lefts \ {l})
      BY <2>1
    <3>4. IsFiniteSet(A) /\ Cardinality(A) <= Cardinality(lefts) - 1
      BY <3>2, <3>3, FS_Subset
    <3>5. Cardinality(A) \in Nat
      BY <3>4, FS_CardinalityType
    <3>6. Left(l) = - 1 - Cardinality(A)
      BY <1>1, <2>1, <2>3 DEF Forever
    <3> HIDE DEF A, lefts, Left
    <3>7. Left(l) \in - MaxTimers .. Forever /\ Left(l) < Forever
      BY <1>1, <1>4, <3>4, <3>5, <3>6 DEF Forever
    <3> QED
      BY <2>1, <3>7
  <2> QED
    BY <2>2, <2>3
<1> HIDE DEF Left, lefts
<1>6. \A i \in 1 .. n : /\ timers_'[i] \in Timer
                        /\ timers_'[i].danFd = timers_[i].danFd
                        /\ timers_[i].left < Forever => timers_'[i].left < Forever
  <2> SUFFICES ASSUME NEW i \in 1 .. n
               PROVE  /\ timers_'[i] \in Timer
                      /\ timers_'[i].danFd = timers_[i].danFd
                      /\ timers_[i].left < Forever => timers_'[i].left < Forever
    OBVIOUS
  <2>1. PICK x : x = Left(timers_[i].left)
    OBVIOUS
  <2>2. timers_'[i] = [timers_[i] EXCEPT !.left = x]
    BY <1>2, <1>3, <2>1
  <2>3. timers_[i] \in Timer
    BY <1>1, <1>2
  <2> QED
    BY <1>5, <2>1, <2>2, <2>3 DEF Timer
<1>7. timers_' \in Seq(Timer) /\ Len(timers_') = n /\ DOMAIN timers_' = 1 .. n
  <2>1. timers_' \in [1 .. n -> Timer]
    BY <1>2, <1>3, <1>6
  <2> QED
    BY <2>1, SeqDef
<1>8. Bounded(timers_')
  BY <1>1, <1>2, <1>6, <1>7 DEF Bounded
<1>9. Once(timers_')
  <2>1. SUFFICES ASSUME NEW d \in Periodic
                 PROVE  \E k \in DOMAIN timers_' : \A i \in DOMAIN timers_' :
                          timers_'[i].danFd = d <=> i = k
    BY DEF Once
  <2>2. PICK k \in DOMAIN timers_ : \A i \in DOMAIN timers_ : timers_[i].danFd = d <=> i = k
    BY <1>1, Zenon DEF Once
  <2>3. k \in DOMAIN timers_' /\ \A i \in DOMAIN timers_' : timers_'[i].danFd = d <=> i = k
    BY <1>2, <1>6, <1>7, <2>2
  <2> QED
    BY <2>3
<1>10. HeapOk(timers_)'
  BY <1>1, <1>2, <1>7, <1>8, <1>9 DEF HeapOk
<1>11. toLast' \in 0 .. Wrap - 1
  BY <1>1, <1>3
<1>12. Len(ran') = 0 /\ ToSet(ran') = {}
  BY <1>3 DEF ToSet
<1> QED
  BY <1>1, <1>3, <1>10, <1>11, <1>12 DEF TimersInv, RunsInOrder

(* A timer that waits is added to the heap. *)
LEMMA AddTimerKeeps ==
  ASSUME TimersInv, NEW d \in Waiting, NEW timeoutMs \in Timeouts, AddTimer(d, timeoutMs)
  PROVE  TimersInv'
<1>1. /\ timers_ \in Seq(Timer) /\ Once(timers_) /\ Bounded(timers_)
      /\ toLast \in 0 .. Wrap - 1 /\ procs \in BOOLEAN
  BY DEF TimersInv, HeapOk
<1>2. /\ Len(timers_) < MaxTimers /\ timers_' = Added(timers_, d, timeoutMs)
      /\ ran' = <<>> /\ UNCHANGED <<toLast, procs>>
  BY DEF AddTimer
<1>3. HeapOk(timers_)'
  <2>1. HeapOk(Added(timers_, d, timeoutMs))
    <3>1. OnceBut(timers_, d)
      BY <1>1, TimersAssumption DEF Once, OnceBut
    <3> QED
      BY <1>1, <1>2, <3>1, Addition
  <2> QED
    BY <1>2, <2>1 DEF HeapOk, Once, Bounded
<1>4. Len(ran') = 0 /\ ToSet(ran') = {}
  BY <1>2 DEF ToSet
<1>5. RunsInOrder'
  BY <1>4 DEF RunsInOrder
<1>6. toLast' \in 0 .. Wrap - 1 /\ procs' \in BOOLEAN /\ Len(ran') <= 1 /\ ToSet(ran') \subseteq Timer
  BY <1>1, <1>2, <1>4
<1> QED
  BY <1>3, <1>5, <1>6, Zenon DEF TimersInv

(* What gap() takes for due is due, unless it is a timer without a timeout. *)
LEMMA GapExact ==
  ASSUME NEW t \in Timer, t.left < Forever, Gap(t) = 0
  PROVE  t.left <= 0
<1>1. t.left \in Int /\ Wrap \in Nat \ {0} /\ MaxTimers \in Nat
  BY TimersAssumption DEF Timer, Forever
<1>2. PICK l \in Int : l = t.left
  BY <1>1
<1>3. ASSUME l > 0
      PROVE  FALSE
  <2>1. l \in 1 .. Wrap - 1
    BY <1>1, <1>2, <1>3 DEF Forever
  <2>2. Gap(t) = (- l) % Wrap
    BY <1>1, <1>2, <1>3, <2>1 DEF Gap, Forever
  <2> QED
    BY <2>1, <2>2, NoMultiple
<1> QED
  BY <1>2, <1>3

(* procTimers runs the timer at the front; a periodic one goes back in.    *)
LEMMA RunTimerKeeps ==
  ASSUME TimersInv, RunTimer
  PROVE  TimersInv'
<1>1. /\ HeapOk(timers_) /\ timers_ \in Seq(Timer) /\ Once(timers_) /\ Bounded(timers_)
      /\ toLast \in 0 .. Wrap - 1 /\ procs \in BOOLEAN
      /\ Wrap \in Nat \ {0} /\ MaxTimers \in Nat /\ Interval \in [Periodic -> 1 .. Wrap - 1]
      /\ Periodic \cap Waiting = {}
  BY TimersAssumption DEF TimersInv, HeapOk
<1>2. PICK i \in Fronts :
        /\ Gap(timers_[i]) = 0
        /\ timers_' = IF timers_[i].danFd \in Periodic
                        THEN AddAgain(RemoveAt(timers_, i), timers_[i].danFd)
                        ELSE RemoveAt(timers_, i)
        /\ ran' = <<timers_[i]>>
  BY DEF RunTimer
<1>3. UNCHANGED <<toLast, procs>>
  BY DEF RunTimer
<1>4. i \in DOMAIN timers_ /\ \A j \in DOMAIN timers_ : timers_[i].left <= timers_[j].left
  BY <1>2 DEF Fronts
<1>5. PICK t \in Timer : t = timers_[i]
  BY <1>1, <1>4
<1>6. PICK popped : popped = RemoveAt(timers_, i)
  OBVIOUS
<1>7. /\ popped \in Seq(Timer) /\ Len(popped) < MaxTimers /\ Bounded(popped)
      /\ ToSet(popped) \subseteq ToSet(timers_) /\ OnceBut(popped, t.danFd)
  BY <1>1, <1>4, <1>5, <1>6, Taken
<1>8. /\ HeapOk(timers_')
      /\ \A u \in ToSet(timers_') : u \in ToSet(timers_) \/ 1 <= u.left
  <2>1. CASE t.danFd \in Periodic
    <3> DEFINE new == [danFd |-> t.danFd, left |-> Interval[t.danFd]]
    <3>1. Interval[t.danFd] \in 1 .. Wrap - 1
      BY <1>1, <2>1
    <3>2. timers_' = Added(popped, t.danFd, Interval[t.danFd])
      BY <1>2, <1>5, <1>6, <2>1 DEF AddAgain
    <3>3. timers_' = Append(popped, new)
      BY <1>1, <3>1, <3>2 DEF Added
    <3>4. HeapOk(timers_')
      <4>1. PICK d, timeoutMs : d = t.danFd /\ timeoutMs = Interval[t.danFd]
        OBVIOUS
      <4>2. d \in Periodic /\ timeoutMs = Interval[d] /\ OnceBut(popped, d)
        BY <1>7, <2>1, <4>1
      <4>3. HeapOk(Added(popped, d, timeoutMs))
        BY <1>7, <4>2, Addition
      <4> QED
        BY <3>2, <4>1, <4>3
    <3> HIDE DEF new
    <3>5. PICK n \in Nat : n = Len(popped) /\ DOMAIN popped = 1 .. n
      BY <1>7
    <3>6. DOMAIN timers_' = 1 .. n + 1 /\ \A j \in 1 .. n : timers_'[j] = popped[j]
      BY <1>7, <3>3, <3>5
    <3>7. timers_'[n + 1] = new
      BY <1>7, <3>3, <3>5
    <3>8. \A u \in ToSet(timers_') : u = new \/ u \in ToSet(popped)
      BY <3>5, <3>6, <3>7 DEF ToSet
    <3>9. 1 <= new.left
      BY <1>1, <3>1 DEF new
    <3> QED
      BY <1>7, <3>4, <3>8, <3>9
  <2>2. CASE t.danFd \notin Periodic
    <3>1. timers_' = popped
      BY <1>2, <1>5, <1>6, <2>2
    <3>2. Once(popped)
      BY <1>7, <2>2 DEF Once, OnceBut
    <3>3. Len(popped) <= MaxTimers
      BY <1>1, <1>7
    <3> QED
      BY <1>7, <3>1, <3>2, <3>3 DEF HeapOk
  <2> QED
    BY <2>1, <2>2
<1>9. ran' = <<t>> /\ Len(ran') = 1 /\ ToSet(ran') = {t}
  BY <1>2, <1>5 DEF ToSet
<1>10. ASSUME Periodic # {}
       PROVE  RunsInOrder'
  <2>1. PICK d \in Periodic, k \in DOMAIN timers_ : timers_[k].danFd = d
    BY <1>1, <1>10 DEF Once
  <2>2. timers_[k].left < Forever /\ timers_[k].left \in Int /\ t.left <= timers_[k].left
    <3>1. timers_[k].left < Forever
      BY <1>1, <2>1 DEF Bounded
    <3>2. timers_[k] \in Timer
      BY <1>1, <2>1
    <3>3. timers_[k].left \in Int
      BY <1>1, <3>2 DEF Timer, Forever
    <3> QED
      BY <1>4, <1>5, <2>1, <3>1, <3>3
  <2>3. t.left \in Int /\ t.left < Forever
    BY <1>1, <2>2 DEF Timer, Forever
  <2>4. t.left <= 0
    BY <1>2, <1>5, <2>3, GapExact
  <2>5. \A u \in ToSet(timers_) : t.left <= u.left
    BY <1>4, <1>5 DEF ToSet
  <2>6. \A u \in ToSet(timers_') : t.left <= u.left
    <3>1. ToSet(timers_') \subseteq Timer
      BY <1>8 DEF HeapOk, ToSet
    <3> SUFFICES ASSUME NEW u \in ToSet(timers_')
                 PROVE  t.left <= u.left
      OBVIOUS
    <3>2. u.left \in Int
      BY <1>1, <3>1 DEF Timer, Forever
    <3> QED
      BY <1>8, <2>3, <2>4, <2>5, <3>2
  <2> QED
    BY <1>9, <2>4, <2>6 DEF RunsInOrder
<1>11. toLast' \in 0 .. Wrap - 1 /\ procs' \in BOOLEAN /\ Len(ran') <= 1
  BY <1>1, <1>3, <1>9
<1>12. ToSet(ran') \subseteq Timer
  BY <1>9
<1>13. HeapOk(timers_)'
  BY <1>8 DEF HeapOk, Once, Bounded
<1> QED
  BY <1>10, <1>11, <1>12, <1>13, Zenon DEF TimersInv

(* Entering and leaving procTimers moves no timer. *)
LEMMA ProcTimersKeeps ==
  ASSUME TimersInv, ProcTimers \/ ProcTimersDone
  PROVE  TimersInv'
<1>1. HeapOk(timers_) /\ toLast \in 0 .. Wrap - 1
  BY DEF TimersInv
<1>2. ran' = <<>> /\ procs' \in BOOLEAN /\ UNCHANGED <<timers_, toLast>>
  BY DEF ProcTimers, ProcTimersDone
<1>3. Len(ran') = 0 /\ ToSet(ran') = {}
  BY <1>2 DEF ToSet
<1>4. RunsInOrder'
  BY <1>3 DEF RunsInOrder
<1>5. HeapOk(timers_)'
  BY <1>1, <1>2 DEF HeapOk, Once, Bounded
<1>6. toLast' \in 0 .. Wrap - 1 /\ procs' \in BOOLEAN /\ Len(ran') <= 1 /\ ToSet(ran') \subseteq Timer
  BY <1>1, <1>2, <1>3
<1> QED
  BY <1>4, <1>5, <1>6, Zenon DEF TimersInv

(* The timers' invariant holds, whatever the other parts do. *)
THEOREM TimersInductive == Spec => []TimersInv
<1>1. Init => TimersInv
  BY TimersStart DEF Init
<1>2. TimersInv /\ [Next]_vars => TimersInv'
  <2> SUFFICES ASSUME TimersInv, [Next]_vars
               PROVE  TimersInv'
    OBVIOUS
  <2>1. CASE TimersNext
    <3>1. CASE TimePasses
      BY <3>1, TimePassesKeeps
    <3>2. CASE \E d \in Waiting, timeoutMs \in Timeouts : AddTimer(d, timeoutMs)
      BY <3>2, AddTimerKeeps
    <3>3. CASE RunTimer
      BY <3>3, RunTimerKeeps
    <3>4. CASE ProcTimers \/ ProcTimersDone
      BY <3>4, ProcTimersKeeps
    <3> QED
      BY <2>1, <3>1, <3>2, <3>3, <3>4 DEF TimersNext, Loop
  <2>2. CASE UNCHANGED timersVars
    BY <2>2 DEF timersVars, TimersInv, HeapOk, Once, Bounded, RunsInOrder
  <2> QED
    BY <2>1, <2>2 DEF Next, TimersStep, OfTimers, HeapStep, MysqlStep, Ended, vars
<1> QED
  BY <1>1, <1>2, PTL DEF Spec

(* procTimers runs only what is due, the first due first, although gap()   *)
(* keeps 32 bits of a 64-bit difference; it needs a periodic timer, which  *)
(* danNet creates with its message tick, in front of those that have no    *)
(* timeout.                                                                *)
THEOREM TimersRunInOrder ==
  ASSUME Periodic # {}
  PROVE  Spec => []RunsInOrder
<1>1. TimersInv => RunsInOrder
  BY DEF TimersInv
<1> QED
  BY <1>1, TimersInductive, PTL

(* Every part of the invariants of the timers and the client has its type. *)
THEOREM TypeCorrect == Spec => []TypeOK
<1>1. TimersInv /\ MysqlInv => TypeOK
  BY TimersTyped DEF MysqlInv, TypeOK
<1> QED
  BY <1>1, TimersInductive, MysqlInductive, PTL

-----------------------------------------------------------------------------
(* The memory of the stacks. *)

(* The fields of an object that was built, whatever was asked for. *)
Built(r) ==
  /\ r.raw \in Nat /\ r.asked \in Nat \ {0} /\ r.needProtect_ \in BOOLEAN
  /\ r.heapSize_ = r.asked
  /\ r.ptr = IF r.needProtect_ THEN r.raw + 1 ELSE r.raw
  /\ r.needProtect_ => r.asked % PageSize = 0

(* The pages it has mapped, and the ones of them it protects. *)
Span(r) == PagesOf(r.raw, Mapped(r.heapSize_, r.needProtect_))
Ends(r) == IF r.needProtect_ THEN Guards(r.raw, r.heapSize_) ELSE {}

(* No page belongs to two objects; an object's pages are as it left them;  *)
(* a page that belongs to none is not mapped.                              *)
HeapInv ==
  /\ DOMAIN page = 0 .. Pages - 1
  /\ IsFiniteSet(DOMAIN heaps)
  /\ aborted # 0 => aborted \in HeapSizes /\ aborted % PageSize # 0
  /\ \A h \in DOMAIN heaps : Built(heaps[h]) /\ Span(heaps[h]) \subseteq DOMAIN page
  /\ \A g, h \in DOMAIN heaps : g # h => Span(heaps[g]) \cap Span(heaps[h]) = {}
  /\ \A h \in DOMAIN heaps : \A n \in Span(heaps[h]) :
       page[n] = IF n \in Ends(heaps[h]) THEN "none" ELSE "rw"
  /\ \A n \in DOMAIN page : page[n] = "unmapped" \/ \E h \in DOMAIN heaps : n \in Span(heaps[h])

(* Two pages more are two pages more, and whole pages are rounded to       *)
(* themselves. *)
LEMMA PagesCounted ==
  ASSUME NEW bytes \in Nat
  PROVE  /\ (bytes + PageSize - 1) \div PageSize \in Nat
         /\ (bytes + PageSize * 2 + PageSize - 1) \div PageSize =
              (bytes + PageSize - 1) \div PageSize + 2
         /\ bytes % PageSize = 0 =>
              bytes \div PageSize = (bytes + PageSize - 1) \div PageSize
  BY HeapAssumption

(* The usable pages are those between the two protected ones. *)
LEMMA Laid ==
  ASSUME NEW r, Built(r)
  PROVE  /\ PagesOf(r.ptr, r.asked) = Span(r) \ Ends(r)
         /\ Ends(r) \subseteq Span(r)
         /\ r.needProtect_ => LET last == r.ptr + r.asked \div PageSize
                              IN  /\ Ends(r) = {r.raw, last} /\ r.raw = r.ptr - 1
                                  /\ r.raw # last
<1>1. /\ r.raw \in Nat /\ r.asked \in Nat /\ r.needProtect_ \in BOOLEAN /\ r.heapSize_ = r.asked
      /\ r.ptr = IF r.needProtect_ THEN r.raw + 1 ELSE r.raw
      /\ r.needProtect_ => r.asked % PageSize = 0
  BY DEF Built
<1>2. PICK raw \in Nat, w \in Nat :
        raw = r.raw /\ w = (r.asked + PageSize - 1) \div PageSize
  BY <1>1, PagesCounted
<1>3. CASE r.needProtect_
  <2>1. r.asked \div PageSize = w
    BY <1>1, <1>2, <1>3, PagesCounted
  <2>2. r.ptr = raw + 1
    BY <1>1, <1>2, <1>3
  <2>3. PagesOf(r.ptr, r.asked) = raw + 1 .. raw + w
    BY <1>2, <2>2 DEF PagesOf
  <2>4. Span(r) = raw .. raw + w + 1
    <3>1. (r.asked + PageSize * 2 + PageSize - 1) \div PageSize = w + 2
      BY <1>1, <1>2, PagesCounted
    <3>2. Span(r) = raw .. raw + (w + 2) - 1
      BY <1>1, <1>2, <1>3, <3>1 DEF Span, PagesOf, Mapped
    <3> QED
      BY <3>2
  <2>5. Ends(r) = {raw, raw + 1 + w}
    BY <1>1, <1>2, <1>3, <2>1 DEF Ends, Guards
  <2> QED
    BY <1>2, <1>3, <2>1, <2>2, <2>3, <2>4, <2>5
<1>4. CASE ~ r.needProtect_
  <2>1. r.ptr = raw /\ Ends(r) = {} /\ Mapped(r.heapSize_, r.needProtect_) = r.asked
    BY <1>1, <1>2, <1>4 DEF Ends, Mapped
  <2> QED
    BY <1>2, <1>4, <2>1 DEF Span
<1> QED
  BY <1>1, <1>3, <1>4

(* Building an object that is not there yet. *)
LEMMA BuildKeeps ==
  ASSUME HeapInv, aborted = 0, NEW h, h \notin DOMAIN heaps,
         NEW heapSize \in HeapSizes, NEW needProtect \in BOOLEAN, Build(h, heapSize, needProtect)
  PROVE  HeapInv'
<1>1. Rounded(0, heapSize) = heapSize /\ heapSize \in Nat \ {0} /\ PageSize \in Nat \ {0}
      /\ Pages \in Nat
  BY HeapAssumption DEF Rounded
<1>2. PICK raw \in DOMAIN page :
        LET mapped == PagesOf(raw, Mapped(heapSize, needProtect))
        IN  /\ Unmapped(mapped)
            /\ IF needProtect /\ ~ CanProtect(raw, heapSize, mapped)
                 THEN aborted' = heapSize /\ UNCHANGED <<page, heaps>>
                 ELSE /\ page' = [n \in DOMAIN page |->
                           IF needProtect /\ n \in Guards(raw, heapSize) THEN "none"
                           ELSE IF n \in mapped THEN "rw" ELSE page[n]]
                      /\ heaps' = [g \in DOMAIN heaps \cup {h} |->
                           IF g # h THEN heaps[g]
                           ELSE [raw |-> raw, asked |-> heapSize, heapSize_ |-> heapSize,
                                 ptr |-> IF needProtect THEN raw + 1 ELSE raw,
                                 needProtect_ |-> needProtect]]
                      /\ UNCHANGED aborted
  BY <1>1 DEF Build
<1> DEFINE mapped == PagesOf(raw, Mapped(heapSize, needProtect))
           r == [raw |-> raw, asked |-> heapSize, heapSize_ |-> heapSize,
                 ptr |-> IF needProtect THEN raw + 1 ELSE raw, needProtect_ |-> needProtect]
<1>3. DOMAIN page = 0 .. Pages - 1 /\ raw \in Nat
  BY <1>1, <1>2 DEF HeapInv
<1>4. Unmapped(mapped)
  BY <1>2
<1>5. /\ r.raw = raw /\ r.asked = heapSize /\ r.heapSize_ = heapSize /\ r.needProtect_ = needProtect
      /\ r.ptr = IF needProtect THEN raw + 1 ELSE raw
      /\ Span(r) = mapped /\ Ends(r) = IF needProtect THEN Guards(raw, heapSize) ELSE {}
  BY DEF Span, Ends
<1>6. CASE needProtect /\ ~ CanProtect(raw, heapSize, mapped)
  <2>1. aborted' = heapSize /\ UNCHANGED <<page, heaps>>
    BY <1>2, <1>6
  <2>2. ASSUME heapSize % PageSize = 0
        PROVE  FALSE
    <3>1. Built(r)
      BY <1>1, <1>3, <1>5, <2>2 DEF Built
    <3>2. Ends(r) \subseteq Span(r)
      <4> HIDE DEF r
      <4> QED
        BY <3>1, Laid
    <3> HIDE DEF r, mapped
    <3>3. Guards(raw, heapSize) \subseteq mapped
      BY <1>5, <1>6, <3>2
    <3> QED
      BY <1>6, <2>2, <3>3 DEF CanProtect
  <2> QED
    BY <2>1, <2>2 DEF HeapInv
<1>7. CASE ~ (needProtect /\ ~ CanProtect(raw, heapSize, mapped))
  <2>1. /\ page' = [n \in DOMAIN page |->
             IF needProtect /\ n \in Guards(raw, heapSize) THEN "none"
             ELSE IF n \in mapped THEN "rw" ELSE page[n]]
        /\ heaps' = [g \in DOMAIN heaps \cup {h} |-> IF g # h THEN heaps[g] ELSE r]
        /\ aborted' = aborted
    BY <1>2, <1>7
  <2>2. needProtect => heapSize % PageSize = 0
    BY <1>7 DEF CanProtect
  <2>3. Built(r)
    BY <1>1, <1>3, <1>5, <2>2 DEF Built
  <2>4. Ends(r) \subseteq Span(r)
    BY <2>3, Laid
  <2> HIDE DEF mapped
  <2>5. /\ DOMAIN heaps' = DOMAIN heaps \cup {h} /\ heaps'[h] = r
        /\ \A g \in DOMAIN heaps : heaps'[g] = heaps[g]
    <3> HIDE DEF r
    <3> QED
      BY <2>1
  <2> HIDE DEF r
  <2>6. DOMAIN page' = DOMAIN page
    BY <2>1
  <2>7. \A n \in Span(r) : n \in DOMAIN page /\ page[n] = "unmapped"
    BY <1>4, <1>5 DEF Unmapped
  <2>8. ASSUME NEW n \in Span(r)
        PROVE  page'[n] = IF n \in Ends(r) THEN "none" ELSE "rw"
    <3>1. CASE n \in Ends(r)
      <4>1. needProtect /\ n \in Guards(raw, heapSize)
        BY <1>5, <3>1
      <4> QED
        BY <2>1, <2>7, <3>1, <4>1
    <3>2. CASE n \notin Ends(r)
      BY <1>5, <2>1, <2>7, <3>2
    <3> QED
      BY <3>1, <3>2
  <2>9. ASSUME NEW n \in DOMAIN page, n \notin Span(r)
        PROVE  page'[n] = page[n]
    BY <1>5, <2>1, <2>4, <2>9
  <2>10. \A g \in DOMAIN heaps : Span(heaps[g]) \cap Span(r) = {}
    <3> SUFFICES ASSUME NEW g \in DOMAIN heaps, NEW n \in Span(heaps[g]), n \in Span(r)
                 PROVE  FALSE
      OBVIOUS
    <3>1. page[n] = IF n \in Ends(heaps[g]) THEN "none" ELSE "rw"
      BY DEF HeapInv
    <3> QED
      BY <2>7, <3>1
  <2>11. /\ DOMAIN page' = 0 .. Pages - 1 /\ IsFiniteSet(DOMAIN heaps')
         /\ (aborted # 0 => aborted \in HeapSizes /\ aborted % PageSize # 0)'
    BY <2>1, <2>5, <2>6, FS_AddElement DEF HeapInv
  <2>12. \A g \in DOMAIN heaps' : Built(heaps'[g]) /\ Span(heaps'[g]) \subseteq DOMAIN page'
    BY <2>3, <2>5, <2>6, <2>7 DEF HeapInv
  <2>13. \A f, g \in DOMAIN heaps' : f # g => Span(heaps'[f]) \cap Span(heaps'[g]) = {}
    BY <2>5, <2>10 DEF HeapInv
  <2>14. ASSUME NEW g \in DOMAIN heaps', NEW n \in Span(heaps'[g])
         PROVE  page'[n] = IF n \in Ends(heaps'[g]) THEN "none" ELSE "rw"
    <3>1. CASE g = h
      BY <2>5, <2>8, <3>1
    <3>2. CASE g # h
      <4>1. g \in DOMAIN heaps /\ heaps'[g] = heaps[g]
        BY <2>5, <3>2
      <4>2. n \in DOMAIN page /\ n \notin Span(r)
        BY <2>10, <4>1 DEF HeapInv
      <4>3. page[n] = IF n \in Ends(heaps[g]) THEN "none" ELSE "rw"
        BY <4>1 DEF HeapInv
      <4> QED
        BY <2>9, <4>1, <4>2, <4>3
    <3> QED
      BY <3>1, <3>2
  <2>15. ASSUME NEW n \in DOMAIN page'
         PROVE  page'[n] = "unmapped" \/ \E g \in DOMAIN heaps' : n \in Span(heaps'[g])
    <3>1. CASE n \in Span(r)
      BY <2>5, <3>1
    <3>2. CASE n \notin Span(r)
      BY <2>5, <2>6, <2>9, <3>2 DEF HeapInv
    <3> QED
      BY <3>1, <3>2
  <2> QED
    BY <2>11, <2>12, <2>13, <2>14, <2>15 DEF HeapInv
<1> QED
  BY <1>6, <1>7

(* Destroying an object gives back all its pages, and no other. *)
LEMMA DestroyKeeps ==
  ASSUME HeapInv, NEW h \in DOMAIN heaps, Destroy(h)
  PROVE  HeapInv'
<1>1. /\ page' = [n \in DOMAIN page |-> IF n \in Span(heaps[h]) THEN "unmapped" ELSE page[n]]
      /\ heaps' = [g \in DOMAIN heaps \ {h} |-> heaps[g]]
      /\ aborted' = aborted
  BY DEF Destroy, Span
<1>2. DOMAIN page' = DOMAIN page /\ DOMAIN heaps' = DOMAIN heaps \ {h}
  BY <1>1
<1>3. \A g \in DOMAIN heaps' : g \in DOMAIN heaps /\ g # h /\ heaps'[g] = heaps[g]
  BY <1>1
<1>4. /\ DOMAIN page' = 0 .. Pages - 1 /\ IsFiniteSet(DOMAIN heaps')
      /\ (aborted # 0 => aborted \in HeapSizes /\ aborted % PageSize # 0)'
  BY <1>1, <1>2, FS_RemoveElement DEF HeapInv
<1>5. \A g \in DOMAIN heaps' : Built(heaps'[g]) /\ Span(heaps'[g]) \subseteq DOMAIN page'
  BY <1>2, <1>3 DEF HeapInv
<1>6. \A f, g \in DOMAIN heaps' : f # g => Span(heaps'[f]) \cap Span(heaps'[g]) = {}
  BY <1>3 DEF HeapInv
<1>7. ASSUME NEW g \in DOMAIN heaps', NEW n \in Span(heaps'[g])
      PROVE  page'[n] = IF n \in Ends(heaps'[g]) THEN "none" ELSE "rw"
  <2>1. n \in DOMAIN page /\ n \notin Span(heaps[h])
    BY <1>3 DEF HeapInv
  <2>2. page[n] = IF n \in Ends(heaps[g]) THEN "none" ELSE "rw"
    BY <1>3 DEF HeapInv
  <2> QED
    BY <1>1, <1>3, <2>1, <2>2
<1>8. ASSUME NEW n \in DOMAIN page'
      PROVE  page'[n] = "unmapped" \/ \E g \in DOMAIN heaps' : n \in Span(heaps'[g])
  <2>1. CASE n \in Span(heaps[h])
    BY <1>1, <1>2, <2>1
  <2>2. CASE n \notin Span(heaps[h])
    <3>1. page[n] = "unmapped" \/ \E g \in DOMAIN heaps : n \in Span(heaps[g])
      BY <1>2 DEF HeapInv
    <3> QED
      BY <1>1, <1>2, <1>3, <2>2, <3>1
  <2> QED
    BY <2>1, <2>2
<1> QED
  BY <1>4, <1>5, <1>6, <1>7, <1>8 DEF HeapInv

(* An object's own pages, and what else the invariant says of it. *)
LEMMA HeapGuarded ==
  ASSUME HeapInv, NEW h \in DOMAIN heaps
  PROVE  /\ Usable(h) = Span(heaps[h]) \ Ends(heaps[h])
         /\ \A n \in Usable(h) : page[n] = "rw"
         /\ \A g \in DOMAIN heaps \ {h} : Usable(g) \cap Usable(h) = {}
         /\ heaps[h].needProtect_ =>
              /\ page[heaps[h].ptr - 1] = "none"
              /\ heaps[h].asked % PageSize = 0
              /\ page[heaps[h].ptr + heaps[h].asked \div PageSize] = "none"
<1>1. \A g \in DOMAIN heaps : Usable(g) = Span(heaps[g]) \ Ends(heaps[g])
  <2> SUFFICES ASSUME NEW g \in DOMAIN heaps
               PROVE  Usable(g) = Span(heaps[g]) \ Ends(heaps[g])
    OBVIOUS
  <2>1. PICK r : r = heaps[g]
    OBVIOUS
  <2>2. Built(r)
    BY <2>1 DEF HeapInv
  <2> QED
    BY <2>1, <2>2, Laid DEF Usable
<1>2. \A n \in Usable(h) : page[n] = "rw"
  BY <1>1 DEF HeapInv
<1>3. \A g \in DOMAIN heaps \ {h} : Usable(g) \cap Usable(h) = {}
  BY <1>1 DEF HeapInv
<1>4. ASSUME heaps[h].needProtect_
      PROVE  /\ page[heaps[h].ptr - 1] = "none"
             /\ heaps[h].asked % PageSize = 0
             /\ page[heaps[h].ptr + heaps[h].asked \div PageSize] = "none"
  <2>1. PICK r : r = heaps[h]
    OBVIOUS
  <2>2. Built(r) /\ \A n \in Span(r) : page[n] = IF n \in Ends(r) THEN "none" ELSE "rw"
    BY <2>1 DEF HeapInv
  <2>3. PICK last : last = r.ptr + r.asked \div PageSize
    OBVIOUS
  <2>4. Ends(r) \subseteq Span(r) /\ Ends(r) = {r.raw, last} /\ r.raw = r.ptr - 1
    BY <1>4, <2>1, <2>2, <2>3, Laid
  <2>5. page[r.ptr - 1] = "none" /\ page[last] = "none"
    BY <2>2, <2>4
  <2> QED
    BY <1>4, <2>1, <2>2, <2>3, <2>5 DEF Built
<1> QED
  BY <1>1, <1>2, <1>3, <1>4

(* What is mapped is the usable pages, and two more of every protected     *)
(* object. *)
LEMMA HeapCounted ==
  ASSUME HeapInv
  PROVE  Cardinality({n \in DOMAIN page : page[n] # "unmapped"}) =
           Cardinality(UNION {Usable(h) : h \in DOMAIN heaps})
             + 2 * Cardinality({h \in DOMAIN heaps : heaps[h].needProtect_})
<1> DEFINE mapped == {n \in DOMAIN page : page[n] # "unmapped"}
           usable == UNION {Usable(h) : h \in DOMAIN heaps}
           guarded == {h \in DOMAIN heaps : heaps[h].needProtect_}
           Behind(h) == heaps[h].ptr + heaps[h].asked \div PageSize
           firsts == {heaps[h].raw : h \in guarded}
           lasts == {Behind(h) : h \in guarded}
<1>1. \A h \in DOMAIN heaps : Usable(h) = Span(heaps[h]) \ Ends(heaps[h])
  BY HeapGuarded
<1>2. ASSUME NEW h \in DOMAIN heaps
      PROVE  /\ Ends(heaps[h]) \subseteq Span(heaps[h])
             /\ heaps[h].needProtect_ =>
                  Ends(heaps[h]) = {heaps[h].raw, Behind(h)} /\ heaps[h].raw # Behind(h)
             /\ ~ heaps[h].needProtect_ => Ends(heaps[h]) = {}
  <2>1. PICK r : r = heaps[h]
    OBVIOUS
  <2>2. Built(r)
    BY <2>1 DEF HeapInv
  <2>3. ~ r.needProtect_ => Ends(r) = {}
    BY DEF Ends
  <2> QED
    BY <2>1, <2>2, <2>3, Laid
<1> HIDE DEF Behind
<1>3. \A g, h \in DOMAIN heaps : g # h => Span(heaps[g]) \cap Span(heaps[h]) = {}
  BY DEF HeapInv
<1>4. mapped = usable \cup (firsts \cup lasts)
  <2>1. ASSUME NEW n \in mapped
        PROVE  n \in usable \cup (firsts \cup lasts)
    <3>1. PICK h \in DOMAIN heaps : n \in Span(heaps[h])
      BY DEF HeapInv
    <3>2. CASE n \in Ends(heaps[h])
      BY <1>2, <3>1, <3>2
    <3>3. CASE n \notin Ends(heaps[h])
      BY <1>1, <3>1, <3>3
    <3> QED
      BY <3>2, <3>3
  <2>2. ASSUME NEW h \in DOMAIN heaps, NEW n \in Span(heaps[h])
        PROVE  n \in mapped
    BY DEF HeapInv
  <2>3. usable \subseteq mapped
    BY <1>1, <2>2
  <2>4. firsts \subseteq mapped /\ lasts \subseteq mapped
    BY <1>2, <2>2
  <2> QED
    BY <2>1, <2>3, <2>4
<1>5. usable \cap (firsts \cup lasts) = {}
  BY <1>1, <1>2, <1>3
<1>6. firsts \cap lasts = {}
  BY <1>2, <1>3
<1>7. IsFiniteSet(guarded)
  BY FS_Subset DEF HeapInv
<1>8. IsFiniteSet(firsts) /\ Cardinality(firsts) = Cardinality(guarded)
  <2> DEFINE f == [h \in guarded |-> heaps[h].raw]
  <2>1. f \in Surjection(guarded, firsts)
    BY DEF Surjection
  <2>2. f \in Injection(guarded, firsts)
    BY <1>2, <1>3 DEF Injection, IsInjective
  <2>3. ExistsBijection(guarded, firsts)
    BY <2>1, <2>2 DEF ExistsBijection, Bijection
  <2> QED
    BY <1>7, <2>3, FS_Bijection
<1>9. IsFiniteSet(lasts) /\ Cardinality(lasts) = Cardinality(guarded)
  <2> DEFINE f == [h \in guarded |-> Behind(h)]
  <2>1. f \in Surjection(guarded, lasts)
    BY DEF Surjection
  <2>2. f \in Injection(guarded, lasts)
    BY <1>2, <1>3 DEF Injection, IsInjective
  <2>3. ExistsBijection(guarded, lasts)
    BY <2>1, <2>2 DEF ExistsBijection, Bijection
  <2> QED
    BY <1>7, <2>3, FS_Bijection
<1>10. IsFiniteSet(usable)
  <2>1. IsFiniteSet(DOMAIN page)
    BY FS_Interval, HeapAssumption DEF HeapInv
  <2>2. usable \subseteq DOMAIN page
    BY <1>4
  <2> QED
    BY <2>1, <2>2, FS_Subset
<1> HIDE DEF mapped, usable, guarded, firsts, lasts
<1>11. IsFiniteSet(firsts \cup lasts) /\ Cardinality(firsts \cup lasts) = 2 * Cardinality(guarded)
  <2>1. Cardinality(guarded) \in Nat
    BY <1>7, FS_CardinalityType
  <2>2. /\ IsFiniteSet(firsts \cup lasts)
        /\ Cardinality(firsts \cup lasts) =
             Cardinality(firsts) + Cardinality(lasts) - Cardinality(firsts \cap lasts)
    BY <1>8, <1>9, FS_Union
  <2>3. Cardinality(firsts \cap lasts) = 0
    BY <1>6, FS_EmptySet, Zenon
  <2>4. PICK c \in Nat : c = Cardinality(guarded)
    BY <2>1
  <2>5. Cardinality(firsts \cup lasts) = c + c - 0
    BY <1>8, <1>9, <2>2, <2>3, <2>4, Zenon
  <2> QED
    BY <2>2, <2>4, <2>5
<1>12. Cardinality(mapped) = Cardinality(usable) + 2 * Cardinality(guarded)
  <2>1. Cardinality(usable) \in Nat /\ Cardinality(guarded) \in Nat
    BY <1>7, <1>10, FS_CardinalityType
  <2>2. Cardinality(usable \cup (firsts \cup lasts)) =
          Cardinality(usable) + Cardinality(firsts \cup lasts)
            - Cardinality(usable \cap (firsts \cup lasts))
    BY <1>10, <1>11, FS_Union
  <2>3. Cardinality(usable \cap (firsts \cup lasts)) = 0
    BY <1>5, FS_EmptySet, Zenon
  <2>4. Cardinality(mapped) = Cardinality(usable) + 2 * Cardinality(guarded) - 0
    BY <1>4, <1>11, <2>2, <2>3, Zenon
  <2> QED
    BY <2>1, <2>4
<1> QED
  BY <1>12 DEF mapped, usable, guarded

(* The invariant of the memory holds, whatever the other parts do. *)
THEOREM HeapInductive == Spec => []HeapInv
<1>1. Init => HeapInv
  <2> SUFFICES ASSUME HeapInit
               PROVE  HeapInv
    BY DEF Init
  <2>1. /\ page = [n \in 0 .. Pages - 1 |-> "unmapped"] /\ DOMAIN heaps = {} /\ aborted = 0
    BY DEF HeapInit
  <2> QED
    BY <2>1, FS_EmptySet DEF HeapInv
<1>2. HeapInv /\ [Next]_vars => HeapInv'
  <2> SUFFICES ASSUME HeapInv, [Next]_vars
               PROVE  HeapInv'
    OBVIOUS
  <2>1. CASE HeapNext
    <3>1. CASE \E h \in Heaps \ DOMAIN heaps, heapSize \in HeapSizes, needProtect \in BOOLEAN :
                 Build(h, heapSize, needProtect)
      BY <2>1, <3>1, BuildKeeps DEF HeapNext
    <3>2. CASE \E h \in DOMAIN heaps : Destroy(h)
      BY <3>2, DestroyKeeps
    <3> QED
      BY <2>1, <3>1, <3>2 DEF HeapNext
  <2>2. CASE UNCHANGED heapVars
    BY <2>2 DEF heapVars, HeapInv
  <2> QED
    BY <2>1, <2>2 DEF Next, TimersStep, OfTimers, HeapStep, MysqlStep, Ended, vars
<1> QED
  BY <1>1, <1>2, PTL DEF Spec

(* A coroutine's stack is its own, between two pages nobody may touch; and *)
(* what is mapped belongs to a stack that exists (dan_heap.hpp:28-82).     *)
THEOREM StacksGuarded == Spec => []StackGuarded
<1>1. HeapInv => StackGuarded
  BY HeapGuarded, HeapCounted DEF StackGuarded
<1> QED
  BY <1>1, HeapInductive, PTL

(* No assertion of danHeapAlloc fails if all the sizes asked for are of    *)
(* whole pages, as DAN_HEAP_SIZE is: for a protected stack of any other    *)
(* one does (dan_heap.hpp:35-63).                                          *)
THEOREM WholePagesProtected ==
  ASSUME \A heapSize \in HeapSizes : heapSize % PageSize = 0
  PROVE  Spec => []SizesRounded
<1>1. HeapInv => SizesRounded
  BY DEF HeapInv, SizesRounded
<1> QED
  BY <1>1, HeapInductive, PTL

=============================================================================
