-------------------------- MODULE SqlGuardrailProofs --------------------------
(***************************************************************************)
(* What the guardrail promises for texts of any length, over any words.    *)
(***************************************************************************)
EXTENDS SqlGate, FiniteSetTheorems, SequenceTheorems, TLAPS

(* A mark that folding does not touch is in the text before and after it.  *)
LEMMA FoldKeepsPunctuation ==
    ASSUME NEW w \in Punctuation
    PROVE  Fold(w) = w
BY SqlAssumption DEF Fold

(* Cleaning what has been cleaned and holds no semicolon changes nothing,  *)
(* so both layers look at the same text.                                   *)
LEMMA CleanedOnce ==
    ASSUME NEW s, ~Occur(Canonical(s), {";"})
    PROVE  Cleaned(s) = s
<1>1. Fold(";") = ";"
  BY FoldKeepsPunctuation DEF Punctuation
<1>2. ~At(s, Len(s), ";")
  BY <1>1 DEF At, Occur, Canonical
<1> QED
  BY <1>2 DEF Cleaned

(* The executor accepts whatever the guardrail returned.                   *)
LEMMA GuardrailImpliesExecutor ==
    ASSUME NEW sql, GuardrailAccepts(sql)
    PROVE  ExecutorAccepts(Cleaned(sql.tokens))
<1> DEFINE s == Cleaned(sql.tokens)
           t == Canonical(s)
<1>1. SingleSelect(t) /\ NoForbiddenKeyword(t)
  BY DEF GuardrailAccepts
<1>2. Cleaned(s) = s
  <2>1. ~Occur(t, {";"})
    BY <1>1 DEF SingleSelect, Occur
  <2> QED
    BY <2>1, CleanedOnce
<1>3. t # <<>> /\ t[1] = "SELECT"
  BY <1>1 DEF SingleSelect
<1>4. ~Occur(t, {";", "--", "/*"})
  BY <1>1 DEF SingleSelect, Occur
<1>5. ~Occur(t, ExecutorForbidden)
  BY <1>1 DEF NoForbiddenKeyword, GuardrailForbidden, Occur
<1> QED
  BY <1>2, <1>3, <1>4, <1>5 DEF ExecutorAccepts

(* The gate accepts only what the guardrail accepts.                       *)
LEMMA AcceptedByGuardrail ==
    Spec => [](verdict = "accepted" => GuardrailAccepts(ExtractSql(answer)))
<1> DEFINE Inv == verdict = "accepted" => GuardrailAccepts(ExtractSql(answer))
<1>1. Init => Inv
  BY DEF Init
<1>2. Inv /\ [Next]_gateVars => Inv'
  <2> SUFFICES ASSUME Inv, [Next]_gateVars
               PROVE  Inv'
    OBVIOUS
  <2>1. CASE Accept
    BY <2>1 DEF Accept
  <2>2. CASE Refuse
    BY <2>2 DEF Refuse
  <2>3. CASE UNCHANGED gateVars
    BY <2>3 DEF gateVars
  <2> QED
    BY <2>1, <2>2, <2>3 DEF Next
<1> QED
  BY <1>1, <1>2, PTL DEF Spec

(* sql_guardrail.py and readonly_query_executor.py keep a list of keywords *)
(* each; for every text the LLM may answer, in any layout, the second      *)
(* check refuses nothing that the first one let through.                   *)
THEOREM LayersAgree == Spec => []AcceptedPassesExecutor
<1>1. (verdict = "accepted" => GuardrailAccepts(ExtractSql(answer))) => AcceptedPassesExecutor
  BY GuardrailImpliesExecutor DEF AcceptedPassesExecutor
<1> QED
  BY <1>1, AcceptedByGuardrail, PTL

-----------------------------------------------------------------------------
(* Lists of texts put together.  FlattenSeq is recursive; what holds of it *)
(* is shown by a smallest counterexample.                                  *)

(* A set of numbers that is not empty has a least one.                     *)
LEMMA Least ==
    ASSUME NEW T \in SUBSET Nat, T # {}
    PROVE  \E x \in T : \A y \in T : x <= y
  <1> DEFINE Segments == {0..n : n \in T}
  <1>1. Segments \subseteq FiniteSubsetsOf(Nat) /\ Segments # {}
    <2>1. ASSUME NEW n \in T PROVE IsFiniteSet(0..n) /\ 0..n \subseteq Nat
      BY FS_Interval
    <2> QED BY <2>1 DEF FiniteSubsetsOf
  <1> HIDE DEF Segments
  <1>2. PICK i \in Segments : \A j \in Segments : <<j, i>> \notin StrictSubsetOrdering(Nat)
    BY <1>1, FS_StrictSubsetOrderingWellFounded, WFMin
  <1>3. PICK x \in T : i = 0..x
    BY DEF Segments
  <1>4. ASSUME NEW y \in T PROVE x <= y
    <2>1. <<0..y, 0..x>> \notin StrictSubsetOrdering(Nat)
      BY <1>2, <1>3 DEF Segments
    <2>2. SUFFICES ASSUME y < x PROVE FALSE
      OBVIOUS
    <2>3. 0..y \subseteq 0..x /\ 0..y # 0..x
      BY <2>2
    <2>4. 0..x \in SUBSET Nat /\ 0..y \in SUBSET Nat
      OBVIOUS
    <2> QED BY <2>1, <2>3, <2>4 DEF StrictSubsetOrdering
  <1> QED BY <1>4

Joins(f, seqs) == \A i \in DOMAIN f : f[i] = IF i = 1 THEN seqs[i] ELSE f[i - 1] \o seqs[i]

(* The partial results of flattening exist.                                *)
LEMMA PartialResults ==
    ASSUME NEW S, NEW seqs \in Seq(Seq(S)), NEW n \in 1..Len(seqs)
    PROVE  \E f \in [1..n -> Seq(S)] : Joins(f, seqs)
  <1> DEFINE Good(k) == \E f \in [1..k -> Seq(S)] : Joins(f, seqs)
             Bad == {k \in 1..Len(seqs) : ~Good(k)}
  <1>1. Len(seqs) \in Nat /\ \A k \in 1..Len(seqs) : seqs[k] \in Seq(S)
    BY ElementOfSeq, LenProperties
  <1> SUFFICES ASSUME Bad # {} PROVE FALSE
    OBVIOUS
  <1>2. PICK m \in Bad : \A k \in Bad : m <= k
    <2>1. Bad \in SUBSET Nat
      BY <1>1
    <2> HIDE DEF Bad
    <2> QED BY <2>1, Least
  <1>3. CASE m = 1
    <2> DEFINE f == [i \in 1..1 |-> seqs[1]]
    <2>1. f \in [1..1 -> Seq(S)] /\ Joins(f, seqs)
      BY <1>1, <1>2, <1>3 DEF Joins
    <2> QED BY <1>2, <1>3, <2>1
  <1>4. CASE m # 1
    <2>1. m - 1 \in 1..Len(seqs) /\ m \in Nat /\ m - 1 < m
      BY <1>1, <1>2, <1>4
    <2>2. Good(m - 1)
      <3>1. m - 1 \notin Bad
        <4> HIDE DEF Bad
        <4> QED BY <1>2, <2>1
      <3> HIDE DEF Good
      <3> QED BY <2>1, <3>1
    <2>3. PICK f \in [1..(m - 1) -> Seq(S)] : Joins(f, seqs)
      BY <2>2
    <2> DEFINE g == [i \in 1..m |-> IF i = m THEN f[m - 1] \o seqs[m] ELSE f[i]]
    <2>4. f[m - 1] \in Seq(S) /\ seqs[m] \in Seq(S)
      BY <1>1, <1>2, <2>1, <2>3
    <2>5. f[m - 1] \o seqs[m] \in Seq(S)
      BY <2>4, ConcatProperties
    <2>6. g \in [1..m -> Seq(S)]
      BY <2>1, <2>3, <2>5
    <2>7. Joins(g, seqs)
      <3> SUFFICES ASSUME NEW i \in 1..m
                   PROVE  g[i] = IF i = 1 THEN seqs[i] ELSE g[i - 1] \o seqs[i]
        BY DEF Joins
      <3> HIDE DEF Bad
      <3>1. CASE i = m
        <4>0. m \in 1..m /\ m - 1 \in 1..m /\ m - 1 # m
          BY <1>1, <2>1
        <4>1. g[m] = f[m - 1] \o seqs[m]
          BY <4>0
        <4>2. g[m - 1] = f[m - 1]
          BY <4>0
        <4> QED BY <1>4, <3>1, <4>1, <4>2
      <3>2. CASE i # m
        <4>1. i \in 1..(m - 1) /\ g[i] = f[i]
          BY <2>1, <3>2
        <4>2. f[i] = IF i = 1 THEN seqs[i] ELSE f[i - 1] \o seqs[i]
          BY <2>3, <4>1 DEF Joins
        <4>3. i # 1 => g[i - 1] = f[i - 1]
          BY <2>1, <4>1
        <4> HIDE DEF g
        <4> QED BY <4>1, <4>2, <4>3
      <3> QED BY <3>1, <3>2
    <2> QED BY <1>2, <2>6, <2>7
  <1> QED BY <1>3, <1>4

(* Flattening ends with the last of the partial results.                   *)
LEMMA Flattened ==
    ASSUME NEW S, NEW seqs \in Seq(Seq(S)), Len(seqs) # 0
    PROVE  \E f \in [1..Len(seqs) -> Seq(S)] :
               Joins(f, seqs) /\ FlattenSeq(seqs) = f[Len(seqs)]
  <1> DEFINE n == Len(seqs)
  <1>1. n \in Nat
    BY LenProperties
  <1>3. n # 0
    OBVIOUS
  <1>4. \E f \in [1..n -> Seq(S)] : Joins(f, seqs) /\ FlattenSeq(seqs) = f[n]
    <2> DEFINE Is(f) == f = [i \in 1..n |-> IF i = 1 THEN seqs[i] ELSE f[i - 1] \o seqs[i]]
               flatten == CHOOSE f : Is(f)
    <2>1. n \in 1..n
      BY <1>1, <1>3
    <2>2. PICK g \in [1..n -> Seq(S)] : Joins(g, seqs)
      BY <2>1, PartialResults
    <2>3. Is(g)
      BY <2>2 DEF Joins
    <2>4. Is(flatten)
      <3> HIDE DEF Is
      <3> QED BY <2>3
    <2>5. FlattenSeq(seqs) = flatten[n]
      BY <1>3 DEF FlattenSeq
    <2> HIDE DEF flatten
    <2> DEFINE Bad == {i \in 1..n : flatten[i] # g[i]}
    <2>6. Bad = {}
      <3> SUFFICES ASSUME Bad # {} PROVE FALSE
        OBVIOUS
      <3>1. PICK m \in Bad : \A i \in Bad : m <= i
        <4>1. Bad \in SUBSET Nat
          BY <1>1
        <4> HIDE DEF Bad
        <4> QED BY <4>1, Least
      <3>2. m \in 1..n /\ flatten[m] # g[m]
        BY <3>1
      <3>3. /\ flatten[m] = IF m = 1 THEN seqs[m] ELSE flatten[m - 1] \o seqs[m]
            /\ g[m] = IF m = 1 THEN seqs[m] ELSE g[m - 1] \o seqs[m]
        BY <2>3, <2>4, <3>2
      <3>4. m # 1 => m - 1 \in 1..n /\ m - 1 < m
        BY <1>1, <3>2
      <3>5. m # 1 => m - 1 \notin Bad
        <4> HIDE DEF Bad, n
        <4>1. \A i \in Bad : m <= i
          BY <3>1
        <4>2. m \in Nat
          BY <3>2
        <4> QED BY <3>4, <4>1, <4>2
      <3>6. m # 1 => flatten[m - 1] = g[m - 1]
        BY <3>4, <3>5
      <3> HIDE DEF Bad
      <3> QED BY <3>2, <3>3, <3>6
    <2>7. flatten[n] = g[n]
      BY <2>1, <2>6
    <2> QED BY <2>2, <2>5, <2>7
  <1> QED BY <1>4

(* Flattening gives a text of the same symbols, and one text is itself.    *)
LEMMA FlattenSeqType ==
    ASSUME NEW S, NEW seqs \in Seq(Seq(S))
    PROVE  /\ FlattenSeq(seqs) \in Seq(S)
           /\ Len(seqs) = 1 => FlattenSeq(seqs) = seqs[1]
  <1>1. Len(seqs) \in Nat
    BY LenProperties
  <1>2. CASE Len(seqs) = 0
    BY <1>2, EmptySeq DEF FlattenSeq
  <1>3. CASE Len(seqs) # 0
    <2>1. PICK f \in [1..Len(seqs) -> Seq(S)] :
                 Joins(f, seqs) /\ FlattenSeq(seqs) = f[Len(seqs)]
      BY <1>3, Flattened
    <2>2. Len(seqs) \in 1..Len(seqs)
      BY <1>1, <1>3
    <2> QED BY <2>1, <2>2 DEF Joins
  <1> QED BY <1>2, <1>3

-----------------------------------------------------------------------------
(* Few symbols in a row are a text.                                        *)
LEMMA ShortTexts ==
    ASSUME NEW S
    PROVE  /\ <<>> \in Seq(S)
           /\ \A v \in S : <<v>> \in Seq(S)
           /\ \A v, w \in S : <<v, w>> \in Seq(S)
           /\ \A v, w, x \in S : <<v, w, x>> \in Seq(S)
  <1>1. ASSUME NEW v \in S PROVE <<v>> \in Seq(S)
    OBVIOUS
  <1>2. ASSUME NEW v \in S, NEW w \in S PROVE <<v, w>> \in Seq(S)
    OBVIOUS
  <1>3. ASSUME NEW v \in S, NEW w \in S, NEW x \in S PROVE <<v, w, x>> \in Seq(S)
    OBVIOUS
  <1> QED BY <1>1, <1>2, <1>3

(* A list is typed by its entries.                                         *)
LEMMA ListOfTexts ==
    ASSUME NEW S, NEW n \in Nat, NEW parts, DOMAIN parts = 1..n,
           parts = [k \in 1..n |-> parts[k]], \A k \in 1..n : parts[k] \in S
    PROVE  parts \in Seq(S)
  <1>1. parts \in [1..n -> S]
    OBVIOUS
  <1> QED BY <1>1, SeqDef

(* The positions tell the length.                                          *)
LEMMA SameLength ==
    ASSUME NEW n \in Nat, NEW m \in Nat, 1..n = 1..m
    PROVE  n = m
  <1>1. n \in 1..n \/ n = 0
    OBVIOUS
  <1>2. m \in 1..m \/ m = 0
    OBVIOUS
  <1> QED BY <1>1, <1>2

(* What Separated flattens: the entries, each but the first with a comma.  *)
Commas(items) == [k \in DOMAIN items |-> IF k = 1 THEN items[k] ELSE <<",">> \o items[k]]

(* A list with commas between its entries is a text.                       *)
LEMMA SeparatedType ==
    ASSUME NEW S, "," \in S, NEW items \in Seq(Seq(S))
    PROVE  /\ Commas(items) \in Seq(Seq(S)) /\ Len(Commas(items)) = Len(items)
           /\ Separated(items) \in Seq(S)
  <1> DEFINE parts == Commas(items)
  <1>1. Len(items) \in Nat /\ DOMAIN items = 1..Len(items)
    BY LenProperties
  <1>2. ASSUME NEW k \in 1..Len(items)
        PROVE  parts[k] \in Seq(S)
    <2>1. items[k] \in Seq(S) /\ <<",">> \in Seq(S)
      BY <1>2, ElementOfSeq, ShortTexts
    <2>2. <<",">> \o items[k] \in Seq(S)
      BY <2>1, ConcatProperties
    <2> QED BY <1>1, <2>1, <2>2 DEF Commas
  <1>3. DOMAIN parts = 1..Len(items) /\ parts = [k \in 1..Len(items) |-> parts[k]]
    BY <1>1 DEF Commas
  <1> HIDE DEF parts
  <1>4. parts \in Seq(Seq(S))
    BY <1>1, <1>2, <1>3, ListOfTexts
  <1>5. Len(parts) = Len(items)
    <2>1. Len(parts) \in Nat /\ 1..Len(parts) = 1..Len(items)
      BY <1>3, <1>4, LenProperties
    <2> QED BY <1>1, <2>1, SameLength
  <1> QED BY <1>4, <1>5, FlattenSeqType DEF Separated, parts, Commas

(* What stands between the commas of a rendered query.                     *)
Outputs(q) == [k \in DOMAIN q.items |-> Named(q.items[k].expr, q.items[k].name)]
Tables(q) == [k \in DOMAIN q.tables |-> TableRef(q.tables[k])]
JoinedTables(q) == [k \in DOMAIN q.joins |-> Joined(q.joins[k])]
SortKeys(q) == [k \in DOMAIN q.order |-> Append(q.order[k].key, q.order[k].direction)]

(* All parts of a query are texts.                                         *)
LEMMA PartsAreTexts ==
    ASSUME NEW q \in Query
    PROVE  /\ q.top \in Text /\ q.where \in Text /\ q.having \in Text
           /\ q.items \in Seq([expr : Text, name : Symbols])
           /\ q.tables \in Seq(Table)
           /\ q.joins \in Seq([kind : Text, table : Table, on : Text])
           /\ q.group \in Seq(Text)
           /\ q.order \in Seq([key : Text, direction : {"ASC", "DESC"}])
           /\ \A table \in Table : TableRef(table) \in Text
           /\ Outputs(q) \in Seq(Text) /\ Tables(q) \in Seq(Text)
           /\ JoinedTables(q) \in Seq(Text) /\ SortKeys(q) \in Seq(Text)
  <1>1. /\ q.top \in Text /\ q.where \in Text /\ q.having \in Text
        /\ q.items \in Seq([expr : Text, name : Symbols])
        /\ q.tables \in Seq(Table)
        /\ q.joins \in Seq([kind : Text, table : Table, on : Text])
        /\ q.group \in Seq(Text)
        /\ q.order \in Seq([key : Text, direction : {"ASC", "DESC"}])
    BY DEF Query
  <1>2. \A a, b \in Text : a \o b \in Text
    BY ConcatProperties DEF Text
  <1>3. \A v, w, x \in Symbols :
            /\ <<>> \in Text /\ <<v>> \in Text /\ <<v, w>> \in Text /\ <<v, w, x>> \in Text
    BY ShortTexts DEF Text
  <1>0. {"AS", "JOIN", "ON", "Production", "."} \subseteq Symbols
    BY GateAssumption
  <1>4. ASSUME NEW table \in Table
        PROVE  TableRef(table) \in Text
    <2>1. table.name \in Symbols /\ table.alias \in Symbols
      BY DEF Table
    <2>2. <<"Production", ".">> \in Text /\ <<table.name, "AS", table.alias>> \in Text
      BY <1>0, <1>3, <2>1
    <2>3. (IF table.schema THEN <<"Production", ".">> ELSE <<>>) \in Text
      <3>1. <<>> \in Text
        BY ShortTexts DEF Text
      <3> QED BY <2>2, <3>1
    <2> QED BY <1>2, <2>2, <2>3 DEF TableRef
  <1>5. Outputs(q) \in Seq(Text)
    <2>1. Len(q.items) \in Nat /\ DOMAIN q.items = 1..Len(q.items)
      BY <1>1, LenProperties
    <2>2. ASSUME NEW k \in 1..Len(q.items)
          PROVE  Outputs(q)[k] \in Text
      <3>1. q.items[k] \in [expr : Text, name : Symbols]
        BY <1>1, <2>2, ElementOfSeq
      <3>2. q.items[k].expr \in Text /\ q.items[k].name \in Symbols
        BY <3>1
      <3>3. <<"AS", q.items[k].name>> \in Text
        BY <1>0, <1>3, <3>2
      <3> QED BY <1>2, <2>1, <3>2, <3>3 DEF Named, Outputs
    <2> QED BY <2>1, <2>2, ListOfTexts DEF Outputs
  <1>6. Tables(q) \in Seq(Text)
    <2>1. Len(q.tables) \in Nat /\ DOMAIN q.tables = 1..Len(q.tables)
      BY <1>1, LenProperties
    <2>2. ASSUME NEW k \in 1..Len(q.tables)
          PROVE  Tables(q)[k] \in Text
      <3>1. q.tables[k] \in Table
        BY <1>1, <2>2, ElementOfSeq
      <3> QED BY <1>4, <2>1, <3>1 DEF Tables
    <2> QED BY <2>1, <2>2, ListOfTexts DEF Tables
  <1>7. JoinedTables(q) \in Seq(Text)
    <2>1. Len(q.joins) \in Nat /\ DOMAIN q.joins = 1..Len(q.joins)
      BY <1>1, LenProperties
    <2>2. ASSUME NEW k \in 1..Len(q.joins)
          PROVE  JoinedTables(q)[k] \in Text
      <3>1. q.joins[k] \in [kind : Text, table : Table, on : Text]
        BY <1>1, <2>2, ElementOfSeq
      <3>2. /\ q.joins[k].kind \in Text /\ q.joins[k].on \in Text
            /\ TableRef(q.joins[k].table) \in Text
        BY <1>4, <3>1
      <3>3. <<"JOIN">> \in Text /\ <<"ON">> \in Text
        BY <1>0, <1>3
      <3> QED BY <1>2, <2>1, <3>2, <3>3 DEF Joined, JoinedTables
    <2> QED BY <2>1, <2>2, ListOfTexts DEF JoinedTables
  <1>8. SortKeys(q) \in Seq(Text)
    <2>1. Len(q.order) \in Nat /\ DOMAIN q.order = 1..Len(q.order)
      BY <1>1, LenProperties
    <2>2. ASSUME NEW k \in 1..Len(q.order)
          PROVE  SortKeys(q)[k] \in Text
      <3>1. q.order[k] \in [key : Text, direction : {"ASC", "DESC"}]
        BY <1>1, <2>2, ElementOfSeq
      <3>2. q.order[k].key \in Seq(Symbols) /\ q.order[k].direction \in Symbols
        BY <3>1, GateAssumption DEF Text
      <3> QED BY <2>1, <3>2, AppendProperties DEF Text, SortKeys
    <2> QED BY <2>1, <2>2, ListOfTexts DEF SortKeys
  <1> QED BY <1>1, <1>4, <1>5, <1>6, <1>7, <1>8

(* A rendered query is a text that begins with SELECT.                     *)
LEMMA RenderType ==
    ASSUME NEW q \in Query
    PROVE  /\ Render(q) \in Text
           /\ 1 \in DOMAIN Render(q) /\ Render(q)[1] = "SELECT"
  <1> DEFINE items == Outputs(q)
             tables == Tables(q)
             joins == JoinedTables(q)
             order == SortKeys(q)
  <1>0. {"SELECT", "TOP", "FROM", "WHERE", "GROUP", "BY", "HAVING", "ORDER"} \subseteq Symbols
    BY GateAssumption
  <1>1. /\ q.top \in Text /\ q.where \in Text /\ q.having \in Text /\ q.group \in Seq(Text)
        /\ items \in Seq(Text) /\ tables \in Seq(Text) /\ joins \in Seq(Text)
        /\ order \in Seq(Text)
    BY PartsAreTexts
  <1>2. \A a, b \in Text : a \o b \in Text
    BY ConcatProperties DEF Text
  <1>3. \A v, w \in Symbols : <<>> \in Text /\ <<v>> \in Text /\ <<v, w>> \in Text
    BY ShortTexts DEF Text
  <1>4. \A keywords, body \in Text : Clause(keywords, body) \in Text
    BY <1>2, <1>3 DEF Clause
  <1> HIDE DEF items, tables, joins, order
  <1>5. /\ Separated(items) \in Text /\ Separated(tables) \in Text
         /\ Separated(q.group) \in Text /\ Separated(order) \in Text
         /\ FlattenSeq(joins) \in Text
    <2>1. "," \in Symbols
      BY GateAssumption
    <2> QED BY <1>1, <2>1, SeparatedType, FlattenSeqType DEF Text
  <1>6. Render(q) = <<"SELECT", "TOP">> \o q.top \o Separated(items) \o <<"FROM">>
                          \o Separated(tables) \o FlattenSeq(joins)
                          \o Clause(<<"WHERE">>, q.where)
                          \o Clause(<<"GROUP", "BY">>, Separated(q.group))
                          \o Clause(<<"HAVING">>, q.having)
                          \o Clause(<<"ORDER", "BY">>, Separated(order))
    BY DEF Render, Outputs, Tables, JoinedTables, SortKeys, items, tables, joins, order
  <1> DEFINE Select(s) == s \in Text /\ 1 \in DOMAIN s /\ s[1] = "SELECT"
  <1>7. ASSUME NEW s, Select(s), NEW t \in Text
         PROVE  Select(s \o t)
    BY <1>7, ConcatProperties, LenProperties DEF Text
  <1>8. Select(<<"SELECT", "TOP">>)
    <2>1. <<"SELECT", "TOP">> \in Text
      BY <1>0, <1>3
    <2>2. 1 \in DOMAIN <<"SELECT", "TOP">> /\ <<"SELECT", "TOP">>[1] = "SELECT"
      OBVIOUS
    <2> QED BY <2>1, <2>2
  <1>9. /\ <<"FROM">> \in Text /\ Clause(<<"WHERE">>, q.where) \in Text
         /\ Clause(<<"GROUP", "BY">>, Separated(q.group)) \in Text
         /\ Clause(<<"HAVING">>, q.having) \in Text
         /\ Clause(<<"ORDER", "BY">>, Separated(order)) \in Text
    <2>1. /\ <<"FROM">> \in Text /\ <<"WHERE">> \in Text /\ <<"GROUP", "BY">> \in Text
          /\ <<"HAVING">> \in Text /\ <<"ORDER", "BY">> \in Text
      BY <1>0, <1>3
    <2> QED BY <1>1, <1>4, <1>5, <2>1
  <1> HIDE DEF Select
  <1>10. Select(Render(q))
    BY <1>1, <1>5, <1>6, <1>7, <1>8, <1>9
  <1> QED BY <1>10 DEF Select

(* Every layout of a query that the LLM may choose gives the query back.   *)
LEMMA LayoutExtracted ==
    ASSUME NEW q \in Query, NEW lines \in Layouts(Render(q))
    PROVE  lines \in Seq(Text) /\ FlattenSeq(WithoutFence(lines)) = Render(q)
  <1> DEFINE s == Render(q)
  <1>1. s \in Text /\ 1 \in DOMAIN s /\ s[1] = "SELECT"
    BY RenderType
  <1> HIDE DEF s
  <1>2. /\ <<s>> \in Seq(Text) /\ Len(<<s>>) = 1 /\ <<s>>[1] = s
        /\ <<"FENCE">> \in Text /\ <<"FENCE", "sql">> \in Text
    <2>1. "FENCE" \in Symbols /\ "sql" \in Symbols
      BY GateAssumption
    <2>2. <<"FENCE">> \in Text /\ <<"FENCE", "sql">> \in Text
      BY <2>1, ShortTexts DEF Text
    <2> QED BY <1>1, <2>2, ShortTexts
  <1>3. FlattenSeq(<<s>>) = s
    BY <1>2, FlattenSeqType DEF Text
  <1>4. ~At(s, 1, "FENCE") /\ At(<<"FENCE">>, 1, "FENCE") /\ At(<<"FENCE", "sql">>, 1, "FENCE")
    BY <1>1 DEF At
  <1>5. CASE lines = <<s>>
    <2>1. lines[1] = s /\ lines # <<>>
      BY <1>5
    <2> QED BY <1>2, <1>3, <1>4, <1>5, <2>1 DEF WithoutFence, s
  <1>6. CASE lines = <<<<"FENCE", "sql">>, s, <<"FENCE">>>>
    <2>1. lines # <<>> /\ lines[1] = <<"FENCE", "sql">> /\ Tail(lines) = <<s, <<"FENCE">>>>
      BY <1>6
    <2>2. /\ Tail(lines) # <<>> /\ Last(Tail(lines)) = <<"FENCE">>
          /\ Front(Tail(lines)) = <<s>>
      <3> DEFINE body == <<s, <<"FENCE">>>>
      <3>1. Len(body) = 2 /\ body # <<>> /\ body[2] = <<"FENCE">>
        OBVIOUS
      <3>2. SubSeq(body, 1, 1) = <<s>>
        <4>1. body[1] = s /\ body \in Seq(Text) /\ 1 \in 1..Len(body)
          BY <1>1, <1>2, ShortTexts
        <4> HIDE DEF body
        <4>2. SubSeq(body, 1, 1) = <<body[1]>> \o SubSeq(body, 2, 1)
          BY <4>1, SubSeqRecursiveFirst
        <4>3. SubSeq(body, 2, 1) = <<>>
          BY SubSeqEmpty
        <4> QED BY <1>2, <4>1, <4>2, <4>3, ConcatEmptySeq
      <3> HIDE DEF body
      <3>3. Tail(lines) = body
        BY <2>1 DEF body
      <3>4. Last(body) = <<"FENCE">>
        BY <3>1 DEF Last
      <3>5. Front(body) = SubSeq(body, 1, 1)
        <4>1. Len(body) - 1 = 1
          BY <3>1
        <4> QED BY <4>1 DEF Front
      <3> QED BY <3>1, <3>2, <3>3, <3>4, <3>5
    <2>3. lines \in Seq(Text)
      BY <1>1, <1>2, <1>6, ShortTexts
    <2> QED BY <1>3, <1>4, <2>1, <2>2, <2>3 DEF WithoutFence, s
  <1>7. CASE lines = <<<<"FENCE">>, s>>
    <2>1. lines # <<>> /\ lines[1] = <<"FENCE">> /\ Tail(lines) = <<s>>
      BY <1>7
    <2>2. Tail(lines) # <<>> /\ Last(Tail(lines)) = s
      <3> DEFINE body == <<s>>
      <3>1. Len(body) = 1 /\ body # <<>> /\ body[1] = s
        OBVIOUS
      <3> HIDE DEF body
      <3>2. Tail(lines) = body
        BY <2>1 DEF body
      <3> QED BY <3>1, <3>2 DEF Last
    <2>3. lines \in Seq(Text)
      BY <1>1, <1>2, <1>7, ShortTexts
    <2> QED BY <1>3, <1>4, <2>1, <2>2, <2>3 DEF WithoutFence, s
  <1> QED BY <1>5, <1>6, <1>7 DEF Layouts, s

(* Whatever queries and texts the LLM may answer, and over any symbols,    *)
(* every variable of the gate keeps its type: an answer is a list of lines *)
(* of symbols, and a verdict is reported under the code of this gate.      *)
THEOREM GateTypeCorrect == Spec => []GateTypeOK
  <1>1. Init => GateTypeOK
    <2> SUFFICES ASSUME Init
                 PROVE  answer \in Answer
      BY DEF Init, GateTypeOK
    <2>1. CASE query \in LlmQueries /\ answer \in [lines : Layouts(Render(query)), odd : {query.odd}]
      <3>1. query \in Query /\ query.odd \in SUBSET Nat
        BY <2>1, GateAssumption DEF Query
      <3>2. Layouts(Render(query)) \subseteq Seq(Text)
        BY <3>1, LayoutExtracted
      <3> QED BY <2>1, <3>1, <3>2 DEF Answer
    <2>2. CASE answer \in LlmTexts
      BY <2>2, GateAssumption
    <2> QED BY <2>1, <2>2 DEF Init
  <1>2. GateTypeOK /\ [Next]_gateVars => GateTypeOK'
    BY DEF GateTypeOK, Next, Accept, Refuse, gateVars
  <1> QED BY <1>1, <1>2, PTL DEF Spec

(* _extract_sql gives back the very query that the LLM wrote, in one line  *)
(* or in a code block, closed or not (sql_generator.py:54), for queries of *)
(* any length.                                                             *)
THEOREM LayoutsDoNotMatter == Spec => []VerdictOnQuery
  <1> DEFINE Extracted == query # NoQuery => ExtractSql(answer) = Sql(query)
  <1>1. Init => Extracted /\ VerdictOnQuery
    <2>1. Init => Extracted
      BY GateAssumption, LayoutExtracted DEF Init, ExtractSql, Sql
    <2> QED BY <2>1 DEF Init, VerdictOnQuery
  <1>2. Extracted /\ VerdictOnQuery /\ [Next]_gateVars => (Extracted /\ VerdictOnQuery)'
    BY DEF VerdictOnQuery, Next, Accept, Refuse, gateVars
  <1> QED BY <1>1, <1>2, PTL DEF Spec

-----------------------------------------------------------------------------
(* RepresentativeIsAccepted, for queries over any words.                   *)
(*                                                                         *)
(* A rendered query is put together from its left, part by part.  It is    *)
(* looked at instead as seven clauses, each a keyword and the rest behind  *)
(* it, at positions that the lengths of the rests determine (LaidOut);     *)
(* folding leaves the positions alone.  The rests of a representative      *)
(* query are known up to the order of their parts (Demo, Roles), and no    *)
(* word of one is a keyword of another (Shaped).  A rule that looks for a  *)
(* keyword anywhere thus finds its own clause, cut off at the next one;    *)
(* and a list between commas is read back as the items it was written of.  *)
(***************************************************************************)
(* The clause checks, where nothing is run together.                       *)
ListsAsWritten(c, items) ==
    LET cuts == Cuts(c) IN
    /\ Cardinality(cuts) = Cardinality(items)
    /\ {ItemAfter(c, cuts, cut) : cut \in cuts} = items
JoinAsWritten(t, p, i) ==
    LET on == FirstAfter(t, {"ON"}, 0)
    IN  on \in DOMAIN t /\ ClauseAfter(t, on) \in JoinPredicates(p, i)
GroupByAsWritten(t, p) ==
    \E k \in GroupBys(t) :
        GroupBys(t) = {k} /\ ListsAsWritten(ClauseAfter(t, k + 1), GroupKeys(p))
HavingAsWritten(t, p, i) ==
    LET having == FirstAfter(t, {"HAVING"}, 0)
    IN  having \in DOMAIN t /\ ClauseAfter(t, having) = HavingPredicate(p, i)
OutputExpressions(p, i) ==
    {Named(Column(p, c), c) : c \in RequiredGroupByColumns}
        \cup {Named(SumOf(Column(i, "Quantity")), "CurrentInventory")}
SelectListAsWritten(t, p, i) ==
    LET top == IF At(t, TopPosition(t) + 1, ")") THEN TopPosition(t) + 1 ELSE TopPosition(t)
    IN  ListsAsWritten(SubSeq(t, top + 1, FirstAfter(t, {"FROM"}, top) - 1), OutputExpressions(p, i))

(* The text x stands in t behind position k.                               *)
Spans(t, k, x) == k + Len(x) <= Len(t) /\ \A j \in 1..Len(x) : t[k + j] = x[j]

(* Both parts of a text stand in it.                                       *)
LEMMA SpansConcat ==
    ASSUME NEW S, NEW a \in Seq(S), NEW b \in Seq(S)
    PROVE  /\ a \o b \in Seq(S) /\ Len(a \o b) = Len(a) + Len(b)
           /\ Len(a) \in Nat /\ Len(b) \in Nat
           /\ Spans(a \o b, 0, a) /\ Spans(a \o b, Len(a), b)
  <1>1. Len(a) \in Nat /\ Len(b) \in Nat
    BY LenProperties
  <1>2. /\ a \o b \in Seq(S) /\ Len(a \o b) = Len(a) + Len(b)
        /\ \A i \in 1 .. Len(a) + Len(b) : (a \o b)[i] = IF i <= Len(a) THEN a[i] ELSE b[i - Len(a)]
    BY ConcatProperties
  <1>3. Spans(a \o b, 0, a)
    BY <1>1, <1>2 DEF Spans
  <1>4. Spans(a \o b, Len(a), b)
    <2>1. ASSUME NEW j \in 1..Len(b) PROVE (a \o b)[Len(a) + j] = b[j]
      BY <1>1, <1>2
    <2> QED BY <1>1, <1>2, <2>1 DEF Spans
  <1> QED BY <1>1, <1>2, <1>3, <1>4

(* What stands in a part stands in the text.                               *)
LEMMA SpansWithin ==
    ASSUME NEW S, NEW t, NEW x \in Seq(S), NEW y \in Seq(S), NEW k \in Nat, NEW m \in Nat,
           Len(t) \in Nat, Spans(t, k, x), Spans(x, m, y)
    PROVE  Spans(t, k + m, y)
  <1>1. Len(x) \in Nat /\ Len(y) \in Nat
    BY LenProperties
  <1>2. k + Len(x) <= Len(t) /\ m + Len(y) <= Len(x)
    BY DEF Spans
  <1>3. ASSUME NEW j \in 1..Len(y)
        PROVE  t[(k + m) + j] = y[j]
    <2>1. m + j \in 1..Len(x) /\ (k + m) + j = k + (m + j)
      BY <1>1, <1>2
    <2>2. t[k + (m + j)] = x[m + j] /\ x[m + j] = y[j]
      BY <2>1 DEF Spans
    <2> QED BY <2>1, <2>2
  <1> QED BY <1>1, <1>2, <1>3 DEF Spans

(* It can be cut out.                                                      *)
LEMMA SpansIsPart ==
    ASSUME NEW S, NEW t \in Seq(S), NEW x \in Seq(S), NEW k \in Nat, Spans(t, k, x)
    PROVE  SubSeq(t, k + 1, k + Len(x)) = x
  <1>1. Len(x) \in Nat /\ Len(t) \in Nat /\ k + Len(x) <= Len(t)
    BY LenProperties DEF Spans
  <1>2. \A i \in (k + 1)..(k + Len(x)) : t[i] \in S
    BY <1>1, ElementOfSeq
  <1>3. /\ SubSeq(t, k + 1, k + Len(x)) \in Seq(S)
        /\ Len(SubSeq(t, k + 1, k + Len(x))) =
              IF k + 1 <= k + Len(x) THEN (k + Len(x)) - (k + 1) + 1 ELSE 0
        /\ \A i \in 1 .. (k + Len(x)) - (k + 1) + 1 :
              SubSeq(t, k + 1, k + Len(x))[i] = t[(k + 1) + i - 1]
    <2> DEFINE m == k + 1
               n == k + Len(x)
    <2>1. m \in Int /\ n \in Int
      BY <1>1
    <2> HIDE DEF m, n
    <2>2. \A i \in m..n : t[i] \in S
      BY <1>2 DEF m, n
    <2>3. /\ SubSeq(t, m, n) \in Seq(S)
          /\ Len(SubSeq(t, m, n)) = IF m <= n THEN n - m + 1 ELSE 0
          /\ \A i \in 1 .. n - m + 1 : SubSeq(t, m, n)[i] = t[m + i - 1]
      BY <2>1, <2>2, SubSeqProperties
    <2> QED BY <2>3 DEF m, n
  <1> DEFINE u == SubSeq(t, k + 1, k + Len(x))
  <1>4. Len(u) = Len(x)
    BY <1>1, <1>3
  <1>5. ASSUME NEW i \in 1..Len(u)
        PROVE  u[i] = x[i]
    <2>1. i \in 1 .. (k + Len(x)) - (k + 1) + 1 /\ (k + 1) + i - 1 = k + i /\ i \in 1..Len(x)
      BY <1>1, <1>4
    <2>2. u[i] = t[k + i]
      BY <1>3, <2>1
    <2> QED BY <2>1, <2>2 DEF Spans
  <1>6. u \in Seq(S)
    BY <1>3
  <1> HIDE DEF u
  <1> QED BY <1>4, <1>5, <1>6, SeqEqual DEF u

(* A set of numbers has one least.                                         *)
LEMMA MinIs ==
    ASSUME NEW T \in SUBSET Nat, NEW m \in T, \A y \in T : m <= y
    PROVE  Min(T) = m
  <1>1. \A x \in T : (\A y \in T : x <= y) => x = m
    BY SMT
  <1> HIDE DEF Min
  <1>2. Min(T) = CHOOSE x \in T : \A y \in T : x <= y
    BY DEF Min
  <1> QED BY <1>1, <1>2

(* A clause goes as far as the next word of W.                             *)
LEMMA ClauseCut ==
    ASSUME NEW S, NEW t \in Seq(S), NEW x \in Seq(S), NEW k \in Nat, NEW W,
           Spans(t, k, x), \A j \in 1..Len(x) : x[j] \notin W,
           k + Len(x) = Len(t) \/ t[k + Len(x) + 1] \in W
    PROVE  /\ FirstAfter(t, W, k) = k + Len(x) + 1
           /\ SubSeq(t, k + 1, FirstAfter(t, W, k) - 1) = x
  <1>1. Len(x) \in Nat /\ Len(t) \in Nat /\ k + Len(x) <= Len(t)
    BY LenProperties DEF Spans
  <1> DEFINE T == {j \in (k + 1)..Len(t) : t[j] \in W} \cup {Len(t) + 1}
             m == k + Len(x) + 1
  <1>2. T \in SUBSET Nat
    BY <1>1
  <1>3. m \in T
    BY <1>1
  <1>4. ASSUME NEW y \in T PROVE m <= y
    <2>1. SUFFICES ASSUME y < m PROVE FALSE
      BY <1>1, <1>2
    <2>2. y \in (k + 1)..Len(t) /\ t[y] \in W
      BY <1>1, <2>1
    <2>3. y - k \in 1..Len(x) /\ k + (y - k) = y
      BY <1>1, <2>1, <2>2
    <2>4. t[y] = x[y - k]
      BY <2>3 DEF Spans
    <2> QED BY <2>2, <2>3, <2>4
  <1>5. FirstAfter(t, W, k) = Min(T)
    BY DEF FirstAfter
  <1> HIDE DEF T, m
  <1>6. FirstAfter(t, W, k) = m
    BY <1>2, <1>3, <1>4, <1>5, MinIs
  <1>7. m - 1 = k + Len(x)
    BY <1>1 DEF m
  <1> QED BY <1>6, <1>7, SpansIsPart DEF m

-----------------------------------------------------------------------------
(* Parentheses are counted part by part.                                   *)
Places(x, w) == {j \in 1..Len(x) : x[j] = w}

(* A text has the marks of its two parts.                                  *)
LEMMA PlacesConcat ==
    ASSUME NEW S, NEW a \in Seq(S), NEW b \in Seq(S), NEW w
    PROVE  /\ IsFiniteSet(Places(a, w)) /\ Cardinality(Places(a, w)) \in Nat
           /\ Cardinality(Places(a \o b, w)) = Cardinality(Places(a, w)) + Cardinality(Places(b, w))
  <1>1. /\ Len(a) \in Nat /\ Len(b) \in Nat /\ Len(a \o b) = Len(a) + Len(b)
        /\ \A i \in 1 .. Len(a) + Len(b) : (a \o b)[i] = IF i <= Len(a) THEN a[i] ELSE b[i - Len(a)]
    BY LenProperties, ConcatProperties
  <1> DEFINE A == Places(a, w)
             B == Places(b, w)
             C == {Len(a) + j : j \in B}
             f == [j \in B |-> Len(a) + j]
  <1>2. IsFiniteSet(A) /\ IsFiniteSet(B)
    <2>1. IsFiniteSet(1..Len(a)) /\ IsFiniteSet(1..Len(b))
      BY <1>1, FS_Interval
    <2>2. A \subseteq 1..Len(a) /\ B \subseteq 1..Len(b)
      BY DEF Places
    <2> QED BY <2>1, <2>2, FS_Subset
  <1>3. f \in Bijection(B, C)
    <2>1. B \subseteq Nat
      BY <1>1 DEF Places
    <2> HIDE DEF B
    <2>2. f \in [B -> C] /\ \A x, y \in B : f[x] = f[y] => x = y
      BY <1>1, <2>1
    <2>3. \A z \in C : \E x \in B : f[x] = z
      OBVIOUS
    <2> HIDE DEF f, C
    <2> QED BY <2>2, <2>3 DEF Bijection, Injection, Surjection, IsInjective
  <1>4. IsFiniteSet(C) /\ Cardinality(C) = Cardinality(B)
    <2> HIDE DEF f, B, C
    <2>1. ExistsBijection(B, C)
      BY <1>3 DEF ExistsBijection
    <2> QED BY <1>2, <2>1, FS_Bijection
  <1>5. Places(a \o b, w) = A \cup C
    <2>1. ASSUME NEW j \in A \cup C PROVE j \in Places(a \o b, w)
      <3>1. CASE j \in A
        BY <1>1, <3>1 DEF Places
      <3>2. CASE j \in C
        <4>1. PICK i \in B : j = Len(a) + i
          BY <3>2
        <4>2. i \in 1..Len(b) /\ b[i] = w
          BY <4>1 DEF Places
        <4> QED BY <1>1, <4>1, <4>2 DEF Places
      <3> QED BY <2>1, <3>1, <3>2
    <2>2. ASSUME NEW j \in Places(a \o b, w) PROVE j \in A \cup C
      <3>1. j \in 1..(Len(a) + Len(b)) /\ (a \o b)[j] = w
        BY <1>1 DEF Places
      <3>2. CASE j <= Len(a)
        BY <1>1, <3>1, <3>2 DEF Places
      <3>3. CASE j > Len(a)
        <4>1. j - Len(a) \in 1..Len(b) /\ b[j - Len(a)] = w /\ j = Len(a) + (j - Len(a))
          BY <1>1, <3>1, <3>3
        <4> QED BY <4>1 DEF Places
      <3> QED BY <1>1, <3>1, <3>2, <3>3
    <2> HIDE DEF A, C
    <2> QED BY <2>1, <2>2
  <1>6. A \cap C = {}
    BY <1>1 DEF Places
  <1>7. Cardinality(A) \in Nat /\ Cardinality(B) \in Nat
    BY <1>2, FS_CardinalityType
  <1> HIDE DEF A, B, C
  <1>8. Cardinality(A \cup C) = Cardinality(A) + Cardinality(B) - Cardinality({})
    BY <1>2, <1>4, <1>6, FS_Union
  <1> QED BY <1>2, <1>5, <1>7, <1>8, FS_EmptySet DEF A, B

(* No parenthesis is left open.                                            *)
Balanced(x) == Cardinality(Places(x, "(")) = Cardinality(Places(x, ")"))

(* Balanced texts make a balanced text.                                    *)
LEMMA BalancedConcat ==
    ASSUME NEW S, NEW a \in Seq(S), NEW b \in Seq(S), Balanced(a), Balanced(b)
    PROVE  Balanced(a \o b)
  <1>1. /\ Cardinality(Places(a \o b, "(")) = Cardinality(Places(a, "(")) + Cardinality(Places(b, "("))
        /\ Cardinality(Places(a \o b, ")")) = Cardinality(Places(a, ")")) + Cardinality(Places(b, ")"))
    BY PlacesConcat
  <1> QED BY <1>1 DEF Balanced

(* The depth of a position counts the parentheses before it.               *)
Before(x, k, w) == {j \in 1..(k - 1) : x[j] = w}

(* Before a place of the second part are the marks of the first and its    *)
(* own.                                                                    *)
LEMMA BeforeConcat ==
    ASSUME NEW S, NEW a \in Seq(S), NEW b \in Seq(S), NEW w, NEW j \in 1..(Len(b) + 1)
    PROVE  /\ Cardinality(Before(b, j, w)) \in Nat /\ Cardinality(Places(a, w)) \in Nat
           /\ Cardinality(Before(a \o b, Len(a) + j, w)) =
                 Cardinality(Places(a, w)) + Cardinality(Before(b, j, w))
  <1> DEFINE e == SubSeq(b, 1, j - 1)
             c == a \o b
             f == a \o e
  <1>1. Len(a) \in Nat /\ Len(b) \in Nat /\ j \in Nat /\ 1 <= j /\ j <= Len(b) + 1
    BY LenProperties
  <1>2. e \in Seq(S) /\ Len(e) = j - 1 /\ \A i \in 1..(j - 1) : e[i] = b[i]
    <2> DEFINE m == 1
               n == j - 1
    <2>1. m \in Int /\ n \in Int /\ \A i \in m..n : b[i] \in S
      BY <1>1, ElementOfSeq
    <2> HIDE DEF m, n
    <2>2. /\ SubSeq(b, m, n) \in Seq(S)
          /\ Len(SubSeq(b, m, n)) = IF m <= n THEN n - m + 1 ELSE 0
          /\ \A i \in 1..n - m + 1 : SubSeq(b, m, n)[i] = b[m + i - 1]
      BY <2>1, SubSeqProperties
    <2>3. Len(e) = j - 1
      BY <1>1, <2>2 DEF m, n
    <2>4. ASSUME NEW i \in 1..(j - 1) PROVE e[i] = b[i]
      <3>1. i \in 1..n - m + 1 /\ m + i - 1 = i
        BY <1>1 DEF m, n
      <3> QED BY <2>2, <3>1 DEF m, n
    <2> QED BY <2>2, <2>3, <2>4 DEF m, n
  <1> HIDE DEF e
  <1>3. /\ c \in Seq(S) /\ Len(c) = Len(a) + Len(b)
        /\ \A i \in 1..Len(a) : c[i] = a[i]
        /\ \A i \in 1..Len(b) : c[Len(a) + i] = b[i]
    BY SpansConcat DEF Spans
  <1>4. /\ f \in Seq(S) /\ Len(f) = Len(a) + Len(e)
        /\ \A i \in 1..Len(a) : f[i] = a[i]
        /\ \A i \in 1..Len(e) : f[Len(a) + i] = e[i]
    BY <1>2, SpansConcat DEF Spans
  <1> HIDE DEF c, f
  <1>5. ASSUME NEW i \in 1..Len(f) PROVE c[i] = f[i]
    <2>1. CASE i <= Len(a)
      BY <1>1, <1>3, <1>4, <2>1
    <2>2. CASE i > Len(a)
      <3> DEFINE h == i - Len(a)
      <3>1. h \in 1..(j - 1) /\ h \in 1..Len(b) /\ h \in 1..Len(e) /\ i = Len(a) + h
        BY <1>1, <1>2, <1>4, <2>2
      <3> HIDE DEF h
      <3> QED BY <1>2, <1>3, <1>4, <3>1
    <2> QED BY <1>1, <1>2, <1>4, <2>1, <2>2
  <1>6. Before(c, Len(a) + j, w) = Places(f, w)
    <2>1. (Len(a) + j) - 1 = Len(f)
      <3> DEFINE l == Len(a)
      <3>1. Len(f) = l + (j - 1) /\ l \in Nat /\ j \in Nat
        BY <1>1, <1>2, <1>4
      <3> HIDE DEF l
      <3>2. (l + j) - 1 = Len(f)
        BY <3>1
      <3> QED BY <3>2 DEF l
    <2> QED BY <1>5, <2>1 DEF Before, Places
  <1>7. Before(b, j, w) = Places(e, w)
    BY <1>2 DEF Before, Places
  <1>8. /\ Cardinality(Places(f, w)) = Cardinality(Places(a, w)) + Cardinality(Places(e, w))
        /\ Cardinality(Places(a, w)) \in Nat /\ Cardinality(Places(e, w)) \in Nat
    BY <1>2, PlacesConcat DEF f
  <1> QED BY <1>6, <1>7, <1>8 DEF c

(* Behind a balanced text the depth is counted anew.                       *)
LEMMA DepthConcat ==
    ASSUME NEW S, NEW a \in Seq(S), NEW b \in Seq(S), Balanced(a), NEW j \in 1..(Len(b) + 1)
    PROVE  Depth(a \o b, Len(a) + j) = Depth(b, j)
  <1>1. \A w : /\ Cardinality(Before(b, j, w)) \in Nat /\ Cardinality(Places(a, w)) \in Nat
               /\ Cardinality(Before(a \o b, Len(a) + j, w)) =
                    Cardinality(Places(a, w)) + Cardinality(Before(b, j, w))
    BY BeforeConcat
  <1>2. \A x, k : Depth(x, k) = Cardinality(Before(x, k, "(")) - Cardinality(Before(x, k, ")"))
    BY Zenon DEF Depth, Before
  <1> QED BY <1>1, <1>2 DEF Balanced

(* The list c has n items, and these are them.                             *)
Lists(c, n, items) ==
    /\ Balanced(c)
    /\ IsFiniteSet(Cuts(c)) /\ Cardinality(Cuts(c)) = n /\ Cuts(c) \subseteq 0..Len(c)
    /\ {ItemAfter(c, Cuts(c), cut) : cut \in Cuts(c)} = items

(* The provers' encoding of the symbol itself is no identifier.            *)
Comma == ","

(* A text is cut at its begin and at the commas outside of parentheses.    *)
LEMMA CutsAre ==
    \A c : Cuts(c) = {0} \cup {k \in DOMAIN c : c[k] = Comma /\ Depth(c, k) = 0}
  BY Zenon DEF Cuts, Comma

(* An item is balanced and holds no comma outside of parentheses.          *)
Single(x) == Balanced(x) /\ Cuts(x) = {0}

(* A balanced text without commas is one item.                             *)
LEMMA PlainIsSingle ==
    ASSUME NEW S, NEW x \in Seq(S), Balanced(x), \A j \in 1..Len(x) : x[j] # Comma
    PROVE  Single(x)
  <1>1. Len(x) \in Nat /\ DOMAIN x = 1..Len(x)
    BY LenProperties
  <1> QED BY <1>1, CutsAre DEF Single

(* One item is a list.                                                     *)
LEMMA OneItem ==
    ASSUME NEW S, NEW x \in Seq(S), Single(x)
    PROVE  Lists(x, 1, {x})
  <1>1. Len(x) \in Nat /\ DOMAIN x = 1..Len(x)
    BY LenProperties
  <1>2. Cuts(x) = {0}
    BY DEF Single
  <1>3. ItemAfter(x, {0}, 0) = x
    <2>1. {k \in {0} : k > 0} \cup {Len(x) + 1} = {Len(x) + 1}
      BY SMT
    <2>2. Min({Len(x) + 1}) = Len(x) + 1
      BY <1>1, MinIs
    <2>3. (Len(x) + 1) - 1 = Len(x) /\ 0 + 1 = 1
      BY <1>1
    <2>4. SubSeq(x, 1, Len(x)) = x
      BY SubSeqFull
    <2> QED BY <2>1, <2>2, <2>3, <2>4 DEF ItemAfter
  <1>4. IsFiniteSet({0}) /\ Cardinality({0}) = 1 /\ {0} \subseteq 0..Len(x)
    <2>1. IsFiniteSet({0}) /\ Cardinality({0}) = 1
      BY FS_Singleton
    <2>2. 0 \in 0..Len(x)
      BY <1>1
    <2> QED BY <2>1, <2>2
  <1> QED BY <1>2, <1>3, <1>4 DEF Lists, Single

(* A position behind a comma.                                              *)
LEMMA Shifted ==
    ASSUME NEW l \in Nat, NEW n \in Nat, NEW k \in Int, l + 2 <= k, k <= l + (1 + n)
    PROVE  /\ k - (l + 1) \in 1..n /\ k - l \in 1..(1 + n) /\ l + (k - l) = k
           /\ 1 + (k - (l + 1)) = k - l
  OBVIOUS

(* A list grows by one item.                                               *)
LEMMA NextItem ==
    ASSUME NEW S, Comma \in S, NEW c \in Seq(S), NEW x \in Seq(S), NEW n \in Nat, NEW items,
           Lists(c, n, items), Single(x),
           ~(Comma \in {"(", ")"})
    PROVE  Lists(c \o (<<Comma>> \o x), n + 1, items \cup {x})
  <1> DEFINE y == <<Comma>> \o x
             d == c \o y
             l == Len(c)
  <1>1. <<Comma>> \in Seq(S) /\ Len(<<Comma>>) = 1 /\ <<Comma>>[1] = Comma
    BY ShortTexts
  <1> HIDE DEF y
  <1>2. /\ y \in Seq(S) /\ Len(y) = 1 + Len(x) /\ Len(x) \in Nat
        /\ y[1] = Comma /\ \A j \in 1..Len(x) : y[1 + j] = x[j]
    <2>1. /\ y \in Seq(S) /\ Len(y) = 1 + Len(x) /\ Len(x) \in Nat
          /\ Spans(y, 0, <<Comma>>) /\ Spans(y, 1, x)
      BY <1>1, SpansConcat DEF y
    <2>2. y[0 + 1] = <<Comma>>[1]
      BY <1>1, <2>1 DEF Spans
    <2> QED BY <1>1, <2>1, <2>2 DEF Spans
  <1>3. /\ d \in Seq(S) /\ Len(d) = l + Len(y) /\ l \in Nat
        /\ DOMAIN d = 1..Len(d) /\ DOMAIN c = 1..l
        /\ \A j \in 1..l : d[j] = c[j]
        /\ \A j \in 1..Len(y) : d[l + j] = y[j]
    <2>1. /\ d \in Seq(S) /\ Len(d) = l + Len(y) /\ l \in Nat /\ Len(y) \in Nat
          /\ Spans(d, 0, c) /\ Spans(d, l, y)
      BY <1>2, SpansConcat
    <2>2. DOMAIN d = 1..Len(d) /\ DOMAIN c = 1..l
      BY <2>1, LenProperties
    <2>3. \A j \in 1..l : d[0 + j] = c[j] /\ 0 + j = j
      BY <2>1 DEF Spans
    <2>4. \A j \in 1..Len(y) : d[l + j] = y[j]
      BY <2>1 DEF Spans
    <2> QED BY <2>1, <2>2, <2>3, <2>4
  <1> HIDE DEF d
  <1>4. Balanced(<<Comma>>)
    <2>1. Places(<<Comma>>, "(") = {} /\ Places(<<Comma>>, ")") = {}
      BY <1>1 DEF Places
    <2> QED BY <2>1 DEF Balanced
  <1>5. Balanced(y) /\ Balanced(d)
    BY <1>1, <1>2, <1>4, BalancedConcat DEF y, d, Lists, Single
  <1>6. ASSUME NEW k \in 1..(l + 1)
        PROVE  Depth(d, k) = Depth(c, k)
    <2>1. \A j \in 1..(k - 1) : d[j] = c[j]
      BY <1>3
    <2>2. /\ {j \in 1..(k - 1) : d[j] = "("} = {j \in 1..(k - 1) : c[j] = "("}
          /\ {j \in 1..(k - 1) : d[j] = ")"} = {j \in 1..(k - 1) : c[j] = ")"}
      BY <2>1
    <2> QED BY <2>2 DEF Depth
  <1>7. Depth(c, l + 1) = 0
    <2>1. (l + 1) - 1 = l
      BY <1>3
    <2>2. Cardinality(Places(c, "(")) \in Nat /\ Cardinality(Places(c, "(")) = Cardinality(Places(c, ")"))
      BY PlacesConcat DEF Lists, Balanced
    <2> QED BY <2>1, <2>2 DEF Depth, Places
  <1>8. Cuts(d) = Cuts(c) \cup {l + 1}
    <2>1. ASSUME NEW k \in DOMAIN d
          PROVE  d[k] = Comma /\ Depth(d, k) = 0
                 <=> (k \in DOMAIN c /\ c[k] = Comma /\ Depth(c, k) = 0) \/ k = l + 1
      <3>1. CASE k \in 1..l
        BY <1>3, <1>6, <3>1
      <3>2. CASE k = l + 1
        <4>1. d[k] = Comma
          BY <1>2, <1>3, <3>2
        <4>2. Depth(d, k) = 0
          BY <1>3, <1>6, <1>7, <3>2
        <4> QED BY <3>2, <4>1, <4>2
      <3>3. CASE k \in (l + 2)..Len(d)
        <4>1. k - (l + 1) \in 1..Len(x) /\ k - l \in 1..Len(y) /\ l + (k - l) = k
              /\ 1 + (k - (l + 1)) = k - l
          <5>1. Len(d) = l + (1 + Len(x)) /\ l \in Nat /\ Len(x) \in Nat /\ Len(y) = 1 + Len(x)
            BY <1>2, <1>3
          <5> HIDE DEF l
          <5>2. k \in Int /\ l + 2 <= k /\ k <= l + (1 + Len(x))
            BY <3>3, <5>1
          <5> QED BY <5>1, <5>2, Shifted
        <4>2. d[k] = y[k - l] /\ y[k - l] = x[k - (l + 1)]
          BY <1>2, <1>3, <4>1
        <4> DEFINE j == k - (l + 1)
                   h == k - l
        <4>3. Depth(d, k) = Depth(x, j)
          <5>1. h \in 1..(Len(y) + 1) /\ j \in 1..(Len(x) + 1) /\ l + h = k /\ 1 + j = h
            BY <1>2, <4>1
          <5> HIDE DEF h, j
          <5>2. Depth(d, l + h) = Depth(y, h)
            BY <1>2, <5>1, DepthConcat DEF d, Lists
          <5>3. Depth(y, Len(<<Comma>>) + j) = Depth(x, j)
            BY <1>1, <1>4, <5>1, DepthConcat DEF y
          <5> QED BY <1>1, <5>1, <5>2, <5>3
        <4>4. ~(d[k] = Comma /\ Depth(d, k) = 0)
          <5>1. j \in DOMAIN x /\ j # 0 /\ d[k] = x[j]
            <6>1. DOMAIN x = 1..Len(x)
              BY LenProperties
            <6> QED BY <1>2, <4>1, <4>2, <6>1
          <5>2. j \notin Cuts(x)
            BY <5>1 DEF Single
          <5> HIDE DEF j
          <5> QED BY <4>3, <5>1, <5>2, CutsAre
        <4> QED BY <1>3, <3>3, <4>4
      <3> QED BY <1>3, <3>1, <3>2, <3>3
    <2>2. l + 1 \in DOMAIN d /\ DOMAIN c \subseteq DOMAIN d
      BY <1>2, <1>3
    <2> QED BY <2>1, <2>2, CutsAre
  <1> DEFINE old == Cuts(c)
  <1>9. IsFiniteSet(old) /\ Cardinality(old) = n /\ old \subseteq 0..l
    BY DEF Lists
  <1>10. IsFiniteSet(Cuts(d)) /\ Cardinality(Cuts(d)) = n + 1 /\ Cuts(d) \subseteq 0..Len(d)
    <2>1. l + 1 \notin old
      BY <1>3, <1>9
    <2>2. old \cup {l + 1} \subseteq 0..Len(d)
      BY <1>2, <1>3, <1>9
    <2> HIDE DEF old
    <2>3. IsFiniteSet(old \cup {l + 1}) /\ Cardinality(old \cup {l + 1}) = n + 1
      BY <1>9, <2>1, FS_AddElement
    <2> QED BY <1>8, <2>2, <2>3 DEF old
  <1> HIDE DEF old
  <1>11. ASSUME NEW cut \in old
         PROVE  ItemAfter(d, Cuts(d), cut) = ItemAfter(c, old, cut)
    <2> DEFINE T == {k \in old : k > cut} \cup {l + 1}
               U == {k \in Cuts(d) : k > cut} \cup {Len(d) + 1}
    <2>1. cut \in 0..l
      BY <1>9
    <2>2. T \in SUBSET Nat /\ T # {} /\ \A k \in T : k \in (cut + 1)..(l + 1)
      <3>1. l + 1 \in T
        OBVIOUS
      <3>2. ASSUME NEW k \in T PROVE k \in Nat /\ k \in (cut + 1)..(l + 1)
        <4>1. CASE k \in old /\ k > cut
          BY <1>3, <1>9, <2>1, <4>1
        <4>2. CASE k = l + 1
          BY <1>3, <2>1, <4>2
        <4> QED BY <4>1, <4>2
      <3> HIDE DEF T
      <3> QED BY <3>1, <3>2
    <2>3. U = T \cup {Len(d) + 1}
      BY <1>3, <1>8, <2>1 DEF old
    <2>4. PICK m \in T : \A k \in T : m <= k
      <3> HIDE DEF T
      <3> QED BY <2>2, Least
    <2>5. m \in (cut + 1)..(l + 1) /\ m \in U /\ U \in SUBSET Nat /\ \A k \in U : m <= k
      <3> HIDE DEF T, U
      <3>1. m \in (cut + 1)..(l + 1) /\ m \in Nat
        BY <2>2
      <3>2. Len(d) = l + (1 + Len(x)) /\ l \in Nat /\ Len(x) \in Nat
        BY <1>2, <1>3
      <3>3. m <= Len(d) + 1 /\ Len(d) + 1 \in Nat
        BY <3>1, <3>2
      <3> QED BY <2>2, <2>3, <2>4, <3>1, <3>3
    <2>6. Min(T) = m /\ Min(U) = m
      <3> HIDE DEF T, U
      <3> QED BY <2>2, <2>4, <2>5, MinIs
    <2>7. SubSeq(d, cut + 1, m - 1) = SubSeq(c, cut + 1, m - 1)
      <3> DEFINE a == cut + 1
                 b == m - 1
      <3>1. a \in Int /\ b \in Int /\ \A j \in a..b : j \in 1..l
        BY <1>3, <2>1, <2>5
      <3>2. \A j \in a..b : d[j] = c[j] /\ c[j] \in S
        BY <1>3, <3>1, ElementOfSeq
      <3> HIDE DEF a, b
      <3>3. /\ SubSeq(d, a, b) \in Seq(S) /\ SubSeq(c, a, b) \in Seq(S)
            /\ Len(SubSeq(d, a, b)) = IF a <= b THEN b - a + 1 ELSE 0
            /\ Len(SubSeq(c, a, b)) = IF a <= b THEN b - a + 1 ELSE 0
            /\ \A i \in 1..b - a + 1 : SubSeq(d, a, b)[i] = d[a + i - 1]
            /\ \A i \in 1..b - a + 1 : SubSeq(c, a, b)[i] = c[a + i - 1]
        BY <3>1, <3>2, SubSeqProperties
      <3>4. ASSUME NEW i \in 1..Len(SubSeq(d, a, b))
            PROVE  SubSeq(d, a, b)[i] = SubSeq(c, a, b)[i]
        <4>1. i \in 1..b - a + 1 /\ a + i - 1 \in a..b
          BY <3>1, <3>3
        <4> QED BY <3>2, <3>3, <4>1
      <3>5. SubSeq(d, a, b) = SubSeq(c, a, b)
        BY <3>3, <3>4, SeqEqual, ZenonT(60)
      <3> QED BY <3>5 DEF a, b
    <2>8. ItemAfter(d, Cuts(d), cut) = SubSeq(d, cut + 1, Min(U) - 1)
      BY DEF ItemAfter
    <2>9. ItemAfter(c, old, cut) = SubSeq(c, cut + 1, Min(T) - 1)
      BY DEF ItemAfter
    <2> QED BY <2>6, <2>7, <2>8, <2>9
  <1>12. ItemAfter(d, Cuts(d), l + 1) = x
    <2> DEFINE U == {k \in Cuts(d) : k > l + 1} \cup {Len(d) + 1}
    <2>1. {k \in Cuts(d) : k > l + 1} = {}
      BY <1>3, <1>8, <1>9 DEF old
    <2>2. U = {Len(d) + 1} /\ Len(d) + 1 \in Nat
      BY <1>2, <1>3, <2>1
    <2>3. Min(U) = Len(d) + 1
      <3> HIDE DEF U
      <3> QED BY <2>2, MinIs
    <2>4. Spans(d, l + 1, x)
      <3>1. ASSUME NEW j \in 1..Len(x) PROVE d[(l + 1) + j] = x[j]
        <4>1. 1 + j \in 1..Len(y) /\ (l + 1) + j = l + (1 + j)
          BY <1>2, <1>3
        <4> QED BY <1>2, <1>3, <4>1
      <3> QED BY <1>2, <1>3, <3>1 DEF Spans
    <2>5. SubSeq(d, (l + 1) + 1, (l + 1) + Len(x)) = x
      <3> DEFINE k == l + 1
      <3>1. k \in Nat /\ d \in Seq(S) /\ Spans(d, k, x)
        BY <1>3, <2>4
      <3> HIDE DEF d, l, k
      <3>2. SubSeq(d, k + 1, k + Len(x)) = x
        BY <3>1, SpansIsPart, ZenonT(60)
      <3> QED BY <3>2 DEF k
    <2>6. (Len(d) + 1) - 1 = (l + 1) + Len(x)
      BY <1>2, <1>3
    <2>7. ItemAfter(d, Cuts(d), l + 1) = SubSeq(d, (l + 1) + 1, Min(U) - 1)
      BY DEF ItemAfter
    <2> QED BY <2>3, <2>5, <2>6, <2>7
  <1>13. {ItemAfter(d, Cuts(d), cut) : cut \in Cuts(d)} = items \cup {x}
    <2>1. {ItemAfter(c, old, cut) : cut \in old} = items
      BY DEF Lists, old
    <2>2. Cuts(d) = old \cup {l + 1}
      BY <1>8 DEF old
    <2> QED BY <1>11, <1>12, <2>1, <2>2, ZenonT(60)
  <1> QED BY <1>5, <1>10, <1>13 DEF Lists, d, y

-----------------------------------------------------------------------------

(* A clause is put behind a text: its keyword w and the rest x.            *)
Put(a, w, x) == (a \o <<w>>) \o x

(* What a clause behind a text leaves alone, and where its keyword and     *)
(* rest stand.                                                             *)
LEMMA ClausePutBehind ==
    ASSUME NEW S, NEW a \in Seq(S), NEW w \in S, NEW x \in Seq(S)
    PROVE  /\ Put(a, w, x) \in Seq(S) /\ Len(a) \in Nat /\ Len(x) \in Nat
           /\ Len(Put(a, w, x)) = (Len(a) + 1) + Len(x)
           /\ \A j \in 1..Len(a) : Put(a, w, x)[j] = a[j]
           /\ Put(a, w, x)[Len(a) + 1] = w
           /\ Spans(Put(a, w, x), Len(a) + 1, x)
  <1> DEFINE c == a \o <<w>>
             b == c \o x
  <1>1. <<w>> \in Seq(S) /\ Len(<<w>>) = 1 /\ <<w>>[1] = w
    BY ShortTexts
  <1>2. /\ c \in Seq(S) /\ Len(c) = Len(a) + 1 /\ Len(a) \in Nat
        /\ Spans(c, 0, a) /\ Spans(c, Len(a), <<w>>)
    BY <1>1, SpansConcat
  <1> HIDE DEF c
  <1>3. /\ b \in Seq(S) /\ Len(b) = Len(c) + Len(x) /\ Len(x) \in Nat
        /\ Spans(b, 0, c) /\ Spans(b, Len(c), x)
    BY <1>2, SpansConcat
  <1> HIDE DEF b
  <1>4. \A j \in 1..(Len(a) + 1) : b[j] = c[j]
    <2>1. \A j \in 1..Len(c) : b[0 + j] = c[j]
      BY <1>3 DEF Spans
    <2> QED BY <1>2, <2>1
  <1>5. \A j \in 1..Len(a) : b[j] = a[j]
    <2>1. \A j \in 1..Len(a) : c[0 + j] = a[j]
      BY <1>2 DEF Spans
    <2> QED BY <1>2, <1>4, <2>1
  <1>6. b[Len(a) + 1] = w
    <2>1. c[Len(a) + 1] = w
      BY <1>1, <1>2 DEF Spans
    <2> QED BY <1>2, <1>4, <2>1
  <1>7. Put(a, w, x) = b
    BY DEF Put, b, c
  <1> QED BY <1>2, <1>3, <1>5, <1>6, <1>7

(* The first clause stands at the begin.                                   *)
LEMMA FirstClause ==
    ASSUME NEW S, NEW w \in S, NEW x \in Seq(S)
    PROVE  /\ Put(<<>>, w, x) \in Seq(S) /\ Len(x) \in Nat /\ Len(Put(<<>>, w, x)) = 1 + Len(x)
           /\ Put(<<>>, w, x)[1] = w /\ Spans(Put(<<>>, w, x), 1, x)
  <1> DEFINE z == <<>>
             t == Put(z, w, x)
  <1>0. Len(z) = 0
    BY EmptySeq
  <1>1. z \in Seq(S)
    BY EmptySeq
  <1> HIDE DEF z
  <1>2. t \in Seq(S) /\ Len(x) \in Nat /\ Len(t) = (Len(z) + 1) + Len(x)
    BY <1>1, ClausePutBehind
  <1>3. t[Len(z) + 1] = w /\ Spans(t, Len(z) + 1, x)
    BY <1>1, ClausePutBehind
  <1> HIDE DEF t
  <1>4. Len(t) = 1 + Len(x) /\ t[1] = w /\ Spans(t, 1, x)
    BY <1>0, <1>2, <1>3
  <1> QED BY <1>2, <1>4 DEF t, z

ClauseWord == <<"SELECT", "FROM", "JOIN", "ON", "GROUP", "HAVING", "ORDER">>

(* The first n clauses of e, each behind its keyword, make up the text s;  *)
(* the keywords stand at the positions at.                                 *)
LaidOut(s, at, e, n) ==
    /\ Len(s) = at[n] + Len(e[n])
    /\ \A m \in 1..n : s[at[m]] = ClauseWord[m] /\ Spans(s, at[m], e[m])
    /\ \A j \in 1..Len(s) : \E m \in 1..n : j \in at[m]..(at[m] + Len(e[m]))

Positions(at, e) ==
    /\ at[1] = 1 /\ \A m \in 1..7 : at[m] \in Nat /\ at[m] > 0
    /\ \A m \in 1..6 : at[m + 1] = (at[m] + Len(e[m])) + 1

(* One more clause is laid out where the lengths of those before it say.   *)
LEMMA ClauseAdded ==
    ASSUME NEW S, NEW e \in [1..7 -> Seq(S)], NEW at, Positions(at, e), NEW n \in 1..6,
           NEW s \in Seq(S), LaidOut(s, at, e, n), ClauseWord[n + 1] \in S
    PROVE  /\ Put(s, ClauseWord[n + 1], e[n + 1]) \in Seq(S)
           /\ LaidOut(Put(s, ClauseWord[n + 1], e[n + 1]), at, e, n + 1)
  <1> DEFINE x == e[n + 1]
             w == ClauseWord[n + 1]
             t == Put(s, w, x)
  <1>0. n + 1 \in 1..7 /\ n \in 1..7
    OBVIOUS
  <1>1. x \in Seq(S) /\ w \in S
    BY <1>0
  <1> HIDE DEF x, w
  <1>2. /\ t \in Seq(S) /\ Len(s) \in Nat /\ Len(x) \in Nat
        /\ Len(t) = (Len(s) + 1) + Len(x)
        /\ \A j \in 1..Len(s) : t[j] = s[j]
        /\ t[Len(s) + 1] = w /\ Spans(t, Len(s) + 1, x)
    <2> HIDE DEF t
    <2>1. t = Put(s, w, x)
      BY DEF t
    <2>2. /\ Put(s, w, x) \in Seq(S) /\ Len(s) \in Nat /\ Len(x) \in Nat
          /\ Len(Put(s, w, x)) = (Len(s) + 1) + Len(x)
      BY <1>1, ClausePutBehind, SMTT(30)
    <2>3. /\ \A j \in 1..Len(s) : Put(s, w, x)[j] = s[j]
          /\ Put(s, w, x)[Len(s) + 1] = w
      BY <1>1, ClausePutBehind, SMTT(30)
    <2>4. Spans(Put(s, w, x), Len(s) + 1, x)
      BY <1>1, ClausePutBehind
    <2> QED BY <2>1, <2>2, <2>3, <2>4
  <1>9. Len(s) \in Nat /\ Len(x) \in Nat /\ Len(t) = (Len(s) + 1) + Len(x)
    BY <1>2
  <1> HIDE DEF t
  <1>3. at[n + 1] = Len(s) + 1
    BY DEF LaidOut, Positions
  <1>4. Len(t) = at[n + 1] + Len(x)
    BY <1>2, <1>3
  <1>5. ASSUME NEW m \in 1..n
        PROVE  t[at[m]] = ClauseWord[m] /\ Spans(t, at[m], e[m])
    <2>0. m \in 1..7
      BY <1>0, SMTT(30)
    <2>1. at[m] \in Nat /\ at[m] > 0 /\ e[m] \in Seq(S)
      BY <2>0 DEF Positions
    <2>2. Len(e[m]) \in Nat
      BY <2>1, LenProperties
    <2>3. at[m] + Len(e[m]) <= Len(s)
      BY DEF LaidOut, Spans
    <2>4. s[at[m]] = ClauseWord[m] /\ \A j \in 1..Len(e[m]) : s[at[m] + j] = e[m][j]
      BY DEF LaidOut, Spans
    <2> DEFINE k == at[m]
               l == Len(e[m])
    <2>5. k \in Nat /\ k > 0 /\ l \in Nat /\ k + l <= Len(s)
      BY <2>1, <2>2, <2>3
    <2> HIDE DEF k, l
    <2>6. k \in 1..Len(s)
      BY <1>9, <2>5
    <2>9. k + l <= Len(t)
      BY <1>9, <2>5
    <2>7. \A j \in 1..l : k + j \in 1..Len(s)
      BY <1>9, <2>5
    <2>8. t[k] = s[k] /\ \A j \in 1..l : t[k + j] = s[k + j]
      BY <1>2, <2>6, <2>7
    <2> QED BY <2>4, <2>8, <2>9 DEF Spans, k, l
  <1>6. t[at[n + 1]] = ClauseWord[n + 1] /\ Spans(t, at[n + 1], x)
    BY <1>2, <1>3 DEF w
  <1>7. ASSUME NEW m \in 1..(n + 1)
        PROVE  t[at[m]] = ClauseWord[m] /\ Spans(t, at[m], e[m])
    <2>1. m \in 1..n \/ m = n + 1
      OBVIOUS
    <2> QED BY <1>5, <1>6, <2>1 DEF x
  <1>8. ASSUME NEW j \in 1..Len(t)
        PROVE  \E m \in 1..(n + 1) : j \in at[m]..(at[m] + Len(e[m]))
    <2>1. CASE j \in 1..Len(s)
      <3>1. PICK m \in 1..n : j \in at[m]..(at[m] + Len(e[m]))
        BY <2>1 DEF LaidOut
      <3>2. m \in 1..(n + 1)
        OBVIOUS
      <3> QED BY <3>1, <3>2
    <2>2. CASE j \notin 1..Len(s)
      <3>1. j \in at[n + 1]..(at[n + 1] + Len(x))
        BY <1>2, <1>3, <1>4, <2>2
      <3>2. n + 1 \in 1..(n + 1)
        OBVIOUS
      <3> QED BY <3>1, <3>2 DEF x
    <2> QED BY <2>1, <2>2
  <1> QED BY <1>2, <1>4, <1>7, <1>8 DEF LaidOut, t, x, w

(* Seven clauses, one after the other.                                     *)
Chain(e) ==
    Put(Put(Put(Put(Put(Put(Put(<<>>, "SELECT", e[1]), "FROM", e[2]), "JOIN", e[3]),
        "ON", e[4]), "GROUP", e[5]), "HAVING", e[6]), "ORDER", e[7])

(* Seven clauses put behind one another are laid out.                      *)
LEMMA ChainLaidOut ==
    ASSUME NEW S, {ClauseWord[m] : m \in 1..7} \subseteq S, NEW e \in [1..7 -> Seq(S)]
    PROVE  /\ Chain(e) \in Seq(S)
           /\ \E at : Positions(at, e) /\ LaidOut(Chain(e), at, e, 7)
  <1>1. /\ ClauseWord[1] = "SELECT" /\ ClauseWord[2] = "FROM" /\ ClauseWord[3] = "JOIN"
        /\ ClauseWord[4] = "ON" /\ ClauseWord[5] = "GROUP" /\ ClauseWord[6] = "HAVING"
        /\ ClauseWord[7] = "ORDER"
    BY DEF ClauseWord
  <1>2. /\ "SELECT" \in S /\ "FROM" \in S /\ "JOIN" \in S /\ "ON" \in S /\ "GROUP" \in S
        /\ "HAVING" \in S /\ "ORDER" \in S
    BY <1>1
  <1>3. \A m \in 1..7 : Len(e[m]) \in Nat
    BY LenProperties
  <1>4. PICK at : Positions(at, e)
    <2> DEFINE l(m) == Len(e[m])
               a2 == (1 + l(1)) + 1
               a3 == (a2 + l(2)) + 1
               a4 == (a3 + l(3)) + 1
               a5 == (a4 + l(4)) + 1
               a6 == (a5 + l(5)) + 1
               a7 == (a6 + l(6)) + 1
               f == <<1, a2, a3, a4, a5, a6, a7>>
    <2>1. l(1) \in Nat /\ l(2) \in Nat /\ l(3) \in Nat /\ l(4) \in Nat /\ l(5) \in Nat /\ l(6) \in Nat
      BY <1>3
    <2>2. /\ 1 \in Nat \ {0} /\ a2 \in Nat \ {0} /\ a3 \in Nat \ {0} /\ a4 \in Nat \ {0}
          /\ a5 \in Nat \ {0} /\ a6 \in Nat \ {0} /\ a7 \in Nat \ {0}
      <3>1. \A a, b \in Nat : (a + b) + 1 \in Nat \ {0} /\ (a + b) + 1 \in Nat
        OBVIOUS
      <3> HIDE DEF l
      <3>2. a2 \in Nat \ {0} /\ a2 \in Nat
        BY <2>1, <3>1
      <3> HIDE DEF a2
      <3>3. a3 \in Nat \ {0} /\ a3 \in Nat
        BY <2>1, <3>1, <3>2
      <3> HIDE DEF a3
      <3>4. a4 \in Nat \ {0} /\ a4 \in Nat
        BY <2>1, <3>1, <3>3
      <3> HIDE DEF a4
      <3>5. a5 \in Nat \ {0} /\ a5 \in Nat
        BY <2>1, <3>1, <3>4
      <3> HIDE DEF a5
      <3>6. a6 \in Nat \ {0} /\ a6 \in Nat
        BY <2>1, <3>1, <3>5
      <3> HIDE DEF a6
      <3>7. a7 \in Nat \ {0}
        BY <2>1, <3>1, <3>6
      <3> QED BY <3>2, <3>3, <3>4, <3>5, <3>6, <3>7
    <2>3. /\ f[2] = (f[1] + l(1)) + 1 /\ f[3] = (f[2] + l(2)) + 1 /\ f[4] = (f[3] + l(3)) + 1
          /\ f[5] = (f[4] + l(4)) + 1 /\ f[6] = (f[5] + l(5)) + 1 /\ f[7] = (f[6] + l(6)) + 1
          /\ f[1] = 1
      OBVIOUS
    <2> HIDE DEF a2, a3, a4, a5, a6, a7
    <2>6. /\ f[1] \in Nat \ {0} /\ f[2] \in Nat \ {0} /\ f[3] \in Nat \ {0} /\ f[4] \in Nat \ {0}
          /\ f[5] \in Nat \ {0} /\ f[6] \in Nat \ {0} /\ f[7] \in Nat \ {0}
      BY <2>2
    <2> HIDE DEF f, l
    <2>4. ASSUME NEW m \in 1..7 PROVE f[m] \in Nat /\ f[m] > 0
      <3>1. m = 1 \/ m = 2 \/ m = 3 \/ m = 4 \/ m = 5 \/ m = 6 \/ m = 7
        OBVIOUS
      <3>2. \A a \in Nat \ {0} : a \in Nat /\ a > 0
        OBVIOUS
      <3> QED BY <2>6, <3>1, <3>2
    <2>5. ASSUME NEW m \in 1..6 PROVE f[m + 1] = (f[m] + l(m)) + 1
      <3>1. m = 1 \/ m = 2 \/ m = 3 \/ m = 4 \/ m = 5 \/ m = 6
        OBVIOUS
      <3>2. 1 + 1 = 2 /\ 2 + 1 = 3 /\ 3 + 1 = 4 /\ 4 + 1 = 5 /\ 5 + 1 = 6 /\ 6 + 1 = 7
        OBVIOUS
      <3> QED BY <2>3, <3>1, <3>2
    <2> QED BY <2>3, <2>4, <2>5 DEF Positions, l
  <1> DEFINE c1 == Put(<<>>, "SELECT", e[1])
             c2 == Put(c1, "FROM", e[2])
             c3 == Put(c2, "JOIN", e[3])
             c4 == Put(c3, "ON", e[4])
             c5 == Put(c4, "GROUP", e[5])
             c6 == Put(c5, "HAVING", e[6])
             c7 == Put(c6, "ORDER", e[7])
  <1>5. c1 \in Seq(S) /\ LaidOut(c1, at, e, 1)
    <2> DEFINE x == e[1]
               w == "SELECT"
    <2>1. x \in Seq(S) /\ w \in S
      BY <1>2
    <2> HIDE DEF x, w
    <2>2. /\ Put(<<>>, w, x) \in Seq(S) /\ Len(x) \in Nat /\ Len(Put(<<>>, w, x)) = 1 + Len(x)
          /\ Put(<<>>, w, x)[1] = w /\ Spans(Put(<<>>, w, x), 1, x)
      BY <2>1, FirstClause
    <2>3. c1 = Put(<<>>, w, x)
      BY DEF w, x
    <2> HIDE DEF c1
    <2>4. /\ c1 \in Seq(S) /\ Len(x) \in Nat /\ Len(c1) = 1 + Len(x)
          /\ c1[1] = w /\ Spans(c1, 1, x)
      BY <2>1, <2>2, <2>3
    <2>5. at[1] = 1
      BY <1>4 DEF Positions
    <2>6. \A j \in 1..Len(c1) : \E m \in 1..1 : j \in at[m]..(at[m] + Len(e[m]))
      BY <2>4, <2>5, SMTT(30) DEF x
    <2>7. \A m \in 1..1 : c1[at[m]] = ClauseWord[m] /\ Spans(c1, at[m], e[m])
      <3>1. \A m \in 1..1 : m = 1
        OBVIOUS
      <3>2. c1[at[1]] = ClauseWord[1] /\ Spans(c1, at[1], e[1])
        BY <1>1, <2>4, <2>5 DEF w, x
      <3> QED BY <3>1, <3>2
    <2>8. Len(c1) = at[1] + Len(e[1])
      BY <2>4, <2>5 DEF x
    <2> QED BY <2>4, <2>6, <2>7, <2>8 DEF LaidOut
  <1> HIDE DEF c1
  <1>6. c2 \in Seq(S) /\ LaidOut(c2, at, e, 2)
    <2>1. 1 \in 1..6 /\ 1 + 1 = 2
      OBVIOUS
    <2>2. /\ Put(c1, ClauseWord[1 + 1], e[1 + 1]) \in Seq(S)
          /\ LaidOut(Put(c1, ClauseWord[1 + 1], e[1 + 1]), at, e, 1 + 1)
      BY <1>1, <1>2, <1>4, <1>5, <2>1, ClauseAdded, Zenon
    <2> QED BY <1>1, <2>1, <2>2, Zenon
  <1> HIDE DEF c2
  <1>7. c3 \in Seq(S) /\ LaidOut(c3, at, e, 3)
    <2>1. 2 \in 1..6 /\ 2 + 1 = 3
      OBVIOUS
    <2>2. /\ Put(c2, ClauseWord[2 + 1], e[2 + 1]) \in Seq(S)
          /\ LaidOut(Put(c2, ClauseWord[2 + 1], e[2 + 1]), at, e, 2 + 1)
      BY <1>1, <1>2, <1>4, <1>6, <2>1, ClauseAdded, Zenon
    <2> QED BY <1>1, <2>1, <2>2, Zenon
  <1> HIDE DEF c3
  <1>8. c4 \in Seq(S) /\ LaidOut(c4, at, e, 4)
    <2>1. 3 \in 1..6 /\ 3 + 1 = 4
      OBVIOUS
    <2>2. /\ Put(c3, ClauseWord[3 + 1], e[3 + 1]) \in Seq(S)
          /\ LaidOut(Put(c3, ClauseWord[3 + 1], e[3 + 1]), at, e, 3 + 1)
      BY <1>1, <1>2, <1>4, <1>7, <2>1, ClauseAdded, Zenon
    <2> QED BY <1>1, <2>1, <2>2, Zenon
  <1> HIDE DEF c4
  <1>9. c5 \in Seq(S) /\ LaidOut(c5, at, e, 5)
    <2>1. 4 \in 1..6 /\ 4 + 1 = 5
      OBVIOUS
    <2>2. /\ Put(c4, ClauseWord[4 + 1], e[4 + 1]) \in Seq(S)
          /\ LaidOut(Put(c4, ClauseWord[4 + 1], e[4 + 1]), at, e, 4 + 1)
      BY <1>1, <1>2, <1>4, <1>8, <2>1, ClauseAdded, Zenon
    <2> QED BY <1>1, <2>1, <2>2, Zenon
  <1> HIDE DEF c5
  <1>10. c6 \in Seq(S) /\ LaidOut(c6, at, e, 6)
    <2>1. 5 \in 1..6 /\ 5 + 1 = 6
      OBVIOUS
    <2>2. /\ Put(c5, ClauseWord[5 + 1], e[5 + 1]) \in Seq(S)
          /\ LaidOut(Put(c5, ClauseWord[5 + 1], e[5 + 1]), at, e, 5 + 1)
      BY <1>1, <1>2, <1>4, <1>9, <2>1, ClauseAdded, Zenon
    <2> QED BY <1>1, <2>1, <2>2, Zenon
  <1> HIDE DEF c6
  <1>11. c7 \in Seq(S) /\ LaidOut(c7, at, e, 7)
    <2>1. 6 \in 1..6 /\ 6 + 1 = 7
      OBVIOUS
    <2>2. /\ Put(c6, ClauseWord[6 + 1], e[6 + 1]) \in Seq(S)
          /\ LaidOut(Put(c6, ClauseWord[6 + 1], e[6 + 1]), at, e, 6 + 1)
      BY <1>1, <1>2, <1>4, <1>10, <2>1, ClauseAdded, Zenon
    <2> QED BY <1>1, <2>1, <2>2, Zenon
  <1>12. c7 = Chain(e)
    BY DEF Chain, c1, c2, c3, c4, c5, c6, c7
  <1> QED BY <1>4, <1>11, <1>12

-----------------------------------------------------------------------------
(* The words of the representative query, with p and i for its aliases:    *)
(* those that may stand in any clause, and the others of its first three.  *)
Body(p, i) ==
    {"BY", "ASC", "DESC", "(", ")", ".", Comma, "=", "<", "SUM"}
        \cup AllowedSourceColumns \cup AllowedOutputAliases \cup {p, i}
Front3(p, i) ==
    Body(p, i) \cup {"TOP", "AS", "INNER", "LEFT", "Production"} \cup AllowedTables \cup Numerals
ClauseWords == {"SELECT", "FROM", "JOIN", "ON", "GROUP", "HAVING", "ORDER"}
Marks == {";", "'", "--", "/*", "*"}

IsName(w) == w \notin ReservedWords \cup GuardrailForbidden \cup Punctuation \cup Numerals

(* No other word is an alias.                                              *)
LEMMA NamesAreNew ==
    ASSUME NEW w, IsName(w)
    PROVE  /\ w \notin ClauseWords /\ w \notin Marks /\ w \notin GuardrailForbidden
           /\ w \notin ClauseBoundaries /\ w # "AS" /\ w \notin Punctuation /\ w \notin Numerals
           /\ w # "." /\ w # Comma /\ w # "("
  <1>1. w \notin ReservedWords /\ w \notin GuardrailForbidden /\ w \notin Punctuation /\ w \notin Numerals
    BY DEF IsName
  <1>2. w \notin ClauseWords /\ w \notin ClauseBoundaries /\ w # "AS"
    BY <1>1 DEF ReservedWords, ClauseWords, ClauseBoundaries
  <1>3. w \notin Marks /\ w # "." /\ w # Comma /\ w # "("
    BY <1>1, Zenon DEF Punctuation, Marks, Comma
  <1> QED BY <1>1, <1>2, <1>3

(* A number is none of the words that the rules look for.                  *)
LEMMA NumeralsAreNew ==
    ASSUME NEW w \in Numerals
    PROVE  /\ w \notin ClauseWords /\ w \notin Marks /\ w \notin GuardrailForbidden
           /\ w # "AS" /\ w # "("  /\ w # Comma /\ w # "." /\ w # "Production"
  <1>1. w \notin Punctuation /\ w \notin Vocabulary
    BY SqlAssumption
  <1>2. w \notin ReservedWords /\ w \notin GuardrailForbidden /\ w # "Production"
    BY <1>1 DEF Vocabulary
  <1>3. w \notin ClauseWords /\ w # "AS"
    BY <1>2 DEF ReservedWords, ClauseWords
  <1>4. w \notin Marks /\ w # "." /\ w # Comma /\ w # "("
    BY <1>1, Zenon DEF Punctuation, Marks, Comma
  <1> QED BY <1>2, <1>3, <1>4

(* A word of the code is no numeral.                                       *)
LEMMA VocabularyIsWords ==
    /\ \A w \in Vocabulary : w \notin Punctuation /\ w \notin Numerals /\ Fold(w) = w
    /\ Comma \in Punctuation /\ {"(", ")", ".", "=", "<"} \subseteq Punctuation
    /\ ~(Comma \in {"(", ")", "."}) /\ \A w \in Punctuation : Fold(w) = w
  <1>1. \A w \in Vocabulary : w \notin Numerals /\ Fold(w) = w
    BY SqlAssumption DEF Fold
  <1>2. \A w \in Vocabulary : w \notin Punctuation
    <2>1. \A w \in ReservedWords : w \notin Punctuation
      <3>1. \A w \in {"SELECT", "FROM", "JOIN", "INNER", "LEFT", "ON", "WHERE"} : w \notin Punctuation
        BY Zenon DEF Punctuation
      <3>2. \A w \in {"GROUP", "BY", "HAVING", "ORDER", "ASC", "DESC", "TOP"} : w \notin Punctuation
        BY Zenon DEF Punctuation
      <3>3. \A w \in {"AS", "AND", "OR", "NOT", "IN", "IS", "NULL"} : w \notin Punctuation
        BY Zenon DEF Punctuation
      <3>4. \A w \in {"SUM", "COUNT", "AVG", "MIN", "MAX"} : w \notin Punctuation
        BY Zenon DEF Punctuation
      <3> QED BY <3>1, <3>2, <3>3, <3>4, Zenon DEF ReservedWords
    <2>2. \A w \in GuardrailForbidden : w \notin Punctuation
      <3>1. \A w \in {"INSERT", "UPDATE", "DELETE", "MERGE", "EXEC", "EXECUTE"} : w \notin Punctuation
        BY Zenon DEF Punctuation
      <3>2. \A w \in {"DROP", "ALTER", "CREATE", "TRUNCATE", "GRANT", "REVOKE"} : w \notin Punctuation
        BY Zenon DEF Punctuation
      <3>3. \A w \in {"INTO", "WITH", "UNION", "EXCEPT", "INTERSECT"} : w \notin Punctuation
        BY Zenon DEF Punctuation
      <3> QED BY <3>1, <3>2, <3>3, Zenon DEF GuardrailForbidden, ExecutorForbidden
    <2>3. \A w \in AllowedTables \cup {"Production"} : w \notin Punctuation
      BY DEF AllowedTables, Punctuation
    <2>4. \A w \in AllowedSourceColumns \cup AllowedOutputAliases : w \notin Punctuation
      BY DEF AllowedSourceColumns, AllowedOutputAliases, Punctuation
    <2> QED BY <2>1, <2>2, <2>3, <2>4 DEF Vocabulary
  <1>3. /\ Comma \in Punctuation /\ {"(", ")", ".", "=", "<"} \subseteq Punctuation
        /\ ~(Comma \in {"(", ")", "."})
    BY Zenon DEF Comma, Punctuation
  <1> QED BY <1>1, <1>2, <1>3, FoldKeepsPunctuation

(* No word of ON, GROUP BY, HAVING or ORDER BY is a keyword or forbidden.  *)
LEMMA BodyWords ==
    ASSUME NEW p, NEW i, IsName(p), IsName(i), NEW w \in Body(p, i)
    PROVE  /\ w \notin ClauseWords /\ w \notin Marks /\ w \notin GuardrailForbidden
           /\ w \notin ClauseBoundaries /\ w # "AS"
           /\ w \notin Punctuation =>
                 w \in ReservedWords \cup AllowedSourceColumns \cup {p, i, "CurrentInventory"}
  <1>1. CASE w \in {p, i}
    BY <1>1, NamesAreNew
  <1>2. CASE w \in {"BY", "ASC", "DESC", "SUM"}
    <2>1. w \in ReservedWords
      BY <1>2 DEF ReservedWords
    <2>2. w \notin ClauseWords /\ w \notin GuardrailForbidden /\ w \notin ClauseBoundaries /\ w # "AS"
      BY <1>2 DEF ClauseWords, GuardrailForbidden, ExecutorForbidden, ClauseBoundaries
    <2>3. w \notin Marks
      BY <1>2, Zenon DEF Marks
    <2> QED BY <2>1, <2>2, <2>3
  <1>3. CASE w \in {"(", ")", ".", "=", "<"} \/ w = Comma
    <2>1. w \in Punctuation
      BY <1>3, VocabularyIsWords
    <2>2. w \notin ReservedWords /\ w \notin GuardrailForbidden
      BY <2>1, VocabularyIsWords DEF Vocabulary
    <2>3. w \notin ClauseWords /\ w \notin ClauseBoundaries /\ w # "AS"
      BY <2>2 DEF ClauseWords, ClauseBoundaries, ReservedWords
    <2>4. w \notin Marks
      BY <1>3, Zenon DEF Marks, Comma
    <2> QED BY <2>1, <2>2, <2>3, <2>4
  <1>4. CASE w \in AllowedSourceColumns \cup AllowedOutputAliases
    <2>1. w \in AllowedSourceColumns \cup {"CurrentInventory"}
      BY <1>4 DEF AllowedSourceColumns, AllowedOutputAliases
    <2>2. w \notin ClauseWords /\ w \notin GuardrailForbidden /\ w \notin ClauseBoundaries /\ w # "AS"
      BY <2>1 DEF ClauseWords, GuardrailForbidden, ExecutorForbidden, ClauseBoundaries, AllowedSourceColumns
    <2>3. w \notin Marks
      BY <2>1, Zenon DEF Marks, AllowedSourceColumns
    <2> QED BY <2>1, <2>2, <2>3
  <1> QED BY <1>1, <1>2, <1>3, <1>4 DEF Body

(* Neither is one of SELECT, FROM or JOIN.                                 *)
LEMMA FrontWords ==
    ASSUME NEW p, NEW i, IsName(p), IsName(i), NEW w \in Front3(p, i)
    PROVE  /\ w \notin ClauseWords /\ w \notin Marks /\ w \notin GuardrailForbidden
           /\ w \notin Punctuation \cup Numerals =>
                 w \in ReservedWords \cup AllowedTables \cup {"Production"} \cup AllowedSourceColumns
                         \cup {p, i, "CurrentInventory"}
  <1>1. CASE w \in Body(p, i)
    BY <1>1, BodyWords
  <1>2. CASE w \in {"TOP", "AS", "INNER", "LEFT"}
    <2>1. w \in ReservedWords
      BY <1>2 DEF ReservedWords
    <2>2. w \notin ClauseWords /\ w \notin GuardrailForbidden
      BY <1>2 DEF ClauseWords, GuardrailForbidden, ExecutorForbidden
    <2>3. w \notin Marks
      BY <1>2, Zenon DEF Marks
    <2> QED BY <2>1, <2>2, <2>3
  <1>3. CASE w = "Production" \/ w \in AllowedTables
    <2>1. w \notin ClauseWords /\ w \notin GuardrailForbidden
      BY <1>3 DEF ClauseWords, GuardrailForbidden, ExecutorForbidden, AllowedTables
    <2>2. w \notin Marks
      BY <1>3, Zenon DEF Marks, AllowedTables
    <2> QED BY <1>3, <2>1, <2>2
  <1>4. CASE w \in Numerals
    BY <1>4, NumeralsAreNew
  <1> QED BY <1>1, <1>2, <1>3, <1>4 DEF Front3

-----------------------------------------------------------------------------
(* The text t is seven clauses d at the positions at, of those words.      *)
Words(p, i) == Front3(p, i) \cup {ClauseWord[m] : m \in 1..7}

Shaped(t, at, d, p, i) ==
    /\ IsName(p) /\ IsName(i) /\ p # i
    /\ t \in Seq(Words(p, i)) /\ d \in [1..7 -> Seq(Front3(p, i))]
    /\ \A m \in 4..7 : d[m] \in Seq(Body(p, i))
    /\ Positions(at, d) /\ LaidOut(t, at, d, 7)

(* The seven keywords are different.                                       *)
LEMMA SevenWords ==
    /\ ClauseWord[1] = "SELECT" /\ ClauseWord[2] = "FROM" /\ ClauseWord[3] = "JOIN"
    /\ ClauseWord[4] = "ON" /\ ClauseWord[5] = "GROUP" /\ ClauseWord[6] = "HAVING"
    /\ ClauseWord[7] = "ORDER"
    /\ \A m \in 1..7 : ClauseWord[m] \in ClauseWords
    /\ \A m, n \in 1..7 : ClauseWord[m] = ClauseWord[n] => m = n
  <1>1. /\ ClauseWord[1] = "SELECT" /\ ClauseWord[2] = "FROM" /\ ClauseWord[3] = "JOIN"
        /\ ClauseWord[4] = "ON" /\ ClauseWord[5] = "GROUP" /\ ClauseWord[6] = "HAVING"
        /\ ClauseWord[7] = "ORDER"
    BY DEF ClauseWord
  <1>2. \A m \in 1..7 : m = 1 \/ m = 2 \/ m = 3 \/ m = 4 \/ m = 5 \/ m = 6 \/ m = 7
    OBVIOUS
  <1>3. \A m \in 1..7 : ClauseWord[m] \in ClauseWords
    BY <1>1, <1>2 DEF ClauseWords
  <1>4. \A m, n \in 1..7 : ClauseWord[m] = ClauseWord[n] => m = n
    BY <1>1, <1>2
  <1> QED BY <1>1, <1>3, <1>4

(* Where the clauses are.                                                  *)
LEMMA Ends ==
    ASSUME NEW t, NEW at, NEW d, NEW p, NEW i, Shaped(t, at, d, p, i)
    PROVE  /\ Len(t) \in Nat /\ DOMAIN t = 1..Len(t)
           /\ \A m \in 1..7 : at[m] \in Nat /\ Len(d[m]) \in Nat /\ at[m] \in 1..Len(t)
           /\ at[1] = 1 /\ at[2] = (1 + Len(d[1])) + 1 /\ at[3] = (at[2] + Len(d[2])) + 1
           /\ at[4] = (at[3] + Len(d[3])) + 1 /\ at[5] = (at[4] + Len(d[4])) + 1
           /\ at[6] = (at[5] + Len(d[5])) + 1 /\ at[7] = (at[6] + Len(d[6])) + 1
           /\ Len(t) = at[7] + Len(d[7])
  <1>1. Len(t) \in Nat /\ DOMAIN t = 1..Len(t)
    BY LenProperties DEF Shaped
  <1>2. ASSUME NEW m \in 1..7
        PROVE  at[m] \in Nat /\ at[m] > 0 /\ Len(d[m]) \in Nat /\ at[m] + Len(d[m]) <= Len(t)
    <2>1. d[m] \in Seq(Front3(p, i)) /\ at[m] \in Nat /\ at[m] > 0
      BY DEF Shaped, Positions
    <2>2. Len(d[m]) \in Nat
      BY <2>1, LenProperties
    <2>3. at[m] + Len(d[m]) <= Len(t)
      BY DEF Shaped, LaidOut, Spans
    <2> QED BY <2>1, <2>2, <2>3
  <1>3. \A m \in 1..7 : at[m] \in 1..Len(t)
    <2> SUFFICES ASSUME NEW m \in 1..7 PROVE at[m] \in 1..Len(t)
      OBVIOUS
    <2> DEFINE k == at[m]
               l == Len(d[m])
    <2>1. k \in Nat /\ k > 0 /\ l \in Nat /\ k + l <= Len(t)
      BY <1>2
    <2> HIDE DEF k, l
    <2>2. k \in 1..Len(t)
      BY <1>1, <2>1
    <2> QED BY <2>2 DEF k
  <1>4. at[1] = 1 /\ \A m \in 1..6 : at[m + 1] = (at[m] + Len(d[m])) + 1
    BY DEF Shaped, Positions
  <1>5. /\ 1 + 1 = 2 /\ 2 + 1 = 3 /\ 3 + 1 = 4 /\ 4 + 1 = 5 /\ 5 + 1 = 6 /\ 6 + 1 = 7
        /\ 1 \in 1..6 /\ 2 \in 1..6 /\ 3 \in 1..6 /\ 4 \in 1..6 /\ 5 \in 1..6 /\ 6 \in 1..6
    OBVIOUS
  <1>6. /\ at[2] = (at[1] + Len(d[1])) + 1 /\ at[3] = (at[2] + Len(d[2])) + 1
        /\ at[4] = (at[3] + Len(d[3])) + 1 /\ at[5] = (at[4] + Len(d[4])) + 1
        /\ at[6] = (at[5] + Len(d[5])) + 1 /\ at[7] = (at[6] + Len(d[6])) + 1
    BY <1>4, <1>5, Zenon
  <1>7. Len(t) = at[7] + Len(d[7])
    BY DEF Shaped, LaidOut
  <1> QED BY <1>1, <1>2, <1>3, <1>4, <1>6, <1>7

(* A position holds the keyword of a clause or a word of its rest.         *)
KeywordPlace(t, at, j) == \E m \in 1..7 : j = at[m] /\ t[j] = ClauseWord[m]
RestPlace(t, at, d, p, i, j) ==
    \E m \in 1..7 : \E k \in 1..Len(d[m]) :
        j = at[m] + k /\ t[j] = d[m][k] /\ d[m][k] \in Front3(p, i)

(* Each word of the text is a keyword or in the rest of a clause.          *)
LEMMA WordOf ==
    ASSUME NEW t, NEW at, NEW d, NEW p, NEW i, Shaped(t, at, d, p, i), NEW j \in 1..Len(t)
    PROVE  KeywordPlace(t, at, j) \/ RestPlace(t, at, d, p, i, j)
  <1>1. PICK m \in 1..7 : j \in at[m]..(at[m] + Len(d[m]))
    BY DEF Shaped, LaidOut
  <1>2. at[m] \in Nat /\ Len(d[m]) \in Nat /\ j \in Nat
    <2>1. Len(t) \in Nat
      BY Ends
    <2>2. \A k \in 1..7 : at[k] \in Nat /\ Len(d[k]) \in Nat
      BY Ends
    <2>3. j \in Nat
      BY <2>1
    <2> QED BY <2>2, <2>3
  <1>3. t[at[m]] = ClauseWord[m] /\ \A k \in 1..Len(d[m]) : t[at[m] + k] = d[m][k]
    BY DEF Shaped, LaidOut, Spans
  <1>4. CASE j = at[m]
    BY <1>3, <1>4 DEF KeywordPlace
  <1>5. CASE j # at[m]
    <2> DEFINE k == j - at[m]
    <2>1. k \in 1..Len(d[m]) /\ j = at[m] + k
      BY <1>1, <1>2, <1>5
    <2>2. d[m] \in Seq(Front3(p, i))
      BY DEF Shaped
    <2> HIDE DEF k
    <2>3. d[m][k] \in Front3(p, i)
      BY <2>1, <2>2, ElementOfSeq
    <2> QED BY <1>3, <2>1, <2>3 DEF RestPlace
  <1> QED BY <1>4, <1>5

(* The rest of a clause, part by part.                                     *)
LEMMA PartOf ==
    ASSUME NEW t, NEW at, NEW d, NEW p, NEW i, Shaped(t, at, d, p, i), NEW m \in 1..7
    PROVE  /\ t[at[m]] = ClauseWord[m] /\ Spans(t, at[m], d[m]) /\ d[m] \in Seq(Front3(p, i))
           /\ \A k \in 1..Len(d[m]) : t[at[m] + k] = d[m][k] /\ d[m][k] \in Front3(p, i)
  <1>1. t[at[m]] = ClauseWord[m] /\ Spans(t, at[m], d[m]) /\ d[m] \in Seq(Front3(p, i))
    BY DEF Shaped, LaidOut
  <1>2. \A k \in 1..Len(d[m]) : t[at[m] + k] = d[m][k]
    BY <1>1 DEF Spans
  <1>3. \A k \in 1..Len(d[m]) : d[m][k] \in Front3(p, i)
    BY <1>1, ElementOfSeq
  <1> QED BY <1>1, <1>2, <1>3

(* A keyword stands at the beginning of its clause and nowhere else.       *)
LEMMA KeywordAt ==
    ASSUME NEW t, NEW at, NEW d, NEW p, NEW i, Shaped(t, at, d, p, i), NEW m \in 1..7
    PROVE  {j \in 1..Len(t) : t[j] = ClauseWord[m]} = {at[m]}
  <1>1. at[m] \in 1..Len(t) /\ t[at[m]] = ClauseWord[m]
    BY Ends, PartOf
  <1>2. ASSUME NEW j \in 1..Len(t), t[j] = ClauseWord[m] PROVE j = at[m]
    <2>1. t[j] \notin Front3(p, i)
      BY <1>2, SevenWords, FrontWords DEF Shaped
    <2>2. ~RestPlace(t, at, d, p, i, j)
      BY <2>1 DEF RestPlace
    <2>3. KeywordPlace(t, at, j)
      BY <2>2, WordOf
    <2>4. PICK n \in 1..7 : j = at[n] /\ t[j] = ClauseWord[n]
      BY <2>3 DEF KeywordPlace
    <2> QED BY <1>2, <2>4, SevenWords
  <1> QED BY <1>1, <1>2

(* All words.                                                              *)
LEMMA WordsOf ==
    ASSUME NEW t, NEW at, NEW d, NEW p, NEW i, Shaped(t, at, d, p, i), NEW j \in 1..Len(t)
    PROVE  /\ t[j] \in ClauseWords \cup Front3(p, i)
           /\ t[j] \notin Marks /\ t[j] \notin GuardrailForbidden
  <1>1. t[j] \in ClauseWords \/ t[j] \in Front3(p, i)
    <2>1. CASE KeywordPlace(t, at, j)
      BY <2>1, SevenWords DEF KeywordPlace
    <2>2. CASE RestPlace(t, at, d, p, i, j)
      BY <2>2 DEF RestPlace
    <2> QED BY <2>1, <2>2, WordOf
  <1>2. CASE t[j] \in ClauseWords
    <2> DEFINE w == t[j]
    <2>1. w \in ClauseWords
      BY <1>2
    <2> HIDE DEF w
    <2>2. w \notin GuardrailForbidden
      BY <2>1 DEF ClauseWords, GuardrailForbidden, ExecutorForbidden
    <2>3. w \notin Marks
      BY <2>1, Zenon DEF ClauseWords, Marks
    <2> QED BY <2>1, <2>2, <2>3 DEF w
  <1>3. CASE t[j] \in Front3(p, i)
    BY <1>3, FrontWords DEF Shaped
  <1> QED BY <1>1, <1>2, <1>3

-----------------------------------------------------------------------------
(* Rules 1 to 5 and 7.                                                     *)
LEMMA SelectRule ==
    ASSUME NEW t, NEW at, NEW d, NEW p, NEW i, Shaped(t, at, d, p, i)
    PROVE  SingleSelect(t) /\ NoForbiddenKeyword(t)
  <1>1. DOMAIN t = 1..Len(t) /\ at[1] = 1 /\ at[1] \in 1..Len(t) /\ 1 \in 1..7
    BY Ends
  <1>2. \A j \in DOMAIN t : t[j] \notin Marks /\ t[j] \notin GuardrailForbidden
    BY <1>1, WordsOf
  <1>3. {k \in DOMAIN t : t[k] = "SELECT"} = {1}
    <2>1. {j \in 1..Len(t) : t[j] = ClauseWord[1]} = {at[1]}
      BY <1>1, KeywordAt
    <2>2. ClauseWord[1] = "SELECT"
      BY SevenWords
    <2> QED BY <1>1, <2>1, <2>2
  <1>4. t # <<>>
    <2>1. DOMAIN <<>> = 1..0
      OBVIOUS
    <2> QED BY <1>1, <2>1
  <1>5. ~Occur(t, Marks) /\ ~Occur(t, GuardrailForbidden)
    BY <1>2 DEF Occur
  <1> QED BY <1>3, <1>4, <1>5, Zenon DEF SingleSelect, NoForbiddenKeyword, Marks

(* The least position that holds a word of W.                              *)
LEMMA FirstIs ==
    ASSUME NEW t, Len(t) \in Nat, NEW W, NEW k \in Nat, NEW m \in (k + 1)..Len(t), t[m] \in W,
           \A j \in (k + 1)..Len(t) : t[j] \in W => m <= j
    PROVE  FirstAfter(t, W, k) = m
  <1> DEFINE T == {j \in (k + 1)..Len(t) : t[j] \in W} \cup {Len(t) + 1}
  <1>1. T \in SUBSET Nat /\ m \in T /\ \A y \in T : m <= y
    <2>1. ASSUME NEW y \in T PROVE y \in Nat /\ m <= y
      <3>1. CASE y = Len(t) + 1
        BY <3>1
      <3>2. CASE y \in (k + 1)..Len(t) /\ t[y] \in W
        BY <3>2
      <3> QED BY <3>1, <3>2
    <2>2. m \in T
      OBVIOUS
    <2> HIDE DEF T
    <2> QED BY <2>1, <2>2
  <1>2. FirstAfter(t, W, k) = Min(T)
    BY DEF FirstAfter
  <1> HIDE DEF T
  <1> QED BY <1>1, <1>2, MinIs

(* A keyword of a clause is found where the clause begins.                 *)
LEMMA KeywordFound ==
    ASSUME NEW t, NEW at, NEW d, NEW p, NEW i, Shaped(t, at, d, p, i), NEW m \in 1..7,
           NEW k \in Nat, k < at[m]
    PROVE  FirstAfter(t, {ClauseWord[m]}, k) = at[m] /\ at[m] \in DOMAIN t
  <1>1. /\ Len(t) \in Nat /\ at[m] \in Nat /\ at[m] \in 1..Len(t) /\ DOMAIN t = 1..Len(t)
    BY Ends
  <1>2. {j \in 1..Len(t) : t[j] = ClauseWord[m]} = {at[m]}
    BY KeywordAt
  <1>3. t[at[m]] \in {ClauseWord[m]}
    BY <1>2
  <1> DEFINE n == at[m]
             W == {ClauseWord[m]}
  <1>4. n \in (k + 1)..Len(t) /\ t[n] \in W
    BY <1>1, <1>3
  <1>5. \A j \in (k + 1)..Len(t) : t[j] \in W => n <= j
    <2> SUFFICES ASSUME NEW j \in (k + 1)..Len(t), t[j] = ClauseWord[m] PROVE n <= j
      OBVIOUS
    <2>1. j \in 1..Len(t)
      BY <1>1
    <2>2. j = n
      BY <1>2, <2>1
    <2> QED BY <1>1, <2>2
  <1> HIDE DEF n, W
  <1>6. FirstAfter(t, W, k) = n
    BY <1>1, <1>4, <1>5, FirstIs
  <1> QED BY <1>1, <1>6 DEF n, W

(* The rest of a clause between its keyword and the next, from k on, is    *)
(* what _extract_clause_after finds.                                       *)
LEMMA ClauseFound ==
    ASSUME NEW t, NEW at, NEW d, NEW p, NEW i, Shaped(t, at, d, p, i), NEW m \in 4..6,
           NEW k \in Nat, NEW x \in Seq(Body(p, i)), Spans(t, k, x), at[m + 1] = (k + Len(x)) + 1
    PROVE  ClauseAfter(t, k) = x
  <1>1. m + 1 \in 1..7 /\ (m + 1 = 5 \/ m + 1 = 6 \/ m + 1 = 7)
    OBVIOUS
  <1> DEFINE n == m + 1
  <1>2. n \in 1..7 /\ (n = 5 \/ n = 6 \/ n = 7)
    BY <1>1
  <1> HIDE DEF n
  <1>3. t[at[n]] = ClauseWord[n] /\ ClauseWord[n] \in {"GROUP", "HAVING", "ORDER"}
    BY <1>2, PartOf, SevenWords
  <1>4. t[at[n]] \in ClauseBoundaries
    BY <1>3 DEF ClauseBoundaries
  <1>5. t \in Seq(Words(p, i)) /\ x \in Seq(Words(p, i))
    <2>1. Body(p, i) \subseteq Words(p, i)
      BY DEF Words, Front3
    <2> QED BY <2>1, SeqMonotonic DEF Shaped
  <1>6. \A j \in 1..Len(x) : x[j] \notin ClauseBoundaries
    <2>1. \A j \in 1..Len(x) : x[j] \in Body(p, i)
      BY ElementOfSeq
    <2> QED BY <2>1, BodyWords DEF Shaped
  <1>7. t[k + Len(x) + 1] \in ClauseBoundaries
    BY <1>4 DEF n
  <1>8. SubSeq(t, k + 1, FirstAfter(t, ClauseBoundaries, k) - 1) = x
    BY <1>5, <1>6, <1>7, ClauseCut
  <1> QED BY <1>8 DEF ClauseAfter

(* The join predicate and HAVING.                                          *)
LEMMA JoinRule ==
    ASSUME NEW t, NEW at, NEW d, NEW p, NEW i, Shaped(t, at, d, p, i),
           d[4] \in JoinPredicates(p, i)
    PROVE  JoinAsWritten(t, p, i)
  <1>1. FirstAfter(t, {"ON"}, 0) = at[4] /\ at[4] \in DOMAIN t
    <2>1. 0 < at[4] /\ 0 \in Nat /\ 4 \in 1..7 /\ ClauseWord[4] = "ON"
      BY SevenWords DEF Shaped, Positions
    <2>2. FirstAfter(t, {ClauseWord[4]}, 0) = at[4] /\ at[4] \in DOMAIN t
      BY <2>1, KeywordFound
    <2> QED BY <2>1, <2>2
  <1>2. ClauseAfter(t, at[4]) = d[4]
    <2>1. 4 \in 4..6 /\ 4 \in 1..7 /\ 4 \in 4..7 /\ 4 + 1 = 5
      OBVIOUS
    <2>2. d[4] \in Seq(Body(p, i)) /\ Spans(t, at[4], d[4]) /\ at[4] \in Nat
      BY <2>1, PartOf, Ends DEF Shaped
    <2>3. at[4 + 1] = (at[4] + Len(d[4])) + 1
      BY <2>1, Ends
    <2> QED BY <2>1, <2>2, <2>3, ClauseFound
  <1> QED BY <1>1, <1>2 DEF JoinAsWritten

(* The rule on HAVING reads the predicate of its clause.                   *)
LEMMA HavingRule ==
    ASSUME NEW t, NEW at, NEW d, NEW p, NEW i, Shaped(t, at, d, p, i),
           d[6] = HavingPredicate(p, i)
    PROVE  HavingAsWritten(t, p, i)
  <1>1. FirstAfter(t, {"HAVING"}, 0) = at[6] /\ at[6] \in DOMAIN t
    <2>1. 0 < at[6] /\ 0 \in Nat /\ 6 \in 1..7 /\ ClauseWord[6] = "HAVING"
      BY SevenWords DEF Shaped, Positions
    <2>2. FirstAfter(t, {ClauseWord[6]}, 0) = at[6] /\ at[6] \in DOMAIN t
      BY <2>1, KeywordFound
    <2> QED BY <2>1, <2>2
  <1>2. ClauseAfter(t, at[6]) = d[6]
    <2>1. 6 \in 4..6 /\ 6 \in 1..7 /\ 6 \in 4..7 /\ 6 + 1 = 7
      OBVIOUS
    <2>2. d[6] \in Seq(Body(p, i)) /\ Spans(t, at[6], d[6]) /\ at[6] \in Nat
      BY <2>1, PartOf, Ends DEF Shaped
    <2>3. at[6 + 1] = (at[6] + Len(d[6])) + 1
      BY <2>1, Ends
    <2> QED BY <2>1, <2>2, <2>3, ClauseFound
  <1> QED BY <1>1, <1>2 DEF HavingAsWritten

(* A list that consists of the right items.                                *)
LEMMA GroupRule ==
    ASSUME NEW t, NEW at, NEW d, NEW p, NEW i, Shaped(t, at, d, p, i),
           NEW list \in Seq(Body(p, i)), d[5] = <<"BY">> \o list, Lists(list, 3, GroupKeys(p)),
           Cardinality(GroupKeys(p)) = 3
    PROVE  GroupByAsWritten(t, p)
  <1>1. /\ DOMAIN t = 1..Len(t) /\ at[5] \in 1..Len(t) /\ Len(t) \in Nat
        /\ at[5] \in Nat /\ at[6] = (at[5] + Len(d[5])) + 1 /\ at[6] \in 1..Len(t)
    BY Ends, SMTT(30)
  <1>2. "BY" \in Body(p, i)
    BY DEF Body
  <1>3. /\ Len(d[5]) = 1 + Len(list) /\ Len(list) \in Nat
        /\ Spans(d[5], 0, <<"BY">>) /\ Spans(d[5], 1, list) /\ <<"BY">> \in Seq(Body(p, i))
    <2> DEFINE a == <<"BY">>
    <2>1. a \in Seq(Body(p, i)) /\ Len(a) = 1
      BY <1>2
    <2> HIDE DEF a
    <2>2. /\ Len(a \o list) = Len(a) + Len(list) /\ Len(list) \in Nat
          /\ Spans(a \o list, 0, a) /\ Spans(a \o list, Len(a), list)
      BY <2>1, SpansConcat
    <2>3. d[5] = a \o list
      BY DEF a
    <2> QED BY <2>1, <2>2, <2>3 DEF a
  <1>4. d[5] \in Seq(Body(p, i)) /\ Spans(t, at[5], d[5])
    <2>1. 5 \in 4..7 /\ 5 \in 1..7
      OBVIOUS
    <2> QED BY <2>1, PartOf DEF Shaped
  <1>5. Spans(t, at[5] + 1, list) /\ Spans(t, at[5], <<"BY">>)
    <2>1. Spans(t, at[5] + 0, <<"BY">>)
      BY <1>1, <1>3, <1>4, SpansWithin
    <2>2. Spans(t, at[5] + 1, list)
      BY <1>1, <1>3, <1>4, SpansWithin
    <2> QED BY <1>1, <2>1, <2>2
  <1>6. At(t, at[5] + 1, "BY")
    <2>1. Len(<<"BY">>) = 1 /\ <<"BY">>[1] = "BY"
      OBVIOUS
    <2>2. at[5] + 1 <= Len(t) /\ t[at[5] + 1] = "BY"
      BY <1>5, <2>1 DEF Spans
    <2> QED BY <1>1, <2>2 DEF At
  <1>7. GroupBys(t) = {at[5]}
    <2>1. 5 \in 1..7 /\ ClauseWord[5] = "GROUP"
      BY SevenWords
    <2>2. {j \in 1..Len(t) : t[j] = ClauseWord[5]} = {at[5]}
      BY <2>1, KeywordAt
    <2>3. GroupBys(t) = {k \in 1..Len(t) : t[k] = "GROUP" /\ At(t, k + 1, "BY")}
      BY <1>1 DEF GroupBys
    <2> QED BY <1>6, <2>1, <2>2, <2>3
  <1>8. ClauseAfter(t, at[5] + 1) = list
    <2>1. at[5 + 1] = ((at[5] + 1) + Len(list)) + 1 /\ at[5] + 1 \in Nat /\ 5 \in 4..6
      <3>1. 5 + 1 = 6 /\ 5 \in 4..6
        OBVIOUS
      <3> DEFINE k == at[5]
                 l == Len(list)
      <3>2. at[6] = (k + (1 + l)) + 1 /\ k \in Nat /\ l \in Nat
        BY <1>1, <1>3
      <3> HIDE DEF k, l
      <3>3. at[6] = ((k + 1) + l) + 1 /\ k + 1 \in Nat
        BY <3>2
      <3> QED BY <3>1, <3>3 DEF k, l
    <2> QED BY <1>5, <2>1, ClauseFound
  <1>9. ListsAsWritten(list, GroupKeys(p))
    BY DEF Lists, ListsAsWritten
  <1> QED BY <1>7, <1>8, <1>9 DEF GroupByAsWritten

(* The words behind SELECT.                                                *)
SelectClause(x, top, list, p, i) ==
    /\ top \in Seq(Front3(p, i)) /\ list \in Seq(Front3(p, i))
    /\ x = (<<"TOP">> \o top) \o list

(* What stands where in the clause of SELECT.                              *)
LEMMA TopWords ==
    ASSUME NEW t, NEW at, NEW d, NEW p, NEW i, Shaped(t, at, d, p, i),
           NEW top, NEW list, SelectClause(d[1], top, list, p, i)
    PROVE  /\ Len(top) \in Nat /\ Len(list) \in Nat /\ at[2] = ((2 + Len(top)) + Len(list)) + 1
           /\ t[2] = "TOP" /\ \A j \in 1..Len(top) : t[2 + j] = top[j]
           /\ Spans(t, 2 + Len(top), list)
  <1> DEFINE S == Front3(p, i)
             w == <<"TOP">>
             h == w \o top
             x == h \o list
  <1>1. w \in Seq(S) /\ Len(w) = 1 /\ w[1] = "TOP"
    BY DEF Front3
  <1>2. top \in Seq(S) /\ list \in Seq(S) /\ d[1] = x
    BY DEF SelectClause
  <1> HIDE DEF S, w
  <1>3. /\ h \in Seq(S) /\ Len(h) = Len(w) + Len(top) /\ Len(top) \in Nat
        /\ Spans(h, 0, w) /\ Spans(h, Len(w), top)
    BY <1>1, <1>2, SpansConcat
  <1> HIDE DEF h
  <1>4. /\ x \in Seq(S) /\ Len(x) = Len(h) + Len(list) /\ Len(list) \in Nat
        /\ Spans(x, 0, h) /\ Spans(x, Len(h), list)
    BY <1>2, <1>3, SpansConcat
  <1> HIDE DEF x
  <1>5. /\ t \in Seq(Words(p, i)) /\ Len(t) \in Nat /\ at[1] = 1
        /\ at[2] = (1 + Len(d[1])) + 1 /\ Spans(t, 1, x)
    <2>1. 1 \in 1..7
      OBVIOUS
    <2>2. Len(t) \in Nat /\ at[1] = 1 /\ at[2] = (1 + Len(d[1])) + 1
      BY Ends
    <2>3. Spans(t, at[1], d[1])
      BY <2>1, PartOf
    <2>4. t \in Seq(Words(p, i))
      BY DEF Shaped
    <2> QED BY <1>2, <2>2, <2>3, <2>4
  <1>6. Len(h) = 1 + Len(top) /\ Len(x) = (1 + Len(top)) + Len(list)
    BY <1>1, <1>3, <1>4
  <1>7. Spans(t, 1 + 0, h)
    <2>1. 1 \in Nat /\ 0 \in Nat
      OBVIOUS
    <2> QED BY <1>3, <1>4, <1>5, <2>1, SpansWithin
  <1>8. Spans(t, 1 + Len(h), list)
    <2>1. 1 \in Nat /\ Len(h) \in Nat
      BY <1>3, <1>6
    <2> QED BY <1>2, <1>4, <1>5, <2>1, SpansWithin
  <1>9. Spans(t, (1 + 0) + 0, w)
    <2>1. 1 + 0 \in Nat /\ 0 \in Nat
      OBVIOUS
    <2> QED BY <1>1, <1>3, <1>5, <1>7, <2>1, SpansWithin
  <1>10. Spans(t, (1 + 0) + Len(w), top)
    <2>1. 1 + 0 \in Nat /\ Len(w) \in Nat
      BY <1>1
    <2> QED BY <1>2, <1>3, <1>5, <1>7, <2>1, SpansWithin
  <1>11. t[2] = "TOP"
    <2>1. t[((1 + 0) + 0) + 1] = w[1]
      BY <1>1, <1>9 DEF Spans
    <2> QED BY <1>1, <2>1
  <1>12. \A j \in 1..Len(top) : t[2 + j] = top[j]
    <2>1. (1 + 0) + Len(w) = 2
      BY <1>1
    <2> QED BY <1>10, <2>1 DEF Spans
  <1>13. Spans(t, 2 + Len(top), list)
    <2>1. 1 + Len(h) = 2 + Len(top)
      BY <1>3, <1>6
    <2> QED BY <1>8, <2>1
  <1>14. at[2] = ((2 + Len(top)) + Len(list)) + 1
    <2>1. at[2] = (1 + Len(x)) + 1
      BY <1>2, <1>5
    <2> DEFINE l == Len(top)
               k == Len(list)
    <2>2. l \in Nat /\ k \in Nat /\ Len(x) = (1 + l) + k
      BY <1>3, <1>4, <1>6
    <2> HIDE DEF l, k
    <2>3. at[2] = ((2 + l) + k) + 1
      BY <2>1, <2>2
    <2> QED BY <2>3 DEF l, k
  <1> QED BY <1>3, <1>4, <1>11, <1>12, <1>13, <1>14

(* Rule 6, and where the SELECT list begins.                               *)
TopEnd(t) == IF At(t, TopPosition(t) + 1, ")") THEN TopPosition(t) + 1 ELSE TopPosition(t)

(* The rule on TOP reads the number, with parentheses or without.          *)
LEMMA TopRule ==
    ASSUME NEW t, DOMAIN t = 1..Len(t), Len(t) \in Nat,
           NEW n \in Numerals, ValueOf[n] \in 1..MaximumReturnedRows,
           NEW top, top \in {<<n>>, <<"(", n, ")">>},
           NEW list, Len(list) \in Nat, Len(list) > 0, list[1] # ")",
           t[2] = "TOP", \A j \in 1..Len(top) : t[2 + j] = top[j],
           Spans(t, 2 + Len(top), list)
    PROVE  TopIsBounded(t) /\ TopEnd(t) = 2 + Len(top)
  <1>1. Len(top) \in Nat
    OBVIOUS
  <1>2. DOMAIN t = 1..Len(t) /\ Len(t) \in Nat
    OBVIOUS
  <1>3. t[(2 + Len(top)) + 1] # ")" /\ (2 + Len(top)) + 1 \in 1..Len(t)
    <2>1. t[(2 + Len(top)) + 1] = list[1]
      BY <1>1 DEF Spans
    <2> DEFINE l == Len(top)
               k == Len(list)
    <2>2. l \in Nat /\ k \in Nat /\ k > 0 /\ (2 + l) + k <= Len(t)
      BY <1>1 DEF Spans
    <2> HIDE DEF l, k
    <2>3. (2 + l) + 1 \in 1..Len(t)
      BY <1>2, <2>2
    <2> QED BY <2>1, <2>3 DEF l
  <1>4. n # "("
    BY NumeralsAreNew
  <1>5. \A a \in Nat : a + 1 \in 1..Len(t) => a \in 1..Len(t) \/ a = 0
    BY <1>2
  <1>6. CASE top = <<n>>
    <2>1. Len(top) = 1 /\ top[1] = n
      BY <1>6
    <2>2. t[3] = n /\ t[4] # ")" /\ 4 \in DOMAIN t /\ 3 \in DOMAIN t /\ 2 \in DOMAIN t
      BY <1>1, <1>2, <1>3, <2>1
    <2>3. TopPosition(t) = 3
      BY <1>4, <2>2 DEF TopPosition, At
    <2>4. HasTop(t) /\ TopOf(t) = ValueOf[n] /\ TopEnd(t) = 3
      BY <1>1, <2>2, <2>3 DEF HasTop, TopOf, TopEnd, At
    <2> QED BY <2>1, <2>4 DEF TopIsBounded
  <1>7. CASE top = <<"(", n, ")">>
    <2>1. Len(top) = 3 /\ top[1] = "(" /\ top[2] = n /\ top[3] = ")"
      BY <1>7
    <2>2. /\ t[3] = "(" /\ t[4] = n /\ t[5] = ")"
          /\ 5 \in DOMAIN t /\ 4 \in DOMAIN t /\ 3 \in DOMAIN t /\ 2 \in DOMAIN t
      <3>1. t[2 + 1] = "(" /\ t[2 + 2] = n /\ t[2 + 3] = ")"
        BY <1>1, <2>1
      <3>2. 6 \in 1..Len(t)
        BY <1>3, <2>1
      <3> QED BY <1>2, <3>1, <3>2
    <2>3. TopPosition(t) = 4
      BY <2>2 DEF TopPosition, At
    <2>4. HasTop(t) /\ TopOf(t) = ValueOf[n] /\ TopEnd(t) = 5
      BY <1>1, <2>2, <2>3 DEF HasTop, TopOf, TopEnd, At
    <2> QED BY <2>1, <2>4 DEF TopIsBounded
  <1> QED BY <1>6, <1>7

(* From anywhere in the clause of SELECT, FROM is the next one.            *)
LEMMA FromFound ==
    ASSUME NEW t, NEW at, NEW d, NEW p, NEW i, Shaped(t, at, d, p, i), NEW k \in Nat, k < at[2]
    PROVE  FirstAfter(t, {"FROM"}, k) = at[2]
  <1>1. ClauseWord[2] = "FROM" /\ 2 \in 1..7
    BY SevenWords
  <1>2. FirstAfter(t, {ClauseWord[2]}, k) = at[2]
    BY <1>1, KeywordFound
  <1> QED BY <1>1, <1>2

(* The rule on the select list reads the four output columns.              *)
LEMMA SelectListRule ==
    ASSUME NEW t, NEW at, NEW d, NEW p, NEW i, Shaped(t, at, d, p, i),
           NEW list \in Seq(Front3(p, i)), NEW k \in Nat, TopEnd(t) = k,
           Spans(t, k, list), at[2] = (k + Len(list)) + 1,
           Lists(list, 4, OutputExpressions(p, i)), Cardinality(OutputExpressions(p, i)) = 4
    PROVE  SelectListAsWritten(t, p, i)
  <1>1. Len(list) \in Nat
    BY LenProperties
  <1>2. k < at[2]
    BY <1>1
  <1>3. FirstAfter(t, {"FROM"}, k) = at[2]
    BY <1>2, FromFound
  <1>4. SubSeq(t, k + 1, k + Len(list)) = list
    <2>1. t \in Seq(Words(p, i)) /\ list \in Seq(Words(p, i))
      <3>1. Front3(p, i) \subseteq Words(p, i)
        BY DEF Words
      <3> QED BY <3>1, SeqMonotonic DEF Shaped
    <2> QED BY <1>1, <2>1, SpansIsPart
  <1>5. at[2] - 1 = k + Len(list)
    BY <1>1
  <1>6. ListsAsWritten(list, OutputExpressions(p, i))
    BY DEF Lists, ListsAsWritten
  <1> QED BY <1>3, <1>4, <1>5, <1>6 DEF SelectListAsWritten, TopEnd

-----------------------------------------------------------------------------
(* A table with its alias.                                                 *)
RefText(b, n, a) == IF b THEN <<"Production", ".", n, "AS", a>> ELSE <<n, "AS", a>>

(* The names of the tables are words, and no words of SQL.                 *)
LEMMA TablesAreWords ==
    /\ \A n \in AllowedTables : /\ n \notin Punctuation \cup Numerals /\ n # "Production" /\ n # "AS"
                                /\ n # "FROM" /\ n # "JOIN"
    /\ "Production" \notin Punctuation \cup Numerals
  <1>1. AllowedTables \subseteq Vocabulary /\ "Production" \in Vocabulary
    BY DEF Vocabulary
  <1>2. \A n \in AllowedTables : n # "Production" /\ n # "AS" /\ n # "FROM" /\ n # "JOIN"
    BY DEF AllowedTables
  <1> QED BY <1>1, <1>2, VocabularyIsWords

(* It is read as that table with that alias, whatever words they are.      *)
LEMMA WordsAreRead ==
    ASSUME NEW t, NEW k \in Nat, NEW b \in BOOLEAN, NEW n, n \notin Punctuation \cup Numerals,
           NEW a, a \notin Punctuation \cup Numerals,
           DOMAIN t = 1..Len(t), Len(t) \in Nat, Spans(t, k, RefText(b, n, a))
    PROVE  /\ WordAt(t, k + 1) /\ NamePosition(t, k, {}) = k + (IF b THEN 3 ELSE 1)
           /\ TableAt(t, k, {}) = n /\ AliasAt(t, k, {}) = a /\ DeclaresAlias(t, k, {})
           /\ n # "AS" /\ a # "AS" =>
                 \A j \in 1..Len(RefText(b, n, a)) :
                    RefText(b, n, a)[j] = "AS" => k + j = NamePosition(t, k, {}) + 1
           /\ \A j \in 1..Len(RefText(b, n, a)) : t[k + j] = RefText(b, n, a)[j]
  <1>1. /\ n \notin Punctuation \cup Numerals
        /\ "Production" \notin Punctuation \cup Numerals
        /\ a \notin Punctuation \cup Numerals
    BY TablesAreWords
  <1>2. CASE b
    <2> DEFINE x == <<"Production", ".", n, "AS", a>>
    <2>1. /\ Len(x) = 5 /\ x[1] = "Production" /\ x[2] = "." /\ x[3] = n /\ x[4] = "AS" /\ x[5] = a
          /\ RefText(b, n, a) = x
      BY <1>2 DEF RefText
    <2> HIDE DEF x
    <2>2. /\ k + 5 <= Len(t) /\ t[k + 1] = "Production" /\ t[k + 2] = "." /\ t[k + 3] = n
          /\ t[k + 4] = "AS" /\ t[k + 5] = a
      <3>1. k + 5 <= Len(t) /\ \A j \in 1..5 : t[k + j] = x[j]
        BY <2>1 DEF Spans
      <3>2. 1 \in 1..5 /\ 2 \in 1..5 /\ 3 \in 1..5 /\ 4 \in 1..5 /\ 5 \in 1..5
        OBVIOUS
      <3>3. /\ t[k + 1] = x[1] /\ t[k + 2] = x[2] /\ t[k + 3] = x[3] /\ t[k + 4] = x[4]
            /\ t[k + 5] = x[5]
        BY <3>1, <3>2, Zenon
      <3> QED BY <2>1, <3>1, <3>3
    <2>3. /\ k + 1 \in DOMAIN t /\ k + 2 \in DOMAIN t /\ k + 3 \in DOMAIN t /\ k + 4 \in DOMAIN t
          /\ k + 5 \in DOMAIN t
      BY <2>2
    <2>4. NamePosition(t, k, {}) = k + 3
      BY <1>1, <2>2, <2>3 DEF NamePosition, At, WordAt
    <2>5. (k + 3) + 1 = k + 4 /\ (k + 3) + 2 = k + 5
      OBVIOUS
    <2>6. WordAt(t, k + 1) /\ TableAt(t, k, {}) = n /\ AliasAt(t, k, {}) = a
      BY <1>1, <2>2, <2>3, <2>4, <2>5 DEF WordAt, TableAt, AliasAt
    <2>7. DeclaresAlias(t, k, {})
      BY <1>1, <2>2, <2>3, <2>4, <2>5 DEF DeclaresAlias, At, WordAt
    <2>8. ASSUME n # "AS", a # "AS", NEW j \in 1..5, x[j] = "AS" PROVE j = 4
      <3>1. j = 1 \/ j = 2 \/ j = 3 \/ j = 4 \/ j = 5
        OBVIOUS
      <3> QED BY <1>1, <2>1, <2>8, <3>1
    <2>9. n # "AS" /\ a # "AS" =>
             \A j \in 1..Len(x) : x[j] = "AS" => k + j = NamePosition(t, k, {}) + 1
      BY <2>1, <2>4, <2>5, <2>8
    <2>10. \A j \in 1..Len(x) : t[k + j] = x[j]
      BY <2>1 DEF Spans
    <2> QED BY <1>2, <2>1, <2>4, <2>6, <2>7, <2>9, <2>10
  <1>3. CASE ~b
    <2> DEFINE x == <<n, "AS", a>>
    <2>1. Len(x) = 3 /\ x[1] = n /\ x[2] = "AS" /\ x[3] = a /\ RefText(b, n, a) = x
      BY <1>3 DEF RefText
    <2> HIDE DEF x
    <2>2. k + 3 <= Len(t) /\ t[k + 1] = n /\ t[k + 2] = "AS" /\ t[k + 3] = a
      <3>1. k + 3 <= Len(t) /\ \A j \in 1..3 : t[k + j] = x[j]
        BY <2>1 DEF Spans
      <3>2. 1 \in 1..3 /\ 2 \in 1..3 /\ 3 \in 1..3
        OBVIOUS
      <3>3. t[k + 1] = x[1] /\ t[k + 2] = x[2] /\ t[k + 3] = x[3]
        BY <3>1, <3>2
      <3> QED BY <2>1, <3>1, <3>3
    <2>3. k + 1 \in DOMAIN t /\ k + 2 \in DOMAIN t /\ k + 3 \in DOMAIN t
      BY <2>2
    <2>4. NamePosition(t, k, {}) = k + 1
      BY <1>1, <2>2 DEF NamePosition, At
    <2>5. (k + 1) + 1 = k + 2 /\ (k + 1) + 2 = k + 3
      OBVIOUS
    <2>6. WordAt(t, k + 1) /\ TableAt(t, k, {}) = n /\ AliasAt(t, k, {}) = a
      BY <1>1, <2>2, <2>3, <2>4, <2>5 DEF WordAt, TableAt, AliasAt
    <2>7. DeclaresAlias(t, k, {})
      BY <1>1, <2>2, <2>3, <2>4, <2>5 DEF DeclaresAlias, At, WordAt
    <2>8. ASSUME n # "AS", a # "AS", NEW j \in 1..3, x[j] = "AS" PROVE j = 2
      <3>1. j = 1 \/ j = 2 \/ j = 3
        OBVIOUS
      <3> QED BY <1>1, <2>1, <2>8, <3>1
    <2>9. n # "AS" /\ a # "AS" =>
             \A j \in 1..Len(x) : x[j] = "AS" => k + j = NamePosition(t, k, {}) + 1
      BY <2>1, <2>4, <2>5, <2>8
    <2>10. \A j \in 1..Len(x) : t[k + j] = x[j]
      BY <2>1 DEF Spans
    <2> QED BY <1>3, <2>1, <2>4, <2>6, <2>7, <2>9, <2>10
  <1> QED BY <1>2, <1>3

(* A table is read as it was written, with or without the schema.          *)
LEMMA TableIsRead ==
    ASSUME NEW t, NEW k \in Nat, NEW b \in BOOLEAN, NEW n \in AllowedTables, NEW a, IsName(a),
           DOMAIN t = 1..Len(t), Len(t) \in Nat, Spans(t, k, RefText(b, n, a))
    PROVE  /\ WordAt(t, k + 1) /\ NamePosition(t, k, {}) = k + (IF b THEN 3 ELSE 1)
           /\ TableAt(t, k, {}) = n /\ AliasAt(t, k, {}) = a /\ DeclaresAlias(t, k, {})
           /\ \A j \in 1..Len(RefText(b, n, a)) :
                 RefText(b, n, a)[j] = "AS" => k + j = NamePosition(t, k, {}) + 1
           /\ \A j \in 1..Len(RefText(b, n, a)) : t[k + j] = RefText(b, n, a)[j]
  <1>1. n \notin Punctuation \cup Numerals /\ n # "AS" /\ a \notin Punctuation \cup Numerals /\ a # "AS"
    BY TablesAreWords, NamesAreNew
  <1> QED BY <1>1, WordsAreRead

(* Rules 8 and 9.                                                          *)
LEMMA TablesRule ==
    ASSUME NEW t, NEW at, NEW d, NEW p, NEW i, Shaped(t, at, d, p, i),
           NEW b \in BOOLEAN, NEW n \in AllowedTables, NEW a, IsName(a),
           NEW c \in BOOLEAN, NEW m \in AllowedTables, NEW e, IsName(e),
           a # e, n # m, AllowedTables = {n, m},
           Spans(t, at[2], RefText(b, n, a)), Spans(t, at[3], RefText(c, m, e))
    PROVE  /\ TableRefs(t, {}) = {at[2], at[3]} /\ TablesAreApproved(t, {})
           /\ AliasFor(t, n, {}) = a /\ AliasFor(t, m, {}) = e
           /\ AliasAt(t, at[2], {}) = a /\ AliasAt(t, at[3], {}) = e
  <1>1. DOMAIN t = 1..Len(t) /\ Len(t) \in Nat /\ at[2] \in Nat /\ at[3] \in Nat
    <2>1. 2 \in 1..7 /\ 3 \in 1..7
      OBVIOUS
    <2> QED BY <2>1, Ends
  <1>2. /\ WordAt(t, at[2] + 1) /\ TableAt(t, at[2], {}) = n /\ AliasAt(t, at[2], {}) = a
        /\ DeclaresAlias(t, at[2], {})
    BY <1>1, TableIsRead
  <1>3. /\ WordAt(t, at[3] + 1) /\ TableAt(t, at[3], {}) = m /\ AliasAt(t, at[3], {}) = e
        /\ DeclaresAlias(t, at[3], {})
    BY <1>1, TableIsRead
  <1>4. TableRefs(t, {}) = {at[2], at[3]}
    <2>1. 2 \in 1..7 /\ 3 \in 1..7 /\ ClauseWord[2] = "FROM" /\ ClauseWord[3] = "JOIN"
      BY SevenWords
    <2>2. {j \in 1..Len(t) : t[j] = ClauseWord[2]} = {at[2]}
      BY <2>1, KeywordAt
    <2>3. {j \in 1..Len(t) : t[j] = ClauseWord[3]} = {at[3]}
      BY <2>1, KeywordAt
    <2>4. TableRefs(t, {}) = {j \in 1..Len(t) : t[j] \in {"FROM", "JOIN"} /\ WordAt(t, j + 1)}
      BY <1>1 DEF TableRefs
    <2> QED BY <1>2, <1>3, <2>1, <2>2, <2>3, <2>4
  <1>5. TablesAreApproved(t, {})
    <2>1. \A ref \in TableRefs(t, {}) : TableAt(t, ref, {}) \in AllowedTables /\ DeclaresAlias(t, ref, {})
      BY <1>2, <1>3, <1>4
    <2>2. TablesAreDistinct(t, {})
      BY <1>2, <1>3, <1>4 DEF TablesAreDistinct
    <2>3. {TableAt(t, ref, {}) : ref \in TableRefs(t, {})} = {n, m}
      BY <1>2, <1>3, <1>4
    <2> QED BY <2>1, <2>2, <2>3 DEF TablesAreApproved
  <1>6. AliasFor(t, n, {}) = a
    <2>1. (CHOOSE ref \in TableRefs(t, {}) : TableAt(t, ref, {}) = n) = at[2]
      BY <1>2, <1>3, <1>4
    <2> QED BY <1>2, <2>1 DEF AliasFor
  <1>7. AliasFor(t, m, {}) = e
    <2>1. (CHOOSE ref \in TableRefs(t, {}) : TableAt(t, ref, {}) = m) = at[3]
      BY <1>2, <1>3, <1>4
    <2> QED BY <1>3, <2>1 DEF AliasFor
  <1> QED BY <1>2, <1>3, <1>4, <1>5, <1>6, <1>7

(* Rules 10 and 11.  Every AS in x, which stands behind k, is the one at   *)
(* the position declared; and every AS in the SELECT clause x is followed  *)
(* by an approved name in s.                                               *)
OnlyAs(x, k, declared) == \A j \in 1..Len(x) : x[j] = "AS" => k + j = declared
NamesApproved(x, s) == \A j \in 1..Len(x) : x[j] = "AS" => s[(1 + j) + 1] \in AllowedOutputAliases

(* The rule on AS finds output names and aliases of tables, and no others. *)
LEMMA NamesRule ==
    ASSUME NEW s, NEW t, NEW at, NEW d, NEW p, NEW i, Shaped(t, at, d, p, i),
           TableRefs(t, {}) = {at[2], at[3]},
           NamesApproved(d[1], s), OnlyAs(d[2], at[2], NamePosition(t, at[2], {}) + 1),
           OnlyAs(d[3], at[3], NamePosition(t, at[3], {}) + 1)
    PROVE  OutputNamesAreApproved(s, t, {})
  <1> SUFFICES ASSUME NEW k \in OutputAs(t, {}) PROVE s[k + 1] \in AllowedOutputAliases
    BY DEF OutputNamesAreApproved
  <1>1. /\ k \in DOMAIN t /\ t[k] = "AS" /\ \A ref \in TableRefs(t, {}) : k # NamePosition(t, ref, {}) + 1
    BY DEF OutputAs, At
  <1>2. k \in 1..Len(t)
    BY <1>1, Ends
  <1>12. at[1] = 1
    BY Ends
  <1>3. ~KeywordPlace(t, at, k)
    <2>1. "AS" \notin ClauseWords
      BY DEF ClauseWords
    <2>2. \A m \in 1..7 : ClauseWord[m] # "AS"
      BY <2>1, SevenWords
    <2> QED BY <1>1, <2>2 DEF KeywordPlace
  <1>4. RestPlace(t, at, d, p, i, k)
    BY <1>2, <1>3, WordOf
  <1>5. PICK m \in 1..7 : \E j \in 1..Len(d[m]) : k = at[m] + j /\ d[m][j] = "AS"
    BY <1>1, <1>4 DEF RestPlace
  <1>6. PICK j \in 1..Len(d[m]) : k = at[m] + j /\ d[m][j] = "AS"
    BY <1>5
  <1>7. CASE m = 1
    BY <1>6, <1>7, <1>12 DEF NamesApproved
  <1>8. CASE m = 2
    BY <1>1, <1>6, <1>8 DEF OnlyAs
  <1>9. CASE m = 3
    BY <1>1, <1>6, <1>9 DEF OnlyAs
  <1>10. CASE m \in 4..7
    <2>1. d[m] \in Seq(Body(p, i))
      BY <1>10 DEF Shaped
    <2>2. d[m][j] \in Body(p, i)
      BY <1>6, <2>1, ElementOfSeq
    <2> QED BY <1>6, <2>2, BodyWords DEF Shaped
  <1>11. m = 1 \/ m = 2 \/ m = 3 \/ m \in 4..7
    OBVIOUS
  <1> QED BY <1>7, <1>8, <1>9, <1>10, <1>11

(* The rule on words finds those of the demo, and the name of the sum.     *)
LEMMA WordsRule ==
    ASSUME NEW t, NEW at, NEW d, NEW p, NEW i, Shaped(t, at, d, p, i),
           TableRefs(t, {}) = {at[2], at[3]}, {AliasAt(t, at[2], {}), AliasAt(t, at[3], {})} = {p, i},
           \A k \in {at[2], at[3]} : NamePosition(t, k, {}) \in Nat /\ NamePosition(t, k, {}) > k,
           NEW c \in 1..Len(d[1]), c + 1 \in 1..Len(d[1]), d[1][c] = "AS",
           d[1][c + 1] = "CurrentInventory"
    PROVE  WordsAreApproved(t, {})
  <1>1. /\ DOMAIN t = 1..Len(t) /\ Len(t) \in Nat /\ at[1] = 1 /\ at[2] = (1 + Len(d[1])) + 1
        /\ at[3] = (at[2] + Len(d[2])) + 1
        /\ at[2] \in Nat /\ at[2] <= Len(t) /\ Len(d[1]) \in Nat /\ Len(d[2]) \in Nat
        /\ at[3] \in Nat
    <2>1. 1 \in 1..7 /\ 2 \in 1..7 /\ 3 \in 1..7
      OBVIOUS
    <2> QED BY <2>1, Ends, SMTT(30)
  <1>7. at[3] > at[2]
    <2> DEFINE l == Len(d[2])
               k == at[2]
    <2>1. at[3] = (k + l) + 1 /\ k \in Nat /\ l \in Nat
      BY <1>1
    <2> HIDE DEF l, k
    <2>2. at[3] > k
      BY <2>1
    <2> QED BY <2>2 DEF k
  <1>2. t[1 + c] = "AS" /\ t[(1 + c) + 1] = "CurrentInventory"
    <2>1. \A j \in 1..Len(d[1]) : t[at[1] + j] = d[1][j]
      <3>1. 1 \in 1..7
        OBVIOUS
      <3> QED BY <3>1, PartOf
    <2>2. t[1 + c] = d[1][c] /\ t[1 + (c + 1)] = d[1][c + 1]
      BY <1>1, <2>1
    <2>3. (1 + c) + 1 = 1 + (c + 1)
      OBVIOUS
    <2> QED BY <2>2, <2>3
  <1>3. 1 + c \in OutputAs(t, {})
    <2> DEFINE l == Len(d[1])
               k == at[2]
    <2>1. c \in 1..l /\ c + 1 \in 1..l /\ k = (1 + l) + 1 /\ k <= Len(t) /\ l \in Nat
      BY <1>1
    <2>2. at[3] > k /\ at[3] \in Nat
      BY <1>1, <1>7
    <2> HIDE DEF l, k
    <2>3. 1 + c \in 1..Len(t) /\ (1 + c) + 1 \in 1..Len(t) /\ 1 + c < k
      BY <1>1, <2>1
    <2>4. "CurrentInventory" \notin Punctuation \cup Numerals
      <3>1. "CurrentInventory" \in Vocabulary
        BY DEF Vocabulary, AllowedOutputAliases
      <3> QED BY <3>1, VocabularyIsWords
    <2>5. At(t, 1 + c, "AS") /\ WordAt(t, (1 + c) + 1)
      BY <1>1, <1>2, <2>3, <2>4 DEF At, WordAt
    <2>6. 1 + c \notin {NamePosition(t, ref, {}) + 1 : ref \in TableRefs(t, {})}
      <3> SUFFICES ASSUME NEW ref \in TableRefs(t, {}) PROVE 1 + c # NamePosition(t, ref, {}) + 1
        OBVIOUS
      <3>1. NamePosition(t, ref, {}) \in Nat /\ NamePosition(t, ref, {}) > ref /\ (ref = k \/ ref = at[3])
        BY DEF k
      <3>2. k \in Nat
        BY <2>1
      <3> QED BY <2>2, <2>3, <3>1, <3>2, SMTT(30)
    <2> QED BY <1>1, <2>3, <2>5, <2>6 DEF OutputAs
  <1> DEFINE names == {AliasAt(t, ref, {}) : ref \in TableRefs(t, {})} \cup {t[k + 1] : k \in OutputAs(t, {})}
             approved == ReservedWords \cup AllowedTables \cup {"Production"} \cup AllowedSourceColumns
  <1>4. {p, i, "CurrentInventory"} \subseteq names
    <2>1. {AliasAt(t, ref, {}) : ref \in TableRefs(t, {})} = {p, i}
      OBVIOUS
    <2>2. "CurrentInventory" \in {t[k + 1] : k \in OutputAs(t, {})}
      BY <1>2, <1>3
    <2> QED BY <2>1, <2>2
  <1>5. ASSUME NEW j \in 1..Len(t), t[j] \notin Punctuation \cup Numerals
        PROVE  t[j] \in approved \cup {p, i, "CurrentInventory"}
    <2>1. t[j] \in ClauseWords \cup Front3(p, i)
      BY WordsOf
    <2>2. CASE t[j] \in ClauseWords
      <3>1. ClauseWords \subseteq ReservedWords
        BY DEF ClauseWords, ReservedWords
      <3> QED BY <2>2, <3>1
    <2>3. CASE t[j] \in Front3(p, i)
      BY <1>5, <2>3, FrontWords DEF Shaped
    <2> QED BY <2>1, <2>2, <2>3
  <1>6. {t[k] : k \in {j \in DOMAIN t : WordAt(t, j)}} \subseteq approved \cup names
    <2> HIDE DEF names, approved
    <2> SUFFICES ASSUME NEW j \in DOMAIN t, WordAt(t, j) PROVE t[j] \in approved \cup names
      OBVIOUS
    <2>1. j \in 1..Len(t) /\ t[j] \notin Punctuation \cup Numerals
      BY <1>1 DEF WordAt
    <2> QED BY <1>4, <1>5, <2>1
  <1> QED BY <1>6 DEF WordsAreApproved

(* Rule 12.                                                                *)
LEMMA OrderRule ==
    ASSUME NEW t, NEW k \in Nat, DOMAIN t = 1..Len(t), Len(t) \in Nat, k > 0, t[k] = "ORDER",
           NEW p, IsName(p),
           NEW x, x \in {<<"BY", "ProductID", "ASC">>, <<"BY", p, ".", "ProductID", "ASC">>},
           Spans(t, k, x)
    PROVE  OrderedByProductId(t, {})
  <1>1. p \notin Punctuation \cup Numerals
    BY NamesAreNew
  <1>2. k + Len(x) <= Len(t) /\ \A j \in 1..Len(x) : t[k + j] = x[j]
    BY DEF Spans
  <1> DEFINE key == IF WordAt(t, k + 2) /\ At(t, k + 3, ".") THEN k + 4 ELSE k + 2
  <1>3. CASE x = <<"BY", "ProductID", "ASC">>
    <2>1. Len(x) = 3 /\ x[1] = "BY" /\ x[2] = "ProductID" /\ x[3] = "ASC"
      BY <1>3
    <2>2. k + 3 <= Len(t) /\ t[k + 1] = "BY" /\ t[k + 2] = "ProductID" /\ t[k + 3] = "ASC"
      BY <1>2, <2>1
    <2>3. k \in DOMAIN t /\ k + 1 \in DOMAIN t /\ k + 2 \in DOMAIN t /\ k + 3 \in DOMAIN t
      BY <2>2
    <2>4. key = k + 2
      BY <2>2 DEF At
    <2>5. key + 1 = k + 3
      BY <2>4
    <2>6. At(t, k + 1, "BY") /\ At(t, key, "ProductID") /\ At(t, key + 1, "ASC")
      BY <2>2, <2>3, <2>4, <2>5 DEF At
    <2> QED BY <2>3, <2>6 DEF OrderedByProductId
  <1>4. CASE x = <<"BY", p, ".", "ProductID", "ASC">>
    <2>1. /\ Len(x) = 5 /\ x[1] = "BY" /\ x[2] = p /\ x[3] = "." /\ x[4] = "ProductID"
          /\ x[5] = "ASC"
      BY <1>4
    <2>2. /\ k + 5 <= Len(t) /\ t[k + 1] = "BY" /\ t[k + 2] = p /\ t[k + 3] = "."
          /\ t[k + 4] = "ProductID" /\ t[k + 5] = "ASC"
      BY <1>2, <2>1
    <2>3. /\ k \in DOMAIN t /\ k + 1 \in DOMAIN t /\ k + 2 \in DOMAIN t /\ k + 3 \in DOMAIN t
          /\ k + 4 \in DOMAIN t /\ k + 5 \in DOMAIN t
      BY <2>2
    <2>4. key = k + 4
      BY <1>1, <2>2, <2>3 DEF At, WordAt
    <2>5. key + 1 = k + 5
      BY <2>4
    <2>6. At(t, k + 1, "BY") /\ At(t, key, "ProductID") /\ At(t, key + 1, "ASC")
      BY <2>2, <2>3, <2>4, <2>5 DEF At
    <2> QED BY <2>3, <2>6 DEF OrderedByProductId
  <1> QED BY <1>3, <1>4

-----------------------------------------------------------------------------
(* Folding goes word by word.                                              *)
LEMMA CanonicalIs ==
    ASSUME NEW S, NEW T, \A w \in S : Fold(w) \in T, NEW a \in Seq(S)
    PROVE  /\ Canonical(a) \in Seq(T) /\ Len(Canonical(a)) = Len(a) /\ Len(a) \in Nat
           /\ \A j \in 1..Len(a) : Canonical(a)[j] = Fold(a[j])
  <1> DEFINE c == Canonical(a)
  <1>1. Len(a) \in Nat /\ DOMAIN a = 1..Len(a)
    BY LenProperties
  <1>2. DOMAIN c = 1..Len(a) /\ c = [k \in 1..Len(a) |-> c[k]]
    BY <1>1 DEF Canonical
  <1>3. \A j \in 1..Len(a) : c[j] = Fold(a[j])
    BY <1>1 DEF Canonical
  <1>4. \A j \in 1..Len(a) : c[j] \in T
    <2>1. \A j \in 1..Len(a) : a[j] \in S
      BY ElementOfSeq
    <2> HIDE DEF c
    <2> QED BY <1>3, <2>1
  <1> HIDE DEF c
  <1>5. c \in Seq(T)
    BY <1>1, <1>2, <1>4, ListOfTexts
  <1>6. Len(c) = Len(a)
    <2>1. Len(c) \in Nat /\ 1..Len(c) = 1..Len(a)
      BY <1>2, <1>5, LenProperties
    <2> QED BY <1>1, <2>1, SameLength
  <1> QED BY <1>1, <1>3, <1>5, <1>6 DEF c

Folded(S) == {Fold(w) : w \in S}

(* Folding a text folds its parts.                                         *)
LEMMA CanonicalConcat ==
    ASSUME NEW S, NEW a \in Seq(S), NEW b \in Seq(S)
    PROVE  Canonical(a \o b) = Canonical(a) \o Canonical(b)
  <1> DEFINE T == Folded(S)
             l == Canonical(a \o b)
             x == Canonical(a)
             y == Canonical(b)
  <1>1. \A w \in S : Fold(w) \in T
    BY DEF Folded
  <1> HIDE DEF T
  <1>2. /\ a \o b \in Seq(S) /\ Len(a \o b) = Len(a) + Len(b)
        /\ \A i \in 1 .. Len(a) + Len(b) : (a \o b)[i] = IF i <= Len(a) THEN a[i] ELSE b[i - Len(a)]
    BY ConcatProperties
  <1>3. /\ x \in Seq(T) /\ Len(x) = Len(a) /\ Len(a) \in Nat
        /\ \A j \in 1..Len(a) : x[j] = Fold(a[j])
    BY <1>1, CanonicalIs
  <1>4. /\ y \in Seq(T) /\ Len(y) = Len(b) /\ Len(b) \in Nat
        /\ \A j \in 1..Len(b) : y[j] = Fold(b[j])
    BY <1>1, CanonicalIs
  <1> DEFINE ab == a \o b
  <1> HIDE DEF ab
  <1>5. /\ Canonical(ab) \in Seq(T) /\ Len(Canonical(ab)) = Len(ab)
        /\ \A j \in 1..Len(ab) : Canonical(ab)[j] = Fold(ab[j])
    <2>1. ab \in Seq(S)
      BY <1>2 DEF ab
    <2> QED BY <1>1, <2>1, CanonicalIs
  <1>6. l = Canonical(ab)
    BY DEF ab
  <1> HIDE DEF l, x, y
  <1>7. /\ x \o y \in Seq(T) /\ Len(x \o y) = Len(x) + Len(y)
        /\ \A i \in 1 .. Len(x) + Len(y) : (x \o y)[i] = IF i <= Len(x) THEN x[i] ELSE y[i - Len(x)]
    <2>1. x \in Seq(T) /\ y \in Seq(T)
      BY <1>3, <1>4
    <2> QED BY <2>1, ConcatProperties
  <1>8. Len(l) = Len(a) + Len(b) /\ Len(x \o y) = Len(a) + Len(b)
    BY <1>2, <1>3, <1>4, <1>5, <1>6, <1>7 DEF ab
  <1>9. ASSUME NEW j \in 1..(Len(a) + Len(b))
        PROVE  l[j] = (x \o y)[j]
    <2>1. l[j] = Fold((a \o b)[j])
      BY <1>2, <1>5, <1>6 DEF ab
    <2>2. CASE j <= Len(a)
      <3>1. j \in 1..Len(a)
        BY <1>3, <1>4, <2>2
      <3>2. (a \o b)[j] = a[j] /\ (x \o y)[j] = x[j]
        BY <1>2, <1>3, <1>4, <1>7, <2>2
      <3> QED BY <1>3, <2>1, <3>1, <3>2
    <2>3. CASE ~(j <= Len(a))
      <3>1. j - Len(a) \in 1..Len(b)
        BY <1>3, <1>4, <2>3
      <3>2. (a \o b)[j] = b[j - Len(a)] /\ (x \o y)[j] = y[j - Len(a)]
        BY <1>2, <1>3, <1>4, <1>7, <2>3
      <3> QED BY <1>4, <2>1, <3>1, <3>2
    <2> QED BY <2>2, <2>3
  <1>10. l = x \o y
    <2>1. \A j \in 1..Len(l) : l[j] = (x \o y)[j]
      BY <1>8, <1>9
    <2>2. l \in Seq(T) /\ x \o y \in Seq(T) /\ Len(l) = Len(x \o y)
      BY <1>5, <1>6, <1>7, <1>8
    <2> DEFINE r == x \o y
    <2> HIDE DEF r
    <2>3. l = r
      <3>1. l \in Seq(T) /\ r \in Seq(T) /\ Len(l) = Len(r) /\ \A j \in 1..Len(l) : l[j] = r[j]
        BY <2>1, <2>2 DEF r
      <3> QED BY <3>1, SeqEqual
    <2> QED BY <2>3 DEF r
  <1> QED BY <1>10 DEF l, x, y

(* A part of a text is folded with it.                                     *)
LEMMA SpansCanonical ==
    ASSUME NEW S, NEW s \in Seq(S), NEW x \in Seq(S), NEW k \in Nat, Spans(s, k, x)
    PROVE  Spans(Canonical(s), k, Canonical(x))
  <1> DEFINE T == Folded(S)
  <1>1. \A w \in S : Fold(w) \in T
    BY DEF Folded
  <1> HIDE DEF T
  <1>2. /\ Len(Canonical(s)) = Len(s) /\ Len(s) \in Nat
        /\ \A j \in 1..Len(s) : Canonical(s)[j] = Fold(s[j])
    BY <1>1, CanonicalIs
  <1>3. /\ Len(Canonical(x)) = Len(x) /\ Len(x) \in Nat
        /\ \A j \in 1..Len(x) : Canonical(x)[j] = Fold(x[j])
    BY <1>1, CanonicalIs
  <1>4. k + Len(x) <= Len(s) /\ \A j \in 1..Len(x) : s[k + j] = x[j]
    BY DEF Spans
  <1>5. ASSUME NEW j \in 1..Len(x)
        PROVE  Canonical(s)[k + j] = Canonical(x)[j]
    <2>1. k + j \in 1..Len(s)
      BY <1>2, <1>3, <1>4
    <2> QED BY <1>2, <1>3, <1>4, <2>1
  <1> QED BY <1>2, <1>3, <1>4, <1>5 DEF Spans

(* Folding leaves the clauses where they are.                              *)
LEMMA CanonicalLaidOut ==
    ASSUME NEW S, NEW s \in Seq(S), NEW e \in [1..7 -> Seq(S)], NEW at,
           Positions(at, e), LaidOut(s, at, e, 7)
    PROVE  LET d == [m \in 1..7 |-> Canonical(e[m])]
           IN  Positions(at, d) /\ LaidOut(Canonical(s), at, d, 7)
  <1> DEFINE T == Folded(S)
             d == [m \in 1..7 |-> Canonical(e[m])]
             t == Canonical(s)
  <1>1. \A w \in S : Fold(w) \in T
    BY DEF Folded
  <1> HIDE DEF T
  <1>2. \A m \in 1..7 : d[m] = Canonical(e[m])
    OBVIOUS
  <1>3. \A m \in 1..7 : Len(d[m]) = Len(e[m]) /\ Len(e[m]) \in Nat
    <2> SUFFICES ASSUME NEW m \in 1..7
                 PROVE  Len(Canonical(e[m])) = Len(e[m]) /\ Len(e[m]) \in Nat
      BY <1>2
    <2> DEFINE x == e[m]
    <2>1. x \in Seq(S)
      OBVIOUS
    <2> HIDE DEF x
    <2>2. Len(Canonical(x)) = Len(x) /\ Len(x) \in Nat
      BY <1>1, <2>1, CanonicalIs
    <2> QED BY <2>2 DEF x
  <1> HIDE DEF d
  <1>4. Positions(at, d)
    <2>1. at[1] = 1 /\ \A m \in 1..7 : at[m] \in Nat /\ at[m] > 0
      BY DEF Positions
    <2>2. ASSUME NEW m \in 1..6 PROVE at[m + 1] = (at[m] + Len(d[m])) + 1
      <3>1. m \in 1..7
        OBVIOUS
      <3>2. at[m + 1] = (at[m] + Len(e[m])) + 1
        BY DEF Positions
      <3> QED BY <1>3, <3>1, <3>2
    <2> QED BY <2>1, <2>2 DEF Positions
  <1>5. /\ Len(t) = Len(s) /\ Len(s) \in Nat
        /\ \A j \in 1..Len(s) : t[j] = Fold(s[j])
    BY <1>1, CanonicalIs
  <1> HIDE DEF t
  <1>6. Len(t) = at[7] + Len(d[7])
    <2>1. Len(s) = at[7] + Len(e[7])
      BY DEF LaidOut
    <2>2. 7 \in 1..7
      OBVIOUS
    <2> QED BY <1>3, <1>5, <2>1, <2>2
  <1>7. ASSUME NEW m \in 1..7 PROVE t[at[m]] = ClauseWord[m]
    <2>1. s[at[m]] = ClauseWord[m] /\ at[m] + Len(e[m]) <= Len(s)
      BY DEF LaidOut, Spans
    <2>2. at[m] \in Nat /\ at[m] > 0
      BY DEF Positions
    <2> DEFINE k == at[m]
               l == Len(e[m])
    <2>3. k \in Nat /\ k > 0 /\ l \in Nat /\ k + l <= Len(s)
      BY <1>3, <2>1, <2>2
    <2> HIDE DEF k, l
    <2>4. k \in 1..Len(s)
      BY <1>5, <2>3, SMTT(30)
    <2>5. Fold(ClauseWord[m]) = ClauseWord[m]
      <3>1. ClauseWords \subseteq Vocabulary
        BY DEF ClauseWords, Vocabulary, ReservedWords
      <3> QED BY <3>1, SevenWords, VocabularyIsWords
    <2> QED BY <1>5, <2>1, <2>4, <2>5 DEF k
  <1>8. ASSUME NEW m \in 1..7 PROVE Spans(t, at[m], d[m])
    <2> DEFINE x == e[m]
               k == at[m]
    <2>1. x \in Seq(S) /\ Spans(s, k, x) /\ k \in Nat
      BY DEF LaidOut, Positions
    <2> HIDE DEF x, k
    <2>2. Spans(Canonical(s), k, Canonical(x))
      BY <2>1, SpansCanonical
    <2> QED BY <1>2, <2>2 DEF x, k, t
  <1>9. ASSUME NEW j \in 1..Len(t) PROVE \E m \in 1..7 : j \in at[m]..(at[m] + Len(d[m]))
    <2>1. PICK m \in 1..7 : j \in at[m]..(at[m] + Len(e[m]))
      BY <1>5 DEF LaidOut
    <2> QED BY <1>3, <2>1
  <1>10. LaidOut(t, at, d, 7)
    BY <1>6, <1>7, <1>8, <1>9 DEF LaidOut
  <1> QED BY <1>4, <1>10 DEF d, t

-----------------------------------------------------------------------------
(* Items between commas, one after the other.                              *)
LEMMA CommasAre ==
    ASSUME NEW S, Comma \in S, NEW items \in Seq(Seq(S))
    PROVE  /\ Commas(items) \in Seq(Seq(S)) /\ Len(Commas(items)) = Len(items)
           /\ DOMAIN items = 1..Len(items) /\ Len(items) \in Nat
           /\ Separated(items) \in Seq(S) /\ Separated(items) = FlattenSeq(Commas(items))
           /\ \A k \in DOMAIN items :
                 Commas(items)[k] = IF k = 1 THEN items[k] ELSE <<Comma>> \o items[k]
  <1>1. "," \in S
    BY Zenon DEF Comma
  <1>2. /\ Commas(items) \in Seq(Seq(S)) /\ Len(Commas(items)) = Len(items)
        /\ Separated(items) \in Seq(S)
    BY <1>1, SeparatedType, Zenon
  <1>3. \A k \in DOMAIN items :
           Commas(items)[k] = IF k = 1 THEN items[k] ELSE <<Comma>> \o items[k]
    BY Zenon DEF Comma, Commas
  <1>4. Separated(items) = FlattenSeq(Commas(items))
    BY Zenon DEF Separated, Commas
  <1>5. DOMAIN items = 1..Len(items) /\ Len(items) \in Nat
    BY LenProperties
  <1> QED BY <1>2, <1>3, <1>4, <1>5

(* A list is its first item, with a comma and an item added each time.     *)
LEMMA Grown ==
    ASSUME NEW S, Comma \in S, NEW items \in Seq(Seq(S)), Len(items) # 0
    PROVE  \E f \in [1..Len(items) -> Seq(S)] :
              /\ f[1] = items[1] /\ Separated(items) = f[Len(items)]
              /\ \A k \in 2..Len(items) : f[k] = f[k - 1] \o (<<Comma>> \o items[k])
  <1> DEFINE n == Len(items)
             parts == Commas(items)
  <1>1. /\ parts \in Seq(Seq(S)) /\ Len(parts) = n /\ n \in Nat /\ DOMAIN items = 1..n
        /\ Separated(items) = FlattenSeq(parts)
    BY CommasAre
  <1>2. \A k \in 1..n : parts[k] = IF k = 1 THEN items[k] ELSE <<Comma>> \o items[k]
    BY <1>1, CommasAre
  <1> HIDE DEF parts
  <1>3. PICK f \in [1..n -> Seq(S)] : Joins(f, parts) /\ FlattenSeq(parts) = f[n]
    <2>1. parts \in Seq(Seq(S)) /\ Len(parts) # 0
      BY <1>1
    <2>2. \E f \in [1..Len(parts) -> Seq(S)] :
             Joins(f, parts) /\ FlattenSeq(parts) = f[Len(parts)]
      BY <2>1, Flattened
    <2> QED BY <1>1, <2>2
  <1>4. \A k \in 1..n : f[k] = IF k = 1 THEN parts[k] ELSE f[k - 1] \o parts[k]
    BY <1>3 DEF Joins
  <1>5. f[1] = items[1]
    <2>1. 1 \in 1..n
      BY <1>1
    <2> QED BY <1>2, <1>4, <2>1
  <1>6. ASSUME NEW k \in 2..n PROVE f[k] = f[k - 1] \o (<<Comma>> \o items[k])
    <2>1. k \in 1..n /\ k # 1
      OBVIOUS
    <2> QED BY <1>2, <1>4, <2>1
  <1> QED BY <1>1, <1>3, <1>5, <1>6

(* Four of them.                                                           *)
Next2(a, x) == a \o (<<Comma>> \o x)

(* A list of four items.                                                   *)
LEMMA FourItems ==
    ASSUME NEW S, Comma \in S, NEW items \in Seq(Seq(S)), Len(items) = 4
    PROVE  Separated(items) = Next2(Next2(Next2(items[1], items[2]), items[3]), items[4])
  <1>1. PICK f \in [1..Len(items) -> Seq(S)] :
              /\ f[1] = items[1] /\ Separated(items) = f[Len(items)]
              /\ \A k \in 2..Len(items) : f[k] = f[k - 1] \o (<<Comma>> \o items[k])
    <2>1. Len(items) # 0
      OBVIOUS
    <2> QED BY <2>1, Grown, Zenon
  <1>2. /\ 2 \in 2..Len(items) /\ 3 \in 2..Len(items) /\ 4 \in 2..Len(items)
        /\ 2 - 1 = 1 /\ 3 - 1 = 2 /\ 4 - 1 = 3
    OBVIOUS
  <1>3. f[2] = Next2(f[1], items[2]) /\ f[3] = Next2(f[2], items[3]) /\ f[4] = Next2(f[3], items[4])
    BY <1>1, <1>2 DEF Next2
  <1> QED BY <1>1, <1>3

(* The list begins with its first item.                                    *)
LEMMA BeginsWithFirst ==
    ASSUME NEW S, Comma \in S, NEW items \in Seq(Seq(S)), Len(items) # 0
    PROVE  Spans(Separated(items), 0, items[1])
  <1> DEFINE n == Len(items)
             x == items[1]
  <1>1. n \in Nat /\ \A k \in 1..n : items[k] \in Seq(S)
    BY LenProperties, ElementOfSeq
  <1>2. x \in Seq(S) /\ Len(x) \in Nat
    <2>1. 1 \in 1..n
      BY <1>1
    <2>2. x \in Seq(S)
      BY <1>1, <2>1
    <2> HIDE DEF x
    <2> QED BY <2>2, LenProperties
  <1>3. PICK f \in [1..n -> Seq(S)] :
              /\ f[1] = x /\ Separated(items) = f[n]
              /\ \A k \in 2..n : f[k] = f[k - 1] \o (<<Comma>> \o items[k])
    BY Grown
  <1> HIDE DEF x
  <1> DEFINE Bad == {k \in 1..n : ~Spans(f[k], 0, x)}
  <1>4. SUFFICES ASSUME Bad # {} PROVE FALSE
    <2>1. n \in 1..n
      BY <1>1
    <2>2. Bad = {} => Spans(f[n], 0, x)
      BY <2>1
    <2> HIDE DEF Bad
    <2> QED BY <1>3, <2>2 DEF x
  <1>5. PICK m \in Bad : \A k \in Bad : m <= k
    <2>1. Bad \in SUBSET Nat
      BY <1>1
    <2> HIDE DEF Bad
    <2> QED BY <1>4, <2>1, Least
  <1>6. m \in 1..n /\ ~Spans(f[m], 0, x)
    BY <1>5
  <1>7. CASE m = 1
    <2>1. Spans(x, 0, x)
      BY <1>2 DEF Spans
    <2> QED BY <1>3, <1>6, <1>7, <2>1
  <1>8. CASE m # 1
    <2>1. m \in 2..n /\ m - 1 \in 1..n /\ m - 1 < m
      BY <1>1, <1>6, <1>8
    <2>2. Spans(f[m - 1], 0, x)
      <3>1. m - 1 \notin Bad
        <4> HIDE DEF Bad
        <4>1. m \in Nat
          BY <2>1
        <4> QED BY <1>5, <2>1, <4>1
      <3> QED BY <2>1, <3>1
    <2> DEFINE a == f[m - 1]
               b == <<Comma>> \o items[m]
               c == a \o b
    <2>3. a \in Seq(S) /\ items[m] \in Seq(S) /\ <<Comma>> \in Seq(S)
      BY <1>1, <1>3, <2>1, ShortTexts
    <2>4. b \in Seq(S)
      BY <2>3, ConcatProperties
    <2>5. f[m] = c /\ Spans(a, 0, x)
      BY <1>3, <2>1, <2>2
    <2>6. a \in Seq(S)
      BY <2>3
    <2> HIDE DEF a, b
    <2>7. c \in Seq(S) /\ Spans(c, 0, a)
      BY <2>4, <2>6, SpansConcat
    <2> HIDE DEF c
    <2>8. Len(c) \in Nat
      BY <2>7, LenProperties
    <2>9. Spans(c, 0 + 0, x)
      <3>1. 0 \in Nat
        OBVIOUS
      <3> QED BY <1>2, <2>5, <2>6, <2>7, <2>8, <3>1, SpansWithin
    <2> QED BY <1>6, <2>5, <2>9
  <1> QED BY <1>7, <1>8

(* A list can be folded item by item.                                      *)
LEMMA CommaKept == Fold(Comma) = Comma /\ Canonical(<<Comma>>) = <<Comma>>
  <1>1. Fold(Comma) = Comma
    BY VocabularyIsWords
  <1>2. Canonical(<<Comma>>) = <<Comma>>
    <2> DEFINE a == <<Comma>>
    <2>1. DOMAIN a = 1..1 /\ a[1] = Comma /\ a \in Seq({Comma}) /\ Len(a) = 1
      OBVIOUS
    <2> HIDE DEF a
    <2>2. \A w \in {Comma} : Fold(w) \in {Comma}
      BY <1>1
    <2>3. /\ Canonical(a) \in Seq({Comma}) /\ Len(Canonical(a)) = Len(a)
          /\ \A j \in 1..Len(a) : Canonical(a)[j] = Fold(a[j])
      BY <2>1, <2>2, CanonicalIs
    <2>4. \A j \in 1..Len(a) : Canonical(a)[j] = a[j]
      BY <1>1, <2>1, <2>3
    <2>5. Canonical(a) = a
      BY <2>1, <2>3, <2>4, SeqEqual
    <2> QED BY <2>5 DEF a
  <1> QED BY <1>1, <1>2

(* Folding a longer list folds the list and the item.                      *)
LEMMA CanonicalNext ==
    ASSUME NEW S, Comma \in S, NEW a \in Seq(S), NEW x \in Seq(S)
    PROVE  Next2(a, x) \in Seq(S) /\ Canonical(Next2(a, x)) = Next2(Canonical(a), Canonical(x))
  <1> DEFINE c == <<Comma>>
             b == c \o x
  <1>1. c \in Seq(S)
    BY ShortTexts
  <1>2. Canonical(c) = c
    BY CommaKept
  <1>3. Next2(a, x) = a \o b
    BY DEF Next2
  <1> HIDE DEF c
  <1>4. b \in Seq(S)
    BY <1>1, ConcatProperties
  <1>5. Canonical(b) = Canonical(c) \o Canonical(x)
    BY <1>1, CanonicalConcat
  <1> HIDE DEF b
  <1>6. a \o b \in Seq(S)
    BY <1>4, ConcatProperties
  <1>7. Canonical(a \o b) = Canonical(a) \o Canonical(b)
    BY <1>4, CanonicalConcat
  <1> QED BY <1>2, <1>3, <1>5, <1>6, <1>7 DEF Next2, c

(* A longer list is a text.                                                *)
LEMMA NextType ==
    ASSUME NEW S, Comma \in S, NEW a \in Seq(S), NEW x \in Seq(S)
    PROVE  Next2(a, x) \in Seq(S)
  <1>1. <<Comma>> \in Seq(S)
    BY ShortTexts
  <1>2. <<Comma>> \o x \in Seq(S)
    BY <1>1, ConcatProperties
  <1> QED BY <1>2, ConcatProperties DEF Next2

(* An item has no comma of its own and leaves no parenthesis open.         *)
Plain(x) == Balanced(x) /\ \A j \in 1..Len(x) : x[j] # Comma

(* An item behind a list is read as one more item.                         *)
LEMMA OneMore ==
    ASSUME NEW S, Comma \in S, NEW c \in Seq(S), NEW x \in Seq(S), NEW n \in Nat, NEW items,
           Lists(c, n, items), Single(x)
    PROVE  Lists(Next2(c, x), n + 1, items \cup {x})
  <1>1. ~(Comma \in {"(", ")"})
    BY VocabularyIsWords
  <1> QED BY <1>1, NextItem DEF Next2

(* The folded list consists of the folded items, of any number.            *)
Firsts(items, n) == {Canonical(items[k]) : k \in 1..n}

(* The first items are one more than those before.                         *)
LEMMA OneFirst ==
    ASSUME NEW items, NEW m \in Nat, m > 0
    PROVE  Firsts(items, m) = Firsts(items, m - 1) \cup {Canonical(items[m])}
  <1>1. \A k : k \in 1..m <=> k \in 1..(m - 1) \/ k = m
    OBVIOUS
  <1> QED BY <1>1 DEF Firsts

(* A list of any length is read back as its items.                         *)
LEMMA AllListed ==
    ASSUME NEW S, NEW T, Comma \in S, Comma \in T, NEW items \in Seq(Seq(S)), Len(items) # 0,
           \A k \in 1..Len(items) : Canonical(items[k]) \in Seq(T) /\ Single(Canonical(items[k]))
    PROVE  /\ Canonical(Separated(items)) \in Seq(T)
           /\ Lists(Canonical(Separated(items)), Len(items), Firsts(items, Len(items)))
  <1> DEFINE n == Len(items)
  <1>1. n \in Nat /\ 1 \in 1..n /\ n \in 1..n
    BY LenProperties
  <1>2. PICK f \in [1..n -> Seq(S)] :
              /\ f[1] = items[1] /\ Separated(items) = f[n]
              /\ \A k \in 2..n : f[k] = f[k - 1] \o (<<Comma>> \o items[k])
    BY Grown
  <1> DEFINE Good(k) == /\ Canonical(f[k]) \in Seq(T)
                        /\ Lists(Canonical(f[k]), k, Firsts(items, k))
             Bad == {k \in 1..n : ~Good(k)}
  <1>3. SUFFICES ASSUME Bad # {} PROVE FALSE
    <2>1. Bad = {} => Good(n)
      BY <1>1
    <2> HIDE DEF Bad
    <2> QED BY <1>2, <2>1
  <1>4. PICK m \in Bad : \A k \in Bad : m <= k
    <2>1. Bad \in SUBSET Nat
      BY <1>1
    <2> HIDE DEF Bad
    <2> QED BY <1>3, <2>1, Least
  <1>5. m \in 1..n /\ ~Good(m)
    BY <1>4
  <1> DEFINE x == Canonical(items[m])
  <1>6. x \in Seq(T) /\ Single(x) /\ items[m] \in Seq(S)
    BY <1>5, ElementOfSeq
  <1>7. CASE m = 1
    <2>1. Canonical(f[1]) = x
      BY <1>2, <1>7
    <2>2. Firsts(items, 1) = {x}
      <3>1. 1..1 = {1}
        OBVIOUS
      <3> QED BY <1>7, <3>1 DEF Firsts
    <2> HIDE DEF x
    <2>3. Lists(x, 1, {x})
      BY <1>6, OneItem
    <2>4. Good(1)
      BY <1>6, <2>1, <2>2, <2>3
    <2> HIDE DEF Good
    <2> QED BY <1>5, <1>7, <2>4
  <1>8. CASE m # 1
    <2>1. m \in 2..n /\ m - 1 \in 1..n /\ m - 1 < m /\ m \in Nat /\ m > 0 /\ m - 1 \in Nat
          /\ (m - 1) + 1 = m
      BY <1>1, <1>5, <1>8
    <2>2. Good(m - 1)
      <3>1. m - 1 \notin Bad
        <4> HIDE DEF Bad
        <4> QED BY <1>4, <2>1
      <3> HIDE DEF Good
      <3> QED BY <2>1, <3>1
    <2> DEFINE a == f[m - 1]
               c == Canonical(a)
    <2>3. a \in Seq(S) /\ f[m] = Next2(a, items[m])
      BY <1>2, <2>1 DEF Next2
    <2>4. c \in Seq(T) /\ Lists(c, m - 1, Firsts(items, m - 1))
      BY <2>2
    <2> HIDE DEF a
    <2>5. Canonical(f[m]) = Next2(c, x)
      BY <1>6, <2>3, CanonicalNext
    <2> HIDE DEF c, x
    <2>6. Next2(c, x) \in Seq(T) /\ Lists(Next2(c, x), (m - 1) + 1, Firsts(items, m - 1) \cup {x})
      BY <1>6, <2>1, <2>4, NextType, OneMore
    <2>7. Firsts(items, m) = Firsts(items, m - 1) \cup {x}
      BY <2>1, OneFirst DEF x
    <2>8. Good(m)
      BY <2>1, <2>5, <2>6, <2>7
    <2> HIDE DEF Good
    <2> QED BY <1>5, <2>8
  <1> QED BY <1>7, <1>8

(* Items without commas.                                                   *)
LEMMA PlainListed ==
    ASSUME NEW S, NEW T, Comma \in S, Comma \in T, NEW items \in Seq(Seq(S)),
           NEW n \in Nat, n # 0, Len(items) = n,
           \A k \in 1..n : Canonical(items[k]) \in Seq(T) /\ Plain(Canonical(items[k]))
    PROVE  /\ Canonical(Separated(items)) \in Seq(T)
           /\ Lists(Canonical(Separated(items)), n, {Canonical(items[k]) : k \in 1..n})
  <1>1. ASSUME NEW k \in 1..n PROVE Canonical(items[k]) \in Seq(T) /\ Single(Canonical(items[k]))
    BY PlainIsSingle DEF Plain
  <1>2. /\ Canonical(Separated(items)) \in Seq(T)
        /\ Lists(Canonical(Separated(items)), Len(items), Firsts(items, Len(items)))
    BY <1>1, AllListed
  <1> QED BY <1>2 DEF Firsts

(* Folding a list of four folds the items.                                 *)
LEMMA FourInARow ==
    ASSUME NEW S, Comma \in S, NEW items \in Seq(Seq(S)), Len(items) = 4
    PROVE  Canonical(Separated(items)) =
              Next2(Next2(Next2(Canonical(items[1]), Canonical(items[2])), Canonical(items[3])),
                    Canonical(items[4]))
  <1> DEFINE x == items[1]
             y == items[2]
             z == items[3]
             w == items[4]
  <1>1. x \in Seq(S) /\ y \in Seq(S) /\ z \in Seq(S) /\ w \in Seq(S)
    <2>1. \A k \in 1..Len(items) : items[k] \in Seq(S)
      BY ElementOfSeq
    <2>2. 1 \in 1..4 /\ 2 \in 1..4 /\ 3 \in 1..4 /\ 4 \in 1..4
      OBVIOUS
    <2> QED BY <2>1, <2>2
  <1>2. Separated(items) = Next2(Next2(Next2(x, y), z), w)
    BY FourItems
  <1> HIDE DEF x, y, z, w
  <1> DEFINE a == Next2(x, y)
             b == Next2(a, z)
  <1>3. a \in Seq(S) /\ Canonical(a) = Next2(Canonical(x), Canonical(y))
    BY <1>1, CanonicalNext
  <1> HIDE DEF a
  <1>4. b \in Seq(S) /\ Canonical(b) = Next2(Canonical(a), Canonical(z))
    BY <1>1, <1>3, CanonicalNext
  <1> HIDE DEF b
  <1>5. Canonical(Next2(b, w)) = Next2(Canonical(b), Canonical(w))
    BY <1>1, <1>4, CanonicalNext
  <1> QED BY <1>2, <1>3, <1>4, <1>5 DEF a, b, x, y, z, w

(* Rows of words.                                                          *)
LEMMA RowIs ==
    ASSUME NEW S, NEW x \in Seq(S), NEW y \in Seq(S), NEW r \in Seq(S), Len(x \o y) = Len(r),
           \A j \in 1..Len(r) : (x \o y)[j] = r[j]
    PROVE  x \o y = r
  <1>1. x \o y \in Seq(S)
    BY ConcatProperties
  <1> DEFINE s == x \o y
  <1>2. s \in Seq(S) /\ Len(s) = Len(r) /\ \A j \in 1..Len(s) : s[j] = r[j]
    BY <1>1
  <1> HIDE DEF s
  <1>3. s = r
    BY <1>2, SeqEqual
  <1> QED BY <1>3 DEF s

(* Three words and two words.                                              *)
LEMMA FiveInARow ==
    ASSUME NEW a, NEW b, NEW c, NEW d, NEW e
    PROVE  <<a, b, c>> \o <<d, e>> = <<a, b, c, d, e>>
  <1> DEFINE S == {a, b, c, d, e}
             x == <<a, b, c>>
             y == <<d, e>>
             r == <<a, b, c, d, e>>
  <1>1. x \in Seq(S) /\ y \in Seq(S) /\ r \in Seq(S) /\ Len(x \o y) = 5 /\ Len(r) = 5
    OBVIOUS
  <1>2. (x \o y)[1] = r[1] /\ (x \o y)[2] = r[2] /\ (x \o y)[3] = r[3] /\ (x \o y)[4] = r[4]
        /\ (x \o y)[5] = r[5]
    OBVIOUS
  <1> HIDE DEF x, y, r
  <1>3. \A j \in 1..5 : j = 1 \/ j = 2 \/ j = 3 \/ j = 4 \/ j = 5
    OBVIOUS
  <1>4. \A j \in 1..Len(r) : (x \o y)[j] = r[j]
    BY <1>1, <1>2, <1>3
  <1>5. x \o y = r
    <2>1. x \in Seq(S) /\ y \in Seq(S) /\ r \in Seq(S)
      BY <1>1
    <2>2. Len(x \o y) = Len(r)
      BY <1>1
    <2> HIDE DEF S
    <2> QED BY <1>4, <2>1, <2>2, RowIs
  <1> QED BY <1>5 DEF x, y, r

(* Two, three and one.                                                     *)
LEMMA SixInARow ==
    ASSUME NEW a, NEW b, NEW c, NEW d, NEW e, NEW f
    PROVE  (<<a, b>> \o <<c, d, e>>) \o <<f>> = <<a, b, c, d, e, f>>
  <1> DEFINE S == {a, b, c, d, e, f}
             x == <<a, b>> \o <<c, d, e>>
             y == <<f>>
             r == <<a, b, c, d, e, f>>
  <1>1. x \in Seq(S) /\ y \in Seq(S) /\ r \in Seq(S) /\ Len(x \o y) = 6 /\ Len(r) = 6
    <2>1. <<a, b>> \in Seq(S) /\ <<c, d, e>> \in Seq(S) /\ y \in Seq(S) /\ r \in Seq(S)
      OBVIOUS
    <2>2. x \in Seq(S)
      BY <2>1, ConcatProperties
    <2>3. Len(x) = 5 /\ Len(y) = 1 /\ Len(r) = 6 /\ 5 + 1 = 6
      OBVIOUS
    <2>4. Len(x \o y) = Len(x) + Len(y)
      <3> HIDE DEF x, y
      <3> QED BY <2>1, <2>2, ConcatProperties
    <2> QED BY <2>1, <2>2, <2>3, <2>4
  <1>2. /\ (x \o y)[1] = r[1] /\ (x \o y)[2] = r[2] /\ (x \o y)[3] = r[3] /\ (x \o y)[4] = r[4]
        /\ (x \o y)[5] = r[5] /\ (x \o y)[6] = r[6]
    OBVIOUS
  <1> HIDE DEF x, y, r
  <1>3. \A j \in 1..6 : j = 1 \/ j = 2 \/ j = 3 \/ j = 4 \/ j = 5 \/ j = 6
    OBVIOUS
  <1>4. \A j \in 1..Len(r) : (x \o y)[j] = r[j]
    BY <1>1, <1>2, <1>3
  <1>5. x \o y = r
    <2>1. x \in Seq(S) /\ y \in Seq(S) /\ r \in Seq(S)
      BY <1>1
    <2>2. Len(x \o y) = Len(r)
      BY <1>1
    <2> HIDE DEF S
    <2> QED BY <1>4, <2>1, <2>2, RowIs
  <1> QED BY <1>5 DEF x, y, r

(* Six words and two words.                                                *)
LEMMA EightInARow ==
    ASSUME NEW a, NEW b, NEW c, NEW d, NEW e, NEW f, NEW g, NEW h
    PROVE  <<a, b, c, d, e, f>> \o <<g, h>> = <<a, b, c, d, e, f, g, h>>
  <1> DEFINE S == {a, b, c, d, e, f, g, h}
             x == <<a, b, c, d, e, f>>
             y == <<g, h>>
             r == <<a, b, c, d, e, f, g, h>>
  <1>1. x \in Seq(S) /\ y \in Seq(S) /\ r \in Seq(S) /\ Len(x \o y) = 8 /\ Len(r) = 8
    OBVIOUS
  <1>2. /\ (x \o y)[1] = r[1] /\ (x \o y)[2] = r[2] /\ (x \o y)[3] = r[3] /\ (x \o y)[4] = r[4]
        /\ (x \o y)[5] = r[5] /\ (x \o y)[6] = r[6] /\ (x \o y)[7] = r[7] /\ (x \o y)[8] = r[8]
    OBVIOUS
  <1> HIDE DEF x, y, r
  <1>3. \A j \in 1..8 : j = 1 \/ j = 2 \/ j = 3 \/ j = 4 \/ j = 5 \/ j = 6 \/ j = 7 \/ j = 8
    OBVIOUS
  <1>4. \A j \in 1..Len(r) : (x \o y)[j] = r[j]
    BY <1>1, <1>2, <1>3
  <1>5. x \o y = r
    <2>1. x \in Seq(S) /\ y \in Seq(S) /\ r \in Seq(S)
      BY <1>1
    <2>2. Len(x \o y) = Len(r)
      BY <1>1
    <2> HIDE DEF S
    <2> QED BY <1>4, <2>1, <2>2, RowIs
  <1> QED BY <1>5 DEF x, y, r

(* Words are no marks.                                                     *)
Wordy(w) == w # "(" /\ w # ")" /\ w # Comma /\ w # "."

(* The words of the code and the names are words.                          *)
LEMMA WordsAreWordy ==
    ASSUME NEW w, w \in Vocabulary \/ IsName(w)
    PROVE  Wordy(w)
  <1>1. w \notin Punctuation
    BY VocabularyIsWords, NamesAreNew
  <1>2. "(" \in Punctuation /\ ")" \in Punctuation /\ "." \in Punctuation /\ Comma \in Punctuation
    BY VocabularyIsWords
  <1> QED BY <1>1, <1>2 DEF Wordy

(* A text without parentheses and commas is balanced and one item.         *)
LEMMA NoParentheses ==
    ASSUME NEW x, \A j \in 1..Len(x) : x[j] # "(" /\ x[j] # ")" /\ x[j] # Comma
    PROVE  Plain(x)
  <1>1. Places(x, "(") = {} /\ Places(x, ")") = {}
    BY DEF Places
  <1> QED BY <1>1 DEF Plain, Balanced

(* The columns of the demo.                                                *)
LEMMA ColumnIs ==
    ASSUME NEW p, NEW i, IsName(p), NEW c \in RequiredGroupByColumns
    PROVE  /\ Column(p, c) \in Seq(Body(p, i)) /\ Plain(Column(p, c))
           /\ Column(p, c) = <<p, ".", c>> /\ Len(Column(p, c)) = 3
  <1> DEFINE x == <<p, ".", c>>
  <1>1. c \in Vocabulary /\ c \in Body(p, i)
    BY DEF Vocabulary, Body, RequiredGroupByColumns, AllowedSourceColumns
  <1>2. Wordy(p) /\ Wordy(c)
    BY <1>1, WordsAreWordy
  <1>3. ~(Comma \in {"(", ")", "."})
    BY VocabularyIsWords
  <1>4. x[1] = p /\ x[2] = "." /\ x[3] = c /\ Len(x) = 3
    OBVIOUS
  <1>5. x \in Seq(Body(p, i))
    <2>1. p \in Body(p, i) /\ "." \in Body(p, i)
      BY DEF Body
    <2> QED BY <1>1, <2>1, ShortTexts
  <1>6. Column(p, c) = x
    BY DEF Column
  <1> HIDE DEF x
  <1>7. \A j \in 1..Len(x) : x[j] # "(" /\ x[j] # ")" /\ x[j] # Comma
    <2>1. \A j \in 1..3 : j = 1 \/ j = 2 \/ j = 3
      OBVIOUS
    <2> QED BY <1>2, <1>3, <1>4, <2>1 DEF Wordy
  <1> QED BY <1>4, <1>5, <1>6, <1>7, NoParentheses DEF x

(* The expression of an output column, with what the rules look for.       *)
Ready(x) == Plain(x) /\ Len(x) # 0 /\ x[1] # ")" /\ \A j \in 1..Len(x) : x[j] = "AS" => j = Len(x) - 1
HasPair(x) ==
    \E c \in 1..Len(x) : c + 1 \in 1..Len(x) /\ x[c] = "AS" /\ x[c + 1] = "CurrentInventory"

(* A column with its name, as an item of the select list.                  *)
LEMMA NamedColumn ==
    ASSUME NEW p, NEW i, IsName(p), NEW c \in RequiredGroupByColumns
    PROVE  Named(Column(p, c), c) \in Seq(Front3(p, i)) /\ Ready(Named(Column(p, c), c))
  <1> DEFINE x == <<p, ".", c, "AS", c>>
  <1>1. c \in Vocabulary /\ c \in Front3(p, i) /\ "AS" \in Vocabulary /\ c # "AS"
    BY DEF Vocabulary, Front3, Body, RequiredGroupByColumns, AllowedSourceColumns, ReservedWords
  <1>2. Wordy(p) /\ Wordy(c) /\ Wordy("AS") /\ p # "AS"
    BY <1>1, WordsAreWordy, NamesAreNew
  <1>3. ~(Comma \in {"(", ")", "."})
    BY VocabularyIsWords
  <1>4. x[1] = p /\ x[2] = "." /\ x[3] = c /\ x[4] = "AS" /\ x[5] = c /\ Len(x) = 5
    OBVIOUS
  <1>5. x \in Seq(Front3(p, i))
    <2>1. p \in Front3(p, i) /\ "." \in Front3(p, i) /\ "AS" \in Front3(p, i)
      BY DEF Front3, Body
    <2> DEFINE S == Front3(p, i)
    <2>2. p \in S /\ "." \in S /\ "AS" \in S /\ c \in S
      BY <1>1, <2>1
    <2> HIDE DEF S
    <2>3. x \in Seq(S)
      BY <2>2
    <2> QED BY <2>3 DEF S
  <1>6. Named(Column(p, c), c) = x
    BY FiveInARow DEF Named, Column
  <1> HIDE DEF x
  <1>7. \A j \in 1..5 : j = 1 \/ j = 2 \/ j = 3 \/ j = 4 \/ j = 5
    OBVIOUS
  <1>8. \A j \in 1..Len(x) : x[j] # "(" /\ x[j] # ")" /\ x[j] # Comma
    BY <1>2, <1>3, <1>4, <1>7 DEF Wordy
  <1>9. \A j \in 1..Len(x) : x[j] = "AS" => j = Len(x) - 1
    <2>1. 5 - 1 = 4
      OBVIOUS
    <2> QED BY <1>1, <1>2, <1>4, <1>7, <2>1
  <1>10. Len(x) # 0 /\ x[1] # ")"
    BY <1>2, <1>4 DEF Wordy
  <1> QED BY <1>5, <1>6, <1>8, <1>9, <1>10, NoParentheses DEF Ready

(* The sum with its name, word by word.                                    *)
LEMMA SumIs ==
    ASSUME NEW i
    PROVE  Named(SumOf(Column(i, "Quantity")), "CurrentInventory") =
              <<"SUM", "(", i, ".", "Quantity", ")", "AS", "CurrentInventory">>
  <1> DEFINE x == <<"SUM", "(", i, ".", "Quantity", ")", "AS", "CurrentInventory">>
             e == Named(SumOf(Column(i, "Quantity")), "CurrentInventory")
  <1> DEFINE six == <<"SUM", "(", i, ".", "Quantity", ")">>
  <1>1. SumOf(Column(i, "Quantity")) = six
    <2>1. SumOf(Column(i, "Quantity")) = (<<"SUM", "(">> \o <<i, ".", "Quantity">>) \o <<")">>
      BY DEF SumOf, Column
    <2>2. (<<"SUM", "(">> \o <<i, ".", "Quantity">>) \o <<")">> = six
      BY SixInARow
    <2> QED BY <2>1, <2>2
  <1>2. six \o <<"AS", "CurrentInventory">> = x
    BY EightInARow
  <1>3. e = SumOf(Column(i, "Quantity")) \o <<"AS", "CurrentInventory">>
    BY DEF Named
  <1> HIDE DEF six, x, e
  <1>4. e = x
    BY <1>1, <1>2, <1>3
  <1> QED BY <1>4 DEF x, e

(* The sum with its name, as an item of the select list.                   *)
LEMMA NamedSum ==
    ASSUME NEW p, NEW i, IsName(i)
    PROVE  LET x == Named(SumOf(Column(i, "Quantity")), "CurrentInventory")
           IN  x \in Seq(Front3(p, i)) /\ Ready(x) /\ HasPair(x) /\ Len(x) = 8
  <1> DEFINE x == <<"SUM", "(", i, ".", "Quantity", ")", "AS", "CurrentInventory">>
             e == Named(SumOf(Column(i, "Quantity")), "CurrentInventory")
  <1>1. /\ "SUM" \in Vocabulary /\ "AS" \in Vocabulary /\ "Quantity" \in Vocabulary
        /\ "CurrentInventory" \in Vocabulary
    BY DEF Vocabulary, ReservedWords, AllowedSourceColumns, AllowedOutputAliases
  <1>2. /\ Wordy(i) /\ Wordy("SUM") /\ Wordy("AS") /\ Wordy("Quantity") /\ Wordy("CurrentInventory")
        /\ i # "AS"
    BY <1>1, WordsAreWordy, NamesAreNew
  <1>3. ~(Comma \in {"(", ")", "."})
    BY VocabularyIsWords
  <1>4. /\ x[1] = "SUM" /\ x[2] = "(" /\ x[3] = i /\ x[4] = "." /\ x[5] = "Quantity" /\ x[6] = ")"
        /\ x[7] = "AS" /\ x[8] = "CurrentInventory" /\ Len(x) = 8
    OBVIOUS
  <1>5. x \in Seq(Front3(p, i))
    <2> DEFINE S == Front3(p, i)
    <2>1. /\ "SUM" \in S /\ "(" \in S /\ i \in S /\ "." \in S /\ "Quantity" \in S /\ ")" \in S
          /\ "AS" \in S /\ "CurrentInventory" \in S
      BY DEF Front3, Body, AllowedSourceColumns, AllowedOutputAliases
    <2> HIDE DEF S
    <2>2. x \in Seq(S)
      BY <2>1
    <2> QED BY <2>2 DEF S
  <1>6. e = x
    BY SumIs
  <1> HIDE DEF x, e
  <1>7. \A j \in 1..8 : j = 1 \/ j = 2 \/ j = 3 \/ j = 4 \/ j = 5 \/ j = 6 \/ j = 7 \/ j = 8
    OBVIOUS
  <1>8. \A j \in 1..Len(x) : x[j] # Comma
    BY <1>2, <1>3, <1>4, <1>7 DEF Wordy
  <1>9. \A j \in 1..Len(x) : x[j] = "AS" => j = Len(x) - 1
    <2>1. 8 - 1 = 7
      OBVIOUS
    <2> QED BY <1>2, <1>4, <1>7, <2>1
  <1>10. Balanced(x)
    <2>1. Places(x, "(") = {2}
      BY <1>2, <1>4, <1>7 DEF Wordy, Places
    <2>2. Places(x, ")") = {6}
      BY <1>2, <1>4, <1>7 DEF Wordy, Places
    <2>3. Cardinality({2}) = 1 /\ Cardinality({6}) = 1
      BY FS_Singleton
    <2> QED BY <2>1, <2>2, <2>3 DEF Balanced
  <1>11. Len(x) # 0 /\ x[1] # ")"
    BY <1>2, <1>4 DEF Wordy
  <1>12. HasPair(x)
    <2>1. 7 \in 1..8 /\ 7 + 1 = 8 /\ 8 \in 1..8
      OBVIOUS
    <2> QED BY <1>4, <2>1 DEF HasPair
  <1> QED BY <1>4, <1>5, <1>6, <1>8, <1>9, <1>10, <1>11, <1>12 DEF Ready, Plain, e

(* Sets of three and of four.                                              *)
LEMMA Three ==
    ASSUME NEW a, NEW b, NEW c, a # b, a # c, b # c
    PROVE  IsFiniteSet({a, b, c}) /\ Cardinality({a, b, c}) = 3
  <1>1. IsFiniteSet({a}) /\ Cardinality({a}) = 1
    BY FS_Singleton
  <1>2. IsFiniteSet({a, b}) /\ Cardinality({a, b}) = 2
    <2>1. b \notin {a} /\ {a} \cup {b} = {a, b}
      OBVIOUS
    <2>2. IsFiniteSet({a} \cup {b}) /\ Cardinality({a} \cup {b}) = Cardinality({a}) + 1
      BY <1>1, <2>1, FS_AddElement
    <2> QED BY <1>1, <2>1, <2>2
  <1>3. c \notin {a, b} /\ {a, b} \cup {c} = {a, b, c}
    OBVIOUS
  <1>4. IsFiniteSet({a, b} \cup {c}) /\ Cardinality({a, b} \cup {c}) = Cardinality({a, b}) + 1
    BY <1>2, <1>3, FS_AddElement
  <1> QED BY <1>2, <1>3, <1>4

(* Three different things and a fourth.                                    *)
LEMMA Four ==
    ASSUME NEW a, NEW b, NEW c, NEW d, a # b, a # c, b # c, d \notin {a, b, c}
    PROVE  Cardinality({a, b, c} \cup {d}) = 4
  <1> DEFINE T == {a, b, c}
  <1>1. IsFiniteSet(T) /\ Cardinality(T) = 3
    BY Three
  <1>2. d \notin T
    OBVIOUS
  <1> HIDE DEF T
  <1>3. Cardinality(T \cup {d}) = Cardinality(T) + 1
    BY <1>1, <1>2, FS_AddElement
  <1> QED BY <1>1, <1>3 DEF T

(* The three group keys are different.                                     *)
LEMMA GroupKeysCounted ==
    ASSUME NEW p
    PROVE  Cardinality(GroupKeys(p)) = 3
  <1> DEFINE x == Column(p, "ProductID")
             y == Column(p, "Name")
             z == Column(p, "SafetyStockLevel")
  <1>1. GroupKeys(p) = {x, y, z}
    BY DEF GroupKeys, RequiredGroupByColumns
  <1>2. x # y /\ x # z /\ y # z
    <2>1. x[3] = "ProductID" /\ y[3] = "Name" /\ z[3] = "SafetyStockLevel"
      BY DEF Column
    <2> HIDE DEF x, y, z
    <2> QED BY <2>1
  <1> HIDE DEF x, y, z
  <1>3. Cardinality({x, y, z}) = 3
    BY <1>2, Three
  <1> QED BY <1>1, <1>3

(* The group keys as items of GROUP BY.                                    *)
LEMMA GroupKeysAre ==
    ASSUME NEW p, NEW i, IsName(p)
    PROVE  /\ Cardinality(GroupKeys(p)) = 3
           /\ \A x \in GroupKeys(p) : x \in Seq(Body(p, i)) /\ Plain(x)
  <1>1. \A x \in GroupKeys(p) : x \in Seq(Body(p, i)) /\ Plain(x)
    BY ColumnIs DEF GroupKeys
  <1> QED BY <1>1, GroupKeysCounted

(* The output columns, with their names.                                   *)
LEMMA OutputsAreNamed ==
    ASSUME NEW p, NEW i
    PROVE  OutputExpressions(p, i) = {Named(column[1], column[2]) : column \in OutputColumns(p, i)}
  <1> DEFINE named(column) == Named(column[1], column[2])
             w == <<SumOf(Column(i, "Quantity")), "CurrentInventory">>
  <1>1. \A c \in RequiredGroupByColumns : named(<<Column(p, c), c>>) = Named(Column(p, c), c)
    OBVIOUS
  <1>2. named(w) = Named(SumOf(Column(i, "Quantity")), "CurrentInventory")
    OBVIOUS
  <1>3. {named(column) : column \in OutputColumns(p, i)}
            = {named(<<Column(p, c), c>>) : c \in RequiredGroupByColumns} \cup {named(w)}
    <2> HIDE DEF named
    <2> QED BY Zenon DEF OutputColumns
  <1> HIDE DEF named, w
  <1>4. {named(column) : column \in OutputColumns(p, i)} = OutputExpressions(p, i)
    BY <1>1, <1>2, <1>3 DEF OutputExpressions
  <1> QED BY <1>4 DEF named

(* The four output columns are different.                                  *)
LEMMA OutputsCounted ==
    ASSUME NEW p, NEW i
    PROVE  Cardinality(OutputExpressions(p, i)) = 4
  <1> DEFINE e(c) == Named(Column(p, c), c)
             x == e("ProductID")
             y == e("Name")
             z == e("SafetyStockLevel")
             w == Named(SumOf(Column(i, "Quantity")), "CurrentInventory")
  <1>1. OutputExpressions(p, i) = {x, y, z} \cup {w}
    <2>1. OutputExpressions(p, i) = {e(c) : c \in RequiredGroupByColumns} \cup {w}
      BY DEF OutputExpressions
    <2> HIDE DEF w, e
    <2> QED BY <2>1 DEF RequiredGroupByColumns
  <1>2. Len(w) = 8
    BY SumIs
  <1>3. \A c : Len(e(c)) = 5 /\ e(c)[5] = c
    <2>1. \A c : e(c) = <<p, ".", c, "AS", c>>
      BY FiveInARow DEF Named, Column
    <2> QED BY <2>1
  <1>4. x # y /\ x # z /\ y # z /\ w # x /\ w # y /\ w # z
    <2>1. /\ Len(x) = 5 /\ Len(y) = 5 /\ Len(z) = 5 /\ x[5] = "ProductID" /\ y[5] = "Name"
          /\ z[5] = "SafetyStockLevel"
      BY <1>3
    <2>2. Len(w) = 8 /\ 8 # 5
      BY <1>2
    <2> HIDE DEF x, y, z, w, e
    <2>3. x # y /\ x # z /\ y # z
      BY <2>1
    <2>4. w # x /\ w # y /\ w # z
      BY <2>1, <2>2
    <2> QED BY <2>3, <2>4
  <1> HIDE DEF x, y, z, w
  <1> HIDE DEF e
  <1>5. w \notin {x, y, z}
    BY <1>4
  <1>6. Cardinality({x, y, z} \cup {w}) = 4
    BY <1>4, <1>5, Four
  <1> QED BY <1>1, <1>6

(* The output columns as items of the select list.                         *)
LEMMA OutputsAre ==
    ASSUME NEW p, NEW i, IsName(p), IsName(i)
    PROVE  /\ Cardinality(OutputExpressions(p, i)) = 4
           /\ \A x \in OutputExpressions(p, i) : x \in Seq(Front3(p, i)) /\ Ready(x)
           /\ \E x \in OutputExpressions(p, i) : HasPair(x)
  <1> DEFINE e(c) == Named(Column(p, c), c)
             w == Named(SumOf(Column(i, "Quantity")), "CurrentInventory")
  <1>1. OutputExpressions(p, i) = {e(c) : c \in RequiredGroupByColumns} \cup {w}
    BY DEF OutputExpressions
  <1>2. w \in Seq(Front3(p, i)) /\ Ready(w) /\ HasPair(w)
    BY NamedSum
  <1>3. \A c \in RequiredGroupByColumns : e(c) \in Seq(Front3(p, i)) /\ Ready(e(c))
    BY NamedColumn
  <1> HIDE DEF e, w
  <1> QED BY <1>1, <1>2, <1>3, OutputsCounted

(* The predicates.                                                         *)
LEMMA ColumnType ==
    ASSUME NEW p, NEW i, NEW a \in {p, i}, NEW c \in AllowedSourceColumns
    PROVE  Column(a, c) \in Seq(Body(p, i))
  <1>1. a \in Body(p, i) /\ "." \in Body(p, i) /\ c \in Body(p, i)
    BY DEF Body
  <1> QED BY <1>1, ShortTexts DEF Column

(* The predicates of the join and of HAVING as texts.                      *)
LEMMA PredicatesAre ==
    ASSUME NEW p, NEW i
    PROVE  /\ \A x \in JoinPredicates(p, i) : x \in Seq(Body(p, i))
           /\ HavingPredicate(p, i) \in Seq(Body(p, i))
           /\ \A x \in JoinPredicates(p, i) : x # <<>>
           /\ HavingPredicate(p, i) # <<>>
  <1> DEFINE B == Body(p, i)
  <1>1. /\ Column(p, "ProductID") \in Seq(B) /\ Column(i, "ProductID") \in Seq(B)
        /\ Column(i, "Quantity") \in Seq(B) /\ Column(p, "SafetyStockLevel") \in Seq(B)
    BY ColumnType DEF AllowedSourceColumns
  <1>2. /\ <<"=">> \in Seq(B) /\ <<"<">> \in Seq(B) /\ <<"SUM", "(">> \in Seq(B) /\ <<")">> \in Seq(B)
    <2>1. "=" \in B /\ "<" \in B /\ "SUM" \in B /\ "(" \in B /\ ")" \in B
      BY DEF Body
    <2> HIDE DEF B
    <2> QED BY <2>1, ShortTexts
  <1> HIDE DEF B
  <1>3. \A x, y, z \in Seq(B) : x \o y \in Seq(B) /\ (x \o y) \o z \in Seq(B)
    BY ConcatProperties
  <1>4. \A x, y, z \in Seq(B) : Len(y) = 1 => (x \o y) \o z # <<>>
    <2> SUFFICES ASSUME NEW x \in Seq(B), NEW y \in Seq(B), NEW z \in Seq(B), Len(y) = 1,
                        (x \o y) \o z = <<>>
                 PROVE  FALSE
      OBVIOUS
    <2>1. x \o y \in Seq(B)
      BY <1>3
    <2>2. x \o y = <<>>
      BY <2>1, ConcatEqualIffEmpty
    <2>3. y = <<>>
      BY <2>2, ConcatEqualIffEmpty
    <2>4. Len(<<>>) = 0
      OBVIOUS
    <2> QED BY <2>3, <2>4
  <1>5. ASSUME NEW x \in JoinPredicates(p, i)
        PROVE  x \in Seq(B) /\ x # <<>>
    <2>1. Len(<<"=">>) = 1
      OBVIOUS
    <2> DEFINE a == Column(p, "ProductID")
               b == Column(i, "ProductID")
               y == <<"=">>
    <2>2. x = (a \o y) \o b \/ x = (b \o y) \o a
      BY DEF JoinPredicates, Equal
    <2>3. a \in Seq(B) /\ b \in Seq(B) /\ y \in Seq(B) /\ Len(y) = 1
      BY <1>1, <1>2, <2>1
    <2> HIDE DEF a, b, y
    <2>4. \A u, v \in Seq(B) : (u \o y) \o v \in Seq(B) /\ (u \o y) \o v # <<>>
      BY <1>3, <1>4, <2>3
    <2> QED BY <2>2, <2>3, <2>4
  <1>6. HavingPredicate(p, i) \in Seq(B) /\ HavingPredicate(p, i) # <<>>
    <2> DEFINE s == SumOf(Column(i, "Quantity"))
               y == <<"<">>
               z == Column(p, "SafetyStockLevel")
    <2>1. s \in Seq(B)
      BY <1>1, <1>2, <1>3 DEF SumOf
    <2>2. y \in Seq(B) /\ Len(y) = 1 /\ z \in Seq(B)
      BY <1>1, <1>2
    <2>3. HavingPredicate(p, i) = (s \o y) \o z
      BY DEF HavingPredicate
    <2> HIDE DEF s, y, z
    <2> QED BY <1>3, <1>4, <2>1, <2>2, <2>3
  <1> QED BY <1>5, <1>6 DEF B

-----------------------------------------------------------------------------
(* Concatenation is put in order, in a set of texts.                       *)
Cat(a, b) == a \o b
Monoid(T) ==
    /\ \A a, b \in T : Cat(a, b) \in T
    /\ \A a, b, c \in T : Cat(Cat(a, b), c) = Cat(a, Cat(b, c))

(* Texts can be put together in any grouping.                              *)
LEMMA TextsAreMonoid ==
    ASSUME NEW S
    PROVE  Monoid(Seq(S))
  <1>1. ASSUME NEW a \in Seq(S), NEW b \in Seq(S) PROVE a \o b \in Seq(S)
    BY ConcatProperties
  <1>2. ASSUME NEW a \in Seq(S), NEW b \in Seq(S), NEW c \in Seq(S)
        PROVE  (a \o b) \o c = a \o (b \o c)
    BY ConcatAssociative
  <1> QED BY <1>1, <1>2 DEF Monoid, Cat

(* Putting together is associative.                                        *)
LEMMA Regroup ==
    ASSUME NEW T, Monoid(T), NEW a \in T, NEW b \in T, NEW c \in T
    PROVE  Cat(Cat(a, b), c) = Cat(a, Cat(b, c))
  BY DEF Monoid

(* Two texts make a text.                                                  *)
LEMMA InCat ==
    ASSUME NEW T, Monoid(T), NEW a \in T, NEW b \in T
    PROVE  Cat(a, b) \in T
  BY DEF Monoid

(* SELECT TOP with what follows.                                           *)
LEMMA SelectInLine ==
    ASSUME NEW T, Monoid(T), NEW s \in T, NEW t \in T, NEW n \in T, NEW x \in T
    PROVE  Cat(Cat(Cat(s, t), n), x) = Cat(s, Cat(Cat(t, n), x))
  <1>1. Cat(Cat(s, t), n) = Cat(s, Cat(t, n))
    BY Regroup
  <1>2. Cat(t, n) \in T
    BY InCat
  <1>3. Cat(Cat(s, Cat(t, n)), x) = Cat(s, Cat(Cat(t, n), x))
    BY <1>2, Regroup
  <1> QED BY <1>1, <1>3

(* A clause with two keywords.                                             *)
LEMMA PairInLine ==
    ASSUME NEW T, Monoid(T), NEW a \in T, NEW v \in T, NEW w \in T, NEW x \in T
    PROVE  Cat(a, Cat(Cat(v, w), x)) = Cat(Cat(a, v), Cat(w, x))
  <1>1. Cat(Cat(v, w), x) = Cat(v, Cat(w, x))
    BY Regroup
  <1>2. Cat(w, x) \in T
    BY InCat
  <1>3. Cat(Cat(a, v), Cat(w, x)) = Cat(a, Cat(v, Cat(w, x)))
    BY <1>2, Regroup
  <1> QED BY <1>1, <1>3

-----------------------------------------------------------------------------
(* The rests of the seven clauses of a query with one table and one JOIN.  *)
Rests(q) ==
    <<Cat(Cat(<<"TOP">>, q.top), Separated(Outputs(q))),
      Cat(TableRef(q.tables[1]), q.joins[1].kind),
      TableRef(q.joins[1].table),
      q.joins[1].on,
      Cat(<<"BY">>, Separated(q.group)),
      q.having,
      Cat(<<"BY">>, Separated(SortKeys(q)))>>

(* The same for a query with one JOIN, any tables before it and WHERE,     *)
(* which is read as a part of the clause of ON.                            *)
Parts(q) ==
    <<Cat(Cat(<<"TOP">>, q.top), Separated(Outputs(q))),
      Cat(Separated(Tables(q)), q.joins[1].kind),
      TableRef(q.joins[1].table),
      Cat(q.joins[1].on, Clause(<<"WHERE">>, q.where)),
      Cat(<<"BY">>, Separated(q.group)),
      q.having,
      Cat(<<"BY">>, Separated(SortKeys(q)))>>

(* A clause put behind a text.                                             *)
LEMMA PutIsCat ==
    ASSUME NEW a, NEW w, NEW x
    PROVE  Put(a, w, x) = Cat(Cat(a, <<w>>), x)
  BY DEF Put, Cat

(* A join, part by part.                                                   *)
LEMMA JoinIsCat ==
    ASSUME NEW join
    PROVE  Joined(join) = Cat(Cat(Cat(Cat(join.kind, <<"JOIN">>), TableRef(join.table)), <<"ON">>), join.on)
  BY DEF Joined, Cat

(* A clause that is there.                                                 *)
LEMMA ClauseIsCat ==
    ASSUME NEW keywords, NEW body, body # <<>>
    PROVE  Clause(keywords, body) = Cat(keywords, body)
  BY DEF Clause, Cat

(* One word and one word.                                                  *)
LEMMA TwoInARow ==
    ASSUME NEW v, NEW w
    PROVE  <<v>> \o <<w>> = <<v, w>>
  <1> DEFINE S == {v, w}
             x == <<v>>
             y == <<w>>
             r == <<v, w>>
  <1>1. x \in Seq(S) /\ y \in Seq(S) /\ r \in Seq(S)
    BY ShortTexts
  <1>2. Len(x) = 1 /\ x[1] = v /\ Len(y) = 1 /\ y[1] = w /\ Len(r) = 2 /\ r[1] = v /\ r[2] = w
    OBVIOUS
  <1> HIDE DEF S, x, y, r
  <1>3. /\ Len(x \o y) = Len(r)
        /\ \A j \in 1..Len(r) : (x \o y)[j] = r[j]
    BY <1>1, <1>2, ConcatProperties
  <1>4. x \o y = r
    BY <1>1, <1>3, RowIs
  <1> QED BY <1>4 DEF x, y, r

(* Two keywords are one and one.                                           *)
LEMMA TwoKeywords ==
    /\ <<"SELECT", "TOP">> = Cat(<<"SELECT">>, <<"TOP">>)
    /\ <<"GROUP", "BY">> = Cat(<<"GROUP">>, <<"BY">>)
    /\ <<"ORDER", "BY">> = Cat(<<"ORDER">>, <<"BY">>)
  BY TwoInARow DEF Cat

(* The parts that are put together.                                        *)
LEMMA JoinParts ==
    ASSUME NEW q \in Query, Len(q.joins) = 1
    PROVE  /\ q.top \in Text /\ Separated(Outputs(q)) \in Text /\ Separated(Tables(q)) \in Text
           /\ q.joins[1].kind \in Text /\ q.joins[1].table \in Table
           /\ TableRef(q.joins[1].table) \in Text /\ q.joins[1].on \in Text
           /\ Clause(<<"WHERE">>, q.where) \in Text
           /\ Separated(q.group) \in Text /\ q.having \in Text /\ Separated(SortKeys(q)) \in Text
           /\ FlattenSeq(JoinedTables(q)) = Joined(q.joins[1])
  <1>1. /\ q.top \in Text /\ q.having \in Text /\ q.where \in Text
        /\ q.tables \in Seq(Table)
        /\ q.joins \in Seq([kind : Text, table : Table, on : Text])
        /\ q.group \in Seq(Text)
        /\ \A table \in Table : TableRef(table) \in Text
        /\ Outputs(q) \in Seq(Text) /\ Tables(q) \in Seq(Text)
        /\ JoinedTables(q) \in Seq(Text) /\ SortKeys(q) \in Seq(Text)
    BY PartsAreTexts
  <1>2. "," \in Symbols
    BY GateAssumption
  <1>3. /\ Separated(Outputs(q)) \in Text /\ Separated(q.group) \in Text
        /\ Separated(SortKeys(q)) \in Text /\ Separated(Tables(q)) \in Text
    BY <1>1, <1>2, SeparatedType DEF Text
  <1>5. q.joins[1] \in [kind : Text, table : Table, on : Text]
    <2> DEFINE J == [kind : Text, table : Table, on : Text]
    <2>1. q.joins \in Seq(J) /\ 1 \in 1..Len(q.joins)
      BY <1>1
    <2> HIDE DEF J
    <2>2. q.joins[1] \in J
      BY <2>1, ElementOfSeq
    <2> QED BY <2>2 DEF J
  <1>6. q.joins[1].kind \in Text /\ q.joins[1].table \in Table /\ q.joins[1].on \in Text
    BY <1>5
  <1>7. Clause(<<"WHERE">>, q.where) \in Text
    <2>1. <<"WHERE">> \in Text /\ <<>> \in Text /\ Monoid(Text)
      BY GateAssumption, ShortTexts, TextsAreMonoid DEF Text
    <2>2. Cat(<<"WHERE">>, q.where) \in Text
      BY <1>1, <2>1, InCat
    <2> QED BY <2>1, <2>2 DEF Clause, Cat
  <1>8. FlattenSeq(JoinedTables(q)) = Joined(q.joins[1])
    <2> DEFINE s == JoinedTables(q)
    <2>1. Len(s) = 1 /\ s[1] = Joined(q.joins[1])
      <3>1. Len(q.joins) = 1 /\ DOMAIN q.joins = 1..1
        BY <1>1, LenProperties
      <3>2. DOMAIN s = 1..1 /\ s[1] = Joined(q.joins[1])
        BY <3>1 DEF JoinedTables
      <3>3. s \in Seq(Text)
        BY <1>1
      <3> HIDE DEF s
      <3>4. Len(s) \in Nat /\ 1..Len(s) = 1..1
        BY <3>2, <3>3, LenProperties
      <3> QED BY <3>2, <3>4, SameLength
    <2>2. s \in Seq(Text)
      BY <1>1
    <2> HIDE DEF s
    <2>3. FlattenSeq(s) = s[1]
      BY <2>1, <2>2, FlattenSeqType DEF Text
    <2> QED BY <2>1, <2>3 DEF s
  <1> QED BY <1>1, <1>3, <1>6, <1>7, <1>8

(* The parts of a query with one table and one join are texts.             *)
LEMMA RestParts ==
    ASSUME NEW q \in Query, Len(q.tables) = 1, Len(q.joins) = 1
    PROVE  /\ q.top \in Text /\ Separated(Outputs(q)) \in Text
           /\ q.tables[1] \in Table /\ TableRef(q.tables[1]) \in Text
           /\ q.joins[1].kind \in Text /\ q.joins[1].table \in Table
           /\ TableRef(q.joins[1].table) \in Text /\ q.joins[1].on \in Text
           /\ Separated(q.group) \in Text /\ q.having \in Text /\ Separated(SortKeys(q)) \in Text
           /\ Separated(Tables(q)) = TableRef(q.tables[1])
  <1>1. /\ q.tables \in Seq(Table) /\ Tables(q) \in Seq(Text)
        /\ \A table \in Table : TableRef(table) \in Text
    BY PartsAreTexts
  <1>2. "," \in Symbols
    BY GateAssumption
  <1>4. q.tables[1] \in Table
    BY <1>1, ElementOfSeq
  <1>7. Separated(Tables(q)) = TableRef(q.tables[1])
    <2> DEFINE s == Tables(q)
    <2>1. Len(s) = 1 /\ s[1] = TableRef(q.tables[1])
      <3>1. Len(q.tables) = 1 /\ DOMAIN q.tables = 1..1
        BY <1>1, LenProperties
      <3>2. DOMAIN s = 1..1 /\ s[1] = TableRef(q.tables[1])
        BY <3>1 DEF Tables
      <3>3. s \in Seq(Text)
        BY <1>1
      <3> HIDE DEF s
      <3>4. Len(s) \in Nat /\ 1..Len(s) = 1..1
        BY <3>2, <3>3, LenProperties
      <3> QED BY <3>2, <3>4, SameLength
    <2>2. s \in Seq(Text)
      BY <1>1
    <2> HIDE DEF s
    <2>3. Commas(s) \in Seq(Text) /\ Len(Commas(s)) = 1
      BY <1>2, <2>1, <2>2, SeparatedType DEF Text
    <2>4. Commas(s)[1] = s[1]
      <3>1. 1 \in DOMAIN s
        BY <2>1, <2>2, LenProperties
      <3> QED BY <3>1 DEF Commas
    <2>5. FlattenSeq(Commas(s)) = Commas(s)[1]
      BY <2>3, FlattenSeqType DEF Text
    <2>6. Separated(s) = FlattenSeq(Commas(s))
      BY DEF Separated, Commas
    <2> QED BY <2>1, <2>4, <2>5, <2>6 DEF s
  <1> QED BY <1>1, <1>4, <1>7, JoinParts

(* Such a query is rendered as its seven clauses.                          *)
LEMMA RenderedInParts ==
    ASSUME NEW q \in Query, Len(q.joins) = 1,
           Separated(q.group) # <<>>, q.having # <<>>, Separated(SortKeys(q)) # <<>>
    PROVE  Render(q) = Chain(Parts(q))
  <1> DEFINE T == Text
             sel == <<"SELECT">>
             tp == <<"TOP">>
             fr == <<"FROM">>
             jn == <<"JOIN">>
             on == <<"ON">>
             gr == <<"GROUP">>
             by == <<"BY">>
             hv == <<"HAVING">>
             od == <<"ORDER">>
             n == q.top
             x == Separated(Outputs(q))
             b == Separated(Tables(q))
             k == q.joins[1].kind
             s == TableRef(q.joins[1].table)
             o == q.joins[1].on
             g == Separated(q.group)
             h == q.having
             z == Separated(SortKeys(q))
             wh == Clause(<<"WHERE">>, q.where)
  <1>1. /\ sel \in T /\ tp \in T /\ fr \in T /\ jn \in T /\ on \in T /\ gr \in T /\ by \in T
        /\ hv \in T /\ od \in T
    BY GateAssumption, ShortTexts DEF Text
  <1>2. n \in T /\ x \in T /\ b \in T /\ k \in T /\ s \in T /\ o \in T /\ g \in T /\ h \in T /\ z \in T
        /\ wh \in T
    BY JoinParts
  <1>3. Monoid(T)
    BY TextsAreMonoid DEF Text
  <1> DEFINE j == Cat(Cat(Cat(Cat(k, jn), s), on), o)
  <1>4. Render(q) = Cat(Cat(Cat(Cat(Cat(Cat(Cat(Cat(Cat(Cat(sel, tp), n), x), fr), b), j), wh),
                        Cat(Cat(gr, by), g)), Cat(hv, h)), Cat(Cat(od, by), z))
    <2>1. Render(q) = <<"SELECT", "TOP">> \o n \o x \o fr
                          \o Separated(Tables(q)) \o FlattenSeq(JoinedTables(q))
                          \o Clause(<<"WHERE">>, q.where)
                          \o Clause(<<"GROUP", "BY">>, g)
                          \o Clause(<<"HAVING">>, h)
                          \o Clause(<<"ORDER", "BY">>, z)
      BY DEF Render, Outputs, Tables, JoinedTables, SortKeys
    <2>2. Separated(Tables(q)) = b /\ FlattenSeq(JoinedTables(q)) = j
      BY JoinParts, JoinIsCat
    <2>3. Clause(<<"WHERE">>, q.where) = wh
      OBVIOUS
    <2>4. /\ Clause(<<"GROUP", "BY">>, g) = Cat(<<"GROUP", "BY">>, g)
          /\ Clause(<<"HAVING">>, h) = Cat(hv, h)
          /\ Clause(<<"ORDER", "BY">>, z) = Cat(<<"ORDER", "BY">>, z)
      BY ClauseIsCat
    <2> HIDE DEF n, x, b, j, g, h, z, fr, hv, wh
    <2>5. Render(q) = Cat(Cat(Cat(Cat(Cat(Cat(Cat(Cat(Cat(<<"SELECT", "TOP">>, n), x), fr), b), j),
                          wh), Cat(<<"GROUP", "BY">>, g)), Cat(hv, h)),
                          Cat(<<"ORDER", "BY">>, z))
      <3>1. Render(q) = <<"SELECT", "TOP">> \o n \o x \o fr \o b \o j \o wh
                            \o Cat(<<"GROUP", "BY">>, g) \o Cat(hv, h) \o Cat(<<"ORDER", "BY">>, z)
        BY <2>1, <2>2, <2>3, <2>4
      <3> QED BY <3>1 DEF Cat
    <2> QED BY <2>5, TwoKeywords DEF sel
  <1> DEFINE e == Parts(q)
             ow == Cat(o, wh)
             a1 == Cat(sel, Cat(Cat(tp, n), x))
             a2 == Cat(Cat(a1, fr), Cat(b, k))
             a3 == Cat(Cat(a2, jn), s)
             a4 == Cat(Cat(a3, on), ow)
             a5 == Cat(Cat(a4, gr), Cat(by, g))
             a6 == Cat(Cat(a5, hv), h)
             a7 == Cat(Cat(a6, od), Cat(by, z))
  <1>5. Chain(e) = a7
    <2>1. /\ e[1] = Cat(Cat(tp, n), x) /\ e[2] = Cat(b, k) /\ e[3] = s /\ e[4] = ow
          /\ e[5] = Cat(by, g) /\ e[6] = h /\ e[7] = Cat(by, z)
      BY DEF Parts
    <2>2. Cat(Cat(<<>>, sel), e[1]) = Cat(sel, e[1])
      <3>1. <<>> \o sel = sel
        BY <1>1, ConcatEmptySeq DEF Text
      <3> QED BY <3>1 DEF Cat
    <2> HIDE DEF n, x, b, k, s, ow, g, h, z, e
    <2>3. Chain(e) = Cat(Cat(Cat(Cat(Cat(Cat(Cat(Cat(Cat(Cat(Cat(Cat(Cat(Cat(<<>>, sel), e[1]), fr),
                         e[2]), jn), e[3]), on), e[4]), gr), e[5]), hv), e[6]), od), e[7])
      BY PutIsCat DEF Chain
    <2> HIDE DEF sel, tp, fr, jn, on, gr, by, hv, od
    <2> QED BY <2>1, <2>2, <2>3
  <1> HIDE DEF sel, tp, fr, jn, on, gr, by, hv, od, n, x, b, k, s, o, g, h, z, wh, e, T
  <1>6. Cat(Cat(Cat(sel, tp), n), x) = a1
    BY <1>1, <1>2, <1>3, SelectInLine, SMTT(30)
  <1>7. Cat(tp, n) \in T
    BY <1>1, <1>2, <1>3, InCat
  <1>8. Cat(Cat(tp, n), x) \in T
    BY <1>2, <1>3, <1>7, InCat
  <1>9. a1 \in T
    BY <1>1, <1>3, <1>8, InCat
  <1> HIDE DEF a1
  <1>10. Cat(a1, fr) \in T
    BY <1>1, <1>3, <1>9, InCat
  <1>11. Cat(Cat(Cat(a1, fr), b), j) = Cat(Cat(a3, on), o)
    <2> DEFINE a == Cat(a1, fr)
               f == Cat(a, b)
               u == Cat(k, jn)
               v == Cat(u, s)
               w == Cat(v, on)
    <2>1. a \in T
      BY <1>10
    <2>2. f \in T
      BY <1>2, <1>3, <2>1, InCat
    <2>3. u \in T
      BY <1>1, <1>2, <1>3, InCat
    <2>4. v \in T
      BY <1>2, <1>3, <2>3, InCat
    <2>5. w \in T
      BY <1>1, <1>3, <2>4, InCat
    <2> HIDE DEF a
    <2>6. Cat(f, k) = Cat(a, Cat(b, k))
      BY <1>2, <1>3, <2>1, Regroup
    <2> HIDE DEF f
    <2>7. Cat(f, u) = Cat(Cat(f, k), jn)
      <3>1. Cat(Cat(f, k), jn) = Cat(f, Cat(k, jn))
        BY <1>1, <1>2, <1>3, <2>2, Regroup
      <3> QED BY <3>1
    <2> HIDE DEF u
    <2>8. Cat(f, v) = Cat(Cat(f, u), s)
      BY <1>2, <1>3, <2>2, <2>3, Regroup
    <2> HIDE DEF v
    <2>9. Cat(f, w) = Cat(Cat(f, v), on)
      BY <1>1, <1>3, <2>2, <2>4, Regroup
    <2> HIDE DEF w
    <2>10. Cat(f, Cat(w, o)) = Cat(Cat(f, w), o)
      BY <1>2, <1>3, <2>2, <2>5, Regroup
    <2> QED BY <2>6, <2>7, <2>8, <2>9, <2>10 DEF a, f, u, v, w
  <1> HIDE DEF j
  <1>12. Cat(b, k) \in T
    BY <1>2, <1>3, InCat
  <1>13. a2 \in T
    BY <1>3, <1>10, <1>12, InCat
  <1> HIDE DEF a2
  <1>14. Cat(a2, jn) \in T
    BY <1>1, <1>3, <1>13, InCat
  <1>15. a3 \in T
    BY <1>2, <1>3, <1>14, InCat
  <1> HIDE DEF a3
  <1>16. Cat(a3, on) \in T
    BY <1>1, <1>3, <1>15, InCat
  <1>18. Cat(Cat(Cat(a3, on), o), wh) = a4
    BY <1>2, <1>3, <1>16, Regroup
  <1>27. ow \in T
    BY <1>2, <1>3, InCat
  <1>17. a4 \in T
    BY <1>3, <1>16, <1>27, InCat
  <1> HIDE DEF a4
  <1>19. Cat(a4, Cat(Cat(gr, by), g)) = a5
    BY <1>1, <1>2, <1>3, <1>17, PairInLine, SMTT(30)
  <1>20. Cat(by, g) \in T
    BY <1>1, <1>2, <1>3, InCat
  <1>21. Cat(a4, gr) \in T
    BY <1>1, <1>3, <1>17, InCat
  <1>22. a5 \in T
    BY <1>3, <1>20, <1>21, InCat
  <1> HIDE DEF a5
  <1>23. Cat(a5, Cat(hv, h)) = a6
    <2>1. Cat(Cat(a5, hv), h) = Cat(a5, Cat(hv, h))
      BY <1>1, <1>2, <1>3, <1>22, Regroup
    <2> QED BY <2>1
  <1>24. Cat(a5, hv) \in T
    BY <1>1, <1>3, <1>22, InCat
  <1>25. a6 \in T
    BY <1>2, <1>3, <1>24, InCat
  <1> HIDE DEF a6
  <1>26. Cat(a6, Cat(Cat(od, by), z)) = a7
    BY <1>1, <1>2, <1>3, <1>25, PairInLine, SMTT(30)
  <1> HIDE DEF a7
  <1> QED BY <1>4, <1>5, <1>6, <1>11, <1>18, <1>19, <1>23, <1>26 DEF e

(* Rendering such a query puts its seven clauses behind one another.       *)
LEMMA RenderedInLine ==
    ASSUME NEW q \in Query, Len(q.tables) = 1, Len(q.joins) = 1, q.where = <<>>,
           Separated(q.group) # <<>>, q.having # <<>>, Separated(SortKeys(q)) # <<>>
    PROVE  Render(q) = Chain(Rests(q))
  <1>1. Separated(Tables(q)) = TableRef(q.tables[1]) /\ q.joins[1].on \in Seq(Symbols)
    BY RestParts DEF Text
  <1>2. Cat(q.joins[1].on, Clause(<<"WHERE">>, q.where)) = q.joins[1].on
    BY <1>1, ConcatEmptySeq DEF Clause, Cat
  <1>3. Parts(q) = Rests(q)
    BY <1>1, <1>2 DEF Parts, Rests
  <1> QED BY <1>3, RenderedInParts

-----------------------------------------------------------------------------
(* The representative query as the prompt asks for it, with p and i for    *)
(* the folded aliases of its two tables.                                   *)
Is(table, name, alias) == Fold(table.name) = name /\ Fold(table.alias) = alias

Demo(q, p, i) ==
    /\ q \in Query /\ Len(q.tables) = 1 /\ Len(q.joins) = 1 /\ q.where = <<>>
    /\ IsName(p) /\ IsName(i) /\ p # i
    /\ \/ Is(q.tables[1], "Product", p) /\ Is(q.joins[1].table, "ProductInventory", i)
       \/ Is(q.tables[1], "ProductInventory", i) /\ Is(q.joins[1].table, "Product", p)
    /\ q.joins[1].kind \in {<<>>, <<"INNER">>, <<"LEFT">>}
    /\ Canonical(q.joins[1].on) \in JoinPredicates(p, i)
    /\ Len(q.group) = 3 /\ {Canonical(q.group[k]) : k \in 1..3} = GroupKeys(p)
    /\ Canonical(q.having) = HavingPredicate(p, i)
    /\ Len(q.items) = 4 /\ \A k \in 1..4 : q.items[k].name \in AllowedOutputAliases
    /\ {Canonical(Outputs(q)[k]) : k \in 1..4} = OutputExpressions(p, i)
    /\ q.order # <<>> /\ q.order[1].direction = "ASC"
    /\ Canonical(q.order[1].key) \in {<<"ProductID">>, Column(p, "ProductID")}
    /\ \A k \in DOMAIN q.order :
          \/ \E name \in AllowedOutputAliases : Canonical(q.order[k].key) = <<name>>
          \/ Canonical(q.order[k].key) \in GroupKeys(p)
    /\ \E n \in Numerals : q.top \in {<<n>>, <<"(", n, ")">>} /\ ValueOf[n] \in 1..MaximumReturnedRows

(* The words that the code spells out are not folded.                      *)
LEMMA FoldedNames ==
    ASSUME NEW w \in Vocabulary
    PROVE  Fold(w) = w
  BY SqlAssumption DEF Fold

(* The two approved tables, in either order.                               *)
LEMMA TwoTables ==
    ASSUME NEW a, NEW b, {a, b} = AllowedTables
    PROVE  \/ a = "Product" /\ b = "ProductInventory"
           \/ a = "ProductInventory" /\ b = "Product"
  BY DEF AllowedTables

(* What a representative query is, clause by clause, for the aliases p and *)
(* i.                                                                      *)
LEMMA RepresentativeIsDemo ==
    ASSUME NEW q \in Query, Representative(q), Binds(q), WrittenAsAsked(q)
    PROVE  \E p, i : Demo(q, p, i)
  <1> DEFINE first == q.tables[1]
             second == q.joins[1].table
             p == Fold(IF Fold(first.name) = "Product" THEN first.alias ELSE second.alias)
             i == Fold(IF Fold(first.name) = "Product" THEN second.alias ELSE first.alias)
  <1>1. /\ Len(q.tables) = 1 /\ Len(q.joins) = 1 /\ q.where = <<>>
        /\ {Fold(first.name), Fold(second.name)} = AllowedTables
        /\ Canonical(q.joins[1].on) \in JoinPredicates(p, i)
        /\ Len(q.group) = 3 /\ {Canonical(q.group[k]) : k \in 1..3} = GroupKeys(p)
        /\ Canonical(q.having) = HavingPredicate(p, i)
        /\ Len(q.items) = 4
        /\ {Canonical(Named(q.items[k].expr, q.items[k].name)) : k \in 1..4} = OutputExpressions(p, i)
        /\ q.order # <<>>
        /\ Canonical(q.order[1].key) \in {<<"ProductID">>, Column(p, "ProductID")}
        /\ q.order[1].direction = "ASC"
        /\ \E n \in Numerals :
              q.top \in {<<n>>, <<"(", n, ")">>} /\ ValueOf[n] \in 1..MaximumReturnedRows
    BY OutputsAreNamed, SMTT(30) DEF Representative
  <1>2. /\ DOMAIN q.tables = 1..1 /\ DOMAIN q.joins = 1..1 /\ DOMAIN q.items = 1..4
        /\ DOMAIN q.group = 1..3
    <2>1. /\ q.items \in Seq([expr : Text, name : Symbols]) /\ q.tables \in Seq(Table)
          /\ q.joins \in Seq([kind : Text, table : Table, on : Text]) /\ q.group \in Seq(Text)
      BY PartsAreTexts
    <2> QED BY <1>1, <2>1, LenProperties
  <1>3. 1 \in DOMAIN q.tables /\ 1 \in DOMAIN q.joins
    BY <1>2
  <1>4. /\ \A k \in 1..4 : q.items[k].name \in AllowedOutputAliases
        /\ IsName(Fold(first.alias)) /\ IsName(Fold(second.alias))
        /\ q.joins[1].kind \in {<<>>, <<"INNER">>, <<"LEFT">>}
    BY <1>2, <1>3 DEF WrittenAsAsked, IsAlias, IsName
  <1>5. Fold(first.alias) # Fold(second.alias)
    <2> DEFINE aliases == [k \in 1..(Len(q.tables) + Len(q.joins)) |->
                              Fold(IF k <= Len(q.tables) THEN q.tables[k].alias
                                   ELSE q.joins[k - Len(q.tables)].table.alias)]
    <2>1. IsInjective(aliases)
      BY DEF Binds
    <2>2. /\ DOMAIN aliases = 1..2 /\ 1 \in 1..2 /\ 2 \in 1..2 /\ 1 # 2
          /\ aliases[1] = Fold(first.alias)
      BY <1>1
    <2>3. aliases[2] = Fold(second.alias)
      <3>1. Len(q.tables) + Len(q.joins) = 2 /\ 2 \in 1..2 /\ ~(2 <= Len(q.tables)) /\ 2 - Len(q.tables) = 1
        BY <1>1
      <3> QED BY <3>1
    <2> HIDE DEF aliases
    <2> QED BY <2>1, <2>2, <2>3 DEF IsInjective
  <1>6. IsName(p) /\ IsName(i) /\ p # i
    BY <1>4, <1>5
  <1>7. \/ Is(first, "Product", p) /\ Is(second, "ProductInventory", i)
        \/ Is(first, "ProductInventory", i) /\ Is(second, "Product", p)
    <2>1. \/ Fold(first.name) = "Product" /\ Fold(second.name) = "ProductInventory"
          \/ Fold(first.name) = "ProductInventory" /\ Fold(second.name) = "Product"
      BY <1>1, TwoTables
    <2> QED BY <2>1 DEF Is
  <1>8. {Canonical(Outputs(q)[k]) : k \in 1..4} = OutputExpressions(p, i)
    <2>1. \A k \in 1..4 : Outputs(q)[k] = Named(q.items[k].expr, q.items[k].name)
      BY <1>2 DEF Outputs
    <2>2. {Canonical(Outputs(q)[k]) : k \in 1..4}
              = {Canonical(Named(q.items[k].expr, q.items[k].name)) : k \in 1..4}
      BY <2>1
    <2> QED BY <1>1, <2>2
  <1>9. ASSUME NEW k \in DOMAIN q.order
        PROVE  \/ \E name \in AllowedOutputAliases : Canonical(q.order[k].key) = <<name>>
               \/ Canonical(q.order[k].key) \in GroupKeys(p)
    <2>1. \/ \E j \in DOMAIN q.items : Canonical(q.order[k].key) = <<Fold(q.items[j].name)>>
          \/ \E j \in DOMAIN q.group : Canonical(q.order[k].key) = Canonical(q.group[j])
      BY DEF Binds
    <2>2. ASSUME NEW j \in DOMAIN q.items, Canonical(q.order[k].key) = <<Fold(q.items[j].name)>>
          PROVE  \E name \in AllowedOutputAliases : Canonical(q.order[k].key) = <<name>>
      <3>1. q.items[j].name \in AllowedOutputAliases
        BY <1>2, <1>4
      <3>2. Fold(q.items[j].name) = q.items[j].name
        BY <3>1, FoldedNames DEF Vocabulary
      <3> QED BY <2>2, <3>1, <3>2
    <2>3. ASSUME NEW j \in DOMAIN q.group, Canonical(q.order[k].key) = Canonical(q.group[j])
          PROVE  Canonical(q.order[k].key) \in GroupKeys(p)
      BY <1>1, <1>2, <2>3
    <2> QED BY <2>1, <2>2, <2>3
  <1> HIDE DEF p, i
  <1>10. Demo(q, p, i)
    BY <1>1, <1>4, <1>6, <1>7, <1>8, <1>9, Zenon DEF Demo
  <1> QED BY <1>10

-----------------------------------------------------------------------------
(* Words of the code are not folded.                                       *)
LEMMA CanonicalKept ==
    ASSUME NEW S, \A w \in S : Fold(w) = w, NEW a \in Seq(S)
    PROVE  Canonical(a) = a
  <1>1. \A w \in S : Fold(w) \in S
    OBVIOUS
  <1>2. /\ Canonical(a) \in Seq(S) /\ Len(Canonical(a)) = Len(a)
        /\ \A j \in 1..Len(a) : Canonical(a)[j] = Fold(a[j])
    BY <1>1, CanonicalIs
  <1>3. \A j \in 1..Len(a) : a[j] \in S
    BY ElementOfSeq
  <1>4. \A j \in 1..Len(a) : Canonical(a)[j] = a[j]
    BY <1>2, <1>3
  <1> QED BY <1>2, <1>4, SeqEqual

(* Two words and three words.                                              *)
LEMMA TwoAndThreeInARow ==
    ASSUME NEW a, NEW b, NEW c, NEW d, NEW e
    PROVE  <<a, b>> \o <<c, d, e>> = <<a, b, c, d, e>>
  <1> DEFINE S == {a, b, c, d, e}
             x == <<a, b>>
             y == <<c, d, e>>
             r == <<a, b, c, d, e>>
  <1>1. x \in Seq(S) /\ y \in Seq(S) /\ r \in Seq(S) /\ Len(x \o y) = 5 /\ Len(r) = 5
    OBVIOUS
  <1>2. (x \o y)[1] = r[1] /\ (x \o y)[2] = r[2] /\ (x \o y)[3] = r[3] /\ (x \o y)[4] = r[4]
        /\ (x \o y)[5] = r[5]
    OBVIOUS
  <1> HIDE DEF x, y, r
  <1>3. \A j \in 1..5 : j = 1 \/ j = 2 \/ j = 3 \/ j = 4 \/ j = 5
    OBVIOUS
  <1>4. \A j \in 1..Len(r) : (x \o y)[j] = r[j]
    BY <1>1, <1>2, <1>3
  <1>5. x \o y = r
    <2>1. x \in Seq(S) /\ y \in Seq(S) /\ r \in Seq(S)
      BY <1>1
    <2>2. Len(x \o y) = Len(r)
      BY <1>1
    <2> HIDE DEF S
    <2> QED BY <1>4, <2>1, <2>2, RowIs
  <1> QED BY <1>5 DEF x, y, r

(* A table, folded.                                                        *)
LEMMA TableFolded ==
    ASSUME NEW table \in Table, NEW n, NEW a, Is(table, n, a)
    PROVE  /\ table.schema \in BOOLEAN
           /\ Canonical(TableRef(table)) = RefText(table.schema, n, a)
  <1> DEFINE h == table.alias
             w == table.name
  <1>1. table.schema \in BOOLEAN /\ Fold(w) = n /\ Fold(h) = a /\ h \in Symbols
    BY DEF Is, Table
  <1>2. Fold("Production") = "Production" /\ Fold("AS") = "AS"
    BY FoldedNames DEF Vocabulary, ReservedWords
  <1>3. Fold(".") = "."
    BY FoldKeepsPunctuation DEF Punctuation
  <1>4. TableRef(table) = IF table.schema THEN <<"Production", ".">> \o <<w, "AS", h>> ELSE <<w, "AS", h>>
    <2>1. <<>> \o <<w, "AS", h>> = <<w, "AS", h>>
      <3> DEFINE y == <<w, "AS", h>>
      <3>1. y \in Seq({w, "AS", h})
        BY ShortTexts
      <3> HIDE DEF y
      <3>2. <<>> \o y = y
        BY <3>1, ConcatEmptySeq
      <3> QED BY <3>2 DEF y
    <2> QED BY <1>1, <2>1 DEF TableRef
  <1>5. \A v, u, x : Canonical(<<v, u, x>>) = <<Fold(v), Fold(u), Fold(x)>>
    <2> SUFFICES ASSUME NEW v, NEW u, NEW x PROVE Canonical(<<v, u, x>>) = <<Fold(v), Fold(u), Fold(x)>>
      OBVIOUS
    <2> QED BY DEF Canonical
  <1>6. \A v, u : Canonical(<<v, u>>) = <<Fold(v), Fold(u)>>
    <2> SUFFICES ASSUME NEW v, NEW u PROVE Canonical(<<v, u>>) = <<Fold(v), Fold(u)>>
      OBVIOUS
    <2> QED BY DEF Canonical
  <1>7. Canonical(<<w, "AS", h>>) = <<n, "AS", a>>
    BY <1>1, <1>2, <1>5
  <1>8. Canonical(<<"Production", ".">>) = <<"Production", ".">>
    BY <1>2, <1>3, <1>6
  <1>9. Canonical(<<"Production", ".">> \o <<w, "AS", h>>) = <<"Production", ".", n, "AS", a>>
    <2> DEFINE S == {"Production", ".", w, "AS", h}
               x == <<"Production", ".">>
               y == <<w, "AS", h>>
    <2>1. x \in Seq(S) /\ y \in Seq(S)
      BY ShortTexts
    <2> HIDE DEF S, x, y
    <2>2. Canonical(x \o y) = Canonical(x) \o Canonical(y)
      BY <2>1, CanonicalConcat
    <2>3. <<"Production", ".">> \o <<n, "AS", a>> = <<"Production", ".", n, "AS", a>>
      BY TwoAndThreeInARow
    <2> QED BY <1>7, <1>8, <2>2, <2>3 DEF x, y
  <1> QED BY <1>1, <1>4, <1>7, <1>9 DEF RefText

(* SELECT TOP with the number of rows.                                     *)
LEMMA TopFolded ==
    ASSUME NEW p, NEW i, NEW n \in Numerals, NEW top, top \in {<<n>>, <<"(", n, ")">>}
    PROVE  /\ top \in Seq(Front3(p, i)) /\ Canonical(top) = top
           /\ \A j \in 1..Len(top) : Fold(top[j]) # "AS"
  <1> DEFINE S == {n, "(", ")"}
  <1>1. top \in Seq(S)
    BY ShortTexts
  <1>2. \A w \in S : Fold(w) = w
    <2>1. Fold(n) = n
      BY SqlAssumption DEF Fold
    <2>2. Fold("(") = "(" /\ Fold(")") = ")"
      BY FoldKeepsPunctuation DEF Punctuation
    <2> QED BY <2>1, <2>2
  <1>3. \A w \in S : w \in Front3(p, i) /\ w # "AS"
    <2>1. n \in Front3(p, i) /\ n # "AS"
      BY NumeralsAreNew DEF Front3
    <2>2. "(" \in Front3(p, i) /\ ")" \in Front3(p, i)
      BY DEF Front3, Body
    <2> QED BY <2>1, <2>2
  <1> HIDE DEF S
  <1>4. Canonical(top) = top
    BY <1>1, <1>2, CanonicalKept
  <1>5. \A j \in 1..Len(top) : top[j] \in S
    BY <1>1, ElementOfSeq
  <1>6. Len(top) \in Nat
    BY <1>1, LenProperties
  <1>7. top \in Seq(Front3(p, i))
    BY <1>1, <1>3, SeqMonotonic
  <1> QED BY <1>2, <1>3, <1>4, <1>5, <1>7

-----------------------------------------------------------------------------
(* A text whose AS are all followed by the name of an output column, as    *)
(* it is spelled, stays one behind or before another.                      *)
AsThenName(x) ==
    \A j \in 1..Len(x) : Fold(x[j]) = "AS" => j + 1 \in 1..Len(x) /\ x[j + 1] \in AllowedOutputAliases

(* If AS comes before an output name in both parts, it does in the text.   *)
LEMMA AsThenNameConcat ==
    ASSUME NEW S, NEW a \in Seq(S), NEW b \in Seq(S), AsThenName(a), AsThenName(b)
    PROVE  AsThenName(a \o b)
  <1> DEFINE c == a \o b
  <1>1. /\ c \in Seq(S) /\ Len(c) = Len(a) + Len(b) /\ Len(a) \in Nat /\ Len(b) \in Nat
        /\ \A j \in 1..Len(a) : c[j] = a[j]
        /\ \A j \in 1..Len(b) : c[Len(a) + j] = b[j]
    BY SpansConcat DEF Spans
  <1> HIDE DEF c
  <1>2. SUFFICES ASSUME NEW j \in 1..Len(c), Fold(c[j]) = "AS"
                 PROVE  j + 1 \in 1..Len(c) /\ c[j + 1] \in AllowedOutputAliases
    BY DEF AsThenName, c
  <1>3. CASE j <= Len(a)
    <2>1. j \in 1..Len(a) /\ c[j] = a[j]
      BY <1>1, <1>3
    <2>2. j + 1 \in 1..Len(a) /\ a[j + 1] \in AllowedOutputAliases
      BY <1>2, <2>1 DEF AsThenName
    <2> QED BY <1>1, <2>2
  <1>4. CASE j > Len(a)
    <2> DEFINE k == j - Len(a)
    <2>1. k \in 1..Len(b) /\ j = Len(a) + k /\ j + 1 = Len(a) + (k + 1)
      BY <1>1, <1>2, <1>4
    <2> HIDE DEF k
    <2>2. c[j] = b[k]
      BY <1>1, <2>1
    <2>3. k + 1 \in 1..Len(b) /\ b[k + 1] \in AllowedOutputAliases
      BY <1>2, <2>1, <2>2 DEF AsThenName
    <2>4. c[j + 1] = b[k + 1]
      BY <1>1, <2>1, <2>3
    <2>5. j + 1 \in 1..Len(c)
      BY <1>1, <2>1, <2>3
    <2> QED BY <2>3, <2>4, <2>5
  <1> QED BY <1>1, <1>2, <1>3, <1>4

(* The same for a longer list.                                             *)
LEMMA AsThenNameNext ==
    ASSUME NEW S, Comma \in S, NEW a \in Seq(S), NEW x \in Seq(S), AsThenName(a), AsThenName(x)
    PROVE  AsThenName(Next2(a, x))
  <1> DEFINE c == <<Comma>>
             b == c \o x
  <1>1. c \in Seq(S) /\ Len(c) = 1 /\ c[1] = Comma
    BY ShortTexts
  <1>2. Comma # "AS"
    BY VocabularyIsWords DEF Vocabulary, ReservedWords
  <1>3. AsThenName(c)
    <2>1. \A j \in 1..Len(c) : Fold(c[j]) # "AS"
      BY <1>1, <1>2, CommaKept
    <2> QED BY <2>1 DEF AsThenName
  <1>4. Next2(a, x) = a \o b
    BY DEF Next2
  <1>5. c \in Seq(S)
    BY <1>1
  <1> HIDE DEF c
  <1>6. b \in Seq(S)
    BY <1>5, ConcatProperties
  <1>7. AsThenName(b)
    BY <1>3, <1>5, AsThenNameConcat
  <1> HIDE DEF b
  <1>8. AsThenName(a \o b)
    BY <1>6, <1>7, AsThenNameConcat
  <1> QED BY <1>4, <1>8

(* A text with the column CurrentInventory keeps it.                       *)
LEMMA PairKept ==
    ASSUME NEW S, NEW a \in Seq(S), NEW b \in Seq(S), HasPair(a) \/ HasPair(b)
    PROVE  HasPair(a \o b)
  <1> DEFINE c == a \o b
  <1>1. /\ c \in Seq(S) /\ Len(c) = Len(a) + Len(b) /\ Len(a) \in Nat /\ Len(b) \in Nat
        /\ \A j \in 1..Len(a) : c[j] = a[j]
        /\ \A j \in 1..Len(b) : c[Len(a) + j] = b[j]
    BY SpansConcat DEF Spans
  <1> HIDE DEF c
  <1>2. CASE HasPair(a)
    <2>1. PICK j \in 1..Len(a) : j + 1 \in 1..Len(a) /\ a[j] = "AS" /\ a[j + 1] = "CurrentInventory"
      BY <1>2 DEF HasPair
    <2>2. j \in 1..Len(c) /\ j + 1 \in 1..Len(c) /\ c[j] = a[j] /\ c[j + 1] = a[j + 1]
      BY <1>1, <2>1
    <2> QED BY <2>1, <2>2 DEF HasPair, c
  <1>3. CASE HasPair(b)
    <2>1. PICK j \in 1..Len(b) : j + 1 \in 1..Len(b) /\ b[j] = "AS" /\ b[j + 1] = "CurrentInventory"
      BY <1>3 DEF HasPair
    <2> DEFINE k == Len(a) + j
    <2>2. k \in 1..Len(c) /\ k + 1 \in 1..Len(c) /\ k + 1 = Len(a) + (j + 1)
      BY <1>1, <2>1
    <2>3. c[k] = b[j] /\ c[k + 1] = b[j + 1]
      BY <1>1, <2>1, <2>2
    <2> HIDE DEF k
    <2> QED BY <2>1, <2>2, <2>3 DEF HasPair, c
  <1> QED BY <1>2, <1>3

(* The name of the sum stays in a longer list.                             *)
LEMMA PairNext ==
    ASSUME NEW S, Comma \in S, NEW a \in Seq(S), NEW x \in Seq(S), HasPair(a) \/ HasPair(x)
    PROVE  HasPair(Next2(a, x))
  <1> DEFINE c == <<Comma>>
             b == c \o x
  <1>1. c \in Seq(S)
    BY ShortTexts
  <1>2. Next2(a, x) = a \o b
    BY DEF Next2
  <1> HIDE DEF c
  <1>3. b \in Seq(S)
    BY <1>1, ConcatProperties
  <1>4. HasPair(x) => HasPair(b)
    BY <1>1, PairKept
  <1> HIDE DEF b
  <1>5. HasPair(a \o b)
    BY <1>3, <1>4, PairKept
  <1> QED BY <1>2, <1>5

-----------------------------------------------------------------------------
(* An output column, as it is written.                                     *)
LEMMA NamedAsWritten ==
    ASSUME NEW expr \in Text, NEW name \in Symbols, name \in AllowedOutputAliases,
           Ready(Canonical(Named(expr, name)))
    PROVE  AsThenName(Named(expr, name))
  <1> DEFINE y == <<"AS", name>>
             x == expr \o y
             c == Canonical(x)
  <1>1. y \in Text /\ Len(y) = 2 /\ y[2] = name
    <2>1. "AS" \in Symbols
      BY GateAssumption
    <2> QED BY <2>1, ShortTexts DEF Text
  <1>2. x = Named(expr, name)
    BY DEF Named
  <1> HIDE DEF y
  <1>3. /\ x \in Seq(Symbols) /\ Len(x) = Len(expr) + 2 /\ Len(expr) \in Nat
        /\ x[Len(expr) + 2] = name
    <2>1. /\ x \in Seq(Symbols) /\ Len(x) = Len(expr) + Len(y) /\ Len(expr) \in Nat
          /\ \A j \in 1..Len(y) : x[Len(expr) + j] = y[j]
      <3>1. expr \in Seq(Symbols) /\ y \in Seq(Symbols)
        BY <1>1 DEF Text
      <3>2. /\ x \in Seq(Symbols) /\ Len(x) = Len(expr) + Len(y) /\ Len(expr) \in Nat
            /\ Spans(x, Len(expr), y)
        BY <3>1, SpansConcat
      <3> HIDE DEF x
      <3> QED BY <3>2 DEF Spans
    <2> QED BY <1>1, <2>1
  <1> HIDE DEF x
  <1>4. Len(c) = Len(x) /\ \A j \in 1..Len(x) : c[j] = Fold(x[j])
    <2>1. \A w \in Symbols : Fold(w) \in Folded(Symbols)
      BY DEF Folded
    <2> QED BY <1>3, <2>1, CanonicalIs
  <1>5. \A j \in 1..Len(c) : c[j] = "AS" => j = Len(c) - 1
    BY <1>2 DEF Ready
  <1>6. SUFFICES ASSUME NEW j \in 1..Len(x), Fold(x[j]) = "AS"
                 PROVE  j + 1 \in 1..Len(x) /\ x[j + 1] \in AllowedOutputAliases
    BY <1>2 DEF AsThenName
  <1>7. j = Len(x) - 1
    BY <1>4, <1>5, <1>6
  <1>8. j + 1 = Len(expr) + 2 /\ j + 1 \in 1..Len(x)
    BY <1>3, <1>7
  <1> QED BY <1>3, <1>8

(* The SELECT list of the query.                                           *)
LEMMA OutputItems ==
    ASSUME NEW q, NEW p, NEW i, Demo(q, p, i)
    PROVE  /\ Outputs(q) \in Seq(Seq(Symbols)) /\ Len(Outputs(q)) = 4
           /\ \A k \in 1..4 : /\ Canonical(Outputs(q)[k]) \in Seq(Front3(p, i))
                              /\ Ready(Canonical(Outputs(q)[k]))
                              /\ AsThenName(Outputs(q)[k])
                              /\ Outputs(q)[k] \in Seq(Symbols)
           /\ \E k \in 1..4 : HasPair(Canonical(Outputs(q)[k]))
  <1> DEFINE items == Outputs(q)
  <1>1. /\ q \in Query /\ IsName(p) /\ IsName(i) /\ Len(q.items) = 4
        /\ \A k \in 1..4 : q.items[k].name \in AllowedOutputAliases
        /\ {Canonical(items[k]) : k \in 1..4} = OutputExpressions(p, i)
    BY Zenon DEF Demo
  <1>2. items \in Seq(Text) /\ q.items \in Seq([expr : Text, name : Symbols])
    BY <1>1, PartsAreTexts
  <1>3. DOMAIN q.items = 1..4
    BY <1>1, <1>2, LenProperties
  <1>4. \A k \in 1..4 : items[k] = Named(q.items[k].expr, q.items[k].name)
    BY <1>3 DEF Outputs
  <1>5. Len(items) = 4
    <2>1. DOMAIN items = 1..4
      BY <1>3 DEF Outputs
    <2> HIDE DEF items
    <2>2. Len(items) \in Nat /\ 1..Len(items) = 1..4
      BY <1>2, <2>1, LenProperties
    <2> QED BY <2>2, SameLength
  <1>6. ASSUME NEW k \in 1..4
        PROVE  /\ q.items[k].expr \in Text /\ q.items[k].name \in Symbols /\ items[k] \in Seq(Symbols)
    <2>1. q.items[k] \in [expr : Text, name : Symbols]
      BY <1>1, <1>2, ElementOfSeq
    <2> HIDE DEF items
    <2>2. items[k] \in Text
      BY <1>2, <1>5, ElementOfSeq
    <2> QED BY <2>1, <2>2 DEF Text
  <1>7. \A k \in 1..4 : Canonical(items[k]) \in OutputExpressions(p, i)
    BY <1>1
  <1>8. /\ \A x \in OutputExpressions(p, i) : x \in Seq(Front3(p, i)) /\ Ready(x)
        /\ \E x \in OutputExpressions(p, i) : HasPair(x)
    BY <1>1, OutputsAre
  <1>9. ASSUME NEW k \in 1..4 PROVE AsThenName(items[k])
    <2>1. Ready(Canonical(Named(q.items[k].expr, q.items[k].name)))
      BY <1>4, <1>7, <1>8
    <2>2. q.items[k].name \in AllowedOutputAliases
      BY <1>1
    <2>3. AsThenName(Named(q.items[k].expr, q.items[k].name))
      BY <1>6, <2>1, <2>2, NamedAsWritten
    <2> QED BY <1>4, <2>3
  <1>10. \E k \in 1..4 : HasPair(Canonical(items[k]))
    <2>1. PICK x \in OutputExpressions(p, i) : HasPair(x)
      BY <1>8
    <2>2. x \in {Canonical(items[k]) : k \in 1..4}
      BY <1>1, <2>1
    <2> QED BY <2>1, <2>2
  <1>11. items \in Seq(Seq(Symbols))
    BY <1>2 DEF Text
  <1> QED BY <1>5, <1>6, <1>7, <1>8, <1>9, <1>10, <1>11

(* In a list of four named items AS comes before a name.                   *)
LEMMA FourNamed ==
    ASSUME NEW S, Comma \in S, NEW items \in Seq(Seq(S)), Len(items) = 4,
           \A k \in 1..4 : AsThenName(items[k])
    PROVE  AsThenName(Separated(items))
  <1> DEFINE x == items[1]
             y == items[2]
             z == items[3]
             w == items[4]
             a == Next2(x, y)
             b == Next2(a, z)
  <1>0. 1 \in 1..4 /\ 2 \in 1..4 /\ 3 \in 1..4 /\ 4 \in 1..4
    OBVIOUS
  <1>1. x \in Seq(S) /\ y \in Seq(S) /\ z \in Seq(S) /\ w \in Seq(S)
    <2>1. \A k \in 1..Len(items) : items[k] \in Seq(S)
      BY ElementOfSeq
    <2> QED BY <1>0, <2>1
  <1>2. AsThenName(x) /\ AsThenName(y) /\ AsThenName(z) /\ AsThenName(w)
    BY <1>0
  <1>3. Separated(items) = Next2(b, w)
    BY FourItems
  <1> HIDE DEF x, y, z, w
  <1>4. a \in Seq(S)
    BY <1>1, NextType
  <1>5. AsThenName(a)
    BY <1>1, <1>2, AsThenNameNext
  <1> HIDE DEF a
  <1>6. b \in Seq(S)
    BY <1>1, <1>4, NextType
  <1>7. AsThenName(b)
    BY <1>1, <1>2, <1>4, <1>5, AsThenNameNext
  <1> HIDE DEF b
  <1>8. AsThenName(Next2(b, w))
    BY <1>1, <1>2, <1>6, <1>7, AsThenNameNext
  <1> QED BY <1>3, <1>8

(* The name of the sum is in the list if it is in an item.                 *)
LEMMA PairOfFour ==
    ASSUME NEW S, Comma \in S, NEW x \in Seq(S), NEW y \in Seq(S), NEW z \in Seq(S), NEW w \in Seq(S),
           HasPair(x) \/ HasPair(y) \/ HasPair(z) \/ HasPair(w)
    PROVE  HasPair(Next2(Next2(Next2(x, y), z), w))
  <1> DEFINE a == Next2(x, y)
             b == Next2(a, z)
  <1>1. a \in Seq(S)
    BY NextType
  <1>2. HasPair(x) \/ HasPair(y) => HasPair(a)
    BY PairNext
  <1> HIDE DEF a
  <1>3. b \in Seq(S)
    BY <1>1, NextType
  <1>4. HasPair(a) \/ HasPair(z) => HasPair(b)
    BY <1>1, PairNext
  <1> HIDE DEF b
  <1>5. HasPair(b) \/ HasPair(w) => HasPair(Next2(b, w))
    BY <1>3, PairNext
  <1> QED BY <1>2, <1>4, <1>5 DEF a, b

(* What the SELECT list of the query is.                                   *)
LEMMA SelectListIs ==
    ASSUME NEW q, NEW p, NEW i, Demo(q, p, i), NEW x, x = Separated(Outputs(q))
    PROVE  /\ Canonical(x) \in Seq(Front3(p, i)) /\ Lists(Canonical(x), 4, OutputExpressions(p, i))
           /\ HasPair(Canonical(x)) /\ AsThenName(x)
           /\ Len(Canonical(x)) > 0 /\ Canonical(x)[1] # ")"
  <1> DEFINE items == Outputs(q)
             T == Front3(p, i)
             a == Canonical(items[1])
             b == Canonical(items[2])
             c == Canonical(items[3])
             d == Canonical(items[4])
  <1>0. 1 \in 1..4 /\ 2 \in 1..4 /\ 3 \in 1..4 /\ 4 \in 1..4
    OBVIOUS
  <1>1. /\ items \in Seq(Seq(Symbols)) /\ Len(items) = 4
        /\ \A k \in 1..4 : /\ Canonical(items[k]) \in Seq(T) /\ Ready(Canonical(items[k]))
                           /\ AsThenName(items[k]) /\ items[k] \in Seq(Symbols)
        /\ \E k \in 1..4 : HasPair(Canonical(items[k]))
    BY OutputItems
  <1>2. {Canonical(items[k]) : k \in 1..4} = OutputExpressions(p, i)
    BY Zenon DEF Demo
  <1>3. Comma \in Symbols /\ Comma \in T
    <2>1. Comma \in Symbols
      BY GateAssumption, Zenon DEF Comma
    <2>2. Comma \in T
      BY Zenon DEF Front3, Body
    <2> QED BY <2>1, <2>2
  <1> HIDE DEF T
  <1> HIDE DEF items
  <1>4. /\ Canonical(x) \in Seq(T)
        /\ Lists(Canonical(x), 4, {Canonical(items[k]) : k \in 1..4})
        /\ Canonical(x) = Next2(Next2(Next2(a, b), c), d)
    <2>1. \A k \in 1..4 : Canonical(items[k]) \in Seq(T) /\ Plain(Canonical(items[k]))
      BY <1>1 DEF Ready
    <2>2. items \in Seq(Seq(Symbols)) /\ Len(items) = 4
      BY <1>1
    <2>3. x = Separated(items)
      BY DEF items
    <2>4. 4 \in Nat /\ 4 # 0
      OBVIOUS
    <2>5. Canonical(Separated(items)) \in Seq(T)
          /\ Lists(Canonical(Separated(items)), 4, {Canonical(items[k]) : k \in 1..4})
      BY <1>3, <2>1, <2>2, <2>4, PlainListed, Zenon
    <2>6. Canonical(Separated(items)) = Next2(Next2(Next2(a, b), c), d)
      BY <1>3, <2>2, FourInARow
    <2> QED BY <2>3, <2>5, <2>6
  <1>5. Lists(Canonical(x), 4, OutputExpressions(p, i))
    BY <1>2, <1>4
  <1>6. HasPair(Canonical(x))
    <2>1. HasPair(a) \/ HasPair(b) \/ HasPair(c) \/ HasPair(d)
      <3>1. \A k \in 1..4 : k = 1 \/ k = 2 \/ k = 3 \/ k = 4
        OBVIOUS
      <3> QED BY <1>1, <3>1
    <2>2. a \in Seq(T) /\ b \in Seq(T) /\ c \in Seq(T) /\ d \in Seq(T)
      BY <1>0, <1>1
    <2> HIDE DEF a, b, c, d
    <2>3. HasPair(Next2(Next2(Next2(a, b), c), d))
      BY <1>3, <2>1, <2>2, PairOfFour
    <2> QED BY <1>4, <2>3
  <1>7. AsThenName(x)
    <2>1. \A k \in 1..4 : AsThenName(items[k])
      BY <1>1
    <2>2. items \in Seq(Seq(Symbols)) /\ Len(items) = 4
      BY <1>1
    <2>3. x = Separated(items)
      BY DEF items
    <2>4. AsThenName(Separated(items))
      BY <1>3, <2>1, <2>2, FourNamed
    <2> QED BY <2>3, <2>4
  <1>8. Spans(Canonical(x), 0, a)
    <2>1. items \in Seq(Seq(Symbols)) /\ Len(items) # 0
      BY <1>1
    <2>2. x = Separated(items)
      BY DEF items
    <2>3. Spans(x, 0, items[1])
      BY <1>3, <2>1, <2>2, BeginsWithFirst
    <2>4. x \in Seq(Symbols)
      BY <1>3, <2>1, <2>2, CommasAre
    <2>5. items[1] \in Seq(Symbols)
      BY <1>0, <1>1
    <2> QED BY <2>3, <2>4, <2>5, SpansCanonical
  <1>9. Ready(a) /\ Len(a) \in Nat
    <2>1. Ready(a) /\ a \in Seq(T)
      BY <1>0, <1>1
    <2> HIDE DEF a
    <2> QED BY <2>1, LenProperties
  <1>10. Len(Canonical(x)) \in Nat
    BY <1>4, LenProperties
  <1>11. Len(Canonical(x)) > 0 /\ Canonical(x)[1] # ")"
    <2> HIDE DEF a
    <2> DEFINE l == Canonical(x)
    <2>1. Spans(l, 0, a) /\ Len(l) \in Nat
      BY <1>8, <1>10
    <2> HIDE DEF l
    <2>2. Len(l) > 0 /\ l[1] # ")"
      <3>1. Len(a) # 0 /\ a[1] # ")" /\ Len(a) \in Nat
        BY <1>9 DEF Ready
      <3>2. 0 + Len(a) <= Len(l) /\ \A j \in 1..Len(a) : l[0 + j] = a[j]
        BY <2>1 DEF Spans
      <3>3. 1 \in 1..Len(a) /\ 0 + 1 = 1
        BY <3>1
      <3>4. l[1] = a[1]
        BY <3>2, <3>3
      <3> QED BY <2>1, <3>1, <3>2, <3>4
    <2> QED BY <2>2 DEF l
  <1> QED BY <1>4, <1>5, <1>6, <1>7, <1>11 DEF T

-----------------------------------------------------------------------------

(* The comma is a symbol of every clause.                                  *)
LEMMA CommaIsThere ==
    ASSUME NEW p, NEW i
    PROVE  Comma \in Symbols /\ Comma \in Body(p, i) /\ Comma \in Front3(p, i)
  <1>1. Comma \in Symbols
    BY GateAssumption, Zenon DEF Comma
  <1>2. Comma \in Body(p, i) /\ Comma \in Front3(p, i)
    BY Zenon DEF Front3, Body
  <1> QED BY <1>1, <1>2

(* A list whose first item is not empty is not empty.                      *)
LEMMA NotEmpty ==
    ASSUME NEW S, Comma \in S, NEW items \in Seq(Seq(S)), Len(items) # 0, Len(items[1]) # 0
    PROVE  Separated(items) # <<>>
  <1> DEFINE x == items[1]
             s == Separated(items)
  <1>1. Spans(s, 0, x)
    BY BeginsWithFirst
  <1>2. x \in Seq(S)
    <2>1. 1 \in 1..Len(items)
      BY LenProperties
    <2> QED BY <2>1, ElementOfSeq
  <1>3. s \in Seq(S)
    BY CommasAre
  <1>4. Len(x) \in Nat /\ Len(s) \in Nat /\ Len(x) # 0
    BY <1>2, <1>3, LenProperties
  <1> HIDE DEF x, s
  <1>5. Len(s) # 0
    BY <1>1, <1>4 DEF Spans
  <1>6. s # <<>>
    <2>1. Len(<<>>) = 0
      BY EmptySeq
    <2> QED BY <1>5, <2>1
  <1> QED BY <1>6 DEF s

(* Folding keeps the length.                                               *)
LEMMA CanonicalLen ==
    ASSUME NEW S, NEW a \in Seq(S)
    PROVE  Len(Canonical(a)) = Len(a) /\ Len(a) \in Nat
  <1>1. \A w \in S : Fold(w) \in Folded(S)
    BY DEF Folded
  <1> QED BY <1>1, CanonicalIs

(* The words of a text, when those of the folded text are known.           *)
RawBody(p, i) == {w \in Symbols : Fold(w) \in Body(p, i)}

(* What is folded to words of the demo was a spelling of them.             *)
LEMMA RawWords ==
    ASSUME NEW p, NEW i, NEW a \in Seq(Symbols), Canonical(a) \in Seq(Body(p, i))
    PROVE  a \in Seq(RawBody(p, i))
  <1>1. \A w \in Symbols : Fold(w) \in Folded(Symbols)
    BY DEF Folded
  <1>2. /\ Len(Canonical(a)) = Len(a) /\ Len(a) \in Nat
        /\ \A j \in 1..Len(a) : Canonical(a)[j] = Fold(a[j])
    BY <1>1, CanonicalIs
  <1>3. \A j \in 1..Len(a) : a[j] \in Symbols
    BY ElementOfSeq
  <1> DEFINE c == Canonical(a)
  <1>4. \A j \in 1..Len(c) : c[j] \in Body(p, i)
    <2>1. c \in Seq(Body(p, i))
      OBVIOUS
    <2> HIDE DEF c
    <2> QED BY <2>1, ElementOfSeq
  <1>5. \A j \in 1..Len(a) : a[j] \in RawBody(p, i)
    BY <1>2, <1>3, <1>4 DEF RawBody
  <1>6. a = [j \in 1..Len(a) |-> a[j]] /\ DOMAIN a = 1..Len(a)
    BY SeqDef
  <1>7. a \in Seq(RawBody(p, i))
    BY <1>2, <1>5, <1>6, ListOfTexts
  <1> QED BY <1>7

(* The GROUP BY list.                                                      *)
LEMMA GroupListIs ==
    ASSUME NEW q, NEW p, NEW i, Demo(q, p, i), NEW x, x = Separated(q.group)
    PROVE  /\ x # <<>> /\ x \in Seq(Symbols) /\ Canonical(x) \in Seq(Body(p, i))
           /\ Lists(Canonical(x), 3, GroupKeys(p)) /\ Cardinality(GroupKeys(p)) = 3
  <1> DEFINE items == q.group
             T == Body(p, i)
  <1>1. /\ q \in Query /\ IsName(p) /\ Len(items) = 3
        /\ {Canonical(items[k]) : k \in 1..3} = GroupKeys(p)
    BY Zenon DEF Demo
  <1>2. items \in Seq(Seq(Symbols))
    BY <1>1, PartsAreTexts DEF Text
  <1>3. Comma \in Symbols /\ Comma \in T
    BY CommaIsThere
  <1>4. Cardinality(GroupKeys(p)) = 3 /\ \A y \in GroupKeys(p) : y \in Seq(T) /\ Plain(y)
    BY <1>1, GroupKeysAre
  <1>5. \A k \in 1..3 : Canonical(items[k]) \in Seq(T) /\ Plain(Canonical(items[k]))
    BY <1>1, <1>4
  <1>6. x \in Seq(Symbols)
    BY <1>2, <1>3, CommasAre
  <1>7. Len(items[1]) # 0
    <2>1. Canonical(items[1]) \in GroupKeys(p)
      BY <1>1
    <2>2. PICK c \in RequiredGroupByColumns : Canonical(items[1]) = Column(p, c)
      BY <2>1 DEF GroupKeys
    <2>3. Len(Column(p, c)) = 3
      BY <1>1, ColumnIs
    <2>4. items[1] \in Seq(Symbols)
      BY <1>1, <1>2, ElementOfSeq
    <2>5. Len(Canonical(items[1])) = Len(items[1])
      BY <2>4, CanonicalLen
    <2>6. Len(Canonical(items[1])) = 3
      BY <2>2, <2>3
    <2> QED BY <2>5, <2>6
  <1> HIDE DEF T, items
  <1>8. x # <<>>
    <2>1. Len(items) # 0
      BY <1>1
    <2>2. Separated(items) # <<>>
      BY <1>2, <1>3, <1>7, <2>1, NotEmpty
    <2> QED BY <2>2 DEF items
  <1>9. /\ Canonical(Separated(items)) \in Seq(T)
        /\ Lists(Canonical(Separated(items)), 3, {Canonical(items[k]) : k \in 1..3})
    <2>1. Len(items) = 3
      BY <1>1
    <2>2. 3 \in Nat /\ 3 # 0
      OBVIOUS
    <2> QED BY <1>2, <1>3, <1>5, <2>1, <2>2, PlainListed, Zenon
  <1>10. x = Separated(items)
    BY DEF items
  <1> QED BY <1>1, <1>4, <1>6, <1>8, <1>9, <1>10 DEF T

-----------------------------------------------------------------------------
(* One entry of the ORDER BY list.                                         *)
LEMMA EntryFolded ==
    ASSUME NEW key \in Seq(Symbols), NEW way \in {"ASC", "DESC"}
    PROVE  /\ Append(key, way) \in Seq(Symbols) /\ Len(Append(key, way)) = Len(key) + 1
           /\ Canonical(Append(key, way)) = Canonical(key) \o <<way>>
  <1>1. way \in Symbols
    BY GateAssumption
  <1> DEFINE y == <<way>>
             x == Append(key, way)
  <1>2. y \in Seq(Symbols) /\ Len(y) = 1 /\ y[1] = way
    BY <1>1, ShortTexts
  <1>3. Canonical(y) = y
    <2>1. y \in Seq({"ASC", "DESC"})
      BY ShortTexts
    <2>2. \A w \in {"ASC", "DESC"} : Fold(w) = w
      BY FoldedNames DEF Vocabulary, ReservedWords
    <2> HIDE DEF y
    <2> QED BY <2>1, <2>2, CanonicalKept
  <1>4. x \in Seq(Symbols) /\ Len(x) = Len(key) + 1
    BY <1>1, AppendProperties
  <1>5. x = key \o y
    BY <1>1, AppendIsConcat
  <1> HIDE DEF x
  <1>6. Canonical(key \o y) = Canonical(key) \o Canonical(y)
    <2>1. key \in Seq(Symbols) /\ y \in Seq(Symbols)
      BY <1>2
    <2> HIDE DEF y
    <2> QED BY <2>1, CanonicalConcat
  <1> QED BY <1>3, <1>4, <1>5, <1>6 DEF x

(* A key of the ORDER BY list is written in the words of the query.        *)
LEMMA KeyIsBody ==
    ASSUME NEW p, NEW i, IsName(p), NEW key,
           \/ \E name \in AllowedOutputAliases : key = <<name>>
           \/ key \in GroupKeys(p)
    PROVE  key \in Seq(Body(p, i))
  <1>1. ASSUME NEW name \in AllowedOutputAliases, key = <<name>>
        PROVE  key \in Seq(Body(p, i))
    <2>1. name \in Body(p, i)
      BY DEF Body
    <2> QED BY <1>1, <2>1, ShortTexts
  <1>2. CASE key \in GroupKeys(p)
    BY <1>2, GroupKeysAre
  <1> QED BY <1>1, <1>2

(* The sort keys of the demo are spellings of its words, each with a       *)
(* direction.                                                              *)
LEMMA SortKeysAre ==
    ASSUME NEW q, NEW p, NEW i, Demo(q, p, i)
    PROVE  /\ SortKeys(q) \in Seq(Seq(RawBody(p, i))) /\ Len(SortKeys(q)) = Len(q.order)
           /\ SortKeys(q) \in Seq(Seq(Symbols)) /\ Len(q.order) # 0
           /\ \A k \in 1..Len(q.order) :
                 /\ q.order[k].key \in Seq(Symbols) /\ q.order[k].direction \in {"ASC", "DESC"}
                 /\ SortKeys(q)[k] = Append(q.order[k].key, q.order[k].direction)
  <1> DEFINE R == RawBody(p, i)
             B == Body(p, i)
             items == SortKeys(q)
             n == Len(q.order)
             E == [key : Text, direction : {"ASC", "DESC"}]
  <1>1. /\ q \in Query /\ IsName(p) /\ q.order # <<>>
        /\ \A k \in DOMAIN q.order :
             \/ \E name \in AllowedOutputAliases : Canonical(q.order[k].key) = <<name>>
             \/ Canonical(q.order[k].key) \in GroupKeys(p)
    BY Zenon DEF Demo
  <1>2. q.order \in Seq(E) /\ items \in Seq(Text)
    BY <1>1, PartsAreTexts
  <1>3. n \in Nat /\ DOMAIN q.order = 1..n /\ n # 0
    BY <1>1, <1>2, LenProperties, EmptySeq
  <1>4. ASSUME NEW k \in 1..n
        PROVE  q.order[k].key \in Seq(Symbols) /\ q.order[k].direction \in {"ASC", "DESC"}
    <2> HIDE DEF E
    <2>1. q.order[k] \in E
      BY <1>2, ElementOfSeq
    <2> QED BY <2>1 DEF E, Text
  <1>5. DOMAIN items = 1..n /\ \A k \in 1..n : items[k] = Append(q.order[k].key, q.order[k].direction)
    BY <1>3 DEF SortKeys
  <1>6. ASSUME NEW k \in 1..n PROVE items[k] \in Seq(R)
    <2> DEFINE key == q.order[k].key
               way == q.order[k].direction
    <2>1. key \in Seq(Symbols) /\ way \in {"ASC", "DESC"}
      BY <1>4
    <2>2. Canonical(key) \in Seq(B)
      <3>1. \/ \E name \in AllowedOutputAliases : Canonical(key) = <<name>>
            \/ Canonical(key) \in GroupKeys(p)
        BY <1>1, <1>3
      <3> QED BY <1>1, <3>1, KeyIsBody
    <2> HIDE DEF key, way
    <2>3. key \in Seq(R)
      BY <2>1, <2>2, RawWords
    <2>4. way \in R
      <3>1. way \in Symbols /\ way \in Body(p, i)
        BY <2>1, GateAssumption DEF Body
      <3>2. Fold(way) = way
        BY <2>1, FoldedNames DEF Vocabulary, ReservedWords
      <3> QED BY <3>1, <3>2 DEF RawBody
    <2>5. Append(key, way) \in Seq(R)
      <3> HIDE DEF R
      <3> QED BY <2>3, <2>4, AppendProperties
    <2> QED BY <1>5, <2>5 DEF key, way
  <1>7. items = [k \in 1..n |-> items[k]]
    BY <1>3 DEF SortKeys
  <1>8. items \in Seq(Seq(R))
    <2> HIDE DEF items, n
    <2> QED BY <1>3, <1>5, <1>6, <1>7, ListOfTexts
  <1>9. Len(items) = n
    <2> HIDE DEF items, n
    <2>1. Len(items) \in Nat /\ 1..Len(items) = 1..n
      BY <1>5, <1>8, LenProperties
    <2> QED BY <1>3, <2>1, SameLength
  <1>10. items \in Seq(Seq(Symbols))
    BY <1>2 DEF Text
  <1> QED BY <1>3, <1>4, <1>5, <1>8, <1>9, <1>10

(* The first entry of the ORDER BY list.                                   *)
FirstEntry(p) == {<<"ProductID", "ASC">>, <<p, ".", "ProductID", "ASC">>}

(* Three words and one.                                                    *)
LEMMA ThreeAndOneInARow ==
    ASSUME NEW a, NEW b, NEW c, NEW d
    PROVE  <<a, b, c>> \o <<d>> = <<a, b, c, d>>
  <1> DEFINE S == {a, b, c, d}
             x == <<a, b, c>>
             y == <<d>>
             r == <<a, b, c, d>>
  <1>1. x \in Seq(S) /\ y \in Seq(S) /\ r \in Seq(S) /\ Len(x \o y) = 4 /\ Len(r) = 4
    OBVIOUS
  <1>2. (x \o y)[1] = r[1] /\ (x \o y)[2] = r[2] /\ (x \o y)[3] = r[3] /\ (x \o y)[4] = r[4]
    OBVIOUS
  <1> HIDE DEF x, y, r
  <1>3. \A j \in 1..4 : j = 1 \/ j = 2 \/ j = 3 \/ j = 4
    OBVIOUS
  <1>4. \A j \in 1..Len(r) : (x \o y)[j] = r[j]
    BY <1>1, <1>2, <1>3
  <1>5. x \o y = r
    <2>1. x \in Seq(S) /\ y \in Seq(S) /\ r \in Seq(S)
      BY <1>1
    <2>2. Len(x \o y) = Len(r)
      BY <1>1
    <2> HIDE DEF S
    <2> QED BY <1>4, <2>1, <2>2, RowIs
  <1> QED BY <1>5 DEF x, y, r

(* The first sort key with its direction.                                  *)
LEMMA FirstEntryIs ==
    ASSUME NEW p, NEW i, IsName(p), NEW key, key \in {<<"ProductID">>, Column(p, "ProductID")}
    PROVE  key \o <<"ASC">> \in FirstEntry(p)
  <1>1. CASE key = <<"ProductID">>
    <2>1. <<"ProductID">> \o <<"ASC">> = <<"ProductID", "ASC">>
      BY TwoInARow
    <2> QED BY <1>1, <2>1 DEF FirstEntry
  <1>2. CASE key = Column(p, "ProductID")
    <2>1. key = <<p, ".", "ProductID">>
      BY <1>2 DEF Column
    <2>2. <<p, ".", "ProductID">> \o <<"ASC">> = <<p, ".", "ProductID", "ASC">>
      BY ThreeAndOneInARow
    <2> QED BY <2>1, <2>2 DEF FirstEntry
  <1> QED BY <1>1, <1>2

(* The ORDER BY list.                                                      *)
LEMMA OrderListIs ==
    ASSUME NEW q, NEW p, NEW i, Demo(q, p, i), NEW x, x = Separated(SortKeys(q))
    PROVE  /\ x # <<>> /\ x \in Seq(Symbols) /\ Canonical(x) \in Seq(Body(p, i))
           /\ \E y \in FirstEntry(p) : Spans(Canonical(x), 0, y)
  <1> DEFINE R == RawBody(p, i)
             items == SortKeys(q)
             key == q.order[1].key
             way == q.order[1].direction
  <1>1. /\ items \in Seq(Seq(R)) /\ items \in Seq(Seq(Symbols)) /\ Len(items) # 0
        /\ key \in Seq(Symbols) /\ way \in {"ASC", "DESC"} /\ items[1] = Append(key, way)
    <2>1. 1 \in 1..Len(q.order)
      <3>1. Len(q.order) \in Nat
        <4>1. SortKeys(q) \in Seq(Seq(RawBody(p, i))) /\ Len(SortKeys(q)) = Len(q.order)
          BY SortKeysAre
        <4> QED BY <4>1, LenProperties
      <3>2. Len(q.order) # 0
        BY SortKeysAre
      <3> QED BY <3>1, <3>2
    <2> QED BY <2>1, SortKeysAre
  <1>2. /\ IsName(p) /\ way = "ASC"
        /\ Canonical(key) \in {<<"ProductID">>, Column(p, "ProductID")}
    BY Zenon DEF Demo
  <1>3. Comma \in Symbols /\ Comma \in R
    <2>1. Fold(Comma) = Comma
      BY CommaKept
    <2>2. Comma \in Symbols /\ Comma \in Body(p, i)
      BY CommaIsThere
    <2> QED BY <2>1, <2>2 DEF RawBody
  <1>4. \A w \in R : Fold(w) \in Body(p, i)
    BY DEF RawBody
  <1> DEFINE f == Append(key, way)
  <1>5. f \in Seq(Symbols) /\ Len(f) = Len(key) + 1 /\ Canonical(f) = Canonical(key) \o <<"ASC">>
    BY <1>1, <1>2, EntryFolded
  <1>6. Canonical(f) \in FirstEntry(p)
    BY <1>2, <1>5, FirstEntryIs
  <1>7. Len(key) \in Nat
    BY <1>1, LenProperties
  <1> HIDE DEF items, R, f, key, way
  <1>8. items[1] = f
    BY <1>1 DEF f
  <1>9. Spans(Separated(items), 0, f) /\ Separated(items) # <<>>
    <2>1. items \in Seq(Seq(Symbols)) /\ Len(items) # 0
      BY <1>1
    <2>2. Len(items[1]) # 0
      BY <1>5, <1>7, <1>8
    <2>3. Spans(Separated(items), 0, items[1])
      BY <1>3, <2>1, BeginsWithFirst
    <2>4. Separated(items) # <<>>
      BY <1>3, <2>1, <2>2, NotEmpty
    <2> QED BY <1>8, <2>3, <2>4
  <1>10. Separated(items) \in Seq(Symbols)
    BY <1>1, <1>3, CommasAre
  <1>11. Separated(items) \in Seq(R)
    BY <1>1, <1>3, CommasAre
  <1>12. Canonical(Separated(items)) \in Seq(Body(p, i))
    BY <1>4, <1>11, CanonicalIs
  <1>13. Spans(Canonical(Separated(items)), 0, Canonical(f))
    BY <1>5, <1>9, <1>10, SpansCanonical
  <1>14. x = Separated(items)
    BY DEF items
  <1> QED BY <1>6, <1>9, <1>10, <1>12, <1>13, <1>14

-----------------------------------------------------------------------------
(* The clauses of the query, folded.                                       *)
Folds(q) == [m \in 1..7 |-> Canonical(Rests(q)[m])]

(* The folded rests, one by one.                                           *)
LEMMA FoldsAre ==
    ASSUME NEW q
    PROVE  /\ Folds(q)[1] = Canonical(Cat(Cat(<<"TOP">>, q.top), Separated(Outputs(q))))
           /\ Folds(q)[2] = Canonical(Cat(TableRef(q.tables[1]), q.joins[1].kind))
           /\ Folds(q)[3] = Canonical(TableRef(q.joins[1].table))
           /\ Folds(q)[4] = Canonical(q.joins[1].on)
           /\ Folds(q)[5] = Canonical(Cat(<<"BY">>, Separated(q.group)))
           /\ Folds(q)[6] = Canonical(q.having)
           /\ Folds(q)[7] = Canonical(Cat(<<"BY">>, Separated(SortKeys(q))))
  <1>1. \A m \in 1..7 : Folds(q)[m] = Canonical(Rests(q)[m])
    BY DEF Folds
  <1>2. /\ 1 \in 1..7 /\ 2 \in 1..7 /\ 3 \in 1..7 /\ 4 \in 1..7 /\ 5 \in 1..7 /\ 6 \in 1..7
        /\ 7 \in 1..7
    OBVIOUS
  <1>3. /\ Rests(q)[1] = Cat(Cat(<<"TOP">>, q.top), Separated(Outputs(q)))
        /\ Rests(q)[2] = Cat(TableRef(q.tables[1]), q.joins[1].kind)
        /\ Rests(q)[3] = TableRef(q.joins[1].table)
        /\ Rests(q)[4] = q.joins[1].on
        /\ Rests(q)[5] = Cat(<<"BY">>, Separated(q.group))
        /\ Rests(q)[6] = q.having
        /\ Rests(q)[7] = Cat(<<"BY">>, Separated(SortKeys(q)))
    BY DEF Rests
  <1> QED BY <1>1, <1>2, <1>3

(* The rests are texts.                                                    *)
LEMMA RestsType ==
    ASSUME NEW q \in Query, Len(q.tables) = 1, Len(q.joins) = 1
    PROVE  Rests(q) \in [1..7 -> Seq(Symbols)]
  <1> DEFINE T == Text
             tp == <<"TOP">>
             by == <<"BY">>
             n == q.top
             x == Separated(Outputs(q))
             b == TableRef(q.tables[1])
             k == q.joins[1].kind
             s == TableRef(q.joins[1].table)
             o == q.joins[1].on
             g == Separated(q.group)
             h == q.having
             z == Separated(SortKeys(q))
  <1>1. tp \in T /\ by \in T
    BY GateAssumption, ShortTexts DEF Text
  <1>2. n \in T /\ x \in T /\ b \in T /\ k \in T /\ s \in T /\ o \in T /\ g \in T /\ h \in T /\ z \in T
    BY RestParts
  <1>3. Monoid(T)
    BY TextsAreMonoid DEF Text
  <1>4. Rests(q) = <<Cat(Cat(tp, n), x), Cat(b, k), s, o, Cat(by, g), h, Cat(by, z)>>
    BY DEF Rests
  <1> HIDE DEF T, tp, by, n, x, b, k, s, o, g, h, z
  <1>5. Cat(tp, n) \in T
    BY <1>1, <1>2, <1>3, InCat
  <1>6. Cat(Cat(tp, n), x) \in T
    BY <1>2, <1>3, <1>5, InCat
  <1>7. Cat(b, k) \in T
    BY <1>2, <1>3, InCat
  <1>8. Cat(by, g) \in T
    BY <1>1, <1>2, <1>3, InCat
  <1>9. Cat(by, z) \in T
    BY <1>1, <1>2, <1>3, InCat
  <1>10. Rests(q) \in [1..7 -> T]
    <2> DEFINE e1 == Cat(Cat(tp, n), x)
               e2 == Cat(b, k)
               e5 == Cat(by, g)
               e7 == Cat(by, z)
    <2>1. e1 \in T /\ e2 \in T /\ s \in T /\ o \in T /\ e5 \in T /\ h \in T /\ e7 \in T
      BY <1>2, <1>6, <1>7, <1>8, <1>9
    <2>2. Rests(q) = <<e1, e2, s, o, e5, h, e7>>
      BY <1>4
    <2> HIDE DEF e1, e2, e5, e7
    <2> QED BY <2>1, <2>2
  <1> QED BY <1>10 DEF T, Text

(* The clause of SELECT.                                                   *)
LEMMA SelectClauseIs ==
    ASSUME NEW q, NEW p, NEW i, Demo(q, p, i),
           NEW list, list = Canonical(Separated(Outputs(q)))
    PROVE  /\ Folds(q)[1] = (<<"TOP">> \o q.top) \o list
           /\ Folds(q)[1] \in Seq(Front3(p, i))
           /\ HasPair(Folds(q)[1]) /\ AsThenName(Rests(q)[1])
  <1> DEFINE tp == <<"TOP">>
             n == q.top
             x == Separated(Outputs(q))
             F == Front3(p, i)
             a == Cat(tp, n)
  <1>1. q \in Query /\ Len(q.tables) = 1 /\ Len(q.joins) = 1
    BY Zenon DEF Demo
  <1>2. n \in Seq(Symbols) /\ x \in Seq(Symbols)
    BY <1>1, RestParts DEF Text
  <1>3. tp \in Seq(Symbols) /\ tp \in Seq(F)
    <2>1. "TOP" \in Symbols /\ "TOP" \in F
      BY GateAssumption DEF Front3
    <2> QED BY <2>1, ShortTexts
  <1>4. Canonical(tp) = tp /\ AsThenName(tp)
    <2>1. Fold("TOP") = "TOP"
      BY FoldedNames DEF Vocabulary, ReservedWords
    <2>2. tp \in Seq({"TOP"}) /\ Len(tp) = 1 /\ tp[1] = "TOP"
      BY ShortTexts
    <2> HIDE DEF tp
    <2>3. Canonical(tp) = tp
      BY <2>1, <2>2, CanonicalKept
    <2>4. AsThenName(tp)
      BY <2>1, <2>2 DEF AsThenName
    <2> QED BY <2>3, <2>4
  <1>5. n \in Seq(F) /\ Canonical(n) = n /\ AsThenName(n)
    <2>1. PICK w \in Numerals : n \in {<<w>>, <<"(", w, ")">>}
      BY Zenon DEF Demo
    <2>2. /\ n \in Seq(F) /\ Canonical(n) = n
          /\ \A j \in 1..Len(n) : Fold(n[j]) # "AS"
      BY <2>1, TopFolded
    <2> QED BY <2>2 DEF AsThenName
  <1>6. /\ list \in Seq(F) /\ HasPair(list) /\ AsThenName(x)
    BY SelectListIs
  <1>7. list = Canonical(x)
    OBVIOUS
  <1>8. Rests(q)[1] = Cat(a, x)
    BY DEF Rests
  <1> HIDE DEF tp, n, x, F
  <1>9. a \in Seq(Symbols) /\ a \in Seq(F) /\ AsThenName(a)
    <2>1. a \in Seq(Symbols)
      BY <1>2, <1>3, ConcatProperties DEF Cat
    <2>2. a \in Seq(F)
      BY <1>3, <1>5, ConcatProperties DEF Cat
    <2>3. AsThenName(tp \o n)
      BY <1>2, <1>3, <1>4, <1>5, AsThenNameConcat
    <2> QED BY <2>1, <2>2, <2>3 DEF Cat
  <1>10. Canonical(a) = a
    <2>1. Canonical(tp \o n) = Canonical(tp) \o Canonical(n)
      BY <1>2, <1>3, CanonicalConcat
    <2> QED BY <1>4, <1>5, <2>1 DEF Cat
  <1>11. a = <<"TOP">> \o q.top
    BY DEF Cat, tp, n
  <1> HIDE DEF a
  <1>12. Folds(q)[1] = a \o list
    <2>1. Folds(q)[1] = Canonical(Cat(a, x))
      BY FoldsAre DEF a, x, tp, n
    <2>2. Canonical(a \o x) = Canonical(a) \o Canonical(x)
      BY <1>2, <1>9, CanonicalConcat
    <2> QED BY <1>7, <1>10, <2>1, <2>2 DEF Cat
  <1>13. a \o list \in Seq(F)
    BY <1>6, <1>9, ConcatProperties
  <1>14. HasPair(a \o list)
    BY <1>6, <1>9, PairKept
  <1>15. AsThenName(a \o x)
    BY <1>2, <1>6, <1>9, AsThenNameConcat
  <1>16. a \o x = Rests(q)[1]
    BY <1>8 DEF Cat
  <1>17. AsThenName(Rests(q)[1])
    BY <1>15, <1>16
  <1> QED BY <1>11, <1>12, <1>13, <1>14, <1>17 DEF F

(* A table as written is a text.                                           *)
LEMMA RefTextType ==
    ASSUME NEW p, NEW i, NEW b \in BOOLEAN, NEW n \in AllowedTables, NEW a, a \in {p, i}
    PROVE  RefText(b, n, a) \in Seq(Front3(p, i))
  <1> DEFINE F == Front3(p, i)
  <1>1. "Production" \in F /\ "." \in F /\ n \in F /\ "AS" \in F /\ a \in F
    BY DEF Front3, Body
  <1> HIDE DEF F
  <1>2. <<n, "AS", a>> \in Seq(F)
    BY <1>1, ShortTexts
  <1>3. <<"Production", ".", n, "AS", a>> \in Seq(F)
    BY <1>1
  <1> QED BY <1>2, <1>3 DEF RefText, F

(* The clause of FROM.  An AS in it is the one of the table.               *)
LEMMA FromClauseIs ==
    ASSUME NEW q, NEW p, NEW i, Demo(q, p, i), NEW n \in AllowedTables, NEW a, a \in {p, i},
           Is(q.tables[1], n, a)
    PROVE  /\ q.tables[1].schema \in BOOLEAN /\ Folds(q)[2] \in Seq(Front3(p, i))
           /\ Spans(Folds(q)[2], 0, RefText(q.tables[1].schema, n, a))
           /\ \A j \in 1..Len(Folds(q)[2]) : Folds(q)[2][j] = "AS" =>
                 j \in 1..Len(RefText(q.tables[1].schema, n, a))
  <1> DEFINE table == q.tables[1]
             kind == q.joins[1].kind
             x == TableRef(table)
             r == RefText(table.schema, n, a)
             F == Front3(p, i)
             d == Folds(q)[2]
             K == {"INNER", "LEFT"}
  <1>1. q \in Query /\ Len(q.tables) = 1 /\ Len(q.joins) = 1 /\ kind \in {<<>>, <<"INNER">>, <<"LEFT">>}
    BY Zenon DEF Demo
  <1>2. table \in Table /\ x \in Seq(Symbols) /\ kind \in Seq(Symbols)
    BY <1>1, RestParts DEF Text
  <1>3. table.schema \in BOOLEAN /\ Canonical(x) = r
    BY <1>2, TableFolded
  <1>4. r \in Seq(F)
    BY <1>3, RefTextType
  <1>5. kind \in Seq(K)
    BY <1>1, ShortTexts
  <1>6. Canonical(kind) = kind
    <2>1. \A w \in K : Fold(w) = w
      BY FoldedNames DEF Vocabulary, ReservedWords
    <2> HIDE DEF K, kind
    <2> QED BY <1>5, <2>1, CanonicalKept
  <1>7. kind \in Seq(F)
    <2>1. "INNER" \in F /\ "LEFT" \in F
      BY DEF Front3
    <2> QED BY <1>1, <2>1, ShortTexts
  <1>8. \A j \in 1..Len(kind) : kind[j] # "AS"
    <2>1. \A w \in K : w # "AS"
      OBVIOUS
    <2> HIDE DEF K, kind
    <2>2. \A j \in 1..Len(kind) : kind[j] \in K
      BY <1>5, ElementOfSeq
    <2> QED BY <2>1, <2>2
  <1>9. d = Canonical(Cat(x, kind))
    BY FoldsAre
  <1> HIDE DEF x, r, F, d, kind
  <1>10. Canonical(x \o kind) = r \o kind
    <2>1. Canonical(x \o kind) = Canonical(x) \o Canonical(kind)
      BY <1>2, CanonicalConcat
    <2> QED BY <1>3, <1>6, <2>1
  <1>11. d = r \o kind
    BY <1>9, <1>10 DEF Cat
  <1>12. /\ d \in Seq(F) /\ Len(d) = Len(r) + Len(kind) /\ Len(r) \in Nat /\ Len(kind) \in Nat
         /\ Spans(d, 0, r) /\ Spans(d, Len(r), kind)
    BY <1>4, <1>7, <1>11, SpansConcat
  <1>13. ASSUME NEW j \in 1..Len(d), d[j] = "AS" PROVE j \in 1..Len(r)
    <2>1. SUFFICES ASSUME ~(j \in 1..Len(r)) PROVE FALSE
      OBVIOUS
    <2> DEFINE m == j - Len(r)
    <2>2. m \in 1..Len(kind) /\ j = Len(r) + m
      BY <1>12, <1>13, <2>1
    <2> HIDE DEF m
    <2>3. d[Len(r) + m] = kind[m]
      BY <1>12, <2>2 DEF Spans
    <2> QED BY <1>8, <1>13, <2>2, <2>3
  <1> QED BY <1>3, <1>12, <1>13 DEF F, r, d

(* The clause of JOIN.                                                     *)
LEMMA JoinClauseIs ==
    ASSUME NEW q, NEW p, NEW i, Demo(q, p, i), NEW n \in AllowedTables, NEW a, a \in {p, i},
           Is(q.joins[1].table, n, a)
    PROVE  /\ q.joins[1].table.schema \in BOOLEAN /\ Folds(q)[3] \in Seq(Front3(p, i))
           /\ Folds(q)[3] = RefText(q.joins[1].table.schema, n, a)
  <1> DEFINE table == q.joins[1].table
  <1>1. q \in Query /\ Len(q.tables) = 1 /\ Len(q.joins) = 1
    BY Zenon DEF Demo
  <1>2. table \in Table
    BY <1>1, RestParts
  <1>3. table.schema \in BOOLEAN /\ Canonical(TableRef(table)) = RefText(table.schema, n, a)
    BY <1>2, TableFolded
  <1>4. RefText(table.schema, n, a) \in Seq(Front3(p, i))
    BY <1>3, RefTextType
  <1> QED BY <1>3, <1>4, FoldsAre

(* The clauses of ON, GROUP BY and HAVING.                                 *)
LEMMA MiddleClausesAre ==
    ASSUME NEW q, NEW p, NEW i, Demo(q, p, i)
    PROVE  /\ Folds(q)[4] \in JoinPredicates(p, i) /\ Folds(q)[4] \in Seq(Body(p, i))
           /\ Folds(q)[6] = HavingPredicate(p, i) /\ Folds(q)[6] \in Seq(Body(p, i))
           /\ q.having # <<>>
  <1>1. /\ Canonical(q.joins[1].on) \in JoinPredicates(p, i)
        /\ Canonical(q.having) = HavingPredicate(p, i)
    BY Zenon DEF Demo
  <1>2. /\ \A x \in JoinPredicates(p, i) : x \in Seq(Body(p, i))
        /\ HavingPredicate(p, i) \in Seq(Body(p, i)) /\ HavingPredicate(p, i) # <<>>
    BY PredicatesAre
  <1>3. q.having # <<>>
    <2>1. Canonical(<<>>) = <<>>
      BY DEF Canonical
    <2> QED BY <1>1, <1>2, <2>1
  <1> QED BY <1>1, <1>2, <1>3, FoldsAre

(* The words BY and what follows.                                          *)
LEMMA ByFolded ==
    ASSUME NEW p, NEW i, NEW x \in Seq(Symbols), Canonical(x) \in Seq(Body(p, i))
    PROVE  /\ Canonical(Cat(<<"BY">>, x)) = <<"BY">> \o Canonical(x)
           /\ Canonical(Cat(<<"BY">>, x)) \in Seq(Body(p, i))
  <1> DEFINE by == <<"BY">>
             c == Canonical(x)
  <1>1. by \in Seq(Symbols) /\ by \in Seq(Body(p, i))
    <2>1. "BY" \in Symbols /\ "BY" \in Body(p, i)
      BY GateAssumption DEF Body
    <2> QED BY <2>1, ShortTexts
  <1>2. Canonical(by) = by
    <2>1. by \in Seq({"BY"})
      BY ShortTexts
    <2>2. \A w \in {"BY"} : Fold(w) = w
      BY FoldedNames DEF Vocabulary, ReservedWords
    <2> HIDE DEF by
    <2> QED BY <2>1, <2>2, CanonicalKept
  <1> HIDE DEF by
  <1>3. Canonical(by \o x) = by \o c
    <2>1. Canonical(by \o x) = Canonical(by) \o Canonical(x)
      BY <1>1, CanonicalConcat
    <2> QED BY <1>2, <2>1
  <1>4. c \in Seq(Body(p, i))
    OBVIOUS
  <1> HIDE DEF c
  <1>5. by \o c \in Seq(Body(p, i))
    BY <1>1, <1>4, ConcatProperties
  <1> QED BY <1>3, <1>5 DEF Cat, by, c

(* The clause of GROUP BY.                                                 *)
LEMMA GroupClauseIs ==
    ASSUME NEW q, NEW p, NEW i, Demo(q, p, i), NEW list, list = Canonical(Separated(q.group))
    PROVE  /\ Folds(q)[5] = <<"BY">> \o list /\ Folds(q)[5] \in Seq(Body(p, i))
           /\ list \in Seq(Body(p, i)) /\ Lists(list, 3, GroupKeys(p))
           /\ Cardinality(GroupKeys(p)) = 3 /\ Separated(q.group) # <<>>
  <1> DEFINE x == Separated(q.group)
  <1>1. /\ x # <<>> /\ x \in Seq(Symbols) /\ Canonical(x) \in Seq(Body(p, i))
        /\ Lists(Canonical(x), 3, GroupKeys(p)) /\ Cardinality(GroupKeys(p)) = 3
    BY GroupListIs
  <1>2. /\ Canonical(Cat(<<"BY">>, x)) = <<"BY">> \o Canonical(x)
        /\ Canonical(Cat(<<"BY">>, x)) \in Seq(Body(p, i))
    <2> HIDE DEF x
    <2> QED BY <1>1, ByFolded
  <1> QED BY <1>1, <1>2, FoldsAre

(* The clause of ORDER BY.                                                 *)
LEMMA SpansBehind ==
    ASSUME NEW S, NEW w \in S, NEW c \in Seq(S), NEW y, NEW z, Len(y) \in Nat, Spans(c, 0, y),
           Len(z) = Len(y) + 1, z[1] = w, \A j \in 1..Len(y) : z[j + 1] = y[j]
    PROVE  Spans(<<w>> \o c, 0, z)
  <1> DEFINE a == <<w>>
             b == a \o c
  <1>1. a \in Seq(S) /\ Len(a) = 1 /\ a[1] = w
    BY ShortTexts
  <1> HIDE DEF a
  <1>2. /\ Len(b) = 1 + Len(c) /\ Len(c) \in Nat
        /\ b[1] = w /\ \A j \in 1..Len(c) : b[1 + j] = c[j]
    <2>1. /\ Len(b) = Len(a) + Len(c) /\ Len(c) \in Nat
          /\ \A j \in 1..Len(a) : b[0 + j] = a[j]
          /\ \A j \in 1..Len(c) : b[Len(a) + j] = c[j]
      <3>1. /\ Len(b) = Len(a) + Len(c) /\ Len(c) \in Nat
            /\ Spans(b, 0, a) /\ Spans(b, Len(a), c)
        BY <1>1, SpansConcat
      <3> HIDE DEF b
      <3> QED BY <3>1 DEF Spans
    <2>2. 1 \in 1..Len(a) /\ 0 + 1 = 1
      BY <1>1
    <2> HIDE DEF b
    <2> QED BY <1>1, <2>1, <2>2
  <1> HIDE DEF b
  <1>3. Len(y) <= Len(c) /\ \A j \in 1..Len(y) : c[j] = y[j]
    <2>1. 0 + Len(y) <= Len(c) /\ \A j \in 1..Len(y) : c[0 + j] = y[j]
      BY DEF Spans
    <2> QED BY <1>2, <2>1
  <1>4. ASSUME NEW j \in 1..Len(z) PROVE b[0 + j] = z[j]
    <2>1. CASE j = 1
      BY <1>2, <2>1
    <2>2. CASE j # 1
      <3> DEFINE k == j - 1
      <3>1. k \in 1..Len(y) /\ j = k + 1 /\ 0 + j = 1 + k /\ k \in 1..Len(c)
        BY <1>2, <1>3, <1>4, <2>2
      <3> HIDE DEF k
      <3>2. b[1 + k] = c[k] /\ c[k] = y[k] /\ z[k + 1] = y[k]
        BY <1>2, <1>3, <3>1
      <3> QED BY <3>1, <3>2
    <2> QED BY <2>1, <2>2
  <1>5. 0 + Len(z) <= Len(b)
    BY <1>2, <1>3
  <1> QED BY <1>4, <1>5 DEF Spans, b, a

OrderBegin(p) == {<<"BY", "ProductID", "ASC">>, <<"BY", p, ".", "ProductID", "ASC">>}

(* BY and the first sort key begin the clause of ORDER.                    *)
LEMMA OrderBeginIs ==
    ASSUME NEW p, NEW y \in FirstEntry(p)
    PROVE  /\ Len(y) \in Nat
           /\ \E z \in OrderBegin(p) : /\ Len(z) = Len(y) + 1 /\ z[1] = "BY" /\ Len(z) \in Nat
                                       /\ \A j \in 1..Len(y) : z[j + 1] = y[j]
  <1>1. CASE y = <<"ProductID", "ASC">>
    <2> DEFINE z == <<"BY", "ProductID", "ASC">>
    <2>1. Len(z) = 3 /\ z[1] = "BY" /\ z[2] = "ProductID" /\ z[3] = "ASC" /\ z \in OrderBegin(p)
      BY DEF OrderBegin
    <2>2. Len(y) = 2 /\ y[1] = "ProductID" /\ y[2] = "ASC"
      BY <1>1
    <2> HIDE DEF z
    <2>3. \A j \in 1..2 : j = 1 \/ j = 2
      OBVIOUS
    <2>4. \A j \in 1..Len(y) : z[j + 1] = y[j]
      BY <2>1, <2>2, <2>3
    <2> QED BY <2>1, <2>2, <2>4
  <1>2. CASE y = <<p, ".", "ProductID", "ASC">>
    <2> DEFINE z == <<"BY", p, ".", "ProductID", "ASC">>
    <2>1. /\ Len(z) = 5 /\ z[1] = "BY" /\ z[2] = p /\ z[3] = "." /\ z[4] = "ProductID"
          /\ z[5] = "ASC" /\ z \in OrderBegin(p)
      BY DEF OrderBegin
    <2>2. Len(y) = 4 /\ y[1] = p /\ y[2] = "." /\ y[3] = "ProductID" /\ y[4] = "ASC"
      BY <1>2
    <2> HIDE DEF z
    <2>3. \A j \in 1..4 : j = 1 \/ j = 2 \/ j = 3 \/ j = 4
      OBVIOUS
    <2>4. \A j \in 1..Len(y) : z[j + 1] = y[j]
      BY <2>1, <2>2, <2>3
    <2> QED BY <2>1, <2>2, <2>4
  <1> QED BY <1>1, <1>2 DEF FirstEntry

(* So does the clause of the demo.                                         *)
LEMMA OrderClauseIs ==
    ASSUME NEW q, NEW p, NEW i, Demo(q, p, i)
    PROVE  /\ Folds(q)[7] \in Seq(Body(p, i)) /\ Separated(SortKeys(q)) # <<>>
           /\ \E z \in OrderBegin(p) : Spans(Folds(q)[7], 0, z) /\ Len(z) \in Nat
  <1> DEFINE x == Separated(SortKeys(q))
             c == Canonical(x)
  <1>1. /\ x # <<>> /\ x \in Seq(Symbols) /\ c \in Seq(Body(p, i))
        /\ \E y \in FirstEntry(p) : Spans(c, 0, y)
    BY OrderListIs
  <1>2. /\ Canonical(Cat(<<"BY">>, x)) = <<"BY">> \o c
        /\ Canonical(Cat(<<"BY">>, x)) \in Seq(Body(p, i))
    <2> HIDE DEF x
    <2> QED BY <1>1, ByFolded
  <1>3. Folds(q)[7] = <<"BY">> \o c /\ Folds(q)[7] \in Seq(Body(p, i))
    BY <1>2, FoldsAre
  <1> HIDE DEF x, c
  <1>4. PICK y \in FirstEntry(p) : Spans(c, 0, y)
    BY <1>1
  <1>5. Len(y) \in Nat
    BY OrderBeginIs
  <1>6. PICK z \in OrderBegin(p) : /\ Len(z) = Len(y) + 1 /\ z[1] = "BY" /\ Len(z) \in Nat
                                   /\ \A j \in 1..Len(y) : z[j + 1] = y[j]
    BY OrderBeginIs
  <1>7. "BY" \in Body(p, i)
    BY DEF Body
  <1>8. Spans(<<"BY">> \o c, 0, z)
    BY <1>1, <1>4, <1>5, <1>6, <1>7, SpansBehind
  <1> QED BY <1>1, <1>3, <1>6, <1>8 DEF x

-----------------------------------------------------------------------------
(* A text that is laid out is written in the words of its clauses.         *)
LEMMA LaidOutWords ==
    ASSUME NEW S, NEW X, NEW t \in Seq(X), NEW d \in [1..7 -> Seq(S)], NEW at,
           Positions(at, d), LaidOut(t, at, d, 7)
    PROVE  t \in Seq(S \cup {ClauseWord[m] : m \in 1..7})
  <1> DEFINE W == S \cup {ClauseWord[m] : m \in 1..7}
  <1>1. ASSUME NEW j \in 1..Len(t) PROVE t[j] \in W
    <2>1. PICK m \in 1..7 : j \in at[m]..(at[m] + Len(d[m]))
      BY DEF LaidOut
    <2>2. t[at[m]] = ClauseWord[m] /\ Spans(t, at[m], d[m]) /\ at[m] \in Nat
      BY DEF LaidOut, Positions
    <2>3. d[m] \in Seq(S)
      OBVIOUS
    <2>4. Len(d[m]) \in Nat /\ \A k \in 1..Len(d[m]) : d[m][k] \in S
      <3> DEFINE x == d[m]
      <3>1. x \in Seq(S)
        BY <2>3
      <3> HIDE DEF x
      <3>2. Len(x) \in Nat /\ \A k \in 1..Len(x) : x[k] \in S
        BY <3>1, LenProperties, ElementOfSeq
      <3> QED BY <3>2 DEF x
    <2>5. CASE j = at[m]
      BY <2>2, <2>5
    <2>6. CASE j # at[m]
      <3> DEFINE k == j - at[m]
      <3>1. k \in 1..Len(d[m]) /\ j = at[m] + k
        <4> DEFINE l == Len(d[m])
                   a == at[m]
        <4>1. a \in Nat /\ l \in Nat /\ j \in a..(a + l) /\ j # a
          BY <2>1, <2>2, <2>4, <2>6
        <4> HIDE DEF a, l
        <4>2. j - a \in 1..l /\ j = a + (j - a)
          BY <4>1
        <4> QED BY <4>2 DEF a, l
      <3> HIDE DEF k
      <3>2. t[at[m] + k] = d[m][k]
        BY <2>2, <3>1 DEF Spans
      <3> QED BY <2>4, <3>1, <3>2
    <2> QED BY <2>5, <2>6
  <1>2. Len(t) \in Nat /\ DOMAIN t = 1..Len(t) /\ t = [j \in 1..Len(t) |-> t[j]]
    BY LenProperties
  <1> HIDE DEF W
  <1>3. t \in Seq(W)
    BY <1>1, <1>2, ListOfTexts
  <1> QED BY <1>3 DEF W

(* The text of the query is shaped as the rules want it.                   *)
LEMMA RenderedShape ==
    ASSUME NEW q, NEW p, NEW i, Demo(q, p, i)
    PROVE  /\ Render(q) \in Seq(Symbols)
           /\ \E at : /\ Shaped(Canonical(Render(q)), at, Folds(q), p, i)
                      /\ Spans(Render(q), at[1], Rests(q)[1])
  <1> DEFINE s == Render(q)
             t == Canonical(s)
             e == Rests(q)
             d == Folds(q)
             F == Front3(p, i)
             B == Body(p, i)
  <1>1. /\ q \in Query /\ Len(q.tables) = 1 /\ Len(q.joins) = 1 /\ q.where = <<>>
        /\ IsName(p) /\ IsName(i) /\ p # i
    BY Zenon DEF Demo
  <1>2. s = Chain(e) /\ e \in [1..7 -> Seq(Symbols)]
    <2>1. Separated(q.group) # <<>>
      BY GroupClauseIs
    <2>2. q.having # <<>>
      BY MiddleClausesAre
    <2>3. Separated(SortKeys(q)) # <<>>
      BY OrderClauseIs
    <2>4. s = Chain(e)
      BY <1>1, <2>1, <2>2, <2>3, RenderedInLine
    <2>5. e \in [1..7 -> Seq(Symbols)]
      BY <1>1, RestsType
    <2> QED BY <2>4, <2>5
  <1>3. d[1] \in Seq(F) /\ d[2] \in Seq(F) /\ d[3] \in Seq(F)
    <2>1. d[1] \in Seq(F)
      BY SelectClauseIs
    <2>2. CASE Is(q.tables[1], "Product", p) /\ Is(q.joins[1].table, "ProductInventory", i)
      BY <2>1, <2>2, FromClauseIs, JoinClauseIs DEF AllowedTables
    <2>3. CASE Is(q.tables[1], "ProductInventory", i) /\ Is(q.joins[1].table, "Product", p)
      BY <2>1, <2>3, FromClauseIs, JoinClauseIs DEF AllowedTables
    <2> QED BY <2>2, <2>3, Zenon DEF Demo
  <1>4. d[4] \in Seq(B) /\ d[5] \in Seq(B) /\ d[6] \in Seq(B) /\ d[7] \in Seq(B)
    BY MiddleClausesAre, GroupClauseIs, OrderClauseIs
  <1>5. d[4] \in Seq(F) /\ d[5] \in Seq(F) /\ d[6] \in Seq(F) /\ d[7] \in Seq(F)
    <2>1. \A w \in B : w \in F
      BY DEF Front3
    <2> HIDE DEF B, F, d
    <2>2. Seq(B) \subseteq Seq(F)
      BY <2>1, SeqMonotonic
    <2> QED BY <1>4, <2>2
  <1>6. d = [m \in 1..7 |-> d[m]] /\ d = [m \in 1..7 |-> Canonical(e[m])]
    BY DEF Folds
  <1>7. /\ \A m \in 4..7 : d[m] \in Seq(B)
        /\ d \in [1..7 -> Seq(F)]
    <2> HIDE DEF d, F, B
    <2>1. \A m \in 1..7 : m = 1 \/ m = 2 \/ m = 3 \/ m = 4 \/ m = 5 \/ m = 6 \/ m = 7
      OBVIOUS
    <2>2. \A m \in 1..7 : d[m] \in Seq(F)
      BY <1>3, <1>5, <2>1
    <2>3. \A m \in 4..7 : m = 4 \/ m = 5 \/ m = 6 \/ m = 7
      OBVIOUS
    <2>4. \A m \in 4..7 : d[m] \in Seq(B)
      BY <1>4, <2>3
    <2> QED BY <1>6, <2>2, <2>4
  <1>8. {ClauseWord[m] : m \in 1..7} \subseteq Symbols
    <2>1. ClauseWords \subseteq Symbols
      BY GateAssumption DEF ClauseWords
    <2> QED BY <2>1, SevenWords
  <1>9. /\ Chain(e) \in Seq(Symbols)
        /\ \E at : Positions(at, e) /\ LaidOut(Chain(e), at, e, 7)
    <2> HIDE DEF e
    <2> QED BY <1>2, <1>8, ChainLaidOut
  <1>10. PICK at : Positions(at, e) /\ LaidOut(s, at, e, 7)
    BY <1>2, <1>9
  <1>11. s \in Seq(Symbols)
    BY <1>2, <1>9
  <1> HIDE DEF s, e, d
  <1>12. Positions(at, d) /\ LaidOut(t, at, d, 7)
    <2>1. LET c == [m \in 1..7 |-> Canonical(e[m])] IN Positions(at, c) /\ LaidOut(Canonical(s), at, c, 7)
      BY <1>2, <1>10, <1>11, CanonicalLaidOut
    <2> QED BY <1>6, <2>1
  <1>13. t \in Seq(Folded(Symbols))
    <2>1. \A w \in Symbols : Fold(w) \in Folded(Symbols)
      BY DEF Folded
    <2> QED BY <1>11, <2>1, CanonicalIs
  <1> HIDE DEF t
  <1>14. t \in Seq(Words(p, i))
    <2>1. t \in Seq(F \cup {ClauseWord[m] : m \in 1..7})
      <3> HIDE DEF F
      <3> QED BY <1>7, <1>12, <1>13, LaidOutWords
    <2> QED BY <2>1 DEF Words
  <1>15. Shaped(t, at, d, p, i)
    BY <1>1, <1>7, <1>12, <1>14 DEF Shaped
  <1>16. Spans(s, at[1], e[1])
    BY <1>10 DEF LaidOut
  <1> QED BY <1>11, <1>15, <1>16 DEF s, t, d, e

-----------------------------------------------------------------------------
(* The SELECT clause passes.                                               *)
LEMMA SelectPasses ==
    ASSUME NEW q, NEW p, NEW i, Demo(q, p, i), NEW t, NEW at, Shaped(t, at, Folds(q), p, i)
    PROVE  TopIsBounded(t) /\ SelectListAsWritten(t, p, i)
  <1> DEFINE d == Folds(q)
             F == Front3(p, i)
             top == q.top
             list == Canonical(Separated(Outputs(q)))
  <1>1. PICK n \in Numerals : top \in {<<n>>, <<"(", n, ")">>} /\ ValueOf[n] \in 1..MaximumReturnedRows
    BY Zenon DEF Demo
  <1>2. IsName(p) /\ IsName(i)
    BY Zenon DEF Demo
  <1>3. top \in Seq(F)
    BY <1>1, TopFolded
  <1>4. /\ list \in Seq(F) /\ Lists(list, 4, OutputExpressions(p, i))
        /\ Len(list) > 0 /\ list[1] # ")"
    BY SelectListIs
  <1>5. d[1] = (<<"TOP">> \o top) \o list
    BY SelectClauseIs
  <1>6. DOMAIN t = 1..Len(t) /\ Len(t) \in Nat
    BY Ends
  <1>7. Shaped(t, at, d, p, i)
    OBVIOUS
  <1> HIDE DEF d, F, top, list
  <1>8. /\ Len(top) \in Nat /\ Len(list) \in Nat /\ at[2] = ((2 + Len(top)) + Len(list)) + 1
        /\ t[2] = "TOP" /\ \A j \in 1..Len(top) : t[2 + j] = top[j]
        /\ Spans(t, 2 + Len(top), list)
    <2>1. top \in Seq(Front3(p, i)) /\ list \in Seq(Front3(p, i))
      BY <1>3, <1>4 DEF F
    <2>2. SelectClause(d[1], top, list, p, i)
      BY <1>5, <2>1 DEF SelectClause
    <2> QED BY <1>7, <2>2, TopWords
  <1>9. TopIsBounded(t) /\ TopEnd(t) = 2 + Len(top)
    <2>1. n \in Numerals /\ ValueOf[n] \in 1..MaximumReturnedRows /\ top \in {<<n>>, <<"(", n, ")">>}
      BY <1>1
    <2>2. Len(list) \in Nat /\ Len(list) > 0 /\ list[1] # ")" /\ Spans(t, 2 + Len(top), list)
      BY <1>4, <1>8
    <2>3. t[2] = "TOP" /\ \A j \in 1..Len(top) : t[2 + j] = top[j]
      BY <1>8
    <2> QED BY <1>6, <2>1, <2>2, <2>3, TopRule, SMTT(30)
  <1>10. Cardinality(OutputExpressions(p, i)) = 4
    BY <1>2, OutputsAre
  <1>11. SelectListAsWritten(t, p, i)
    <2> DEFINE k == 2 + Len(top)
    <2>1. k \in Nat /\ TopEnd(t) = k /\ Spans(t, k, list) /\ at[2] = (k + Len(list)) + 1
      BY <1>8, <1>9
    <2>2. list \in Seq(Front3(p, i))
      BY <1>4 DEF F
    <2> HIDE DEF k
    <2> QED BY <1>4, <1>7, <1>10, <2>1, <2>2, SelectListRule
  <1> QED BY <1>9, <1>11

(* The clauses between FROM and ORDER BY, and this one, pass.              *)
LEMMA ClausesPass ==
    ASSUME NEW q, NEW p, NEW i, Demo(q, p, i), NEW t, NEW at, Shaped(t, at, Folds(q), p, i)
    PROVE  /\ JoinAsWritten(t, p, i) /\ GroupByAsWritten(t, p) /\ HavingAsWritten(t, p, i)
           /\ OrderedByProductId(t, {})
  <1> DEFINE d == Folds(q)
  <1>1. Shaped(t, at, d, p, i)
    OBVIOUS
  <1>2. d[4] \in JoinPredicates(p, i) /\ d[6] = HavingPredicate(p, i)
    BY MiddleClausesAre
  <1> DEFINE list == Canonical(Separated(q.group))
  <1>3. /\ d[5] = <<"BY">> \o list /\ list \in Seq(Body(p, i)) /\ Lists(list, 3, GroupKeys(p))
        /\ Cardinality(GroupKeys(p)) = 3
    BY GroupClauseIs
  <1>4. d[7] \in Seq(Body(p, i)) /\ \E z \in OrderBegin(p) : Spans(d[7], 0, z) /\ Len(z) \in Nat
    BY OrderClauseIs
  <1> HIDE DEF d, list
  <1>5. JoinAsWritten(t, p, i)
    BY <1>1, <1>2, JoinRule
  <1>6. HavingAsWritten(t, p, i)
    BY <1>1, <1>2, HavingRule
  <1>7. GroupByAsWritten(t, p)
    BY <1>1, <1>3, GroupRule
  <1>8. OrderedByProductId(t, {})
    <2>1. PICK z \in OrderBegin(p) : Spans(d[7], 0, z)
      BY <1>4
    <2>2. 7 \in 1..7
      OBVIOUS
    <2>3. t[at[7]] = ClauseWord[7] /\ Spans(t, at[7], d[7])
      BY <1>1, <2>2, PartOf
    <2>4. /\ Len(t) \in Nat /\ DOMAIN t = 1..Len(t)
          /\ \A m \in 1..7 : at[m] \in Nat /\ at[m] \in 1..Len(t)
      BY <1>1, Ends
    <2>5. at[7] \in Nat /\ at[7] > 0
      BY <2>2, <2>4
    <2>6. t[at[7]] = "ORDER"
      BY <2>3, SevenWords
    <2>7. z \in Seq(Body(p, i))
      <3>1. /\ "BY" \in Body(p, i) /\ "ProductID" \in Body(p, i) /\ "ASC" \in Body(p, i)
            /\ p \in Body(p, i) /\ "." \in Body(p, i)
        BY DEF Body, AllowedSourceColumns
      <3>2. <<"BY", "ProductID", "ASC">> \in Seq(Body(p, i))
        BY <3>1, ShortTexts
      <3>3. <<"BY", p, ".", "ProductID", "ASC">> \in Seq(Body(p, i))
        <4> DEFINE B == Body(p, i)
        <4>1. "BY" \in B /\ "ProductID" \in B /\ "ASC" \in B /\ p \in B /\ "." \in B
          BY <3>1
        <4> HIDE DEF B
        <4>2. <<"BY", p, ".", "ProductID", "ASC">> \in Seq(B)
          BY <4>1
        <4> QED BY <4>2 DEF B
      <3> QED BY <3>2, <3>3 DEF OrderBegin
    <2>8. Spans(t, at[7], z)
      <3> DEFINE k == at[7]
                 x == d[7]
      <3>1. k \in Nat /\ Spans(t, k, x) /\ Spans(x, 0, z) /\ 0 \in Nat /\ k + 0 = k
        BY <2>1, <2>3, <2>5
      <3>2. x \in Seq(Body(p, i))
        BY <1>4
      <3> HIDE DEF k, x
      <3>3. Spans(t, k + 0, z)
        BY <2>4, <2>7, <3>1, <3>2, SpansWithin
      <3> QED BY <3>1, <3>3 DEF k
    <2>9. IsName(p)
      BY Zenon DEF Demo
    <2>10. z \in {<<"BY", "ProductID", "ASC">>, <<"BY", p, ".", "ProductID", "ASC">>}
      BY DEF OrderBegin
    <2> QED BY <2>4, <2>5, <2>6, <2>8, <2>9, <2>10, OrderRule
  <1> QED BY <1>5, <1>6, <1>7, <1>8

(* The tables pass, and each is read with its alias.                       *)
Roles(q, p, i, n, a, m, e) ==
    /\ Demo(q, p, i) /\ n \in AllowedTables /\ m \in AllowedTables /\ n # m /\ AllowedTables = {n, m}
    /\ IsName(a) /\ IsName(e) /\ a # e /\ {a, e} = {p, i}
    /\ Is(q.tables[1], n, a) /\ Is(q.joins[1].table, m, e)

(* The tables stand behind FROM and JOIN.                                  *)
LEMMA TablesStand ==
    ASSUME NEW q, NEW p, NEW i, NEW n, NEW a, NEW m, NEW e, Roles(q, p, i, n, a, m, e),
           NEW t, NEW at, Shaped(t, at, Folds(q), p, i)
    PROVE  /\ q.tables[1].schema \in BOOLEAN /\ q.joins[1].table.schema \in BOOLEAN
           /\ Spans(t, at[2], RefText(q.tables[1].schema, n, a))
           /\ Spans(t, at[3], RefText(q.joins[1].table.schema, m, e))
  <1> DEFINE d == Folds(q)
             b == q.tables[1].schema
             c == q.joins[1].table.schema
             x == RefText(b, n, a)
             y == RefText(c, m, e)
             F == Front3(p, i)
             z == d[2]
  <1>1. /\ Demo(q, p, i) /\ n \in AllowedTables /\ m \in AllowedTables /\ a \in {p, i} /\ e \in {p, i}
        /\ Is(q.tables[1], n, a) /\ Is(q.joins[1].table, m, e)
    BY DEF Roles
  <1>2. /\ b \in BOOLEAN /\ z \in Seq(F) /\ Spans(z, 0, x)
    BY <1>1, FromClauseIs
  <1>3. c \in BOOLEAN /\ d[3] = y
    BY <1>1, JoinClauseIs
  <1>4. x \in Seq(F)
    BY <1>1, <1>2, RefTextType
  <1>5. 2 \in 1..7 /\ 3 \in 1..7
    OBVIOUS
  <1>6. Spans(t, at[2], z) /\ Spans(t, at[3], d[3])
    BY <1>5, PartOf
  <1>7. at[2] \in Nat /\ Len(t) \in Nat
    BY <1>5, Ends
  <1>8. Spans(t, at[2], x)
    <2> DEFINE k == at[2]
    <2>1. k \in Nat /\ Spans(t, k, z) /\ 0 \in Nat /\ k + 0 = k
      BY <1>6, <1>7
    <2> HIDE DEF k, x, z, F
    <2>2. Spans(t, k + 0, x)
      BY <1>2, <1>4, <1>7, <2>1, SpansWithin
    <2> QED BY <2>1, <2>2 DEF k
  <1> QED BY <1>2, <1>3, <1>6, <1>8

(* The rule on tables reads the two, and whose aliases they have.          *)
LEMMA TablesPass ==
    ASSUME NEW q, NEW p, NEW i, NEW n, NEW a, NEW m, NEW e, Roles(q, p, i, n, a, m, e),
           NEW t, NEW at, Shaped(t, at, Folds(q), p, i)
    PROVE  /\ TableRefs(t, {}) = {at[2], at[3]} /\ TablesAreApproved(t, {})
           /\ AliasFor(t, n, {}) = a /\ AliasFor(t, m, {}) = e
           /\ {AliasAt(t, at[2], {}), AliasAt(t, at[3], {})} = {p, i}
  <1> DEFINE b == q.tables[1].schema
             c == q.joins[1].table.schema
             d == Folds(q)
  <1>1. /\ b \in BOOLEAN /\ c \in BOOLEAN
        /\ Spans(t, at[2], RefText(b, n, a)) /\ Spans(t, at[3], RefText(c, m, e))
    BY TablesStand
  <1>2. /\ n \in AllowedTables /\ m \in AllowedTables /\ n # m /\ AllowedTables = {n, m}
        /\ IsName(a) /\ IsName(e) /\ a # e /\ {a, e} = {p, i}
    BY DEF Roles
  <1>3. Shaped(t, at, d, p, i)
    OBVIOUS
  <1> HIDE DEF b, c, d
  <1>4. /\ TableRefs(t, {}) = {at[2], at[3]} /\ TablesAreApproved(t, {})
        /\ AliasFor(t, n, {}) = a /\ AliasFor(t, m, {}) = e
        /\ AliasAt(t, at[2], {}) = a /\ AliasAt(t, at[3], {}) = e
    BY <1>1, <1>2, <1>3, TablesRule
  <1> QED BY <1>2, <1>4

(* So do the names.                                                        *)
LEMMA NamesPass ==
    ASSUME NEW q, NEW p, NEW i, NEW n, NEW a, NEW m, NEW e, Roles(q, p, i, n, a, m, e),
           NEW s, NEW t, NEW at, Shaped(t, at, Folds(q), p, i), Spans(s, at[1], Rests(q)[1])
    PROVE  OutputNamesAreApproved(s, t, {}) /\ WordsAreApproved(t, {})
  <1> DEFINE d == Folds(q)
             r == Rests(q)[1]
             f == d[1]
             b == q.tables[1].schema
             c == q.joins[1].table.schema
             x == RefText(b, n, a)
             y == RefText(c, m, e)
             z == d[2]
  <1>1. /\ Demo(q, p, i) /\ n \in AllowedTables /\ m \in AllowedTables /\ a \in {p, i} /\ e \in {p, i}
        /\ Is(q.tables[1], n, a) /\ Is(q.joins[1].table, m, e) /\ IsName(a) /\ IsName(e)
    BY DEF Roles
  <1>2. /\ TableRefs(t, {}) = {at[2], at[3]}
        /\ {AliasAt(t, at[2], {}), AliasAt(t, at[3], {})} = {p, i}
    BY TablesPass
  <1>3. /\ b \in BOOLEAN /\ c \in BOOLEAN /\ Spans(t, at[2], x) /\ Spans(t, at[3], y)
    BY TablesStand
  <1>4. /\ Len(t) \in Nat /\ DOMAIN t = 1..Len(t) /\ at[1] = 1 /\ at[2] \in Nat /\ at[3] \in Nat
    <2>1. 2 \in 1..7 /\ 3 \in 1..7
      OBVIOUS
    <2> QED BY <2>1, Ends
  <1>5. HasPair(f) /\ AsThenName(r)
    BY <1>1, SelectClauseIs
  <1>6. r \in Seq(Symbols)
    <2>1. q \in Query /\ Len(q.tables) = 1 /\ Len(q.joins) = 1
      BY <1>1, Zenon DEF Demo
    <2>2. Rests(q) \in [1..7 -> Seq(Symbols)]
      BY <2>1, RestsType
    <2> QED BY <2>2
  <1>7. f = Canonical(r)
    BY DEF Folds
  <1>8. /\ Spans(z, 0, x) /\ \A j \in 1..Len(z) : z[j] = "AS" => j \in 1..Len(x)
    BY <1>1, FromClauseIs
  <1>9. d[3] = y
    BY <1>1, JoinClauseIs
  <1>10. Shaped(t, at, d, p, i) /\ Spans(s, at[1], r)
    OBVIOUS
  <1> HIDE DEF r, b, c
  <1>11. /\ NamePosition(t, at[2], {}) = at[2] + (IF b THEN 3 ELSE 1)
         /\ \A j \in 1..Len(x) : x[j] = "AS" => at[2] + j = NamePosition(t, at[2], {}) + 1
    BY <1>1, <1>3, <1>4, TableIsRead
  <1>12. /\ NamePosition(t, at[3], {}) = at[3] + (IF c THEN 3 ELSE 1)
         /\ \A j \in 1..Len(y) : y[j] = "AS" => at[3] + j = NamePosition(t, at[3], {}) + 1
    BY <1>1, <1>3, <1>4, TableIsRead
  <1>13. \A k \in {at[2], at[3]} : NamePosition(t, k, {}) \in Nat /\ NamePosition(t, k, {}) > k
    BY <1>4, <1>11, <1>12
  <1> HIDE DEF x, y
  <1>14. OnlyAs(d[3], at[3], NamePosition(t, at[3], {}) + 1)
    BY <1>9, <1>12 DEF OnlyAs
  <1> HIDE DEF z
  <1>15. OnlyAs(z, at[2], NamePosition(t, at[2], {}) + 1)
    <2>1. \A j \in 1..Len(x) : z[0 + j] = x[j]
      BY <1>8 DEF Spans
    <2>2. \A j \in 1..Len(z) : z[j] = "AS" => j \in 1..Len(x) /\ x[j] = "AS"
      <3>1. \A j \in 1..Len(x) : 0 + j = j
        OBVIOUS
      <3> QED BY <1>8, <2>1, <3>1
    <2> QED BY <1>11, <2>2 DEF OnlyAs
  <1> HIDE DEF f
  <1>16. NamesApproved(f, s)
    <2>1. /\ Len(f) = Len(r) /\ Len(r) \in Nat /\ \A j \in 1..Len(r) : f[j] = Fold(r[j])
      <3>1. \A w \in Symbols : Fold(w) \in Folded(Symbols)
        BY DEF Folded
      <3> QED BY <1>6, <1>7, <3>1, CanonicalIs
    <2>2. \A j \in 1..Len(r) : s[1 + j] = r[j]
      BY <1>4, <1>10 DEF Spans
    <2>3. SUFFICES ASSUME NEW j \in 1..Len(f), f[j] = "AS" PROVE s[(1 + j) + 1] \in AllowedOutputAliases
      BY DEF NamesApproved
    <2>4. j \in 1..Len(r) /\ Fold(r[j]) = "AS"
      BY <2>1, <2>3
    <2>5. j + 1 \in 1..Len(r) /\ r[j + 1] \in AllowedOutputAliases
      BY <1>5, <2>4 DEF AsThenName
    <2>6. s[1 + (j + 1)] = r[j + 1]
      BY <2>2, <2>5
    <2>7. 1 + (j + 1) = (1 + j) + 1
      BY <2>1, <2>3
    <2> QED BY <2>5, <2>6, <2>7
  <1> HIDE DEF d
  <1>17. OutputNamesAreApproved(s, t, {})
    <2>1. /\ NamesApproved(d[1], s) /\ OnlyAs(d[2], at[2], NamePosition(t, at[2], {}) + 1)
          /\ OnlyAs(d[3], at[3], NamePosition(t, at[3], {}) + 1)
      BY <1>14, <1>15, <1>16 DEF f, z
    <2> QED BY <1>2, <1>10, <2>1, NamesRule
  <1>18. WordsAreApproved(t, {})
    <2>1. PICK j \in 1..Len(f) : j + 1 \in 1..Len(f) /\ f[j] = "AS" /\ f[j + 1] = "CurrentInventory"
      BY <1>5 DEF HasPair
    <2>2. j \in 1..Len(d[1]) /\ j + 1 \in 1..Len(d[1]) /\ d[1][j] = "AS" /\ d[1][j + 1] = "CurrentInventory"
      BY <2>1 DEF f
    <2> QED BY <1>2, <1>10, <1>13, <2>2, WordsRule
  <1> QED BY <1>17, <1>18

-----------------------------------------------------------------------------
(* Where nothing is run together, and where nothing could be.              *)

(* Words and marks of S, no two words side by side.                        *)
Tight(x, S) == x \in Seq(S) /\ x # <<>> /\ ~SideBySide(x)

(* A text with words is not empty.                                         *)
LEMMA HasWords ==
    ASSUME NEW x, Len(x) \in Nat, Len(x) > 0
    PROVE  x # <<>>
  <1> SUFFICES ASSUME x = <<>> PROVE FALSE
    OBVIOUS
  <1>1. Len(x) = 0
    OBVIOUS
  <1> QED BY <1>1

(* A mark between two texts keeps their words apart.                       *)
LEMMA TightConcat ==
    ASSUME NEW S, NEW x, NEW y, Tight(x, S), Tight(y, S),
           x[Len(x)] \in Punctuation \/ y[1] \in Punctuation
    PROVE  Tight(Cat(x, y), S)
  <1> DEFINE z == Cat(x, y)
  <1>1. x \in Seq(S) /\ y \in Seq(S) /\ Len(x) \in Nat /\ Len(y) \in Nat /\ Len(x) > 0 /\ Len(y) > 0
    BY EmptySeq, LenProperties DEF Tight
  <1>2. /\ z \in Seq(S) /\ Len(z) = Len(x) + Len(y)
        /\ \A k \in 1..Len(x) : z[k] = x[k]
        /\ \A k \in 1..Len(y) : z[Len(x) + k] = y[k]
    BY <1>1, ConcatProperties DEF Cat
  <1> HIDE DEF z
  <1>3. z # <<>>
    BY <1>1, <1>2, EmptySeq
  <1>4. ~SideBySide(z)
    <2> SUFFICES ASSUME NEW k \in 1..(Len(z) - 1)
                 PROVE  z[k] \in Punctuation \/ z[k + 1] \in Punctuation
      BY DEF SideBySide
    <2>1. CASE k < Len(x)
      <3>1. z[k] = x[k] /\ z[k + 1] = x[k + 1] /\ k \in 1..(Len(x) - 1)
        BY <1>1, <1>2, <2>1
      <3> QED BY <3>1 DEF Tight, SideBySide
    <2>2. CASE k = Len(x)
      <3>1. z[k] = x[Len(x)] /\ z[k + 1] = y[1]
        BY <1>1, <1>2, <2>2
      <3> QED BY <3>1
    <2>3. CASE k > Len(x)
      <3> DEFINE j == k - Len(x)
      <3>1. j \in 1..(Len(y) - 1) /\ k = Len(x) + j /\ k + 1 = Len(x) + (j + 1)
        BY <1>1, <1>2, <2>3
      <3> HIDE DEF j
      <3>2. z[k] = y[j] /\ z[k + 1] = y[j + 1]
        BY <1>1, <1>2, <3>1
      <3> QED BY <3>1, <3>2 DEF Tight, SideBySide
    <2> QED BY <1>1, <1>2, <2>1, <2>2, <2>3
  <1> QED BY <1>2, <1>3, <1>4 DEF Tight, z

(* A column.                                                               *)
LEMMA ColumnIsTight ==
    ASSUME NEW S, NEW a \in S, NEW c \in S, "." \in S
    PROVE  /\ Tight(Column(a, c), S) /\ Len(Column(a, c)) = 3
           /\ Column(a, c)[1] = a /\ Column(a, c)[3] = c
  <1> DEFINE x == <<a, ".", c>>
  <1>1. x \in Seq(S) /\ Len(x) = 3 /\ x[1] = a /\ x[2] = "." /\ x[3] = c
    BY ShortTexts
  <1>2. Column(a, c) = x
    BY DEF Column
  <1> HIDE DEF x
  <1>3. "." \in Punctuation
    BY DEF Punctuation
  <1>4. ~SideBySide(x)
    BY <1>1, <1>3 DEF SideBySide
  <1>5. x # <<>>
    BY <1>1, EmptySeq
  <1> QED BY <1>1, <1>2, <1>4, <1>5 DEF Tight

(* A word or mark by itself.                                               *)
LEMMA OneIsTight ==
    ASSUME NEW S, NEW w \in S
    PROVE  Tight(<<w>>, S) /\ <<w>>[1] = w /\ <<w>>[Len(<<w>>)] = w
  <1> DEFINE x == <<w>>
  <1>1. x \in Seq(S) /\ Len(x) = 1 /\ x[1] = w
    BY ShortTexts
  <1> HIDE DEF x
  <1>2. x # <<>>
    BY <1>1, HasWords
  <1>3. ~SideBySide(x)
    <2>1. 1..(Len(x) - 1) = {}
      BY <1>1
    <2> QED BY <2>1 DEF SideBySide
  <1> QED BY <1>1, <1>2, <1>3 DEF Tight, x

(* A mark between two texts; a sum of a text.                              *)
LEMMA TightAround ==
    ASSUME NEW S, NEW x, NEW y, NEW m \in S, Tight(x, S), Tight(y, S), m \in Punctuation
    PROVE  Tight(x \o <<m>> \o y, S)
  <1> DEFINE e == <<m>>
  <1>1. Tight(e, S) /\ e[1] = m /\ e[Len(e)] = m
    BY OneIsTight
  <1> HIDE DEF e
  <1>2. Tight(Cat(x, e), S) /\ Cat(x, e)[Len(Cat(x, e))] = m
    <2>1. e[1] \in Punctuation
      BY <1>1
    <2>2. Tight(Cat(x, e), S)
      BY <1>1, <2>1, TightConcat, Zenon
    <2>3. Cat(x, e)[Len(Cat(x, e))] = e[Len(e)]
      <3>1. x \in Seq(S) /\ e \in Seq(S) /\ Len(e) = 1 /\ Len(x) \in Nat
        <4>1. Len(e) = 1
          BY DEF e
        <4> QED BY <1>1, <4>1, LenProperties DEF Tight
      <3>2. Cat(x, e)[Len(x) + 1] = e[1] /\ Len(Cat(x, e)) = Len(x) + 1
        BY <3>1, ConcatProperties DEF Cat
      <3> QED BY <3>1, <3>2
    <2> QED BY <1>1, <2>2, <2>3
  <1>3. Tight(Cat(Cat(x, e), y), S)
    BY <1>2, TightConcat, Zenon
  <1> QED BY <1>3, Zenon DEF e, Cat

LEMMA SumIsTight ==
    ASSUME NEW S, NEW x, Tight(x, S), NEW f \in S, NEW b \in S, NEW m \in S,
           b \in Punctuation, m \in Punctuation
    PROVE  Tight(<<f, b>> \o x \o <<m>>, S)
  <1> DEFINE h == <<f, b>>
             e == <<m>>
  <1>1. h \in Seq(S) /\ Len(h) = 2 /\ h[1] = f /\ h[2] = b
    BY ShortTexts
  <1>2. Tight(e, S) /\ e[1] = m
    BY OneIsTight
  <1> HIDE DEF h, e
  <1>3. h # <<>>
    BY <1>1, HasWords
  <1>4. ~SideBySide(h)
    <2>1. 1..(Len(h) - 1) = {1}
      BY <1>1
    <2> QED BY <1>1, <2>1 DEF SideBySide
  <1>5. Tight(h, S) /\ h[Len(h)] \in Punctuation
    BY <1>1, <1>3, <1>4 DEF Tight
  <1>6. Tight(Cat(h, x), S)
    BY <1>5, TightConcat, Zenon
  <1>7. Tight(Cat(Cat(h, x), e), S)
    BY <1>2, <1>6, TightConcat, Zenon
  <1> QED BY <1>7, Zenon DEF h, e, Cat

(* The approved predicates, keys and expressions.                          *)
LEMMA ApprovedIsTight ==
    ASSUME NEW S, NEW p \in S, NEW i \in S, AllowedSourceColumns \subseteq S,
           {".", "=", "<", "(", ")", "SUM"} \subseteq S
    PROVE  /\ \A x \in JoinPredicates(p, i) : Tight(x, S)
           /\ Tight(HavingPredicate(p, i), S)
           /\ \A x \in GroupKeys(p) : Tight(x, S)
           /\ Tight(SumOf(Column(i, "Quantity")), S)
  <1>1. /\ "ProductID" \in S /\ "Quantity" \in S /\ "SafetyStockLevel" \in S /\ "Name" \in S
        /\ "." \in S /\ "=" \in S /\ "<" \in S /\ "(" \in S /\ ")" \in S /\ "SUM" \in S
    BY DEF AllowedSourceColumns
  <1>2. /\ "=" \in Punctuation /\ "<" \in Punctuation /\ "(" \in Punctuation /\ ")" \in Punctuation
    BY DEF Punctuation
  <1>3. ASSUME NEW a \in S, NEW b \in S
        PROVE  Tight(Equal(Column(a, "ProductID"), Column(b, "ProductID")), S)
    <2>1. Tight(Column(a, "ProductID"), S) /\ Tight(Column(b, "ProductID"), S)
      BY <1>1, ColumnIsTight
    <2> QED BY <1>1, <1>2, <2>1, TightAround, Zenon DEF Equal
  <1>4. \A x \in JoinPredicates(p, i) : Tight(x, S)
    BY <1>3 DEF JoinPredicates
  <1>5. Tight(SumOf(Column(i, "Quantity")), S)
    <2>1. Tight(Column(i, "Quantity"), S)
      BY <1>1, ColumnIsTight
    <2> QED BY <1>1, <1>2, <2>1, SumIsTight, Zenon DEF SumOf
  <1>6. Tight(HavingPredicate(p, i), S)
    <2>1. Tight(Column(p, "SafetyStockLevel"), S)
      BY <1>1, ColumnIsTight
    <2> QED BY <1>1, <1>2, <1>5, <2>1, TightAround, Zenon DEF HavingPredicate
  <1>7. \A x \in GroupKeys(p) : Tight(x, S)
    <2>1. \A c \in RequiredGroupByColumns : Tight(Column(p, c), S)
      BY <1>1, ColumnIsTight DEF RequiredGroupByColumns
    <2> QED BY <2>1 DEF GroupKeys
  <1> QED BY <1>4, <1>5, <1>6, <1>7

(* Nothing of it is run together.                                          *)
LEMMA TightIsKept ==
    ASSUME NEW S, NEW x, Tight(x, S)
    PROVE  Squeezed(x) = x
  BY DEF Tight, Squeezed

(* An expression and its name, as they are read.                           *)
LEMMA NamedIsRead ==
    ASSUME NEW S, "AS" \in S, NEW c \in S, NEW e, Tight(e, S)
    PROVE  ReadItem(Named(e, c)) = <<e, c>>
  <1> DEFINE y == <<"AS", c>>
             x == Named(e, c)
  <1>1. e \in Seq(S) /\ Len(e) \in Nat /\ Len(e) > 0
    BY EmptySeq, LenProperties DEF Tight
  <1>2. y \in Seq(S) /\ Len(y) = 2 /\ y[1] = "AS" /\ y[2] = c
    BY ShortTexts
  <1>3. x = e \o y
    BY DEF Named
  <1> HIDE DEF x, y
  <1>4. /\ x \in Seq(S) /\ Len(x) = Len(e) + 2 /\ x[Len(x) - 1] = "AS" /\ x[Len(x)] = c
        /\ \A k \in 1..Len(e) : x[k] = e[k]
    <2>1. /\ x \in Seq(S) /\ Len(x) = Len(e) + 2
          /\ \A k \in 1..(Len(e) + 2) : x[k] = IF k <= Len(e) THEN e[k] ELSE y[k - Len(e)]
      <3>1. /\ e \o y \in Seq(S) /\ Len(e \o y) = Len(e) + Len(y)
            /\ \A k \in 1..(Len(e) + Len(y)) : (e \o y)[k] = IF k <= Len(e) THEN e[k] ELSE y[k - Len(e)]
        BY <1>1, <1>2, ConcatProperties
      <3> QED BY <1>2, <1>3, <3>1
    <2>2. Len(e) + 1 \in 1..(Len(e) + 2) /\ Len(e) + 2 \in 1..(Len(e) + 2)
      BY <1>1
    <2>3. x[Len(e) + 1] = y[1] /\ x[Len(e) + 2] = y[2]
      BY <1>1, <2>1, <2>2
    <2>4. Len(x) - 1 = Len(e) + 1
      BY <1>1, <2>1
    <2> QED BY <1>1, <1>2, <2>1, <2>3, <2>4
  <1>5. SubSeq(x, 1, Len(x) - 2) = e
    <2> DEFINE s == SubSeq(x, 1, Len(e))
    <2>1. s \in Seq(S) /\ Len(s) = Len(e) /\ \A k \in 1..Len(e) : s[k] = x[k]
      BY <1>1, <1>4, SubSeqProperties
    <2> HIDE DEF s
    <2>2. s = e
      BY <1>1, <1>4, <2>1, SeqEqual
    <2>3. Len(x) - 2 = Len(e)
      BY <1>1, <1>4
    <2> QED BY <2>2, <2>3 DEF s
  <1>6. Last(x) = c
    BY <1>4 DEF Last
  <1>7. Len(x) > 2
    BY <1>1, <1>4
  <1>8. ReadItem(x) = <<Squeezed(e), c>>
    BY <1>4, <1>5, <1>6, <1>7, Zenon DEF ReadItem
  <1> QED BY <1>8, TightIsKept, Zenon DEF x

(* They are read as they are written.                                      *)
LEMMA OutputsAreRead ==
    ASSUME NEW S, NEW p \in S, NEW i \in S, AllowedSourceColumns \subseteq S,
           {".", "=", "<", "(", ")", "SUM", "AS", "CurrentInventory"} \subseteq S
    PROVE  {ReadItem(x) : x \in OutputExpressions(p, i)} = OutputColumns(p, i)
  <1>1. \A column \in OutputColumns(p, i) :
            column = <<column[1], column[2]>> /\ Tight(column[1], S) /\ column[2] \in S
    <2>1. \A c \in RequiredGroupByColumns : Tight(Column(p, c), S) /\ c \in S
      <3>1. RequiredGroupByColumns \subseteq S
        BY DEF RequiredGroupByColumns, AllowedSourceColumns
      <3> QED BY <3>1, ApprovedIsTight DEF GroupKeys
    <2>2. Tight(SumOf(Column(i, "Quantity")), S) /\ "CurrentInventory" \in S
      BY ApprovedIsTight
    <2> QED BY <2>1, <2>2 DEF OutputColumns
  <1>2. \A column \in OutputColumns(p, i) : ReadItem(Named(column[1], column[2])) = column
    <2>1. "AS" \in S
      OBVIOUS
    <2> SUFFICES ASSUME NEW column \in OutputColumns(p, i)
                 PROVE  ReadItem(Named(column[1], column[2])) = column
      OBVIOUS
    <2>2. ReadItem(Named(column[1], column[2])) = <<column[1], column[2]>>
      <3> DEFINE e == column[1]
                 c == column[2]
      <3>1. Tight(e, S) /\ c \in S
        BY <1>1
      <3> HIDE DEF e, c
      <3>2. ReadItem(Named(e, c)) = <<e, c>>
        BY <2>1, <3>1, NamedIsRead
      <3> QED BY <3>2 DEF e, c
    <2> QED BY <1>1, <2>2
  <1>3. {ReadItem(x) : x \in OutputExpressions(p, i)}
            = {ReadItem(Named(column[1], column[2])) : column \in OutputColumns(p, i)}
    BY OutputsAreNamed
  <1> QED BY <1>2, <1>3

(* There are four of them.                                                 *)
LEMMA ColumnsCounted ==
    ASSUME NEW p, NEW i
    PROVE  Cardinality(OutputColumns(p, i)) = 4
  <1> DEFINE e(c) == <<Column(p, c), c>>
             x == e("ProductID")
             y == e("Name")
             z == e("SafetyStockLevel")
             w == <<SumOf(Column(i, "Quantity")), "CurrentInventory">>
  <1>1. OutputColumns(p, i) = {x, y, z} \cup {w}
    <2>1. OutputColumns(p, i) = {e(c) : c \in RequiredGroupByColumns} \cup {w}
      BY DEF OutputColumns
    <2> HIDE DEF w, e
    <2> QED BY <2>1 DEF RequiredGroupByColumns
  <1>2. /\ x[2] = "ProductID" /\ y[2] = "Name" /\ z[2] = "SafetyStockLevel"
        /\ w[2] = "CurrentInventory"
    OBVIOUS
  <1> HIDE DEF e, x, y, z, w
  <1>3. x # y /\ x # z /\ y # z /\ w \notin {x, y, z}
    BY <1>2
  <1>4. Cardinality({x, y, z} \cup {w}) = 4
    BY <1>3, Four
  <1> QED BY <1>1, <1>4

(* The guardrail compares every clause as it was written.                  *)
LEMMA WrittenIsApproved ==
    ASSUME NEW t, NEW p, NEW i, JoinAsWritten(t, p, i), GroupByAsWritten(t, p),
           HavingAsWritten(t, p, i), SelectListAsWritten(t, p, i)
    PROVE  /\ JoinIsApproved(t, p, i) /\ GroupByIsApproved(t, p)
           /\ HavingIsApproved(t, p, i) /\ SelectListIsApproved(t, p, i)
  <1> DEFINE S == {p, i, ".", "=", "<", "(", ")", "SUM", "AS", "CurrentInventory"}
                      \cup AllowedSourceColumns
  <1>1. /\ p \in S /\ i \in S /\ AllowedSourceColumns \subseteq S
        /\ {".", "=", "<", "(", ")", "SUM"} \subseteq S
        /\ {".", "=", "<", "(", ")", "SUM", "AS", "CurrentInventory"} \subseteq S
    OBVIOUS
  <1> HIDE DEF S
  <1>2. /\ \A x \in JoinPredicates(p, i) : Squeezed(x) = x
        /\ Squeezed(HavingPredicate(p, i)) = HavingPredicate(p, i)
        /\ \A x \in GroupKeys(p) : Squeezed(x) = x
    BY <1>1, ApprovedIsTight, TightIsKept
  <1>3. JoinIsApproved(t, p, i)
    BY <1>2 DEF JoinIsApproved, JoinAsWritten
  <1>4. HavingIsApproved(t, p, i)
    BY <1>2 DEF HavingIsApproved, HavingAsWritten
  <1>5. GroupByIsApproved(t, p)
    <2>1. PICK k \in GroupBys(t) :
              GroupBys(t) = {k} /\ ListsAsWritten(ClauseAfter(t, k + 1), GroupKeys(p))
      BY DEF GroupByAsWritten
    <2> DEFINE c == ClauseAfter(t, k + 1)
    <2>2. ListsAsWritten(c, GroupKeys(p))
      BY <2>1
    <2> HIDE DEF c
    <2>3. {Squeezed(ItemAfter(c, Cuts(c), cut)) : cut \in Cuts(c)} = GroupKeys(p)
      <3>1. {Squeezed(ItemAfter(c, Cuts(c), cut)) : cut \in Cuts(c)} = {Squeezed(x) : x \in GroupKeys(p)}
        BY <2>2 DEF ListsAsWritten
      <3> QED BY <1>2, <3>1
    <2>4. Cardinality(Cuts(c)) = Cardinality(GroupKeys(p))
      BY <2>2 DEF ListsAsWritten
    <2> QED BY <2>1, <2>3, <2>4 DEF GroupByIsApproved, ListsExactly, c
  <1>6. SelectListIsApproved(t, p, i)
    <2> DEFINE top == IF At(t, TopPosition(t) + 1, ")") THEN TopPosition(t) + 1 ELSE TopPosition(t)
               c == SubSeq(t, top + 1, FirstAfter(t, {"FROM"}, top) - 1)
    <2>1. ListsAsWritten(c, OutputExpressions(p, i))
      BY DEF SelectListAsWritten
    <2> HIDE DEF c
    <2>2. {ReadItem(ItemAfter(c, Cuts(c), cut)) : cut \in Cuts(c)} = OutputColumns(p, i)
      <3>1. {ReadItem(ItemAfter(c, Cuts(c), cut)) : cut \in Cuts(c)}
                = {ReadItem(x) : x \in OutputExpressions(p, i)}
        BY <2>1 DEF ListsAsWritten
      <3> QED BY <1>1, <3>1, OutputsAreRead
    <2>3. Cardinality(Cuts(c)) = Cardinality(OutputColumns(p, i))
      BY <2>1, OutputsCounted, ColumnsCounted DEF ListsAsWritten
    <2> QED BY <2>2, <2>3 DEF SelectListIsApproved, ListsExactly, c
  <1> QED BY <1>3, <1>4, <1>5, <1>6

-----------------------------------------------------------------------------
(* All rules and checks together.                                          *)
LEMMA DemoPasses ==
    ASSUME NEW q, NEW p, NEW i, NEW n, NEW a, NEW m, NEW e, Roles(q, p, i, n, a, m, e),
           \/ n = "Product" /\ a = p /\ m = "ProductInventory" /\ e = i
           \/ n = "ProductInventory" /\ a = i /\ m = "Product" /\ e = p,
           q.odd = {}
    PROVE  GuardrailAccepts(Sql(q))
  <1> DEFINE s == Render(q)
             t == Canonical(s)
  <1>1. Demo(q, p, i)
    BY DEF Roles
  <1>2. PICK at : Shaped(t, at, Folds(q), p, i) /\ Spans(s, at[1], Rests(q)[1])
    BY <1>1, RenderedShape
  <1> HIDE DEF t
  <1>3. SingleSelect(t) /\ NoForbiddenKeyword(t)
    BY <1>2, SelectRule
  <1>4. TopIsBounded(t) /\ SelectListAsWritten(t, p, i)
    BY <1>1, <1>2, SelectPasses
  <1>5. /\ JoinAsWritten(t, p, i) /\ GroupByAsWritten(t, p) /\ HavingAsWritten(t, p, i)
        /\ OrderedByProductId(t, {})
    BY <1>1, <1>2, ClausesPass
  <1>6. TablesAreApproved(t, {}) /\ AliasFor(t, n, {}) = a /\ AliasFor(t, m, {}) = e
    BY <1>2, TablesPass
  <1>7. AliasFor(t, "Product", {}) = p /\ AliasFor(t, "ProductInventory", {}) = i
    BY <1>6
  <1> HIDE DEF s
  <1>8. OutputNamesAreApproved(s, t, {}) /\ WordsAreApproved(t, {})
    BY <1>2, NamesPass DEF s
  <1>9. Cleaned(s) = s
    <2>1. ~Occur(t, {";"})
      BY <1>3 DEF SingleSelect, Occur
    <2> QED BY <2>1, CleanedOnce DEF t
  <1>10. t = Canonical(Cleaned(s))
    BY <1>9 DEF t
  <1>11. /\ JoinIsApproved(t, p, i) /\ GroupByIsApproved(t, p)
         /\ HavingIsApproved(t, p, i) /\ SelectListIsApproved(t, p, i)
    BY <1>4, <1>5, WrittenIsApproved
  <1>12. Sql(q).tokens = s /\ Sql(q).odd = {}
    BY DEF Sql, s
  <1> QED BY <1>3, <1>4, <1>5, <1>6, <1>7, <1>8, <1>9, <1>10, <1>11, <1>12, Zenon DEF GuardrailAccepts

(* The guardrail accepts the representative query, in the usual layout.    *)
LEMMA RepresentativePasses ==
    ASSUME NEW q \in Query, Representative(q), Binds(q), WrittenAsAsked(q)
    PROVE  GuardrailAccepts(Sql(q))
  <1>0. q.odd = {}
    BY DEF WrittenAsAsked
  <1>1. PICK p, i : Demo(q, p, i)
    BY RepresentativeIsDemo
  <1>2. /\ IsName(p) /\ IsName(i) /\ p # i
        /\ \/ Is(q.tables[1], "Product", p) /\ Is(q.joins[1].table, "ProductInventory", i)
           \/ Is(q.tables[1], "ProductInventory", i) /\ Is(q.joins[1].table, "Product", p)
    BY <1>1, Zenon DEF Demo
  <1>3. CASE Is(q.tables[1], "Product", p) /\ Is(q.joins[1].table, "ProductInventory", i)
    <2>1. Roles(q, p, i, "Product", p, "ProductInventory", i)
      BY <1>1, <1>2, <1>3 DEF Roles, AllowedTables
    <2> QED BY <1>0, <2>1, DemoPasses
  <1>4. CASE Is(q.tables[1], "ProductInventory", i) /\ Is(q.joins[1].table, "Product", p)
    <2>1. Roles(q, p, i, "ProductInventory", i, "Product", p)
      BY <1>1, <1>2, <1>4 DEF Roles, AllowedTables
    <2> QED BY <1>0, <2>1, DemoPasses
  <1> QED BY <1>2, <1>3, <1>4

(* No spelling of the demo's query is refused in the usual layout, over    *)
(* any words and names: the rules of sql_guardrail.validate agree with its *)
(* clause checks, and no word of one clause keeps a rule from reading      *)
(* another.                                                                *)
THEOREM RepresentativesAreAccepted == Spec => []RepresentativeIsAccepted
  <1> DEFINE Typed == query # NoQuery => query \in Query
  <1>1. Init => Typed
    BY GateAssumption DEF Init
  <1>2. Typed /\ [Next]_gateVars => Typed'
    BY DEF Next, Accept, Refuse, gateVars
  <1>3. Typed /\ VerdictOnQuery => RepresentativeIsAccepted
    BY RepresentativePasses DEF VerdictOnQuery, RepresentativeIsAccepted
  <1> QED BY <1>1, <1>2, <1>3, LayoutsDoNotMatter, PTL DEF Spec

-----------------------------------------------------------------------------
(* AcceptedIsRepresentative, for the queries of the grammar (Grammatical). *)
(*                                                                         *)
(* The way back: from what the rules read in an accepted text to what was  *)
(* written.  The keyword of a clause is nowhere but at its clause, if the  *)
(* query has it (KeywordNeedsClause), so that an accepted query is Whole:  *)
(* its text falls apart into seven clauses again (Apart), of which a rule  *)
(* reads its own.  A list is read back item by item, because the cuts of   *)
(* its text are the commas between the items (AllListed, Single); folding  *)
(* makes no mark and takes none (MarksKept).  That leaves the parts of the *)
(* representative query in some spelling and order (AcceptedReads), over   *)
(* tables that its columns are bound to (Binds, AcceptedIsDemo).           *)
(***************************************************************************)
(* The symbols that are no spelling of a word of W.                        *)
Over(W) == {w \in Symbols : Fold(w) \notin W}

(* The words that begin a clause or cut one off; those that begin one.     *)
Cutting == ClauseKeywords \cup {"INNER", "LEFT"}

(* A list is typed by its elements.                                        *)
LEMMA TypedByElements ==
    ASSUME NEW S, NEW T, NEW x \in Seq(S), \A k \in 1..Len(x) : x[k] \in T
    PROVE  x \in Seq(T)
  <1>1. Len(x) \in Nat /\ DOMAIN x = 1..Len(x) /\ x \in [1..Len(x) -> S]
    BY LenProperties
  <1>2. x = [k \in 1..Len(x) |-> x[k]]
    BY <1>1
  <1> QED BY <1>1, <1>2, ListOfTexts

(* A text without the words of W is one over the other symbols.            *)
LEMMA LacksIsType ==
    ASSUME NEW W, NEW x \in Text, Lacks(x, W)
    PROVE  x \in Seq(Over(W))
  <1>1. x \in Seq(Symbols) /\ Len(x) \in Nat /\ DOMAIN x = 1..Len(x)
    BY LenProperties DEF Text
  <1>2. \A k \in 1..Len(x) : x[k] \in Over(W)
    BY <1>1, ElementOfSeq DEF Lacks, Over
  <1> QED BY <1>1, <1>2, TypedByElements

(* No keyword of a clause is among the other words that Render writes.     *)
LEMMA RenderedWords ==
    /\ {"TOP", "AS", "Production", ".", ",", "BY", "ASC", "DESC"} \subseteq Over(Cutting)
    /\ \A W : \A w \in {"SELECT", "FROM", "JOIN", "ON", "WHERE", "GROUP", "HAVING", "ORDER"} :
          w \notin W => w \in Over(W)
    /\ Over(Cutting) \subseteq Over(ClauseKeywords)
    /\ \A W \in SUBSET ClauseKeywords : Over(ClauseKeywords) \subseteq Over(W)
  <1>1. {"SELECT", "TOP", "AS", "FROM", "Production", ".", ",", "JOIN", "ON", "WHERE",
         "GROUP", "BY", "HAVING", "ORDER", "ASC", "DESC"} \subseteq Symbols
    BY GateAssumption
  <1>2. \A w \in {"TOP", "AS", "Production", "BY", "ASC", "DESC",
                  "SELECT", "FROM", "JOIN", "ON", "WHERE", "GROUP", "HAVING", "ORDER"} : Fold(w) = w
    BY FoldedNames DEF Vocabulary, ReservedWords
  <1>3. Fold(".") = "."
    BY FoldKeepsPunctuation DEF Punctuation
  <1>4. Fold(",") = ","
    BY Zenon, FoldKeepsPunctuation DEF Punctuation
  <1>5. /\ "TOP" \notin Cutting /\ "AS" \notin Cutting /\ "Production" \notin Cutting
        /\ "BY" \notin Cutting /\ "ASC" \notin Cutting /\ "DESC" \notin Cutting
    BY DEF Cutting, ClauseKeywords
  <1>6. "." \notin Cutting /\ "," \notin Cutting
    BY Zenon DEF Cutting, ClauseKeywords
  <1>7. "TOP" \in Over(Cutting) /\ "AS" \in Over(Cutting) /\ "Production" \in Over(Cutting)
    BY <1>1, <1>2, <1>5 DEF Over
  <1>8. "BY" \in Over(Cutting) /\ "ASC" \in Over(Cutting) /\ "DESC" \in Over(Cutting)
    BY <1>1, <1>2, <1>5 DEF Over
  <1>9. "." \in Over(Cutting) /\ "," \in Over(Cutting)
    BY <1>1, <1>3, <1>4, <1>6, Zenon DEF Over
  <1>10. \A W : \A w \in {"SELECT", "FROM", "JOIN", "ON", "WHERE", "GROUP", "HAVING", "ORDER"} :
          w \notin W => w \in Over(W)
    BY <1>1, <1>2 DEF Over
  <1>11. Over(Cutting) \subseteq Over(ClauseKeywords)
    BY DEF Over, Cutting
  <1>12. \A W \in SUBSET ClauseKeywords : Over(ClauseKeywords) \subseteq Over(W)
    BY DEF Over
  <1> QED BY <1>7, <1>8, <1>9, <1>10, <1>11, <1>12, Zenon

(* A word of the grammar stands for itself.                                *)
LEMMA WordIs ==
    ASSUME NEW w \in Symbols, IsWord(w)
    PROVE  w \in Over(Cutting) /\ Fold(w) \notin Punctuation \cup Numerals \cup Cutting
  <1>1. Fold(w) \notin Cutting
    <2> DEFINE x == <<w>>
    <2>1. 1 \in DOMAIN x /\ x[1] = w
      OBVIOUS
    <2>2. Lacks(x, Cutting)
      BY DEF IsWord, IsTerm, Cutting
    <2> HIDE DEF x
    <2> QED BY <2>1, <2>2 DEF Lacks
  <1>2. Fold(w) \notin Punctuation \cup Numerals
    BY SqlAssumption DEF Fold, IsWord
  <1> QED BY <1>1, <1>2 DEF Over

(* Texts without words that cut off a clause.                              *)
Plainly == Seq(Over(Cutting))

(* Texts that cut nothing off, put together, cut nothing off.              *)
LEMMA PlainTexts ==
    /\ \A a, b \in Plainly : a \o b \in Plainly
    /\ <<>> \in Plainly
    /\ \A v, w, x \in Over(Cutting) :
          <<v>> \in Plainly /\ <<v, w>> \in Plainly /\ <<v, w, x>> \in Plainly
  <1>1. \A a, b \in Plainly : a \o b \in Plainly
    BY ConcatProperties DEF Plainly
  <1>2. <<>> \in Plainly /\ \A v, w, x \in Over(Cutting) :
          <<v>> \in Plainly /\ <<v, w>> \in Plainly /\ <<v, w, x>> \in Plainly
    BY ShortTexts DEF Plainly
  <1> QED BY <1>1, <1>2

(* A term of the grammar cuts nothing off.                                 *)
LEMMA TermIsPlain ==
    ASSUME NEW x \in Text, IsTerm(x)
    PROVE  x \in Plainly
  BY LacksIsType DEF IsTerm, Cutting, Plainly

(* A table of the grammar cuts nothing off.                                *)
LEMMA TableIsPlain ==
    ASSUME NEW table \in Table, NamesTable(table)
    PROVE  TableRef(table) \in Plainly
  <1>1. table.name \in Over(Cutting) /\ table.alias \in Over(Cutting)
    BY WordIs DEF Table, NamesTable
  <1>2. {"Production", ".", "AS"} \subseteq Over(Cutting)
    BY RenderedWords
  <1>3. <<"Production", ".">> \in Plainly /\ <<table.name, "AS", table.alias>> \in Plainly
    BY <1>1, <1>2, PlainTexts
  <1>4. (IF table.schema THEN <<"Production", ".">> ELSE <<>>) \in Plainly
    BY <1>3, PlainTexts
  <1> QED BY <1>3, <1>4, PlainTexts DEF TableRef

(* A list of such texts cuts nothing off.                                  *)
LEMMA SeparatedPlain ==
    ASSUME NEW items \in Seq(Plainly)
    PROVE  Separated(items) \in Plainly
  <1>1. "," \in Over(Cutting)
    BY RenderedWords, Zenon
  <1> QED BY <1>1, SeparatedType, Zenon DEF Plainly

(* The parts of a query of the grammar.                                    *)
LEMMA GrammaticalParts ==
    ASSUME NEW q \in Query, Grammatical(q)
    PROVE  /\ q.top \in Plainly /\ q.where \in Plainly /\ q.having \in Plainly
           /\ Outputs(q) \in Seq(Plainly) /\ Tables(q) \in Seq(Plainly)
           /\ q.group \in Seq(Plainly) /\ SortKeys(q) \in Seq(Plainly)
           /\ \A k \in 1..Len(q.joins) :
                 /\ q.joins[k].kind \in Seq(Over(ClauseKeywords))
                 /\ TableRef(q.joins[k].table) \in Plainly /\ q.joins[k].on \in Plainly
  <1>1. /\ q.top \in Text /\ q.where \in Text /\ q.having \in Text
        /\ q.items \in Seq([expr : Text, name : Symbols])
        /\ q.tables \in Seq(Table)
        /\ q.joins \in Seq([kind : Text, table : Table, on : Text])
        /\ q.group \in Seq(Text)
        /\ q.order \in Seq([key : Text, direction : {"ASC", "DESC"}])
        /\ Outputs(q) \in Seq(Text) /\ Tables(q) \in Seq(Text) /\ SortKeys(q) \in Seq(Text)
    BY PartsAreTexts
  <1>2. q.top \in Plainly /\ q.where \in Plainly /\ q.having \in Plainly
    BY <1>1, TermIsPlain DEF Grammatical
  <1>3. Outputs(q) \in Seq(Plainly)
    <2>1. DOMAIN q.items = 1..Len(q.items) /\ Len(Outputs(q)) = Len(q.items)
      <3>1. Len(q.items) \in Nat /\ DOMAIN q.items = 1..Len(q.items) /\ Len(Outputs(q)) \in Nat
            /\ DOMAIN Outputs(q) = 1..Len(Outputs(q))
        BY <1>1, LenProperties
      <3>2. DOMAIN Outputs(q) = DOMAIN q.items
        BY DEF Outputs
      <3> QED BY <3>1, <3>2, SameLength
    <2>2. ASSUME NEW k \in 1..Len(Outputs(q)) PROVE Outputs(q)[k] \in Plainly
      <3>1. k \in DOMAIN q.items /\ q.items[k] \in [expr : Text, name : Symbols]
        BY <1>1, <2>1, ElementOfSeq
      <3>2. IsExpression(q.items[k].expr) /\ IsWord(q.items[k].name)
        BY <3>1 DEF Grammatical
      <3>3. q.items[k].expr \in Plainly /\ q.items[k].name \in Over(Cutting)
        BY <3>1, <3>2, TermIsPlain, WordIs DEF IsExpression
      <3>4. "AS" \in Over(Cutting)
        BY RenderedWords
      <3>5. <<"AS", q.items[k].name>> \in Plainly
        BY <3>3, <3>4, PlainTexts
      <3> QED BY <3>1, <3>3, <3>5, PlainTexts DEF Outputs, Named
    <2> QED BY <1>1, <2>2, TypedByElements
  <1>4. Tables(q) \in Seq(Plainly)
    <2>1. DOMAIN q.tables = 1..Len(q.tables) /\ Len(Tables(q)) = Len(q.tables)
      <3>1. Len(q.tables) \in Nat /\ DOMAIN q.tables = 1..Len(q.tables) /\ Len(Tables(q)) \in Nat
            /\ DOMAIN Tables(q) = 1..Len(Tables(q))
        BY <1>1, LenProperties
      <3>2. DOMAIN Tables(q) = DOMAIN q.tables
        BY DEF Tables
      <3> QED BY <3>1, <3>2, SameLength
    <2>2. ASSUME NEW k \in 1..Len(Tables(q)) PROVE Tables(q)[k] \in Plainly
      <3>1. k \in DOMAIN q.tables /\ q.tables[k] \in Table
        BY <1>1, <2>1, ElementOfSeq
      <3>2. NamesTable(q.tables[k])
        BY <3>1 DEF Grammatical
      <3> QED BY <3>1, <3>2, TableIsPlain DEF Tables
    <2> QED BY <1>1, <2>2, TypedByElements
  <1>5. q.group \in Seq(Plainly)
    <2>1. DOMAIN q.group = 1..Len(q.group)
      BY <1>1, LenProperties
    <2>2. ASSUME NEW k \in 1..Len(q.group) PROVE q.group[k] \in Plainly
      <3>1. q.group[k] \in Text /\ IsTerm(q.group[k])
        BY <1>1, <2>1, ElementOfSeq DEF Grammatical, IsExpression
      <3> QED BY <3>1, TermIsPlain
    <2> QED BY <1>1, <2>2, TypedByElements
  <1>6. SortKeys(q) \in Seq(Plainly)
    <2>1. DOMAIN q.order = 1..Len(q.order) /\ Len(SortKeys(q)) = Len(q.order)
      <3>1. Len(q.order) \in Nat /\ DOMAIN q.order = 1..Len(q.order) /\ Len(SortKeys(q)) \in Nat
            /\ DOMAIN SortKeys(q) = 1..Len(SortKeys(q))
        BY <1>1, LenProperties
      <3>2. DOMAIN SortKeys(q) = DOMAIN q.order
        BY DEF SortKeys
      <3> QED BY <3>1, <3>2, SameLength
    <2>2. ASSUME NEW k \in 1..Len(SortKeys(q)) PROVE SortKeys(q)[k] \in Plainly
      <3>1. k \in DOMAIN q.order /\ q.order[k] \in [key : Text, direction : {"ASC", "DESC"}]
        BY <1>1, <2>1, ElementOfSeq
      <3>2. q.order[k].key \in Text /\ IsTerm(q.order[k].key) /\ q.order[k].direction \in {"ASC", "DESC"}
        BY <3>1 DEF Grammatical
      <3>3. q.order[k].key \in Plainly /\ q.order[k].direction \in Over(Cutting)
        BY <3>2, TermIsPlain, RenderedWords
      <3> QED BY <3>1, <3>3, AppendProperties DEF SortKeys, Plainly
    <2> QED BY <1>1, <2>2, TypedByElements
  <1>7. ASSUME NEW k \in 1..Len(q.joins)
        PROVE  /\ q.joins[k].kind \in Seq(Over(ClauseKeywords))
               /\ TableRef(q.joins[k].table) \in Plainly /\ q.joins[k].on \in Plainly
    <2>1. k \in DOMAIN q.joins /\ q.joins[k] \in [kind : Text, table : Table, on : Text]
      BY <1>1, LenProperties, ElementOfSeq
    <2>2. /\ Lacks(q.joins[k].kind, ClauseKeywords)
          /\ NamesTable(q.joins[k].table) /\ IsTerm(q.joins[k].on)
      BY <2>1 DEF Grammatical
    <2>3. q.joins[k].kind \in Text /\ q.joins[k].table \in Table /\ q.joins[k].on \in Text
      BY <2>1
    <2> QED BY <2>2, <2>3, LacksIsType, TableIsPlain, TermIsPlain
  <1> QED BY <1>2, <1>3, <1>4, <1>5, <1>6, <1>7

(* A query is rendered in the symbols of its parts.                        *)
LEMMA RenderOver ==
    ASSUME NEW S, NEW q, {"SELECT", "TOP", "FROM", ","} \subseteq S,
           q.top \in Seq(S), Outputs(q) \in Seq(Seq(S)), Tables(q) \in Seq(Seq(S)),
           FlattenSeq(JoinedTables(q)) \in Seq(S),
           Clause(<<"WHERE">>, q.where) \in Seq(S),
           Clause(<<"GROUP", "BY">>, Separated(q.group)) \in Seq(S),
           Clause(<<"HAVING">>, q.having) \in Seq(S),
           Clause(<<"ORDER", "BY">>, Separated(SortKeys(q))) \in Seq(S)
    PROVE  Render(q) \in Seq(S)
  <1> DEFINE T == Seq(S)
             items == Outputs(q)
             tables == Tables(q)
             joins == FlattenSeq(JoinedTables(q))
             where == Clause(<<"WHERE">>, q.where)
             group == Clause(<<"GROUP", "BY">>, Separated(q.group))
             having == Clause(<<"HAVING">>, q.having)
             order == Clause(<<"ORDER", "BY">>, Separated(SortKeys(q)))
             select == <<"SELECT", "TOP">>
             from == <<"FROM">>
  <1>1. \A a, b \in T : a \o b \in T
    BY ConcatProperties
  <1>2. select \in T /\ from \in T
    BY ShortTexts
  <1>3. Separated(items) \in T /\ Separated(tables) \in T
    <2>1. "," \in S
      BY Zenon
    <2> QED BY <2>1, SeparatedType, Zenon
  <1>4. Render(q) = select \o q.top \o Separated(items) \o from \o Separated(tables) \o joins
                        \o where \o group \o having \o order
    BY DEF Render, Outputs, Tables, JoinedTables, SortKeys
  <1>5. joins \in T /\ where \in T /\ group \in T /\ having \in T /\ order \in T /\ q.top \in T
    OBVIOUS
  <1> HIDE DEF T, items, tables, joins, where, group, having, order, select, from
  <1>6. select \o q.top \o Separated(items) \o from \o Separated(tables) \o joins \in T
    BY <1>1, <1>2, <1>3, <1>5
  <1> DEFINE front == select \o q.top \o Separated(items) \o from \o Separated(tables) \o joins
  <1>7. Render(q) = front \o where \o group \o having \o order
    BY <1>4
  <1>8. front \in T
    BY <1>6
  <1> HIDE DEF front
  <1>9. front \o where \o group \o having \o order \in T
    BY <1>1, <1>5, <1>8
  <1>10. Render(q) \in T
    BY <1>7, <1>9
  <1> QED BY <1>10 DEF T

(* A clause of a query, over the symbols that spell no w.                  *)
LEMMA ClauseOver ==
    ASSUME NEW S, NEW keywords \in Seq(S), NEW body \in Seq(S)
    PROVE  Clause(keywords, body) \in Seq(S)
  BY ConcatProperties, ShortTexts DEF Clause

(* A join is written in the symbols of its parts.                          *)
LEMMA JoinOver ==
    ASSUME NEW S, "JOIN" \in S, "ON" \in S, NEW join, join.kind \in Seq(S), join.on \in Seq(S),
           TableRef(join.table) \in Seq(S)
    PROVE  Joined(join) \in Seq(S)
  <1>1. <<"JOIN">> \in Seq(S) /\ <<"ON">> \in Seq(S)
    BY ShortTexts
  <1>2. \A a, b \in Seq(S) : a \o b \in Seq(S)
    BY ConcatProperties
  <1> QED BY <1>1, <1>2 DEF Joined

(* A semicolon is no word.                                                 *)
Semicolon == ";"

(* The semicolon is no word of the code.                                   *)
LEMMA SemicolonIs ==
    /\ Semicolon \in ClauseKeywords /\ Fold(Semicolon) = Semicolon
    /\ \A w \in Vocabulary : w # Semicolon
  <1>1. Semicolon \in ClauseKeywords /\ Semicolon \in Punctuation
    BY Zenon DEF Semicolon, ClauseKeywords, Punctuation
  <1> QED BY <1>1, VocabularyIsWords

(* Joins hold no keyword of a later clause.                                *)
LEMMA JoinsOver ==
    ASSUME NEW q \in Query, Grammatical(q), NEW w \in {"GROUP", "HAVING", "ORDER", Semicolon}
    PROVE  FlattenSeq(JoinedTables(q)) \in Seq(Over({w}))
  <1> DEFINE S == Over({w})
  <1>1. JoinedTables(q) \in Seq(Text) /\ q.joins \in Seq([kind : Text, table : Table, on : Text])
    BY PartsAreTexts
  <1>2. /\ Len(q.joins) \in Nat /\ DOMAIN q.joins = 1..Len(q.joins)
        /\ Len(JoinedTables(q)) = Len(q.joins)
    <2>1. Len(q.joins) \in Nat /\ DOMAIN q.joins = 1..Len(q.joins)
          /\ Len(JoinedTables(q)) \in Nat /\ DOMAIN JoinedTables(q) = 1..Len(JoinedTables(q))
      BY <1>1, LenProperties
    <2>2. DOMAIN JoinedTables(q) = DOMAIN q.joins
      BY DEF JoinedTables
    <2> QED BY <2>1, <2>2, SameLength
  <1>3. Over(ClauseKeywords) \subseteq S /\ Over(Cutting) \subseteq S /\ "JOIN" \in S /\ "ON" \in S
    <2>1. {w} \in SUBSET ClauseKeywords
      <3>1. {"GROUP", "HAVING", "ORDER"} \subseteq ClauseKeywords
        BY Zenon DEF ClauseKeywords
      <3> QED BY <3>1, SemicolonIs
    <2>2. "JOIN" \notin {w} /\ "ON" \notin {w}
      <3>1. "JOIN" \in Vocabulary /\ "ON" \in Vocabulary
        BY DEF Vocabulary, ReservedWords
      <3> QED BY <3>1, SemicolonIs
    <2> QED BY <2>1, <2>2, RenderedWords
  <1> HIDE DEF S
  <1>4. ASSUME NEW k \in 1..Len(JoinedTables(q)) PROVE JoinedTables(q)[k] \in Seq(S)
    <2>1. k \in 1..Len(q.joins) /\ k \in DOMAIN q.joins
      BY <1>2
    <2>2. /\ q.joins[k].kind \in Seq(Over(ClauseKeywords))
          /\ TableRef(q.joins[k].table) \in Plainly /\ q.joins[k].on \in Plainly
      BY <2>1, GrammaticalParts
    <2>3. /\ q.joins[k].kind \in Seq(S)
          /\ TableRef(q.joins[k].table) \in Seq(S) /\ q.joins[k].on \in Seq(S)
      BY <1>3, <2>2, SeqMonotonic DEF Plainly
    <2>4. JoinedTables(q)[k] = Joined(q.joins[k])
      BY <2>1 DEF JoinedTables
    <2> QED BY <1>3, <2>3, <2>4, JoinOver
  <1>5. JoinedTables(q) \in Seq(Seq(S))
    BY <1>1, <1>4, TypedByElements
  <1>6. FlattenSeq(JoinedTables(q)) \in Seq(S)
    BY <1>5, FlattenSeqType
  <1> QED BY <1>6 DEF S

(* The keyword of a clause that is not there is nowhere in the query, and  *)
(* neither is a semicolon.                                                 *)
LEMMA KeywordNeedsClause ==
    ASSUME NEW q \in Query, Grammatical(q),
           NEW w \in {"ON", "GROUP", "HAVING", "ORDER", Semicolon},
           w = "ON" => q.joins = <<>>, w = "GROUP" => Separated(q.group) = <<>>,
           w = "HAVING" => q.having = <<>>, w = "ORDER" => Separated(SortKeys(q)) = <<>>,
           NEW k \in DOMAIN Canonical(Render(q))
    PROVE  Canonical(Render(q))[k] # w
  <1> DEFINE S == Over({w})
  <1>1. {w} \in SUBSET ClauseKeywords
    <2>1. {"ON", "GROUP", "HAVING", "ORDER"} \subseteq ClauseKeywords
      BY Zenon DEF ClauseKeywords
    <2> QED BY <2>1, SemicolonIs
  <1>2. /\ Over(ClauseKeywords) \subseteq S /\ Over(Cutting) \subseteq S
        /\ {"TOP", "AS", "Production", ".", ",", "BY"} \subseteq S
    BY <1>1, RenderedWords
  <1>3. \A v \in {"SELECT", "FROM", "WHERE", "GROUP", "HAVING", "ORDER"} : v # w => v \in S
    <2>1. \A v : v # w => v \notin {w}
      OBVIOUS
    <2> QED BY <2>1, RenderedWords
  <1>4. {"SELECT", "FROM", "WHERE"} \subseteq S
    <2>1. "SELECT" \in Vocabulary /\ "FROM" \in Vocabulary /\ "WHERE" \in Vocabulary
      BY DEF Vocabulary, ReservedWords
    <2> QED BY <1>3, <2>1, SemicolonIs
  <1> HIDE DEF S
  <1>5. \A x \in Plainly : x \in Seq(S)
    BY <1>2, SeqMonotonic DEF Plainly
  <1>6. \A x \in Seq(Plainly) : x \in Seq(Seq(S))
    <2>1. Plainly \subseteq Seq(S)
      BY <1>5
    <2> QED BY <2>1, SeqMonotonic
  <1>7. /\ q.top \in Seq(S) /\ q.where \in Seq(S) /\ q.having \in Seq(S)
        /\ Outputs(q) \in Seq(Seq(S)) /\ Tables(q) \in Seq(Seq(S))
        /\ Separated(q.group) \in Seq(S) /\ Separated(SortKeys(q)) \in Seq(S)
    BY <1>5, <1>6, GrammaticalParts, SeparatedPlain
  <1>8. /\ <<>> \in Seq(S) /\ <<"WHERE">> \in Seq(S)
        /\ w # "GROUP" => <<"GROUP", "BY">> \in Seq(S)
        /\ w # "HAVING" => <<"HAVING">> \in Seq(S)
        /\ w # "ORDER" => <<"ORDER", "BY">> \in Seq(S)
    BY <1>2, <1>3, <1>4, ShortTexts
  <1>9. Clause(<<"WHERE">>, q.where) \in Seq(S)
    BY <1>7, <1>8, ClauseOver
  <1>10. Clause(<<"GROUP", "BY">>, Separated(q.group)) \in Seq(S)
    <2>1. CASE w = "GROUP"
      BY <1>8, <2>1 DEF Clause
    <2>2. CASE w # "GROUP"
      BY <1>7, <1>8, <2>2, ClauseOver
    <2> QED BY <2>1, <2>2
  <1>11. Clause(<<"HAVING">>, q.having) \in Seq(S)
    <2>1. CASE w = "HAVING"
      BY <1>8, <2>1 DEF Clause
    <2>2. CASE w # "HAVING"
      BY <1>7, <1>8, <2>2, ClauseOver
    <2> QED BY <2>1, <2>2
  <1>12. Clause(<<"ORDER", "BY">>, Separated(SortKeys(q))) \in Seq(S)
    <2>1. CASE w = "ORDER"
      BY <1>8, <2>1 DEF Clause
    <2>2. CASE w # "ORDER"
      BY <1>7, <1>8, <2>2, ClauseOver
    <2> QED BY <2>1, <2>2
  <1>13. FlattenSeq(JoinedTables(q)) \in Seq(S)
    <2>1. CASE w = "ON"
      <3>1. JoinedTables(q) = <<>>
        <4>1. q.joins = <<>> /\ DOMAIN q.joins = {}
          BY <2>1
        <4>2. DOMAIN JoinedTables(q) = {} /\ JoinedTables(q) \in Seq(Text)
          BY <4>1, PartsAreTexts DEF JoinedTables
        <4>3. Len(JoinedTables(q)) \in Nat /\ DOMAIN JoinedTables(q) = 1..Len(JoinedTables(q))
          BY <4>2, LenProperties
        <4>4. Len(JoinedTables(q)) = 0
          BY <4>2, <4>3
        <4> QED BY <4>2, <4>4, EmptySeq
      <3>2. <<>> \in Seq(Seq(S))
        BY ShortTexts
      <3> QED BY <3>1, <3>2, FlattenSeqType
    <2>2. CASE w # "ON"
      BY <2>2, JoinsOver DEF S
    <2> QED BY <2>1, <2>2
  <1>14. {"SELECT", "TOP", "FROM", ","} \subseteq S
    BY <1>2, <1>4
  <1>15. Render(q) \in Seq(S)
    BY <1>7, <1>9, <1>10, <1>11, <1>12, <1>13, <1>14, RenderOver
  <1>16. k \in DOMAIN Render(q) /\ Canonical(Render(q))[k] = Fold(Render(q)[k])
    BY DEF Canonical
  <1>17. Render(q)[k] \in S
    <2>1. DOMAIN Render(q) = 1..Len(Render(q))
      BY <1>15, LenProperties
    <2> QED BY <1>15, <1>16, <2>1, ElementOfSeq
  <1> QED BY <1>16, <1>17 DEF S, Over

(* The text t is seven clauses d at the positions at, and no word of their *)
(* rests is a keyword.                                                     *)
Apart(t, at, d) ==
    /\ Len(t) \in Nat /\ DOMAIN t = 1..Len(t)
    /\ \A m \in 1..7 : Len(d[m]) \in Nat /\ \A j \in 1..Len(d[m]) : d[m][j] \notin ClauseWords
    /\ Positions(at, d) /\ LaidOut(t, at, d, 7)

(* Where the seven clauses begin and end.                                  *)
LEMMA ApartEnds ==
    ASSUME NEW t, NEW at, NEW d, Apart(t, at, d)
    PROVE  /\ Len(t) \in Nat /\ DOMAIN t = 1..Len(t)
           /\ \A m \in 1..7 : at[m] \in Nat /\ Len(d[m]) \in Nat /\ at[m] \in 1..Len(t)
           /\ at[1] = 1 /\ at[2] = (1 + Len(d[1])) + 1 /\ at[3] = (at[2] + Len(d[2])) + 1
           /\ at[4] = (at[3] + Len(d[3])) + 1 /\ at[5] = (at[4] + Len(d[4])) + 1
           /\ at[6] = (at[5] + Len(d[5])) + 1 /\ at[7] = (at[6] + Len(d[6])) + 1
           /\ Len(t) = at[7] + Len(d[7])
           /\ \A m \in 1..7 : t[at[m]] = ClauseWord[m] /\ Spans(t, at[m], d[m])
  <1>1. Len(t) \in Nat /\ DOMAIN t = 1..Len(t)
    BY DEF Apart
  <1>2. ASSUME NEW m \in 1..7
        PROVE  at[m] \in Nat /\ at[m] > 0 /\ Len(d[m]) \in Nat /\ at[m] + Len(d[m]) <= Len(t)
    <2>1. at[m] \in Nat /\ at[m] > 0 /\ Len(d[m]) \in Nat
      BY DEF Apart, Positions
    <2>2. at[m] + Len(d[m]) <= Len(t)
      BY DEF Apart, LaidOut, Spans
    <2> QED BY <2>1, <2>2
  <1>3. \A m \in 1..7 : at[m] \in 1..Len(t)
    <2> SUFFICES ASSUME NEW m \in 1..7 PROVE at[m] \in 1..Len(t)
      OBVIOUS
    <2> DEFINE k == at[m]
               l == Len(d[m])
    <2>1. k \in Nat /\ k > 0 /\ l \in Nat /\ k + l <= Len(t)
      BY <1>2
    <2> HIDE DEF k, l
    <2>2. k \in 1..Len(t)
      BY <1>1, <2>1
    <2> QED BY <2>2 DEF k
  <1>4. at[1] = 1 /\ \A m \in 1..6 : at[m + 1] = (at[m] + Len(d[m])) + 1
    BY DEF Apart, Positions
  <1>5. /\ 1 + 1 = 2 /\ 2 + 1 = 3 /\ 3 + 1 = 4 /\ 4 + 1 = 5 /\ 5 + 1 = 6 /\ 6 + 1 = 7
        /\ 1 \in 1..6 /\ 2 \in 1..6 /\ 3 \in 1..6 /\ 4 \in 1..6 /\ 5 \in 1..6 /\ 6 \in 1..6
    OBVIOUS
  <1>6. /\ at[2] = (at[1] + Len(d[1])) + 1 /\ at[3] = (at[2] + Len(d[2])) + 1
        /\ at[4] = (at[3] + Len(d[3])) + 1 /\ at[5] = (at[4] + Len(d[4])) + 1
        /\ at[6] = (at[5] + Len(d[5])) + 1 /\ at[7] = (at[6] + Len(d[6])) + 1
    BY <1>4, <1>5, Zenon
  <1>7. Len(t) = at[7] + Len(d[7])
    BY DEF Apart, LaidOut
  <1>8. \A m \in 1..7 : t[at[m]] = ClauseWord[m] /\ Spans(t, at[m], d[m])
    BY DEF Apart, LaidOut
  <1> QED BY <1>1, <1>2, <1>3, <1>4, <1>6, <1>7, <1>8

(* A position holds the keyword of a clause or a word of its rest.         *)
BehindKeyword(t, at, d, j) == \E m \in 1..7 : \E k \in 1..Len(d[m]) : j = at[m] + k /\ t[j] = d[m][k]

(* Each word is a keyword or behind one.                                   *)
LEMMA ApartWord ==
    ASSUME NEW t, NEW at, NEW d, Apart(t, at, d), NEW j \in 1..Len(t)
    PROVE  KeywordPlace(t, at, j) \/ BehindKeyword(t, at, d, j)
  <1>1. PICK m \in 1..7 : j \in at[m]..(at[m] + Len(d[m]))
    BY DEF Apart, LaidOut
  <1>2. at[m] \in Nat /\ Len(d[m]) \in Nat /\ j \in Nat
    <2>1. Len(t) \in Nat
      BY ApartEnds
    <2>2. \A k \in 1..7 : at[k] \in Nat /\ Len(d[k]) \in Nat
      BY ApartEnds
    <2>3. j \in Nat
      BY <2>1
    <2> QED BY <2>2, <2>3
  <1>3. t[at[m]] = ClauseWord[m] /\ \A k \in 1..Len(d[m]) : t[at[m] + k] = d[m][k]
    BY DEF Apart, LaidOut, Spans
  <1>4. CASE j = at[m]
    BY <1>3, <1>4 DEF KeywordPlace
  <1>5. CASE j # at[m]
    <2> DEFINE k == j - at[m]
    <2>1. k \in 1..Len(d[m]) /\ j = at[m] + k
      BY <1>1, <1>2, <1>5
    <2> HIDE DEF k
    <2> QED BY <1>3, <2>1 DEF BehindKeyword
  <1> QED BY <1>4, <1>5

(* A keyword stands at the beginning of its clause and nowhere else.       *)
LEMMA ApartKeyword ==
    ASSUME NEW t, NEW at, NEW d, Apart(t, at, d), NEW m \in 1..7
    PROVE  {j \in 1..Len(t) : t[j] = ClauseWord[m]} = {at[m]}
  <1>1. at[m] \in 1..Len(t) /\ t[at[m]] = ClauseWord[m]
    BY ApartEnds
  <1>2. ASSUME NEW j \in 1..Len(t), t[j] = ClauseWord[m] PROVE j = at[m]
    <2>1. t[j] \in ClauseWords
      BY <1>2, SevenWords
    <2>2. ~BehindKeyword(t, at, d, j)
      BY <2>1 DEF Apart, BehindKeyword
    <2>3. KeywordPlace(t, at, j)
      BY <2>2, ApartWord
    <2>4. PICK n \in 1..7 : j = at[n] /\ t[j] = ClauseWord[n]
      BY <2>3 DEF KeywordPlace
    <2> QED BY <1>2, <2>4, SevenWords
  <1> QED BY <1>1, <1>2

(* A keyword that is looked for before its clause is found there.          *)
LEMMA ApartFound ==
    ASSUME NEW t, NEW at, NEW d, Apart(t, at, d), NEW m \in 1..7, NEW k \in Nat, k < at[m]
    PROVE  FirstAfter(t, {ClauseWord[m]}, k) = at[m] /\ at[m] \in DOMAIN t
  <1>1. /\ Len(t) \in Nat /\ at[m] \in Nat /\ at[m] \in 1..Len(t) /\ DOMAIN t = 1..Len(t)
    BY ApartEnds
  <1>2. {j \in 1..Len(t) : t[j] = ClauseWord[m]} = {at[m]}
    BY ApartKeyword
  <1>3. t[at[m]] \in {ClauseWord[m]}
    BY <1>2
  <1> DEFINE n == at[m]
             W == {ClauseWord[m]}
  <1>4. n \in (k + 1)..Len(t) /\ t[n] \in W
    BY <1>1, <1>3
  <1>5. \A j \in (k + 1)..Len(t) : t[j] \in W => n <= j
    <2> SUFFICES ASSUME NEW j \in (k + 1)..Len(t), t[j] = ClauseWord[m] PROVE n <= j
      OBVIOUS
    <2>1. j \in 1..Len(t)
      BY <1>1
    <2>2. j = n
      BY <1>2, <2>1
    <2> QED BY <1>1, <2>2
  <1> HIDE DEF n, W
  <1>6. FirstAfter(t, W, k) = n
    BY <1>1, <1>4, <1>5, FirstIs
  <1> QED BY <1>1, <1>6 DEF n, W

(* The rest of a clause between its keyword and the next, from k on, is    *)
(* what _extract_clause_after finds.                                       *)
LEMMA ApartCut ==
    ASSUME NEW t, NEW at, NEW d, Apart(t, at, d), NEW m \in 4..6, NEW S, t \in Seq(S),
           NEW k \in Nat, NEW x \in Seq(S), Spans(t, k, x), at[m + 1] = (k + Len(x)) + 1,
           \A j \in 1..Len(x) : x[j] \notin ClauseBoundaries
    PROVE  ClauseAfter(t, k) = x
  <1>1. m + 1 \in 1..7 /\ (m + 1 = 5 \/ m + 1 = 6 \/ m + 1 = 7)
    OBVIOUS
  <1> DEFINE n == m + 1
  <1>2. n \in 1..7 /\ (n = 5 \/ n = 6 \/ n = 7)
    BY <1>1
  <1> HIDE DEF n
  <1>3. t[at[n]] = ClauseWord[n] /\ ClauseWord[n] \in {"GROUP", "HAVING", "ORDER"}
    BY <1>2, ApartEnds, SevenWords
  <1>4. t[at[n]] \in ClauseBoundaries
    BY <1>3 DEF ClauseBoundaries
  <1>5. t[k + Len(x) + 1] \in ClauseBoundaries
    BY <1>4 DEF n
  <1>6. SubSeq(t, k + 1, FirstAfter(t, ClauseBoundaries, k) - 1) = x
    BY <1>5, ClauseCut
  <1> QED BY <1>6 DEF ClauseAfter

(* There is no semicolon to drop.                                          *)
LEMMA RenderKept ==
    ASSUME NEW q \in Query, Grammatical(q)
    PROVE  Cleaned(Render(q)) = Render(q)
  <1>1. "ON" # Semicolon /\ "GROUP" # Semicolon /\ "HAVING" # Semicolon /\ "ORDER" # Semicolon
    BY SemicolonIs DEF Vocabulary, ReservedWords
  <1>2. \A k \in DOMAIN Canonical(Render(q)) : Canonical(Render(q))[k] # Semicolon
    BY <1>1, KeywordNeedsClause
  <1>3. ~Occur(Canonical(Render(q)), {";"})
    BY <1>2, Zenon DEF Occur, Semicolon
  <1> QED BY <1>3, CleanedOnce

(* A table reference of a text that is folded later: FROM or JOIN and a    *)
(* word behind it.                                                         *)
BeginsWithWord(x) == Len(x) > 0 /\ Fold(x[1]) \notin Punctuation \cup Numerals
RefIn(x, j) ==
    /\ j \in 1..Len(x) /\ j + 1 \in 1..Len(x) /\ Fold(x[j]) \in {"FROM", "JOIN"}
    /\ Fold(x[j + 1]) \notin Punctuation \cup Numerals

(* A reference to a table in a part is one in the text.                    *)
LEMMA RefsConcat ==
    ASSUME NEW S, NEW a \in Seq(S), NEW b \in Seq(S)
    PROVE  /\ \A j : RefIn(a, j) => RefIn(a \o b, j)
           /\ \A j : RefIn(b, j) => RefIn(a \o b, Len(a) + j)
  <1> DEFINE c == a \o b
  <1>1. /\ Len(a) \in Nat /\ Len(b) \in Nat /\ Len(c) = Len(a) + Len(b)
        /\ \A i \in 1..Len(a) : c[i] = a[i]
        /\ \A i \in 1..Len(b) : c[Len(a) + i] = b[i]
    <2>1. Len(a) \in Nat /\ Len(b) \in Nat /\ Len(c) = Len(a) + Len(b) /\ Spans(c, 0, a) /\ Spans(c, Len(a), b)
      BY SpansConcat
    <2>2. \A i \in 1..Len(a) : c[0 + i] = a[i] /\ 0 + i = i
      BY <2>1 DEF Spans
    <2> QED BY <2>1, <2>2 DEF Spans
  <1> HIDE DEF c
  <1>2. ASSUME NEW j, RefIn(a, j) PROVE RefIn(c, j)
    BY <1>1, <1>2 DEF RefIn
  <1>3. ASSUME NEW j, RefIn(b, j) PROVE RefIn(c, Len(a) + j)
    <2> DEFINE l == Len(a)
    <2>1. l \in Nat /\ j \in 1..Len(b) /\ j + 1 \in 1..Len(b) /\ Len(b) \in Nat /\ Len(c) = l + Len(b)
      BY <1>1, <1>3 DEF RefIn
    <2> HIDE DEF l
    <2>2. l + j \in 1..Len(c) /\ (l + j) + 1 \in 1..Len(c) /\ (l + j) + 1 = l + (j + 1)
      BY <2>1
    <2>3. c[l + j] = b[j] /\ c[l + (j + 1)] = b[j + 1]
      BY <1>1, <2>1 DEF l
    <2>4. RefIn(c, l + j)
      BY <1>3, <2>2, <2>3 DEF RefIn
    <2> QED BY <2>4 DEF l
  <1> QED BY <1>2, <1>3 DEF c

(* A clause of FROM or JOIN adds a reference at its keyword.               *)
LEMMA RefPut ==
    ASSUME NEW S, NEW a \in Seq(S), NEW w \in S, NEW x \in Seq(S), Fold(w) \in {"FROM", "JOIN"},
           BeginsWithWord(x)
    PROVE  Put(a, w, x) \in Seq(S) /\ RefIn(Put(a, w, x), Len(a) + 1) /\ Len(a) \in Nat
  <1> DEFINE c == Put(a, w, x)
             l == Len(a) + 1
  <1>1. /\ c \in Seq(S) /\ Len(a) \in Nat /\ Len(x) \in Nat /\ Len(c) = l + Len(x)
        /\ c[l] = w /\ Spans(c, l, x)
    BY ClausePutBehind
  <1>2. l \in Nat /\ l > 0
    BY <1>1
  <1> HIDE DEF c, l
  <1>3. Len(x) > 0 /\ 1 \in 1..Len(x)
    BY <1>1 DEF BeginsWithWord
  <1>4. c[l + 1] = x[1]
    BY <1>1, <1>3 DEF Spans
  <1>5. RefIn(c, l)
    BY <1>1, <1>2, <1>3, <1>4 DEF RefIn, BeginsWithWord
  <1> QED BY <1>1, <1>5 DEF c, l

(* Every table of the grammar begins with a word.                          *)
LEMMA TableBegins ==
    ASSUME NEW table \in Table, NamesTable(table)
    PROVE  /\ TableRef(table) \in Seq(Symbols) /\ BeginsWithWord(TableRef(table))
           /\ Fold(table.name) \notin Punctuation \cup Numerals \cup Cutting
           /\ Fold(table.alias) \notin Punctuation \cup Numerals \cup Cutting
           /\ Canonical(TableRef(table)) = RefText(table.schema, Fold(table.name), Fold(table.alias))
           /\ table.schema \in BOOLEAN
  <1> DEFINE n == Fold(table.name)
             a == Fold(table.alias)
             x == TableRef(table)
             y == Canonical(x)
  <1>1. n \notin Punctuation \cup Numerals \cup Cutting /\ a \notin Punctuation \cup Numerals \cup Cutting
    BY WordIs DEF Table, NamesTable
  <1>2. table.schema \in BOOLEAN /\ y = RefText(table.schema, n, a)
    BY TableFolded DEF Is
  <1>3. x \in Seq(Symbols)
    <2>1. x \in Seq(Over(Cutting)) /\ Over(Cutting) \subseteq Symbols
      BY TableIsPlain DEF Plainly, Over
    <2> QED BY <2>1, SeqMonotonic
  <1> HIDE DEF x
  <1>4. /\ Len(y) = Len(x) /\ Len(x) \in Nat /\ \A j \in 1..Len(x) : y[j] = Fold(x[j])
    BY <1>3, CanonicalLen, LenProperties DEF Canonical
  <1> HIDE DEF n, a, y
  <1>5. Len(y) > 0 /\ y[1] \in {"Production", n}
    <2>1. CASE table.schema
      <3>1. y = <<"Production", ".", n, "AS", a>>
        BY <1>2, <2>1 DEF RefText
      <3> QED BY <3>1
    <2>2. CASE ~table.schema
      <3>1. y = <<n, "AS", a>>
        BY <1>2, <2>2 DEF RefText
      <3> QED BY <3>1
    <2> QED BY <2>1, <2>2
  <1>6. y[1] \notin Punctuation \cup Numerals
    BY <1>1, <1>5, TablesAreWords
  <1>7. BeginsWithWord(x)
    BY <1>4, <1>5, <1>6 DEF BeginsWithWord
  <1> QED BY <1>1, <1>2, <1>3, <1>7 DEF n, a, x, y

(* The clause of FROM begins with its first table.                         *)
LEMMA TablesBegin ==
    ASSUME NEW q \in Query, Grammatical(q)
    PROVE  /\ Separated(Tables(q)) \in Seq(Symbols) /\ BeginsWithWord(Separated(Tables(q)))
           /\ Spans(Separated(Tables(q)), 0, TableRef(q.tables[1]))
           /\ q.tables[1] \in Table /\ NamesTable(q.tables[1])
  <1> DEFINE items == Tables(q)
             x == Separated(items)
             y == TableRef(q.tables[1])
  <1>1. items \in Seq(Seq(Symbols)) /\ q.tables \in Seq(Table)
    BY PartsAreTexts DEF Text
  <1>2. Comma \in Symbols
    BY CommaIsThere
  <1>3. Len(items) # 0 /\ 1 \in DOMAIN q.tables /\ items[1] = y /\ q.tables[1] \in Table
    <2>1. Len(q.tables) \in Nat /\ DOMAIN q.tables = 1..Len(q.tables) /\ q.tables # <<>>
      BY <1>1, LenProperties DEF Grammatical
    <2>2. Len(q.tables) # 0
      BY <1>1, <2>1, EmptySeq
    <2>3. 1 \in 1..Len(q.tables)
      BY <2>1, <2>2
    <2>4. items[1] = y /\ 1 \in DOMAIN items
      BY <2>1, <2>3 DEF Tables
    <2>5. q.tables[1] \in Table
      BY <1>1, <2>3, ElementOfSeq
    <2> HIDE DEF items, y
    <2>6. DOMAIN items = 1..Len(items)
      BY <1>1, LenProperties
    <2>7. Len(items) # 0
      BY <2>4, <2>6
    <2> QED BY <2>1, <2>3, <2>4, <2>5, <2>7
  <1>4. NamesTable(q.tables[1])
    BY <1>3 DEF Grammatical
  <1>5. y \in Seq(Symbols) /\ BeginsWithWord(y)
    BY <1>3, <1>4, TableBegins
  <1> HIDE DEF items
  <1>6. x \in Seq(Symbols) /\ Spans(x, 0, items[1])
    BY <1>1, <1>2, <1>3, CommasAre, BeginsWithFirst
  <1>7. Spans(x, 0, y)
    BY <1>3, <1>6
  <1> HIDE DEF x, y
  <1>8. Len(y) > 0 /\ Len(y) \in Nat /\ Len(x) \in Nat
    BY <1>5, <1>6, LenProperties DEF BeginsWithWord
  <1>9. Len(x) > 0 /\ x[1] = y[1]
    <2>1. 1 \in 1..Len(y) /\ 0 + 1 = 1
      BY <1>8
    <2>2. x[0 + 1] = y[1] /\ 0 + Len(y) <= Len(x)
      BY <1>7, <2>1 DEF Spans
    <2> QED BY <1>8, <2>1, <2>2
  <1>10. BeginsWithWord(x)
    BY <1>5, <1>9 DEF BeginsWithWord
  <1> QED BY <1>3, <1>4, <1>6, <1>7, <1>10 DEF x, y, items

(* Every join has a table reference.                                       *)
LEMMA JoinHasRef ==
    ASSUME NEW q \in Query, Grammatical(q), NEW k \in 1..Len(q.joins)
    PROVE  \E j : RefIn(Joined(q.joins[k]), j)
  <1> DEFINE join == q.joins[k]
             kind == join.kind
             on == join.on
             table == TableRef(join.table)
  <1>1. k \in DOMAIN q.joins /\ join \in [kind : Text, table : Table, on : Text]
    <2>1. q.joins \in Seq([kind : Text, table : Table, on : Text])
      BY PartsAreTexts
    <2> QED BY <2>1, LenProperties, ElementOfSeq
  <1>2. NamesTable(join.table)
    BY <1>1 DEF Grammatical
  <1>3. kind \in Seq(Symbols) /\ on \in Seq(Symbols) /\ join.table \in Table
    BY <1>1 DEF Text
  <1>4. table \in Seq(Symbols) /\ BeginsWithWord(table)
    BY <1>2, <1>3, TableBegins
  <1>5. Joined(join) = (Put(kind, "JOIN", table) \o <<"ON">>) \o on
    BY DEF Joined, Put
  <1> HIDE DEF join, kind, on, table
  <1>6. "JOIN" \in Symbols /\ <<"ON">> \in Seq(Symbols) /\ Fold("JOIN") = "JOIN"
    <2>1. "JOIN" \in Symbols /\ "ON" \in Symbols
      BY GateAssumption
    <2>2. Fold("JOIN") = "JOIN"
      BY FoldedNames DEF Vocabulary, ReservedWords
    <2> QED BY <2>1, <2>2, ShortTexts
  <1> DEFINE a == Put(kind, "JOIN", table)
             b == <<"ON">>
             c == a \o b
  <1>7. a \in Seq(Symbols) /\ RefIn(a, Len(kind) + 1)
    BY <1>3, <1>4, <1>6, RefPut
  <1>8. b \in Seq(Symbols)
    BY <1>6
  <1> HIDE DEF a, b
  <1>9. c \in Seq(Symbols) /\ RefIn(c, Len(kind) + 1)
    BY <1>7, <1>8, RefsConcat, ConcatProperties
  <1> HIDE DEF c
  <1>10. RefIn(c \o on, Len(kind) + 1)
    BY <1>3, <1>9, RefsConcat
  <1> QED BY <1>5, <1>10 DEF c, a, b, join

(* Two joins have two.                                                     *)
LEMMA TwoInJoins ==
    ASSUME NEW q \in Query, Grammatical(q), Len(q.joins) > 1
    PROVE  \E a, b : /\ a # b /\ RefIn(FlattenSeq(JoinedTables(q)), a)
                     /\ RefIn(FlattenSeq(JoinedTables(q)), b)
  <1> DEFINE s == JoinedTables(q)
             n == Len(s)
  <1>1. s \in Seq(Seq(Symbols)) /\ q.joins \in Seq([kind : Text, table : Table, on : Text])
    BY PartsAreTexts DEF Text
  <1>2. Len(q.joins) \in Nat /\ DOMAIN q.joins = 1..Len(q.joins) /\ DOMAIN s = DOMAIN q.joins
    BY <1>1, LenProperties DEF JoinedTables
  <1>3. n \in Nat /\ DOMAIN s = 1..n
    <2> HIDE DEF s
    <2> QED BY <1>1, LenProperties
  <1>4. n = Len(q.joins)
    <2> HIDE DEF s
    <2> QED BY <1>2, <1>3, SameLength
  <1>5. ASSUME NEW k \in 1..n PROVE s[k] \in Seq(Symbols) /\ \E j : RefIn(s[k], j)
    <2>1. k \in 1..Len(q.joins) /\ k \in DOMAIN q.joins
      BY <1>2, <1>4
    <2>2. s[k] = Joined(q.joins[k])
      BY <2>1 DEF JoinedTables
    <2>3. \E j : RefIn(Joined(q.joins[k]), j)
      BY <2>1, JoinHasRef
    <2>4. s[k] \in Seq(Symbols)
      <3> HIDE DEF s
      <3> QED BY <1>1, ElementOfSeq
    <2> HIDE DEF s
    <2> QED BY <2>2, <2>3, <2>4
  <1> HIDE DEF s
  <1>6. PICK f \in [1..n -> Seq(Symbols)] : Joins(f, s) /\ FlattenSeq(s) = f[n]
    <2>1. n # 0
      BY <1>3, <1>4
    <2> QED BY <1>1, <2>1, Flattened
  <1> DEFINE m == n - 1
  <1>7. m \in 1..n /\ n \in 1..n /\ n # 1 /\ (m # 1 => m - 1 \in 1..n)
    <2>1. n \in Nat /\ n > 1
      BY <1>3, <1>4
    <2> HIDE DEF n
    <2> QED BY <2>1
  <1>8. f[n] = f[m] \o s[n] /\ f[m] = IF m = 1 THEN s[m] ELSE f[m - 1] \o s[m]
    <2>1. \A k \in 1..n : f[k] = IF k = 1 THEN s[k] ELSE f[k - 1] \o s[k]
      BY <1>6 DEF Joins
    <2> QED BY <1>7, <2>1
  <1> HIDE DEF m, n
  <1>9. \E j : RefIn(f[m], j)
    <2>1. PICK j : RefIn(s[m], j)
      BY <1>5, <1>7
    <2>2. CASE m = 1
      BY <1>8, <2>1, <2>2
    <2>3. CASE m # 1
      <3> DEFINE a == f[m - 1]
                 b == s[m]
      <3>1. a \in Seq(Symbols) /\ b \in Seq(Symbols) /\ RefIn(b, j) /\ f[m] = a \o b
        BY <1>5, <1>6, <1>7, <1>8, <2>1, <2>3
      <3> HIDE DEF a, b
      <3>2. RefIn(a \o b, Len(a) + j)
        BY <3>1, RefsConcat
      <3> QED BY <3>1, <3>2
    <2> QED BY <2>2, <2>3
  <1> DEFINE a == f[m]
             b == s[n]
  <1>10. a \in Seq(Symbols) /\ b \in Seq(Symbols) /\ f[n] = a \o b /\ FlattenSeq(s) = f[n]
    BY <1>5, <1>6, <1>7, <1>8
  <1>11. PICK j : RefIn(a, j)
    BY <1>9
  <1>12. PICK k : RefIn(b, k)
    BY <1>5, <1>7
  <1> HIDE DEF a, b
  <1>13. RefIn(a \o b, j) /\ RefIn(a \o b, Len(a) + k)
    BY <1>10, <1>11, <1>12, RefsConcat
  <1>14. j # Len(a) + k
    <2>1. Len(a) \in Nat /\ Len(b) \in Nat
      BY <1>10, LenProperties
    <2> QED BY <1>11, <1>12, <2>1 DEF RefIn
  <1>15. FlattenSeq(s) = a \o b
    BY <1>10
  <1> QED BY <1>13, <1>14, <1>15 DEF s

(* The tables of the query are read one by one.                            *)
LEMMA ThreeRefs ==
    ASSUME NEW q \in Query, Grammatical(q), Len(q.joins) > 1
    PROVE  \E a, b, c : /\ a # b /\ a # c /\ b # c
                        /\ RefIn(Render(q), a) /\ RefIn(Render(q), b) /\ RefIn(Render(q), c)
  <1> DEFINE h == <<"SELECT", "TOP">> \o q.top \o Separated(Outputs(q))
             tables == Separated(Tables(q))
             joins == FlattenSeq(JoinedTables(q))
             where == Clause(<<"WHERE">>, q.where)
             group == Clause(<<"GROUP", "BY">>, Separated(q.group))
             having == Clause(<<"HAVING">>, q.having)
             order == Clause(<<"ORDER", "BY">>, Separated(SortKeys(q)))
             a == Put(h, "FROM", tables)
             T == Seq(Symbols)
  <1>1. Render(q) = a \o joins \o where \o group \o having \o order
    BY DEF Render, Outputs, Tables, JoinedTables, SortKeys, Put
  <1>2. /\ h \in T /\ tables \in T /\ joins \in T /\ where \in T /\ group \in T /\ having \in T /\ order \in T
        /\ "FROM" \in Symbols
    <2>1. \A x, y \in T : x \o y \in T
      BY ConcatProperties
    <2>2. /\ <<"SELECT", "TOP">> \in T /\ <<"WHERE">> \in T /\ <<"GROUP", "BY">> \in T
          /\ <<"HAVING">> \in T /\ <<"ORDER", "BY">> \in T /\ "FROM" \in Symbols
      BY GateAssumption, ShortTexts
    <2>3. /\ q.top \in T /\ q.where \in T /\ q.having \in T /\ Outputs(q) \in Seq(T) /\ Tables(q) \in Seq(T)
          /\ q.group \in Seq(T) /\ SortKeys(q) \in Seq(T) /\ JoinedTables(q) \in Seq(T)
      BY PartsAreTexts DEF Text
    <2>4. joins \in T
      BY <2>3, FlattenSeqType
    <2>5. "," \in Symbols
      BY GateAssumption
    <2>6. Separated(Outputs(q)) \in T /\ tables \in T /\ Separated(q.group) \in T /\ Separated(SortKeys(q)) \in T
      BY <2>3, <2>5, SeparatedType, Zenon
    <2>7. where \in T /\ group \in T /\ having \in T /\ order \in T
      BY <2>2, <2>3, <2>6, ClauseOver
    <2>8. h \in T
      <3> DEFINE u == <<"SELECT", "TOP">>
                 v == q.top
                 w == Separated(Outputs(q))
      <3>1. u \in T /\ v \in T /\ w \in T
        BY <2>2, <2>3, <2>6
      <3> HIDE DEF T, u, v, w
      <3>2. (u \o v) \o w \in T
        BY <2>1, <3>1
      <3> QED BY <3>2 DEF u, v, w
    <2> QED BY <2>2, <2>4, <2>6, <2>7, <2>8
  <1>3. BeginsWithWord(tables)
    BY TablesBegin
  <1>4. \E x, y : x # y /\ RefIn(joins, x) /\ RefIn(joins, y)
    BY TwoInJoins
  <1>5. Fold("FROM") = "FROM"
    BY FoldedNames DEF Vocabulary, ReservedWords
  <1> HIDE DEF h, tables, joins, where, group, having, order
  <1>6. a \in T /\ RefIn(a, Len(h) + 1)
    BY <1>2, <1>3, <1>5, RefPut
  <1> HIDE DEF a
  <1> DEFINE b == a \o joins
             k == Len(a)
  <1>7. PICK x, y : x # y /\ RefIn(joins, x) /\ RefIn(joins, y)
    BY <1>4
  <1>8. b \in T /\ RefIn(b, Len(h) + 1) /\ RefIn(b, k + x) /\ RefIn(b, k + y)
    BY <1>2, <1>6, <1>7, RefsConcat, ConcatProperties
  <1>9. Len(h) + 1 # k + x /\ Len(h) + 1 # k + y /\ k + x # k + y
    <2>1. k \in Nat /\ Len(joins) \in Nat
      BY <1>2, <1>6, LenProperties
    <2>2. Len(h) + 1 \in 1..k /\ x \in 1..Len(joins) /\ y \in 1..Len(joins)
      BY <1>6, <1>7 DEF RefIn
    <2> DEFINE r == Len(h) + 1
               l == Len(joins)
    <2>3. k \in Nat /\ l \in Nat /\ r \in 1..k /\ x \in 1..l /\ y \in 1..l
      BY <2>1, <2>2
    <2> HIDE DEF k, l, r
    <2>4. r # k + x /\ r # k + y /\ k + x # k + y
      BY <1>7, <2>3
    <2> QED BY <2>4 DEF r
  <1> HIDE DEF b, k
  <1>10. ASSUME NEW j, RefIn(b, j) PROVE RefIn(b \o where \o group \o having \o order, j)
    <2> DEFINE c == b \o where
               d == c \o group
               e == d \o having
    <2>1. c \in T /\ RefIn(c, j)
      BY <1>2, <1>8, <1>10, RefsConcat, ConcatProperties
    <2> HIDE DEF c
    <2>2. d \in T /\ RefIn(d, j)
      BY <1>2, <2>1, RefsConcat, ConcatProperties
    <2> HIDE DEF d
    <2>3. e \in T /\ RefIn(e, j)
      BY <1>2, <2>2, RefsConcat, ConcatProperties
    <2> HIDE DEF e
    <2>4. RefIn(e \o order, j)
      BY <1>2, <2>3, RefsConcat
    <2> QED BY <2>4 DEF c, d, e
  <1>11. Render(q) = b \o where \o group \o having \o order
    BY <1>1 DEF b
  <1> QED BY <1>8, <1>9, <1>10, <1>11

(* Three references are one too many.                                      *)
LEMMA OneJoin ==
    ASSUME NEW q \in Query, Grammatical(q), TablesAreApproved(Canonical(Render(q)), {})
    PROVE  Len(q.joins) \in {0, 1}
  <1> DEFINE s == Render(q)
             t == Canonical(s)
  <1>1. s \in Seq(Symbols)
    BY RenderType DEF Text
  <1>2. Len(q.joins) \in Nat
    <2>1. q.joins \in Seq([kind : Text, table : Table, on : Text])
      BY PartsAreTexts
    <2> QED BY <2>1, LenProperties
  <1>3. SUFFICES ~(Len(q.joins) > 1)
    <2> DEFINE n == Len(q.joins)
    <2>1. n \in Nat /\ ~(n > 1) => n \in {0, 1}
      <3> HIDE DEF n
      <3> QED OBVIOUS
    <2> QED BY <1>2, <2>1
  <1> SUFFICES ASSUME Len(q.joins) > 1 PROVE FALSE
    OBVIOUS
  <1>4. PICK a, b, c : /\ a # b /\ a # c /\ b # c
                       /\ RefIn(s, a) /\ RefIn(s, b) /\ RefIn(s, c)
    BY ThreeRefs
  <1> HIDE DEF s
  <1>5. /\ DOMAIN t = 1..Len(s) /\ \A j \in 1..Len(s) : t[j] = Fold(s[j])
    BY <1>1, LenProperties DEF Canonical
  <1>6. ASSUME NEW j, RefIn(s, j) PROVE j \in TableRefs(t, {})
    BY <1>5, <1>6 DEF RefIn, TableRefs, WordAt
  <1> HIDE DEF t
  <1>7. a \in TableRefs(t, {}) /\ b \in TableRefs(t, {}) /\ c \in TableRefs(t, {})
    BY <1>4, <1>6
  <1>8. TableAt(t, a, {}) # TableAt(t, b, {}) /\ TableAt(t, a, {}) # TableAt(t, c, {}) /\ TableAt(t, b, {}) # TableAt(t, c, {})
    BY <1>4, <1>7 DEF TablesAreApproved, TablesAreDistinct, t, s
  <1>9. TableAt(t, a, {}) \in AllowedTables /\ TableAt(t, b, {}) \in AllowedTables /\ TableAt(t, c, {}) \in AllowedTables
    BY <1>7 DEF TablesAreApproved, t, s
  <1> QED BY <1>8, <1>9 DEF AllowedTables

(* A query of the grammar with one join and all clauses the guardrail      *)
(* looks for.                                                              *)
Whole(q) ==
    /\ q \in Query /\ Grammatical(q) /\ Len(q.joins) = 1
    /\ Separated(q.group) # <<>> /\ q.having # <<>> /\ Separated(SortKeys(q)) # <<>>

(* No part of it but the keywords is a keyword.                            *)
LEMMA PartsType ==
    ASSUME NEW q, Whole(q)
    PROVE  /\ Parts(q) \in [1..7 -> Seq(Over(ClauseWords))]
           /\ Parts(q) \in [1..7 -> Seq(Symbols)]
  <1> DEFINE S == Over(ClauseWords)
             T == Seq(S)
             tp == <<"TOP">>
             by == <<"BY">>
             n == q.top
             x == Separated(Outputs(q))
             b == Separated(Tables(q))
             k == q.joins[1].kind
             s == TableRef(q.joins[1].table)
             o == q.joins[1].on
             c == Clause(<<"WHERE">>, q.where)
             g == Separated(q.group)
             h == q.having
             z == Separated(SortKeys(q))
  <1>1. ClauseWords \in SUBSET ClauseKeywords /\ "WHERE" \notin ClauseWords
    BY Zenon DEF ClauseWords, ClauseKeywords
  <1>2. Over(ClauseKeywords) \subseteq S /\ Over(Cutting) \subseteq S /\ "WHERE" \in S
        /\ "TOP" \in S /\ "BY" \in S
    BY <1>1, RenderedWords
  <1> HIDE DEF S
  <1>3. Plainly \subseteq T /\ Seq(Over(ClauseKeywords)) \subseteq T
    BY <1>2, SeqMonotonic DEF Plainly
  <1>4. tp \in T /\ by \in T /\ <<"WHERE">> \in T
    BY <1>2, ShortTexts
  <1>5. /\ n \in Plainly /\ x \in Plainly /\ b \in Plainly /\ k \in Seq(Over(ClauseKeywords)) /\ s \in Plainly
        /\ o \in Plainly /\ q.where \in Plainly /\ g \in Plainly /\ h \in Plainly /\ z \in Plainly
    <2>1. 1 \in 1..Len(q.joins)
      BY DEF Whole
    <2> QED BY <2>1, GrammaticalParts, SeparatedPlain DEF Whole
  <1>6. c \in T
    BY <1>3, <1>4, <1>5, ClauseOver
  <1>7. n \in T /\ x \in T /\ b \in T /\ k \in T /\ s \in T /\ o \in T /\ g \in T /\ h \in T /\ z \in T
    BY <1>3, <1>5
  <1>8. Monoid(T)
    BY TextsAreMonoid
  <1>9. Parts(q) = <<Cat(Cat(tp, n), x), Cat(b, k), s, Cat(o, c), Cat(by, g), h, Cat(by, z)>>
    BY DEF Parts
  <1> HIDE DEF T, tp, by, n, x, b, k, s, o, c, g, h, z
  <1>10. Parts(q) \in [1..7 -> T]
    <2> DEFINE e1 == Cat(Cat(tp, n), x)
               e2 == Cat(b, k)
               e4 == Cat(o, c)
               e5 == Cat(by, g)
               e7 == Cat(by, z)
    <2>1. Cat(tp, n) \in T /\ e2 \in T /\ e4 \in T /\ e5 \in T /\ e7 \in T
      BY <1>4, <1>6, <1>7, <1>8, InCat
    <2>2. e1 \in T
      BY <1>7, <1>8, <2>1, InCat
    <2>3. Parts(q) = <<e1, e2, s, e4, e5, h, e7>>
      BY <1>9
    <2>4. e2 \in T /\ e4 \in T /\ e5 \in T /\ e7 \in T /\ s \in T /\ h \in T
      BY <1>7, <2>1
    <2> HIDE DEF e1, e2, e4, e5, e7
    <2> QED BY <2>2, <2>3, <2>4
  <1>11. T \subseteq Seq(Symbols)
    <2>1. S \subseteq Symbols
      BY DEF S, Over
    <2> QED BY <2>1, SeqMonotonic DEF T
  <1>12. Parts(q) \in [1..7 -> Seq(Symbols)]
    BY <1>10, <1>11
  <1> QED BY <1>10, <1>12 DEF T, S

FoldedParts(q) == [m \in 1..7 |-> Canonical(Parts(q)[m])]

(* The folded rests of a query, one by one.                                *)
LEMMA FoldedPartsAre ==
    ASSUME NEW q
    PROVE  /\ FoldedParts(q)[1] = Canonical(Cat(Cat(<<"TOP">>, q.top), Separated(Outputs(q))))
           /\ FoldedParts(q)[2] = Canonical(Cat(Separated(Tables(q)), q.joins[1].kind))
           /\ FoldedParts(q)[3] = Canonical(TableRef(q.joins[1].table))
           /\ FoldedParts(q)[4] = Canonical(Cat(q.joins[1].on, Clause(<<"WHERE">>, q.where)))
           /\ FoldedParts(q)[5] = Canonical(Cat(<<"BY">>, Separated(q.group)))
           /\ FoldedParts(q)[6] = Canonical(q.having)
           /\ FoldedParts(q)[7] = Canonical(Cat(<<"BY">>, Separated(SortKeys(q))))
  <1>1. \A m \in 1..7 : FoldedParts(q)[m] = Canonical(Parts(q)[m])
    BY DEF FoldedParts
  <1>2. /\ 1 \in 1..7 /\ 2 \in 1..7 /\ 3 \in 1..7 /\ 4 \in 1..7 /\ 5 \in 1..7 /\ 6 \in 1..7
        /\ 7 \in 1..7
    OBVIOUS
  <1>3. /\ Parts(q)[1] = Cat(Cat(<<"TOP">>, q.top), Separated(Outputs(q)))
        /\ Parts(q)[2] = Cat(Separated(Tables(q)), q.joins[1].kind)
        /\ Parts(q)[3] = TableRef(q.joins[1].table)
        /\ Parts(q)[4] = Cat(q.joins[1].on, Clause(<<"WHERE">>, q.where))
        /\ Parts(q)[5] = Cat(<<"BY">>, Separated(q.group))
        /\ Parts(q)[6] = q.having
        /\ Parts(q)[7] = Cat(<<"BY">>, Separated(SortKeys(q)))
    BY DEF Parts
  <1> QED BY <1>1, <1>2, <1>3

(* It falls apart into its clauses.                                        *)
LEMMA PartsApart ==
    ASSUME NEW q, Whole(q)
    PROVE  /\ \E at : Apart(Canonical(Render(q)), at, FoldedParts(q))
           /\ Canonical(Render(q)) \in Seq(Folded(Symbols))
           /\ \A m \in 1..7 : FoldedParts(q)[m] \in Seq(Folded(Symbols))
  <1> DEFINE s == Render(q)
             t == Canonical(s)
             e == Parts(q)
             d == FoldedParts(q)
             S == Over(ClauseWords)
             U == Folded(Symbols) \ ClauseWords
  <1>1. s = Chain(e)
    BY RenderedInParts DEF Whole
  <1>2. e \in [1..7 -> Seq(S)] /\ e \in [1..7 -> Seq(Symbols)]
    BY PartsType
  <1>3. \A w \in S : Fold(w) \in U
    BY DEF Over, Folded
  <1>4. ASSUME NEW m \in 1..7
        PROVE  d[m] \in Seq(U) /\ d[m] \in Seq(Folded(Symbols))
               /\ Len(d[m]) \in Nat /\ \A j \in 1..Len(d[m]) : d[m][j] \notin ClauseWords
    <2> DEFINE x == e[m]
               y == d[m]
    <2>1. x \in Seq(S) /\ y = Canonical(x)
      BY <1>2 DEF FoldedParts
    <2> HIDE DEF x, y, S, U
    <2>2. y \in Seq(U)
      BY <1>3, <2>1, CanonicalIs
    <2>3. Len(y) \in Nat /\ \A j \in 1..Len(y) : y[j] \in U
      BY <2>2, LenProperties, ElementOfSeq
    <2>4. U \subseteq Folded(Symbols) /\ U \cap ClauseWords = {}
      BY DEF U
    <2>5. y \in Seq(Folded(Symbols))
      BY <2>2, <2>4, SeqMonotonic
    <2> QED BY <2>2, <2>3, <2>4, <2>5 DEF y
  <1>5. {ClauseWord[m] : m \in 1..7} \subseteq Symbols
    <2>1. ClauseWords \subseteq Symbols
      BY GateAssumption DEF ClauseWords
    <2> QED BY <2>1, SevenWords
  <1>6. /\ Chain(e) \in Seq(Symbols)
        /\ \E at : Positions(at, e) /\ LaidOut(Chain(e), at, e, 7)
    <2> HIDE DEF e
    <2> QED BY <1>2, <1>5, ChainLaidOut
  <1>7. PICK at : Positions(at, e) /\ LaidOut(s, at, e, 7)
    BY <1>1, <1>6
  <1>8. s \in Seq(Symbols)
    BY <1>1, <1>6
  <1>9. d = [m \in 1..7 |-> Canonical(e[m])]
    BY DEF FoldedParts
  <1> HIDE DEF s, e, d
  <1>10. Positions(at, d) /\ LaidOut(t, at, d, 7)
    <2>1. LET c == [m \in 1..7 |-> Canonical(e[m])] IN Positions(at, c) /\ LaidOut(Canonical(s), at, c, 7)
      BY <1>2, <1>7, <1>8, CanonicalLaidOut
    <2> QED BY <1>9, <2>1
  <1>11. t \in Seq(Folded(Symbols))
    <2>1. \A w \in Symbols : Fold(w) \in Folded(Symbols)
      BY DEF Folded
    <2> QED BY <1>8, <2>1, CanonicalIs
  <1> HIDE DEF t
  <1>12. Len(t) \in Nat /\ DOMAIN t = 1..Len(t)
    BY <1>11, LenProperties
  <1>13. Apart(t, at, d)
    BY <1>4, <1>10, <1>12 DEF Apart
  <1> QED BY <1>4, <1>11, <1>13 DEF s, t, d

(* What is nowhere is not found.                                           *)
LEMMA NotFound ==
    ASSUME NEW t, DOMAIN t = 1..Len(t), Len(t) \in Nat, NEW w, \A k \in DOMAIN t : t[k] # w
    PROVE  FirstAfter(t, {w}, 0) \notin DOMAIN t
  <1>1. {j \in (0 + 1)..Len(t) : t[j] \in {w}} = {}
    OBVIOUS
  <1>2. {j \in (0 + 1)..Len(t) : t[j] \in {w}} \cup {Len(t) + 1} = {Len(t) + 1}
    BY <1>1
  <1>3. Min({Len(t) + 1}) = Len(t) + 1
    BY MinIs
  <1>4. FirstAfter(t, {w}, 0) = Len(t) + 1
    BY <1>2, <1>3 DEF FirstAfter
  <1> QED BY <1>4

(* The rules that an accepted query of the grammar keeps; it has all the   *)
(* clauses.                                                                *)
Rules(t, p, i) ==
    /\ TopIsBounded(t) /\ TablesAreApproved(t, {}) /\ OrderedByProductId(t, {})
    /\ JoinAsWritten(t, p, i) /\ GroupByAsWritten(t, p) /\ HavingAsWritten(t, p, i)
    /\ SelectListAsWritten(t, p, i)

(* A part of the text t.                                                   *)
IsPart(c, t) == c = <<>> \/ \E a, b \in DOMAIN t : c = SubSeq(t, a, b)

LEMMA SliceIsPart ==
    ASSUME NEW S, NEW t \in Seq(S), NEW m \in Nat \ {0}, NEW n \in Int, n <= Len(t)
    PROVE  IsPart(SubSeq(t, m, n), t)
  <1>1. DOMAIN t = 1..Len(t) /\ Len(t) \in Nat
    BY LenProperties
  <1>2. CASE n < m
    BY <1>2, SubSeqEmpty DEF IsPart
  <1>3. CASE m <= n
    <2>1. m \in DOMAIN t /\ n \in DOMAIN t
      BY <1>1, <1>3
    <2> QED BY <2>1 DEF IsPart
  <1> QED BY <1>2, <1>3

(* A part is a text, and its parts are.                                    *)
LEMMA PartIsText ==
    ASSUME NEW S, NEW t \in Seq(S), NEW c, IsPart(c, t)
    PROVE  c \in Seq(S) /\ Len(c) \in Nat
  <1>1. CASE c = <<>>
    BY <1>1
  <1>2. ASSUME NEW a \in DOMAIN t, NEW b \in DOMAIN t, c = SubSeq(t, a, b) PROVE c \in Seq(S)
    <2>1. DOMAIN t = 1..Len(t) /\ Len(t) \in Nat
      BY LenProperties
    <2>2. a \in Int /\ b \in Int /\ \A k \in a..b : t[k] \in S
      BY <2>1, ElementOfSeq
    <2> QED BY <1>2, <2>2, SubSeqProperties
  <1>3. c \in Seq(S)
    BY <1>1, <1>2 DEF IsPart
  <1> QED BY <1>3, LenProperties

LEMMA PartOfPart ==
    ASSUME NEW S, NEW t \in Seq(S), NEW c, IsPart(c, t), NEW m \in Nat \ {0}, NEW n \in Int, n <= Len(c)
    PROVE  IsPart(SubSeq(c, m, n), t)
  <1>1. c \in Seq(S) /\ Len(c) \in Nat
    BY PartIsText
  <1>2. CASE n < m
    BY <1>2, SubSeqEmpty DEF IsPart
  <1>3. CASE m <= n
    <2>1. c # <<>>
      <3>1. Len(c) > 0
        BY <1>1, <1>3
      <3> QED BY <1>1, <3>1, HasWords
    <2>2. PICK a \in DOMAIN t, b \in DOMAIN t : c = SubSeq(t, a, b)
      BY <2>1 DEF IsPart
    <2>3. DOMAIN t = 1..Len(t) /\ Len(t) \in Nat
      BY LenProperties
    <2>4. a \in 1..Len(t) /\ b \in 1..Len(t)
      BY <2>3
    <2>5. Len(c) = IF a <= b THEN b - a + 1 ELSE 0
      <3>1. a \in Int /\ b \in Int /\ \A k \in a..b : t[k] \in S
        BY <2>3, <2>4, ElementOfSeq
      <3> QED BY <2>2, <3>1, SubSeqProperties
    <2>6. m \in 1..(b - a + 1) /\ n \in 1..(b - a + 1)
      BY <1>1, <1>3, <2>3, <2>4, <2>5
    <2>7. SubSeq(c, m, n) = SubSeq(t, a + m - 1, a + n - 1)
      <3> DEFINE d == SubSeq(c, m, n)
                 v == a + m - 1
                 w == a + n - 1
                 e == SubSeq(t, v, w)
      <3>1. /\ c \in Seq(S) /\ \A k \in 1..(b - a + 1) : c[k] = t[a + k - 1]
        <4>1. a \in Int /\ b \in Int /\ \A k \in a..b : t[k] \in S
          BY <2>3, <2>4, ElementOfSeq
        <4> QED BY <2>2, <4>1, SubSeqProperties
      <3>2. d \in Seq(S) /\ Len(d) = n - m + 1 /\ \A k \in 1..(n - m + 1) : d[k] = c[m + k - 1]
        <4>1. \A k \in m..n : c[k] \in S
          BY <1>1, ElementOfSeq
        <4> QED BY <1>3, <4>1, SubSeqProperties
      <3>3. v \in Int /\ w \in Int /\ v <= w /\ w - v + 1 = n - m + 1 /\ \A k \in v..w : t[k] \in S
        BY <1>3, <2>3, <2>4, <2>6, ElementOfSeq
      <3>4. e \in Seq(S) /\ Len(e) = n - m + 1 /\ \A k \in 1..(n - m + 1) : e[k] = t[v + k - 1]
        <4> HIDE DEF v, w
        <4> QED BY <3>3, SubSeqProperties
      <3>5. \A k \in 1..(n - m + 1) : d[k] = e[k]
        <4> SUFFICES ASSUME NEW k \in 1..(n - m + 1) PROVE d[k] = e[k]
          OBVIOUS
        <4>1. m + k - 1 \in 1..(b - a + 1) /\ a + (m + k - 1) - 1 = v + k - 1
          BY <2>4, <2>6
        <4> HIDE DEF d, e, v
        <4>2. d[k] = c[m + k - 1] /\ e[k] = t[v + k - 1] /\ c[m + k - 1] = t[a + (m + k - 1) - 1]
          BY <3>1, <3>2, <3>4, <4>1
        <4> QED BY <4>1, <4>2
      <3> HIDE DEF d, e
      <3>6. d = e
        BY <3>2, <3>4, <3>5, SeqEqual
      <3> QED BY <3>6 DEF d, e, v, w
    <2>8. a + m - 1 \in DOMAIN t /\ a + n - 1 \in DOMAIN t
      BY <2>3, <2>4, <2>6
    <2> QED BY <2>7, <2>8 DEF IsPart
  <1> QED BY <1>2, <1>3

(* The first of some positions.                                            *)
LEMMA MinWithin ==
    ASSUME NEW T \in SUBSET Nat, NEW n \in T
    PROVE  Min(T) \in T /\ Min(T) <= n
  <1>1. PICK x \in T : \A y \in T : x <= y
    BY Least
  <1>2. Min(T) = x
    BY <1>1, MinIs
  <1> HIDE DEF Min
  <1> QED BY <1>1, <1>2

LEMMA FirstWithin ==
    ASSUME NEW t, Len(t) \in Nat, NEW W, NEW k \in Nat
    PROVE  FirstAfter(t, W, k) \in Nat /\ FirstAfter(t, W, k) - 1 <= Len(t)
  <1> DEFINE T == {j \in (k + 1)..Len(t) : t[j] \in W} \cup {Len(t) + 1}
  <1>1. T \in SUBSET Nat /\ Len(t) + 1 \in T
    OBVIOUS
  <1>2. FirstAfter(t, W, k) = Min(T)
    BY DEF FirstAfter
  <1> HIDE DEF T
  <1>3. Min(T) \in T /\ Min(T) <= Len(t) + 1
    BY <1>1, MinWithin
  <1> HIDE DEF Min
  <1>4. Min(T) \in Nat
    BY <1>1, <1>3, Zenon
  <1>5. Min(T) - 1 <= Len(t)
    BY <1>3, <1>4
  <1> QED BY <1>2, <1>4, <1>5, Zenon

(* Clauses, lists and items are parts.                                     *)
LEMMA ClauseIsPart ==
    ASSUME NEW S, NEW t \in Seq(S), NEW k \in Nat
    PROVE  IsPart(ClauseAfter(t, k), t)
  <1>1. Len(t) \in Nat
    BY LenProperties
  <1>2. /\ FirstAfter(t, ClauseBoundaries, k) \in Nat
        /\ FirstAfter(t, ClauseBoundaries, k) - 1 <= Len(t)
    BY <1>1, FirstWithin
  <1> DEFINE n == FirstAfter(t, ClauseBoundaries, k) - 1
             m == k + 1
  <1>3. n \in Int /\ n <= Len(t) /\ m \in Nat \ {0}
    BY <1>2
  <1>4. ClauseAfter(t, k) = SubSeq(t, m, n)
    BY DEF ClauseAfter
  <1> HIDE DEF n, m
  <1> QED BY <1>3, <1>4, SliceIsPart

LEMMA ItemIsPart ==
    ASSUME NEW S, NEW t \in Seq(S), NEW c, IsPart(c, t), NEW cut \in Cuts(c)
    PROVE  IsPart(ItemAfter(c, Cuts(c), cut), t)
  <1>1. c \in Seq(S) /\ Len(c) \in Nat
    BY PartIsText
  <1>2. DOMAIN c = 1..Len(c)
    BY <1>1, LenProperties
  <1>3. Cuts(c) \in SUBSET Nat
    <2>1. 0 \in Nat /\ \A k \in DOMAIN c : k \in Nat
      BY <1>2
    <2> QED BY <2>1, Zenon DEF Cuts
  <1> DEFINE T == {k \in Cuts(c) : k > cut} \cup {Len(c) + 1}
             m == cut + 1
             n == Min(T) - 1
  <1>4. T \in SUBSET Nat /\ Len(c) + 1 \in T
    BY <1>1, <1>3
  <1>5. Min(T) \in Nat /\ Min(T) <= Len(c) + 1
    <2> HIDE DEF T, Min
    <2> QED BY <1>4, MinWithin
  <1>6. ItemAfter(c, Cuts(c), cut) = SubSeq(c, m, n)
    BY DEF ItemAfter
  <1>7. m \in Nat \ {0} /\ n \in Int /\ n <= Len(c)
    <2> HIDE DEF T, Min
    <2> QED BY <1>1, <1>3, <1>5
  <1> HIDE DEF m, n
  <1> QED BY <1>1, <1>6, <1>7, PartOfPart

(* No words side by side make up an approved expression over p and i.      *)
Kept(t, p, i) ==
    \A a, b \in DOMAIN t :
        SideBySide(SubSeq(t, a, b)) => RunTogether(SubSeq(t, a, b)) \notin ApprovedTexts(p, i)

LEMMA PartIsKept ==
    ASSUME NEW t, NEW p, NEW i, Kept(t, p, i), NEW c, IsPart(c, t), Squeezed(c) \in ApprovedTexts(p, i)
    PROVE  Squeezed(c) = c
  <1> SUFFICES ASSUME SideBySide(c) PROVE FALSE
    BY DEF Squeezed
  <1>1. RunTogether(c) \in ApprovedTexts(p, i)
    BY DEF Squeezed
  <1>2. c # <<>>
    <2> SUFFICES ASSUME c = <<>> PROVE FALSE
      OBVIOUS
    <2>1. Len(c) = 0
      OBVIOUS
    <2>2. 1..(Len(c) - 1) = {}
      BY <2>1
    <2> QED BY <2>2 DEF SideBySide
  <1> QED BY <1>1, <1>2 DEF Kept, IsPart

(* An output column is written as it is read.                              *)
LEMMA ReadIsNamed ==
    ASSUME NEW S, NEW t \in Seq(S), NEW p, NEW i, Kept(t, p, i), NEW d, IsPart(d, t),
           ReadItem(d) \in OutputColumns(p, i)
    PROVE  d = Named(ReadItem(d)[1], ReadItem(d)[2])
  <1> DEFINE x == SubSeq(d, 1, Len(d) - 2)
             y == <<"AS", d[Len(d)]>>
  <1>1. d \in Seq(S) /\ Len(d) \in Nat
    BY PartIsText
  <1>2. /\ \A column \in OutputColumns(p, i) : column[1] \in ApprovedTexts(p, i)
        /\ <<>> \notin OutputColumns(p, i)
    <2>1. \A c \in RequiredGroupByColumns : Column(p, c) \in ApprovedTexts(p, i)
      BY DEF ApprovedTexts, GroupKeys
    <2>2. SumOf(Column(i, "Quantity")) \in ApprovedTexts(p, i)
      BY DEF ApprovedTexts
    <2>3. \A column \in OutputColumns(p, i) : column[1] \in ApprovedTexts(p, i)
      BY <2>1, <2>2 DEF OutputColumns
    <2>4. <<>> \notin OutputColumns(p, i)
      BY DEF OutputColumns
    <2> QED BY <2>3, <2>4
  <1>3. Len(d) > 2 /\ d[Len(d) - 1] = "AS" /\ ReadItem(d) = <<Squeezed(x), d[Len(d)]>>
    BY <1>2 DEF ReadItem, Last
  <1>4. IsPart(x, t)
    <2>1. 1 \in Nat \ {0} /\ Len(d) - 2 \in Int /\ Len(d) - 2 <= Len(d)
      BY <1>1
    <2> QED BY <2>1, PartOfPart
  <1>5. Squeezed(x) = x
    <2>1. Squeezed(x) \in ApprovedTexts(p, i)
      <3> HIDE DEF x
      <3> QED BY <1>2, <1>3
    <2> HIDE DEF x
    <2> QED BY <1>4, <2>1, PartIsKept
  <1>6. ReadItem(d)[1] = x /\ ReadItem(d)[2] = d[Len(d)]
    <2> HIDE DEF x
    <2> QED BY <1>3, <1>5
  <1>7. d = x \o y
    <2>1. /\ x \in Seq(S) /\ Len(x) = Len(d) - 2 /\ \A k \in 1..(Len(d) - 2) : x[k] = d[k]
      <3>1. \A k \in 1..(Len(d) - 2) : d[k] \in S
        BY <1>1, ElementOfSeq
      <3> QED BY <1>1, <1>3, <3>1, SubSeqProperties
    <2>2. y \in Seq(S) /\ Len(y) = 2 /\ y[1] = d[Len(d) - 1] /\ y[2] = d[Len(d)]
      <3>1. d[Len(d) - 1] \in S /\ d[Len(d)] \in S
        BY <1>1, <1>3, ElementOfSeq
      <3> QED BY <1>3, <3>1, ShortTexts
    <2> HIDE DEF x, y
    <2>3. /\ x \o y \in Seq(S) /\ Len(x \o y) = Len(x) + Len(y)
          /\ \A k \in 1..(Len(x) + Len(y)) : (x \o y)[k] = IF k <= Len(x) THEN x[k] ELSE y[k - Len(x)]
      BY <2>1, <2>2, ConcatProperties
    <2>4. \A k \in 1..Len(d) : d[k] = (x \o y)[k]
      <3> SUFFICES ASSUME NEW k \in 1..Len(d) PROVE d[k] = (x \o y)[k]
        OBVIOUS
      <3>1. (x \o y)[k] = IF k <= Len(d) - 2 THEN x[k] ELSE y[k - (Len(d) - 2)]
        BY <1>1, <1>3, <2>1, <2>2, <2>3
      <3>2. k \in 1..(Len(d) - 2) \/ k = Len(d) - 1 \/ k = Len(d)
        BY <1>1, <1>3
      <3>3. CASE k \in 1..(Len(d) - 2)
        BY <1>1, <2>1, <3>1, <3>3
      <3>4. CASE k = Len(d) - 1
        BY <1>1, <2>2, <3>1, <3>4
      <3>5. CASE k = Len(d)
        BY <1>1, <2>2, <3>1, <3>5
      <3> QED BY <3>2, <3>3, <3>4, <3>5
    <2> QED BY <1>1, <1>3, <2>1, <2>2, <2>3, <2>4, SeqEqual
  <1> QED BY <1>6, <1>7 DEF Named

(* What passes was written so.                                             *)
LEMMA ApprovedIsWritten ==
    ASSUME NEW S, NEW t \in Seq(S), NEW p, NEW i, Kept(t, p, i),
           JoinIsApproved(t, p, i), GroupByIsApproved(t, p),
           HavingIsApproved(t, p, i), SelectListIsApproved(t, p, i)
    PROVE  /\ JoinAsWritten(t, p, i) /\ GroupByAsWritten(t, p)
           /\ HavingAsWritten(t, p, i) /\ SelectListAsWritten(t, p, i)
  <1>1. /\ JoinPredicates(p, i) \subseteq ApprovedTexts(p, i)
        /\ HavingPredicate(p, i) \in ApprovedTexts(p, i)
        /\ GroupKeys(p) \subseteq ApprovedTexts(p, i)
    BY DEF ApprovedTexts
  <1>2. DOMAIN t = 1..Len(t) /\ Len(t) \in Nat
    BY LenProperties
  <1>3. JoinAsWritten(t, p, i)
    <2> DEFINE on == FirstAfter(t, {"ON"}, 0)
               c == ClauseAfter(t, on)
    <2>1. on \in DOMAIN t /\ Squeezed(c) \in JoinPredicates(p, i)
      BY DEF JoinIsApproved
    <2>2. IsPart(c, t)
      BY <1>2, <2>1, ClauseIsPart
    <2> HIDE DEF c
    <2>3. Squeezed(c) = c
      BY <1>1, <2>1, <2>2, PartIsKept
    <2> QED BY <2>1, <2>3 DEF JoinAsWritten, c
  <1>4. HavingAsWritten(t, p, i)
    <2> DEFINE having == FirstAfter(t, {"HAVING"}, 0)
               c == ClauseAfter(t, having)
    <2>1. having \in DOMAIN t /\ Squeezed(c) = HavingPredicate(p, i)
      BY DEF HavingIsApproved
    <2>2. IsPart(c, t)
      BY <1>2, <2>1, ClauseIsPart
    <2> HIDE DEF c
    <2>3. Squeezed(c) = c
      BY <1>1, <2>1, <2>2, PartIsKept
    <2> QED BY <2>1, <2>3 DEF HavingAsWritten, c
  <1>5. GroupByAsWritten(t, p)
    <2> DEFINE read(c) == {Squeezed(ItemAfter(c, Cuts(c), cut)) : cut \in Cuts(c)}
    <2>1. PICK k \in GroupBys(t) :
              LET c == ClauseAfter(t, k + 1)
              IN  GroupBys(t) = {k} /\ ListsExactly(Cuts(c), read(c), GroupKeys(p))
      BY DEF GroupByIsApproved
    <2> DEFINE c == ClauseAfter(t, k + 1)
               item(cut) == ItemAfter(c, Cuts(c), cut)
    <2>2. IsPart(c, t)
      <3>1. k + 1 \in Nat
        BY <1>2 DEF GroupBys
      <3> QED BY <3>1, ClauseIsPart
    <2>3. /\ Cardinality(Cuts(c)) = Cardinality(GroupKeys(p))
          /\ {Squeezed(item(cut)) : cut \in Cuts(c)} = GroupKeys(p)
      BY <2>1 DEF ListsExactly
    <2> HIDE DEF c
    <2>4. \A cut \in Cuts(c) : Squeezed(item(cut)) = item(cut)
      <3> SUFFICES ASSUME NEW cut \in Cuts(c) PROVE Squeezed(item(cut)) = item(cut)
        OBVIOUS
      <3>1. IsPart(item(cut), t)
        BY <2>2, ItemIsPart
      <3>2. Squeezed(item(cut)) \in ApprovedTexts(p, i)
        BY <1>1, <2>3
      <3> HIDE DEF item
      <3> QED BY <3>1, <3>2, PartIsKept
    <2>5. {item(cut) : cut \in Cuts(c)} = GroupKeys(p)
      BY <2>3, <2>4
    <2>6. ListsAsWritten(c, GroupKeys(p))
      BY <2>3, <2>5 DEF ListsAsWritten
    <2> QED BY <2>1, <2>6 DEF GroupByAsWritten, c
  <1>6. SelectListAsWritten(t, p, i)
    <2> DEFINE top == IF At(t, TopPosition(t) + 1, ")") THEN TopPosition(t) + 1 ELSE TopPosition(t)
               c == SubSeq(t, top + 1, FirstAfter(t, {"FROM"}, top) - 1)
               item(cut) == ItemAfter(c, Cuts(c), cut)
    <2>1. IsPart(c, t)
      <3>1. top \in Nat
        BY DEF TopPosition
      <3> HIDE DEF top
      <3> DEFINE m == top + 1
                 n == FirstAfter(t, {"FROM"}, top) - 1
      <3>2. m \in Nat \ {0} /\ n \in Int /\ n <= Len(t)
        BY <1>2, <3>1, FirstWithin
      <3> HIDE DEF m, n
      <3>3. IsPart(SubSeq(t, m, n), t)
        BY <3>2, SliceIsPart
      <3> QED BY <3>3 DEF m, n
    <2>2. /\ Cardinality(Cuts(c)) = Cardinality(OutputColumns(p, i))
          /\ {ReadItem(item(cut)) : cut \in Cuts(c)} = OutputColumns(p, i)
      BY DEF SelectListIsApproved, ListsExactly
    <2> HIDE DEF c
    <2>3. \A cut \in Cuts(c) : item(cut) = Named(ReadItem(item(cut))[1], ReadItem(item(cut))[2])
      <3> SUFFICES ASSUME NEW cut \in Cuts(c)
                   PROVE  item(cut) = Named(ReadItem(item(cut))[1], ReadItem(item(cut))[2])
        OBVIOUS
      <3>1. IsPart(item(cut), t)
        BY <2>1, ItemIsPart
      <3>2. ReadItem(item(cut)) \in OutputColumns(p, i)
        BY <2>2
      <3> HIDE DEF item
      <3> QED BY <3>1, <3>2, ReadIsNamed
    <2>4. {item(cut) : cut \in Cuts(c)} = {Named(column[1], column[2]) : column \in OutputColumns(p, i)}
      <3> HIDE DEF item
      <3> QED BY <2>2, <2>3
    <2>5. {item(cut) : cut \in Cuts(c)} = OutputExpressions(p, i)
      BY <2>4, OutputsAreNamed, Zenon
    <2>6. ListsAsWritten(c, OutputExpressions(p, i))
      BY <2>2, <2>5, ColumnsCounted, OutputsCounted DEF ListsAsWritten
    <2> QED BY <2>6 DEF SelectListAsWritten, c
  <1> QED BY <1>3, <1>4, <1>5, <1>6

(* The tables are read as in the usual layout, if none is hidden.          *)
LEMMA TablesInAnyLayout ==
    ASSUME NEW t, NEW odd, DOMAIN t \subseteq Nat, TablesAreApproved(t, odd),
           \A k \in DOMAIN t : t[k] \in {"FROM", "JOIN"} => k + 1 \notin odd
    PROVE  /\ TablesAreApproved(t, {})
           /\ \A table \in AllowedTables :
                 /\ AliasFor(t, table, odd) = AliasFor(t, table, {})
                 /\ \E k \in DOMAIN t : t[k] = "AS" /\ AliasFor(t, table, {}) = t[k + 1]
  <1> DEFINE refs == TableRefs(t, {})
  <1>1. TableRefs(t, odd) = refs /\ refs \subseteq Nat
    BY DEF TableRefs
  <1>2. /\ \A ref \in refs : TableAt(t, ref, odd) \in AllowedTables /\ DeclaresAlias(t, ref, odd)
        /\ TablesAreDistinct(t, odd)
        /\ AllowedTables \subseteq {TableAt(t, ref, odd) : ref \in refs}
    BY <1>1 DEF TablesAreApproved
  <1>3. ASSUME NEW ref \in refs
        PROVE  /\ NamePosition(t, ref, odd) = NamePosition(t, ref, {})
               /\ NamePosition(t, ref, {}) \in Nat
    <2>1. "Production" \notin AllowedTables
      BY DEF AllowedTables
    <2>2. ~At(t, ref + 1, "Production") \/ NamePosition(t, ref, odd) # ref + 1
      <3> SUFFICES ASSUME At(t, ref + 1, "Production"), NamePosition(t, ref, odd) = ref + 1
                   PROVE  FALSE
        OBVIOUS
      <3>1. TableAt(t, ref, odd) = "Production"
        BY DEF TableAt, At
      <3> QED BY <1>2, <2>1, <3>1
    <2>3. ref \in Nat /\ ref + 3 # ref + 1
      BY <1>1
    <2> QED BY <2>2, <2>3 DEF NamePosition
  <1> HIDE DEF refs
  <1>4. ASSUME NEW ref \in refs
        PROVE  TableAt(t, ref, odd) = TableAt(t, ref, {}) /\ AliasAt(t, ref, odd) = AliasAt(t, ref, {})
    BY <1>3 DEF TableAt, AliasAt
  <1>5. ASSUME NEW ref \in refs PROVE DeclaresAlias(t, ref, {})
    BY <1>2, <1>3 DEF DeclaresAlias
  <1>6. TablesAreDistinct(t, {})
    <2>1. TableRefs(t, {}) = refs
      BY DEF refs
    <2> QED BY <1>1, <1>2, <1>4, <2>1 DEF TablesAreDistinct
  <1>7. AllowedTables \subseteq {TableAt(t, ref, {}) : ref \in refs}
    BY <1>2, <1>4
  <1>8. TablesAreApproved(t, {})
    <2>1. \A ref \in refs : TableAt(t, ref, {}) \in AllowedTables
      BY <1>2, <1>4
    <2> QED BY <1>5, <1>6, <1>7, <2>1 DEF TablesAreApproved, refs
  <1>9. ASSUME NEW table \in AllowedTables
        PROVE  /\ AliasFor(t, table, odd) = AliasFor(t, table, {})
               /\ \E k \in DOMAIN t : t[k] = "AS" /\ AliasFor(t, table, {}) = t[k + 1]
    <2>1. PICK ref \in refs : TableAt(t, ref, {}) = table
      BY <1>7
    <2>2. \A other \in refs : TableAt(t, other, {}) = table => other = ref
      BY <1>6, <2>1 DEF TablesAreDistinct, refs
    <2>3. (CHOOSE other \in TableRefs(t, {}) : TableAt(t, other, {}) = table) = ref
      BY <2>1, <2>2 DEF refs
    <2>4. (CHOOSE other \in TableRefs(t, odd) : TableAt(t, other, odd) = table) = ref
      BY <1>1, <1>4, <2>1, <2>2
    <2>5. AliasFor(t, table, odd) = AliasFor(t, table, {}) /\ AliasFor(t, table, {}) = AliasAt(t, ref, {})
      BY <1>4, <2>3, <2>4 DEF AliasFor
    <2> DEFINE k == NamePosition(t, ref, {}) + 1
    <2>6. k \in DOMAIN t /\ t[k] = "AS" /\ AliasAt(t, ref, {}) = t[k + 1]
      <3>1. k \in DOMAIN t /\ t[k] = "AS"
        BY <1>5 DEF DeclaresAlias, At
      <3>2. NamePosition(t, ref, {}) + 2 = k + 1
        BY <1>3
      <3> QED BY <3>1, <3>2 DEF AliasAt
    <2> QED BY <2>5, <2>6
  <1> QED BY <1>8, <1>9

(* An accepted query keeps them, unless it hides a table or makes up names. *)
LEMMA AcceptedKeepsRules ==
    ASSUME NEW q \in Query, Grammatical(q), GuardrailAccepts(Sql(q)),
           ~HidesTable(q), ~MakesUpNames(q), NEW t, t = Canonical(Render(q))
    PROVE  Rules(t, AliasFor(t, "Product", {}), AliasFor(t, "ProductInventory", {}))
  <1> DEFINE p == AliasFor(t, "Product", {})
             i == AliasFor(t, "ProductInventory", {})
             odd == q.odd
  <1>1. t \in Seq(Folded(Symbols)) /\ DOMAIN t = 1..Len(t) /\ Len(t) \in Nat
    <2>1. \A w \in Symbols : Fold(w) \in Folded(Symbols)
      BY DEF Folded
    <2>2. Render(q) \in Seq(Symbols)
      BY RenderType DEF Text
    <2>3. t \in Seq(Folded(Symbols))
      BY <2>1, <2>2, CanonicalIs
    <2> QED BY <2>3, LenProperties
  <1>2. DOMAIN t = DOMAIN Render(q) /\ \A k \in DOMAIN t : t[k] = Fold(Render(q)[k])
    BY DEF Canonical
  <1>3. /\ TopIsBounded(t) /\ TablesAreApproved(t, odd) /\ OrderedByProductId(t, odd)
        /\ JoinIsApproved(t, AliasFor(t, "Product", odd), AliasFor(t, "ProductInventory", odd))
        /\ GroupByIsApproved(t, AliasFor(t, "Product", odd))
        /\ HavingIsApproved(t, AliasFor(t, "Product", odd), AliasFor(t, "ProductInventory", odd))
        /\ SelectListIsApproved(t, AliasFor(t, "Product", odd), AliasFor(t, "ProductInventory", odd))
    <2>1. Sql(q).tokens = Render(q) /\ Sql(q).odd = odd /\ Cleaned(Render(q)) = Render(q)
      BY RenderKept DEF Sql
    <2> HIDE DEF odd
    <2> QED BY <2>1, Zenon DEF GuardrailAccepts
  <1>4. \A k \in DOMAIN t : t[k] \in {"FROM", "JOIN"} => k + 1 \notin odd
    BY <1>2 DEF HidesTable
  <1>5. DOMAIN t \subseteq Nat /\ "Product" \in AllowedTables /\ "ProductInventory" \in AllowedTables
    BY <1>1 DEF AllowedTables
  <1> HIDE DEF p, i, odd
  <1>6. /\ TablesAreApproved(t, {}) /\ AliasFor(t, "Product", odd) = p /\ AliasFor(t, "ProductInventory", odd) = i
        /\ \E k \in DOMAIN t : t[k] = "AS" /\ p = t[k + 1]
        /\ \E k \in DOMAIN t : t[k] = "AS" /\ i = t[k + 1]
    BY <1>3, <1>4, <1>5, TablesInAnyLayout DEF p, i
  <1>7. Kept(t, p, i)
    <2> DEFINE aliases == {t[k + 1] : k \in {j \in DOMAIN t : t[j] = "AS"}}
    <2>1. p \in aliases /\ i \in aliases
      BY <1>6
    <2> QED BY <2>1 DEF MakesUpNames, Kept
  <1>8. /\ JoinAsWritten(t, p, i) /\ GroupByAsWritten(t, p)
        /\ HavingAsWritten(t, p, i) /\ SelectListAsWritten(t, p, i)
    BY <1>1, <1>3, <1>6, <1>7, ApprovedIsWritten
  <1>9. OrderedByProductId(t, {})
    BY <1>3 DEF OrderedByProductId
  <1> QED BY <1>3, <1>6, <1>8, <1>9 DEF Rules, p, i

(* An accepted query of the grammar has all the clauses, and passes the    *)
(* rules.                                                                  *)
LEMMA AcceptedIsWhole ==
    ASSUME NEW q \in Query, Grammatical(q), GuardrailAccepts(Sql(q)),
           ~HidesTable(q), ~MakesUpNames(q), NEW t, t = Canonical(Render(q))
    PROVE  Whole(q) /\ Rules(t, AliasFor(t, "Product", {}), AliasFor(t, "ProductInventory", {}))
  <1> DEFINE p == AliasFor(t, "Product", {})
             i == AliasFor(t, "ProductInventory", {})
  <1>1. Rules(t, p, i)
    BY AcceptedKeepsRules
  <1> HIDE DEF p, i
  <1>2. DOMAIN t = 1..Len(t) /\ Len(t) \in Nat
    <2>1. t \in Seq(Folded(Symbols))
      <3>1. \A w \in Symbols : Fold(w) \in Folded(Symbols)
        BY DEF Folded
      <3>2. Render(q) \in Seq(Symbols)
        BY RenderType DEF Text
      <3> QED BY <3>1, <3>2, CanonicalIs
    <2> QED BY <2>1, LenProperties
  <1>3. "ON" # Semicolon /\ "GROUP" # Semicolon /\ "HAVING" # Semicolon /\ "ORDER" # Semicolon
    BY SemicolonIs DEF Vocabulary, ReservedWords
  <1>4. Len(q.joins) = 1
    <2>1. Len(q.joins) \in {0, 1}
      BY <1>1, OneJoin DEF Rules
    <2>2. SUFFICES ASSUME Len(q.joins) = 0 PROVE FALSE
      BY <2>1
    <2>3. q.joins = <<>>
      <3>1. q.joins \in Seq([kind : Text, table : Table, on : Text])
        BY PartsAreTexts
      <3> QED BY <2>2, <3>1, EmptySeq
    <2>4. \A k \in DOMAIN t : t[k] # "ON"
      BY <2>3, KeywordNeedsClause
    <2> QED BY <1>1, <1>2, <2>4, NotFound DEF Rules, JoinAsWritten
  <1>5. q.having # <<>>
    <2> SUFFICES ASSUME q.having = <<>> PROVE FALSE
      OBVIOUS
    <2>1. \A k \in DOMAIN t : t[k] # "HAVING"
      BY KeywordNeedsClause
    <2> QED BY <1>1, <1>2, <2>1, NotFound DEF Rules, HavingAsWritten
  <1>6. Separated(q.group) # <<>>
    <2> SUFFICES ASSUME Separated(q.group) = <<>> PROVE FALSE
      OBVIOUS
    <2>1. \A k \in DOMAIN t : t[k] # "GROUP"
      BY KeywordNeedsClause
    <2> QED BY <1>1, <2>1 DEF Rules, GroupByAsWritten, GroupBys
  <1>7. Separated(SortKeys(q)) # <<>>
    <2> SUFFICES ASSUME Separated(SortKeys(q)) = <<>> PROVE FALSE
      OBVIOUS
    <2>1. \A k \in DOMAIN t : t[k] # "ORDER"
      BY KeywordNeedsClause
    <2> QED BY <1>1, <2>1 DEF Rules, OrderedByProductId
  <1> QED BY <1>1, <1>4, <1>5, <1>6, <1>7 DEF Whole, p, i

(* The tables are read as they were written.                               *)
FirstName(q) == Fold(q.tables[1].name)
FirstAlias(q) == Fold(q.tables[1].alias)
SecondName(q) == Fold(q.joins[1].table.name)
SecondAlias(q) == Fold(q.joins[1].table.alias)
IsPlainWord(w) == w \notin Punctuation \cup Numerals \cup Cutting

(* The first table and the joined one stand behind FROM and JOIN.          *)
LEMMA TablesWritten ==
    ASSUME NEW q, Whole(q), NEW t, t = Canonical(Render(q)), NEW at, Apart(t, at, FoldedParts(q))
    PROVE  /\ IsPlainWord(FirstName(q)) /\ IsPlainWord(FirstAlias(q))
           /\ IsPlainWord(SecondName(q)) /\ IsPlainWord(SecondAlias(q))
           /\ q.tables[1].schema \in BOOLEAN /\ q.joins[1].table.schema \in BOOLEAN
           /\ Spans(t, at[2], RefText(q.tables[1].schema, FirstName(q), FirstAlias(q)))
           /\ Spans(t, at[3], RefText(q.joins[1].table.schema, SecondName(q), SecondAlias(q)))
  <1> DEFINE d == FoldedParts(q)
             first == q.tables[1]
             second == q.joins[1].table
             tables == Separated(Tables(q))
             kind == q.joins[1].kind
             F == Folded(Symbols)
  <1>1. /\ tables \in Seq(Symbols) /\ Spans(tables, 0, TableRef(first))
        /\ first \in Table /\ NamesTable(first)
    BY TablesBegin DEF Whole
  <1>2. second \in Table /\ NamesTable(second) /\ kind \in Seq(Symbols)
    <2>1. /\ second \in Table /\ kind \in Seq(Symbols)
      BY JoinParts DEF Whole, Text
    <2>2. 1 \in DOMAIN q.joins
      <3>1. q.joins \in Seq([kind : Text, table : Table, on : Text])
        BY PartsAreTexts DEF Whole
      <3>2. DOMAIN q.joins = 1..Len(q.joins)
        BY <3>1, LenProperties
      <3> QED BY <3>2 DEF Whole
    <2> QED BY <2>1, <2>2 DEF Whole, Grammatical
  <1>3. d[2] = Canonical(tables \o kind) /\ d[3] = Canonical(TableRef(second))
    BY FoldedPartsAre DEF Cat
  <1>4. /\ at[2] \in Nat /\ at[3] \in Nat /\ Len(t) \in Nat /\ Spans(t, at[2], d[2]) /\ Spans(t, at[3], d[3])
    <2>1. 2 \in 1..7 /\ 3 \in 1..7
      OBVIOUS
    <2> QED BY <2>1, ApartEnds
  <1>5. d[2] \in Seq(F)
    <2>1. 2 \in 1..7
      OBVIOUS
    <2> QED BY <2>1, PartsApart
  <1>6. /\ TableRef(first) \in Seq(Symbols)
        /\ Canonical(TableRef(first)) = RefText(first.schema, FirstName(q), FirstAlias(q))
        /\ IsPlainWord(FirstName(q)) /\ IsPlainWord(FirstAlias(q)) /\ first.schema \in BOOLEAN
    BY <1>1, TableBegins DEF IsPlainWord, FirstName, FirstAlias
  <1>7. /\ Canonical(TableRef(second)) = RefText(second.schema, SecondName(q), SecondAlias(q))
        /\ IsPlainWord(SecondName(q)) /\ IsPlainWord(SecondAlias(q)) /\ second.schema \in BOOLEAN
    BY <1>2, TableBegins DEF IsPlainWord, SecondName, SecondAlias
  <1>8. Spans(d[2], 0, Canonical(TableRef(first)))
    <2> DEFINE x == TableRef(first)
               y == tables \o kind
    <2>1. x \in Seq(Symbols)
      BY <1>6
    <2> HIDE DEF x, tables, kind
    <2>2. y \in Seq(Symbols) /\ Len(y) \in Nat /\ Spans(y, 0, tables)
      BY <1>1, <1>2, SpansConcat, LenProperties
    <2> HIDE DEF y
    <2>3. 0 \in Nat /\ 0 + 0 = 0 /\ Spans(tables, 0, x)
      BY <1>1 DEF x
    <2>4. Spans(y, 0 + 0, x)
      BY <1>1, <2>1, <2>2, <2>3, SpansWithin
    <2>5. Spans(Canonical(y), 0, Canonical(x))
      BY <2>1, <2>2, <2>3, <2>4, SpansCanonical
    <2> QED BY <1>3, <2>5 DEF x, y
  <1>9. Spans(t, at[2], Canonical(TableRef(first)))
    <2> DEFINE x == Canonical(TableRef(first))
               m == at[2]
    <2>1. x \in Seq(F)
      <3>1. \A w \in Symbols : Fold(w) \in F
        BY DEF Folded
      <3> QED BY <1>6, <3>1, CanonicalIs
    <2>2. Spans(d[2], 0, x) /\ m \in Nat /\ Spans(t, m, d[2]) /\ 0 \in Nat
      BY <1>4, <1>8
    <2> HIDE DEF x, d, m
    <2>3. Spans(t, m + 0, x)
      BY <1>4, <1>5, <2>1, <2>2, SpansWithin
    <2>4. m + 0 = m
      BY <2>2
    <2> QED BY <2>3, <2>4 DEF x, m
  <1> QED BY <1>3, <1>4, <1>6, <1>7, <1>9

(* They are the two approved tables, and their aliases are found.          *)
LEMMA TablesRead ==
    ASSUME NEW q, Whole(q), NEW t, t = Canonical(Render(q)), NEW at, Apart(t, at, FoldedParts(q)),
           TablesAreApproved(t, {})
    PROVE  /\ {FirstName(q), SecondName(q)} = AllowedTables /\ FirstName(q) # SecondName(q)
           /\ FirstAlias(q) # SecondAlias(q)
           /\ AliasFor(t, FirstName(q), {}) = FirstAlias(q) /\ AliasFor(t, SecondName(q), {}) = SecondAlias(q)
  <1> DEFINE n == FirstName(q)
             a == FirstAlias(q)
             m == SecondName(q)
             e == SecondAlias(q)
             b == q.tables[1].schema
             c == q.joins[1].table.schema
  <1>1. DOMAIN t = 1..Len(t) /\ Len(t) \in Nat /\ at[2] \in Nat /\ at[3] \in Nat /\ at[2] # at[3]
    <2>1. 2 \in 1..7 /\ 3 \in 1..7
      OBVIOUS
    <2>2. /\ DOMAIN t = 1..Len(t) /\ Len(t) \in Nat /\ at[2] \in Nat /\ at[3] \in Nat
          /\ t[at[2]] = ClauseWord[2] /\ t[at[3]] = ClauseWord[3]
      BY <2>1, ApartEnds
    <2>3. ClauseWord[2] # ClauseWord[3]
      BY SevenWords
    <2> QED BY <2>2, <2>3
  <1>2. /\ IsPlainWord(n) /\ IsPlainWord(a) /\ IsPlainWord(m) /\ IsPlainWord(e)
        /\ b \in BOOLEAN /\ c \in BOOLEAN
        /\ Spans(t, at[2], RefText(b, n, a)) /\ Spans(t, at[3], RefText(c, m, e))
    BY TablesWritten
  <1> HIDE DEF n, a, m, e, b, c
  <1>3. WordAt(t, at[2] + 1) /\ TableAt(t, at[2], {}) = n /\ AliasAt(t, at[2], {}) = a
    BY <1>1, <1>2, WordsAreRead DEF IsPlainWord
  <1>4. WordAt(t, at[3] + 1) /\ TableAt(t, at[3], {}) = m /\ AliasAt(t, at[3], {}) = e
    BY <1>1, <1>2, WordsAreRead DEF IsPlainWord
  <1>5. TableRefs(t, {}) = {at[2], at[3]}
    <2>1. 2 \in 1..7 /\ 3 \in 1..7 /\ ClauseWord[2] = "FROM" /\ ClauseWord[3] = "JOIN"
      BY SevenWords
    <2>2. {j \in 1..Len(t) : t[j] = ClauseWord[2]} = {at[2]}
      BY <2>1, ApartKeyword
    <2>3. {j \in 1..Len(t) : t[j] = ClauseWord[3]} = {at[3]}
      BY <2>1, ApartKeyword
    <2>4. TableRefs(t, {}) = {j \in 1..Len(t) : t[j] \in {"FROM", "JOIN"} /\ WordAt(t, j + 1)}
      BY <1>1 DEF TableRefs
    <2> QED BY <1>3, <1>4, <2>1, <2>2, <2>3, <2>4
  <1>6. n # m /\ a # e
    BY <1>1, <1>3, <1>4, <1>5 DEF TablesAreApproved, TablesAreDistinct
  <1>7. {n, m} = AllowedTables
    <2>1. n \in AllowedTables /\ m \in AllowedTables
      BY <1>3, <1>4, <1>5 DEF TablesAreApproved
    <2> QED BY <1>6, <2>1 DEF AllowedTables
  <1>8. AliasFor(t, n, {}) = a
    <2>1. (CHOOSE ref \in TableRefs(t, {}) : TableAt(t, ref, {}) = n) = at[2]
      BY <1>3, <1>4, <1>5, <1>6
    <2> QED BY <1>3, <2>1 DEF AliasFor
  <1>9. AliasFor(t, m, {}) = e
    <2>1. (CHOOSE ref \in TableRefs(t, {}) : TableAt(t, ref, {}) = m) = at[3]
      BY <1>3, <1>4, <1>5, <1>6
    <2> QED BY <1>4, <2>1 DEF AliasFor
  <1> QED BY <1>6, <1>7, <1>8, <1>9 DEF n, a, m, e

(* A text of the query is folded to words that cut nothing off.            *)
LEMMA FoldedLacks ==
    ASSUME NEW W, NEW x \in Seq(Over(W))
    PROVE  /\ Canonical(x) \in Seq(Folded(Symbols)) /\ Len(Canonical(x)) = Len(x) /\ Len(x) \in Nat
           /\ \A j \in 1..Len(x) : Canonical(x)[j] \notin W
           /\ x \in Seq(Symbols)
  <1> DEFINE T == Folded(Symbols) \ W
             c == Canonical(x)
  <1>1. \A w \in Over(W) : Fold(w) \in T
    BY DEF Over, Folded
  <1>2. c \in Seq(T) /\ Len(c) = Len(x) /\ Len(x) \in Nat
    BY <1>1, CanonicalIs
  <1>3. T \subseteq Folded(Symbols) /\ \A w \in T : w \notin W
    OBVIOUS
  <1>4. x \in Seq(Symbols)
    <2>1. Over(W) \subseteq Symbols
      BY DEF Over
    <2> QED BY <2>1, SeqMonotonic
  <1> HIDE DEF T, c
  <1>5. c \in Seq(Folded(Symbols))
    BY <1>2, <1>3, SeqMonotonic
  <1>6. \A j \in 1..Len(x) : c[j] \in T
    BY <1>2, ElementOfSeq
  <1> QED BY <1>2, <1>3, <1>4, <1>5, <1>6 DEF c

(* Folding a text that cuts nothing off gives one.                         *)
LEMMA PlainlyCutsNothing ==
    ASSUME NEW x \in Plainly
    PROVE  /\ x \in Text /\ Canonical(x) \in Seq(Folded(Symbols))
           /\ Len(Canonical(x)) = Len(x) /\ Len(x) \in Nat
           /\ \A j \in 1..Len(x) : /\ Canonical(x)[j] \notin Cutting
                                   /\ Canonical(x)[j] \notin ClauseBoundaries
  <1>1. ClauseBoundaries \subseteq Cutting
    BY Zenon DEF ClauseBoundaries, Cutting, ClauseKeywords
  <1>2. x \in Seq(Over(Cutting))
    BY DEF Plainly
  <1> QED BY <1>1, <1>2, FoldedLacks DEF Text

(* The query q was accepted as the text t, read clause by clause with the  *)
(* aliases p and i for the two tables.                                     *)
Reads(q, t, at, p, i) ==
    /\ Whole(q) /\ t \in Seq(Folded(Symbols)) /\ Apart(t, at, FoldedParts(q)) /\ Rules(t, p, i)
    /\ IsPlainWord(p) /\ IsPlainWord(i)

(* The clause number m is found from its keyword on.                       *)
LEMMA WholeClause ==
    ASSUME NEW q, NEW t, NEW at, NEW p, NEW i, Reads(q, t, at, p, i), NEW m \in {4, 6},
           NEW x \in Seq(Folded(Symbols)), FoldedParts(q)[m] = x,
           \A j \in 1..Len(x) : x[j] \notin ClauseBoundaries
    PROVE  ClauseAfter(t, at[m]) = x
  <1> DEFINE d == FoldedParts(q)
             S == Folded(Symbols)
  <1>1. Apart(t, at, d) /\ t \in Seq(S) /\ m \in 1..7 /\ m \in 4..6
    BY DEF Reads
  <1>2. d[m] = x
    OBVIOUS
  <1> HIDE DEF d, S
  <1>3. at[m] \in Nat /\ at[m] \in 1..Len(t) /\ Spans(t, at[m], x)
    BY <1>1, <1>2, ApartEnds
  <1>4. at[m + 1] = (at[m] + Len(x)) + 1
    <2>1. at[5] = (at[4] + Len(d[4])) + 1 /\ at[7] = (at[6] + Len(d[6])) + 1
      BY <1>1, ApartEnds
    <2>2. CASE m = 4
      <3>1. m + 1 = 5
        BY <2>2
      <3> QED BY <1>2, <2>1, <2>2, <3>1
    <2>3. CASE m = 6
      <3>1. m + 1 = 7
        BY <2>3
      <3> QED BY <1>2, <2>1, <2>3, <3>1
    <2> QED BY <2>2, <2>3
  <1>5. ClauseAfter(t, at[m]) = x
    <2>1. x \in Seq(S)
      BY DEF S
    <2> QED BY <1>1, <1>3, <1>4, <2>1, ApartCut
  <1> QED BY <1>5

(* HAVING is the predicate asked for.                                      *)
LEMMA HavingRead ==
    ASSUME NEW q, NEW t, NEW at, NEW p, NEW i, Reads(q, t, at, p, i)
    PROVE  Canonical(q.having) = HavingPredicate(p, i)
  <1> DEFINE x == Canonical(q.having)
  <1>1. q.having \in Plainly
    BY GrammaticalParts DEF Reads, Whole
  <1>2. /\ x \in Seq(Folded(Symbols)) /\ \A j \in 1..Len(x) : x[j] \notin ClauseBoundaries
        /\ 6 \in {4, 6}
    BY <1>1, PlainlyCutsNothing
  <1>3. FoldedParts(q)[6] = x
    BY FoldedPartsAre
  <1> HIDE DEF x
  <1>4. ClauseAfter(t, at[6]) = x
    BY <1>2, <1>3, WholeClause
  <1>5. FirstAfter(t, {"HAVING"}, 0) = at[6]
    <2>1. 6 \in 1..7 /\ ClauseWord[6] = "HAVING" /\ Apart(t, at, FoldedParts(q))
      BY SevenWords DEF Reads
    <2>2. 0 < at[6] /\ 0 \in Nat
      BY <2>1 DEF Apart, Positions
    <2>3. FirstAfter(t, {ClauseWord[6]}, 0) = at[6] /\ at[6] \in DOMAIN t
      BY <2>1, <2>2, ApartFound
    <2> QED BY <2>1, <2>3
  <1> QED BY <1>4, <1>5 DEF Reads, Rules, HavingAsWritten, x

(* ON is the join predicate asked for, and no WHERE is behind it.          *)
LEMMA JoinRead ==
    ASSUME NEW q, NEW t, NEW at, NEW p, NEW i, Reads(q, t, at, p, i)
    PROVE  Canonical(q.joins[1].on) \in JoinPredicates(p, i) /\ q.where = <<>>
  <1> DEFINE on == q.joins[1].on
             where == Clause(<<"WHERE">>, q.where)
             y == Cat(on, where)
             x == Canonical(y)
             B == ClauseBoundaries
  <1>1. on \in Plainly /\ q.where \in Plainly
    <2>1. 1 \in 1..Len(q.joins)
      BY DEF Reads, Whole
    <2> QED BY <2>1, GrammaticalParts DEF Reads, Whole
  <1>2. on \in Seq(Over(B)) /\ q.where \in Seq(Over(B)) /\ <<"WHERE">> \in Seq(Over(B))
    <2>1. B \subseteq Cutting /\ "WHERE" \notin B
      BY Zenon DEF ClauseBoundaries, Cutting, ClauseKeywords
    <2>2. Over(Cutting) \subseteq Over(B)
      BY <2>1 DEF Over
    <2>3. "WHERE" \in Over(B)
      BY <2>1, RenderedWords
    <2> HIDE DEF on
    <2> QED BY <1>1, <2>2, <2>3, SeqMonotonic, ShortTexts DEF Plainly
  <1>3. where \in Seq(Over(B))
    BY <1>2, ClauseOver
  <1>4. y \in Seq(Over(B)) /\ Len(y) = Len(on) + Len(where) /\ Len(on) \in Nat /\ Len(where) \in Nat
        /\ Spans(y, Len(on), where)
    <2> HIDE DEF on, where
    <2> QED BY <1>2, <1>3, SpansConcat DEF Cat
  <1>5. FoldedParts(q)[4] = x
    BY FoldedPartsAre
  <1> HIDE DEF where, y
  <1>6. /\ x \in Seq(Folded(Symbols)) /\ Len(x) = Len(y) /\ \A j \in 1..Len(x) : x[j] \notin B
        /\ 4 \in {4, 6}
    BY <1>4, FoldedLacks
  <1> HIDE DEF x
  <1>7. ClauseAfter(t, at[4]) = x
    BY <1>5, <1>6, WholeClause
  <1>8. x \in JoinPredicates(p, i)
    <2>1. 4 \in 1..7 /\ ClauseWord[4] = "ON" /\ Apart(t, at, FoldedParts(q))
      BY SevenWords DEF Reads
    <2>2. 0 < at[4] /\ 0 \in Nat
      BY <2>1 DEF Apart, Positions
    <2>3. FirstAfter(t, {ClauseWord[4]}, 0) = at[4] /\ at[4] \in DOMAIN t
      BY <2>1, <2>2, ApartFound
    <2> QED BY <1>7, <2>1, <2>3 DEF Reads, Rules, JoinAsWritten
  <1>9. q.where = <<>>
    <2> SUFFICES ASSUME q.where # <<>> PROVE FALSE
      OBVIOUS
    <2> DEFINE k == Len(on) + 1
    <2>1. where = <<"WHERE">> \o q.where
      BY DEF where, Clause
    <2>2. Len(where) > 0 /\ where[1] = "WHERE"
      <3> DEFINE v == <<"WHERE">>
      <3>1. v \in Seq(Over(B)) /\ Len(v) = 1 /\ v[1] = "WHERE"
        BY <1>2
      <3> HIDE DEF v
      <3>2. Len(v \o q.where) = Len(v) + Len(q.where) /\ Len(q.where) \in Nat /\ Spans(v \o q.where, 0, v)
        BY <1>2, <3>1, SpansConcat
      <3>3. (v \o q.where)[0 + 1] = "WHERE"
        BY <3>1, <3>2 DEF Spans
      <3> QED BY <2>1, <3>1, <3>2, <3>3 DEF v
    <2>3. k \in 1..Len(y) /\ y[k] = "WHERE"
      BY <1>4, <2>2 DEF Spans
    <2>4. x[k] = "WHERE"
      <3>1. \A w \in Over(B) : Fold(w) \in Folded(Symbols)
        BY DEF Over, Folded
      <3>2. \A j \in 1..Len(y) : x[j] = Fold(y[j])
        BY <1>4, <3>1, CanonicalIs DEF x
      <3>3. Fold("WHERE") = "WHERE"
        BY FoldedNames DEF Vocabulary, ReservedWords
      <3> QED BY <2>3, <3>2, <3>3
    <2>5. x \in Seq(Body(p, i))
      BY <1>8, PredicatesAre
    <2>6. x[k] \in Body(p, i)
      BY <1>6, <2>3, <2>5, ElementOfSeq
    <2>7. "WHERE" \notin Body(p, i)
      <3>1. p # "WHERE" /\ i # "WHERE"
        BY Zenon DEF Reads, IsPlainWord, Cutting, ClauseKeywords
      <3>2. "WHERE" # Comma
        BY Zenon DEF Comma
      <3>3. "WHERE" \notin AllowedSourceColumns \cup AllowedOutputAliases
        BY DEF AllowedSourceColumns, AllowedOutputAliases
      <3>4. "WHERE" \notin {"BY", "ASC", "DESC", "(", ")", ".", Comma, "=", "<", "SUM"}
        BY <3>2
      <3> QED BY <3>1, <3>3, <3>4 DEF Body
    <2> QED BY <2>4, <2>6, <2>7
  <1>10. y = on
    <2>1. where = <<>>
      BY <1>9 DEF where, Clause
    <2>2. on \o <<>> = on
      BY <1>2, ConcatEmptySeq
    <2> QED BY <2>1, <2>2 DEF y, Cat
  <1> QED BY <1>8, <1>9, <1>10 DEF x

(* Folding makes and takes no mark.                                        *)
LEMMA MarksKept ==
    ASSUME NEW v, NEW w \in Punctuation
    PROVE  Fold(v) = w <=> v = w
  <1>1. Fold(w) = w
    BY VocabularyIsWords
  <1>2. v \in DOMAIN OtherCase => Fold(v) \notin Punctuation
    BY SqlAssumption DEF Fold
  <1>3. v \notin DOMAIN OtherCase => Fold(v) = v
    BY DEF Fold
  <1> QED BY <1>1, <1>2, <1>3

(* Parentheses and commas are where they were before folding.              *)
LEMMA PlacesKept ==
    ASSUME NEW x \in Text, NEW w \in {"(", ")", Comma}, NEW k \in 1..(Len(x) + 1)
    PROVE  Before(Canonical(x), k, w) = Before(x, k, w)
  <1>1. Len(x) \in Nat /\ \A j \in 1..Len(x) : Canonical(x)[j] = Fold(x[j])
    <2>1. x \in Seq(Symbols) /\ \A v \in Symbols : Fold(v) \in Folded(Symbols)
      BY DEF Text, Folded
    <2> QED BY <2>1, CanonicalIs
  <1>2. \A j \in 1..(k - 1) : j \in 1..Len(x)
    BY <1>1
  <1>3. \A j \in 1..(k - 1) : Canonical(x)[j] = w <=> x[j] = w
    <2>1. w \in Punctuation
      BY VocabularyIsWords
    <2> QED BY <1>1, <1>2, <2>1, MarksKept
  <1> QED BY <1>3 DEF Before

(* The depth is what is open less what is closed.                          *)
LEMMA DepthIs ==
    \A x, k : Depth(x, k) = Cardinality(Before(x, k, "(")) - Cardinality(Before(x, k, ")"))
  BY Zenon DEF Depth, Before

(* An expression stays one item of a list when it is folded, and does not  *)
(* begin with a closing parenthesis.                                       *)
LEMMA ExpressionIsSingle ==
    ASSUME NEW x \in Text, IsExpression(x)
    PROVE  Single(Canonical(x)) /\ (Len(x) # 0 => Canonical(x)[1] # ")")
  <1> DEFINE c == Canonical(x)
             n == Len(x)
  <1>1. n \in Nat /\ Len(c) = n /\ DOMAIN x = 1..n /\ DOMAIN c = 1..n /\ c \in Seq(Folded(Symbols))
        /\ \A j \in 1..n : c[j] = Fold(x[j])
    <2>1. x \in Seq(Symbols) /\ \A v \in Symbols : Fold(v) \in Folded(Symbols)
      BY DEF Text, Folded
    <2>2. c \in Seq(Folded(Symbols)) /\ Len(c) = n /\ n \in Nat /\ \A j \in 1..n : c[j] = Fold(x[j])
      BY <2>1, CanonicalIs
    <2> QED BY <2>1, <2>2, LenProperties
  <1>2. \A k \in 1..(n + 1) : Depth(c, k) = Depth(x, k)
    <2>1. "(" \in {"(", ")", Comma} /\ ")" \in {"(", ")", Comma}
      OBVIOUS
    <2>2. \A k \in 1..(n + 1) : /\ Before(c, k, "(") = Before(x, k, "(")
                                /\ Before(c, k, ")") = Before(x, k, ")")
      BY <2>1, PlacesKept
    <2> QED BY <2>2, DepthIs
  <1>3. /\ \A k \in 1..n : Depth(x, k) >= 0
        /\ Depth(x, n + 1) = 0 /\ Cuts(x) = {0}
    BY <1>1 DEF IsExpression
  <1>4. \A j \in 1..n : c[j] = Comma <=> x[j] = Comma
    BY <1>1, MarksKept, VocabularyIsWords
  <1> HIDE DEF c, n
  <1>5. Cuts(c) = {0}
    <2>1. \A k \in 1..n : ~(x[k] = Comma /\ Depth(x, k) = 0)
      <3>1. {k \in 1..n : x[k] = Comma /\ Depth(x, k) = 0} \subseteq {0}
        BY <1>1, <1>3, CutsAre
      <3>2. 0 \notin 1..n
        BY <1>1
      <3> QED BY <3>1, <3>2
    <2>2. \A k \in 1..n : k \in 1..(n + 1)
      BY <1>1
    <2>3. {k \in DOMAIN c : c[k] = Comma /\ Depth(c, k) = 0} = {}
      BY <1>1, <1>2, <1>4, <2>1, <2>2
    <2>4. {0} \cup {} = {0}
      OBVIOUS
    <2> QED BY <2>3, <2>4, CutsAre
  <1>6. Balanced(c)
    <2>1. Depth(c, n + 1) = 0
      <3>1. n + 1 \in 1..(n + 1)
        BY <1>1
      <3> QED BY <1>2, <1>3, <3>1
    <2>2. \A w : Before(c, n + 1, w) = Places(c, w)
      <3>1. (n + 1) - 1 = n
        BY <1>1
      <3> QED BY <1>1, <3>1 DEF Before, Places
    <2>3. \A w : Cardinality(Places(c, w)) \in Nat
      BY <1>1, PlacesConcat
    <2>4. Cardinality(Places(c, "(")) - Cardinality(Places(c, ")")) = 0
      BY <2>1, <2>2, DepthIs
    <2> QED BY <2>3, <2>4 DEF Balanced
  <1>7. ASSUME n # 0, c[1] = ")" PROVE FALSE
    <2>1. 1 \in 1..n /\ 2 \in 1..(n + 1) /\ (2 \in 1..n \/ 2 = n + 1)
      BY <1>1, <1>7
    <2>2. Depth(c, 2) >= 0
      BY <1>2, <1>3, <2>1
    <2>3. Before(c, 2, "(") = {} /\ Before(c, 2, ")") = {1}
      <3>1. 1..(2 - 1) = {1} /\ "(" # ")"
        OBVIOUS
      <3> QED BY <1>7, <3>1 DEF Before
    <2>4. Cardinality({}) = 0 /\ Cardinality({1}) = 1
      BY FS_EmptySet, FS_Singleton
    <2>5. Depth(c, 2) = 0 - 1
      BY <2>3, <2>4, DepthIs
    <2> QED BY <2>2, <2>5
  <1> QED BY <1>5, <1>6, <1>7 DEF Single, c, n

(* BY is kept, and what follows is folded.                                 *)
LEMMA ByKept ==
    ASSUME NEW x \in Text, NEW c, c = Canonical(x)
    PROVE  /\ c \in Seq(Folded(Symbols)) /\ Len(c) \in Nat
           /\ LET y == Canonical(Cat(<<"BY">>, x))
              IN  /\ y \in Seq(Folded(Symbols)) /\ Len(y) = 1 + Len(c) /\ y[1] = "BY"
                  /\ Spans(y, 1, c)
  <1> DEFINE by == <<"BY">>
             F == Folded(Symbols)
             y == Canonical(Cat(by, x))
  <1>1. by \in Seq(Symbols) /\ x \in Seq(Symbols) /\ Canonical(by) = by
    <2>1. "BY" \in Symbols
      BY GateAssumption
    <2>2. by \in Seq({"BY"}) /\ by \in Seq(Symbols)
      BY <2>1, ShortTexts
    <2>3. \A w \in {"BY"} : Fold(w) = w
      BY FoldedNames DEF Vocabulary, ReservedWords
    <2>4. x \in Seq(Symbols)
      BY DEF Text
    <2> HIDE DEF by
    <2> QED BY <2>2, <2>3, <2>4, CanonicalKept
  <1>2. Len(by) = 1 /\ by[1] = "BY"
    OBVIOUS
  <1> HIDE DEF by, F, y
  <1>3. c \in Seq(F) /\ by \in Seq(F)
    <2>1. \A w \in Symbols : Fold(w) \in F
      BY DEF F, Folded
    <2> QED BY <1>1, <2>1, CanonicalIs
  <1>4. y = by \o c
    <2>1. Canonical(by \o x) = Canonical(by) \o Canonical(x)
      BY <1>1, CanonicalConcat
    <2> QED BY <1>1, <2>1 DEF y, Cat
  <1>5. /\ y \in Seq(F) /\ Len(y) = Len(by) + Len(c) /\ Len(c) \in Nat
        /\ Spans(y, 0, by) /\ Spans(y, Len(by), c)
    BY <1>3, <1>4, SpansConcat
  <1>6. y[0 + 1] = "BY"
    BY <1>2, <1>5 DEF Spans
  <1> QED BY <1>2, <1>3, <1>5, <1>6 DEF y, F, by

(* Behind the keyword of GROUP BY and of ORDER BY are BY and the list.     *)
LEMMA ListBehindBy ==
    ASSUME NEW q, NEW t, NEW at, NEW p, NEW i, Reads(q, t, at, p, i), NEW m \in {5, 7},
           NEW x \in Text, NEW c, c = Canonical(x), FoldedParts(q)[m] = Canonical(Cat(<<"BY">>, x))
    PROVE  /\ c \in Seq(Folded(Symbols)) /\ Len(c) \in Nat /\ at[m] \in Nat
           /\ At(t, at[m] + 1, "BY") /\ Spans(t, at[m] + 1, c)
           /\ Len(FoldedParts(q)[m]) = 1 + Len(c)
  <1> DEFINE F == Folded(Symbols)
             y == FoldedParts(q)[m]
  <1>1. /\ c \in Seq(F) /\ Len(c) \in Nat /\ y \in Seq(F) /\ Len(y) = 1 + Len(c) /\ y[1] = "BY"
        /\ Spans(y, 1, c)
    BY ByKept
  <1>2. /\ at[m] \in Nat /\ Len(t) \in Nat /\ DOMAIN t = 1..Len(t) /\ Spans(t, at[m], y)
        /\ t \in Seq(F)
    BY ApartEnds DEF Reads
  <1> HIDE DEF F, y
  <1>3. Spans(t, at[m] + 1, c)
    BY <1>1, <1>2, SpansWithin
  <1>4. At(t, at[m] + 1, "BY")
    <2>1. 1 \in 1..Len(y)
      BY <1>1
    <2>2. t[at[m] + 1] = "BY" /\ at[m] + 1 <= Len(t)
      BY <1>1, <1>2, <2>1 DEF Spans
    <2> QED BY <1>2, <2>2 DEF At
  <1> QED BY <1>1, <1>2, <1>3, <1>4 DEF F, y

(* GROUP BY lists the three keys asked for.                                *)
LEMMA GroupListed ==
    ASSUME NEW q, NEW t, NEW at, NEW p, NEW i, Reads(q, t, at, p, i)
    PROVE  ListsAsWritten(Canonical(Separated(q.group)), GroupKeys(p))
  <1> DEFINE x == Separated(q.group)
             c == Canonical(x)
             d == FoldedParts(q)
             F == Folded(Symbols)
  <1>1. x \in Plainly /\ Apart(t, at, d) /\ t \in Seq(F)
    BY GrammaticalParts, SeparatedPlain DEF Reads, Whole
  <1>2. d[5] = Canonical(Cat(<<"BY">>, x))
    BY FoldedPartsAre
  <1>3. x \in Text /\ Len(c) = Len(x) /\ \A j \in 1..Len(c) : c[j] \notin ClauseBoundaries
    <2> HIDE DEF x
    <2> QED BY <1>1, PlainlyCutsNothing
  <1> HIDE DEF x, d
  <1>4. /\ c \in Seq(F) /\ Len(c) \in Nat /\ at[5] \in Nat /\ At(t, at[5] + 1, "BY")
        /\ Spans(t, at[5] + 1, c) /\ Len(d[5]) = 1 + Len(c)
    <2>1. 5 \in {5, 7}
      OBVIOUS
    <2>2. FoldedParts(q)[5] = Canonical(Cat(<<"BY">>, x))
      BY <1>2 DEF d
    <2> QED BY <1>3, <2>1, <2>2, ListBehindBy DEF d
  <1> HIDE DEF c, F
  <1>5. GroupBys(t) = {at[5]}
    <2>1. 5 \in 1..7 /\ ClauseWord[5] = "GROUP"
      BY SevenWords
    <2>2. {j \in 1..Len(t) : t[j] = ClauseWord[5]} = {at[5]}
      BY <1>1, <2>1, ApartKeyword
    <2>3. DOMAIN t = 1..Len(t)
      BY <1>1 DEF Apart
    <2>4. GroupBys(t) = {k \in 1..Len(t) : t[k] = "GROUP" /\ At(t, k + 1, "BY")}
      BY <2>3 DEF GroupBys
    <2> QED BY <1>4, <2>1, <2>2, <2>4
  <1>6. ClauseAfter(t, at[5] + 1) = c
    <2>1. at[5 + 1] = ((at[5] + 1) + Len(c)) + 1 /\ at[5] + 1 \in Nat /\ 5 \in 4..6
      <3>1. at[6] = (at[5] + Len(d[5])) + 1
        BY <1>1, ApartEnds
      <3>2. 5 + 1 = 6 /\ 5 \in 4..6
        OBVIOUS
      <3> DEFINE k == at[5]
                 l == Len(c)
      <3>3. at[6] = (k + (1 + l)) + 1 /\ k \in Nat /\ l \in Nat
        BY <1>4, <3>1
      <3> HIDE DEF k, l
      <3>4. at[6] = ((k + 1) + l) + 1 /\ k + 1 \in Nat
        BY <3>3
      <3> QED BY <3>2, <3>4 DEF k, l
    <2> QED BY <1>1, <1>3, <1>4, <2>1, ApartCut
  <1>7. GroupByAsWritten(t, p)
    BY DEF Reads, Rules
  <1> QED BY <1>5, <1>6, <1>7 DEF GroupByAsWritten, c, x

(* A list of texts that are single items is read back as those items.      *)
LEMMA ListReadBack ==
    ASSUME NEW items \in Seq(Text), \A k \in 1..Len(items) : Single(Canonical(items[k])),
           NEW asked, NEW n \in Nat, n # 0, n # 1, Cardinality(asked) = n,
           ListsAsWritten(Canonical(Separated(items)), asked)
    PROVE  Len(items) = n /\ Firsts(items, n) = asked
  <1> DEFINE c == Canonical(Separated(items))
             T == Folded(Symbols)
  <1>1. Comma \in Symbols /\ Comma \in T
    <2>1. Comma \in Symbols
      BY GateAssumption, Zenon DEF Comma
    <2>2. Fold(Comma) = Comma
      BY CommaKept
    <2> QED BY <2>1, <2>2 DEF Folded
  <1>2. items \in Seq(Seq(Symbols)) /\ Len(items) \in Nat
    BY LenProperties DEF Text
  <1>3. \A k \in 1..Len(items) : Canonical(items[k]) \in Seq(T) /\ Single(Canonical(items[k]))
    <2>1. \A w \in Symbols : Fold(w) \in T
      BY DEF Folded
    <2>2. \A k \in 1..Len(items) : items[k] \in Seq(Symbols)
      BY <1>2, ElementOfSeq
    <2> QED BY <2>1, <2>2, CanonicalIs
  <1>4. Len(items) # 0
    <2> SUFFICES ASSUME Len(items) = 0 PROVE FALSE
      OBVIOUS
    <2>1. items = <<>>
      BY <1>2, EmptySeq
    <2>2. Separated(items) = <<>>
      <3>1. "," \in Symbols
        BY GateAssumption, Zenon
      <3>2. Commas(items) = <<>>
        BY <2>1 DEF Commas
      <3> QED BY <3>2 DEF Separated, Commas, FlattenSeq
    <2>3. c = <<>>
      BY <2>2 DEF Canonical
    <2>4. Cuts(<<>>) = {0}
      BY CutsAre
    <2>5. Cardinality({0}) = 1
      BY FS_Singleton
    <2> HIDE DEF c
    <2> QED BY <2>3, <2>4, <2>5 DEF ListsAsWritten, c
  <1>5. Lists(c, Len(items), Firsts(items, Len(items)))
    <2> HIDE DEF T
    <2> QED BY <1>1, <1>2, <1>3, <1>4, AllListed
  <1> HIDE DEF c
  <1>6. /\ Cardinality(Cuts(c)) = Len(items) /\ {ItemAfter(c, Cuts(c), cut) : cut \in Cuts(c)} = Firsts(items, Len(items))
    BY <1>5 DEF Lists
  <1>7. /\ Cardinality(Cuts(c)) = n /\ {ItemAfter(c, Cuts(c), cut) : cut \in Cuts(c)} = asked
    BY DEF ListsAsWritten, c
  <1> QED BY <1>6, <1>7

(* The rule on GROUP BY means the group keys that were written.            *)
LEMMA GroupRead ==
    ASSUME NEW q, NEW t, NEW at, NEW p, NEW i, Reads(q, t, at, p, i)
    PROVE  Len(q.group) = 3 /\ {Canonical(q.group[k]) : k \in 1..3} = GroupKeys(p)
  <1> DEFINE g == q.group
  <1>1. g \in Seq(Text) /\ \A k \in DOMAIN g : IsExpression(g[k])
    BY PartsAreTexts DEF Reads, Whole, Grammatical
  <1>2. ListsAsWritten(Canonical(Separated(g)), GroupKeys(p))
    BY GroupListed
  <1> HIDE DEF g
  <1>3. \A k \in 1..Len(g) : Single(Canonical(g[k]))
    <2>1. DOMAIN g = 1..Len(g) /\ \A k \in 1..Len(g) : g[k] \in Text
      BY <1>1, LenProperties, ElementOfSeq
    <2> QED BY <1>1, <2>1, ExpressionIsSingle
  <1>4. Cardinality(GroupKeys(p)) = 3 /\ 3 \in Nat
    BY GroupKeysCounted
  <1>5. Len(g) = 3 /\ Firsts(g, 3) = GroupKeys(p)
    <2> DEFINE n == 3
               asked == GroupKeys(p)
    <2>1. n \in Nat /\ n # 0 /\ n # 1 /\ Cardinality(asked) = n
      BY <1>4
    <2>2. ListsAsWritten(Canonical(Separated(g)), asked) /\ g \in Seq(Text)
      BY <1>1, <1>2
    <2> HIDE DEF n, asked
    <2>3. Len(g) = n /\ Firsts(g, n) = asked
      BY <1>3, <2>1, <2>2, ListReadBack
    <2> QED BY <2>3 DEF n, asked
  <1> QED BY <1>5 DEF g, Firsts

(* A word or more without commas and parentheses behind an item.           *)
LEMMA SingleWithName ==
    ASSUME NEW S, NEW a \in Seq(S), NEW b \in Seq(S), Single(a),
           \A j \in 1..Len(b) : b[j] # "(" /\ b[j] # ")" /\ b[j] # Comma
    PROVE  Single(a \o b)
  <1> DEFINE c == a \o b
             m == Len(a)
             n == Len(b)
  <1>1. /\ c \in Seq(S) /\ Len(c) = m + n /\ m \in Nat /\ n \in Nat /\ DOMAIN c = 1..Len(c)
        /\ DOMAIN a = 1..m /\ Spans(c, 0, a) /\ Spans(c, m, b)
    BY SpansConcat, LenProperties
  <1>2. Balanced(c)
    <2>1. Balanced(b)
      BY NoParentheses DEF Plain
    <2> QED BY <2>1, BalancedConcat DEF Single
  <1> HIDE DEF c, m, n
  <1>3. \A j \in 1..m : c[j] = a[j]
    BY <1>1 DEF Spans, m
  <1>4. \A j \in 1..n : c[m + j] = b[j]
    BY <1>1 DEF Spans, n
  <1>5. \A k \in 1..m : Depth(c, k) = Depth(a, k)
    <2>1. \A k \in 1..m : \A j \in 1..(k - 1) : c[j] = a[j]
      BY <1>1, <1>3
    <2>2. \A k \in 1..m : \A w : Before(c, k, w) = Before(a, k, w)
      BY <2>1 DEF Before
    <2> QED BY <2>2, DepthIs
  <1>6. Cuts(a) = {0}
    BY DEF Single
  <1>7. \A k \in 1..m : ~(a[k] = Comma /\ Depth(a, k) = 0)
    <2>1. {k \in 1..m : a[k] = Comma /\ Depth(a, k) = 0} \subseteq {0}
      BY <1>1, <1>6, CutsAre
    <2>2. 0 \notin 1..m
      BY <1>1
    <2> QED BY <2>1, <2>2
  <1>8. \A k \in 1..Len(c) : ~(c[k] = Comma /\ Depth(c, k) = 0)
    <2> TAKE k \in 1..Len(c)
    <2>1. CASE k \in 1..m
      BY <1>3, <1>5, <1>7, <2>1
    <2>2. CASE k \notin 1..m
      <3>1. k - m \in 1..n /\ m + (k - m) = k
        BY <1>1, <2>2
      <3>2. b[k - m] # Comma
        BY <3>1 DEF n
      <3>3. c[m + (k - m)] = b[k - m]
        BY <1>4, <3>1
      <3> QED BY <3>1, <3>2, <3>3
    <2> QED BY <2>1, <2>2
  <1>9. {k \in DOMAIN c : c[k] = Comma /\ Depth(c, k) = 0} = {}
    BY <1>1, <1>8
  <1>10. Cuts(c) = {0}
    <2>1. {0} \cup {} = {0}
      OBVIOUS
    <2> QED BY <1>9, <2>1, CutsAre
  <1> QED BY <1>2, <1>10 DEF Single, c

(* An output column is one item and does not begin with a parenthesis.     *)
LEMMA NamedIsSingle ==
    ASSUME NEW expr \in Text, NEW name \in Symbols, IsExpression(expr), IsWord(name),
           NEW x, x = Named(expr, name)
    PROVE  /\ x \in Text /\ Len(x) \in Nat /\ Len(x) # 0
           /\ Single(Canonical(x)) /\ Fold(x[1]) # ")"
  <1> DEFINE b == <<"AS", name>>
             F == Folded(Symbols)
             a == Canonical(expr)
             e == Canonical(b)
  <1>1. expr \in Seq(Symbols) /\ b \in Seq(Symbols) /\ Len(b) = 2 /\ b[1] = "AS" /\ b[2] = name
    <2>1. "AS" \in Symbols
      BY GateAssumption
    <2> QED BY <2>1, ShortTexts DEF Text
  <1>2. Fold("AS") = "AS" /\ Fold(name) \notin Punctuation /\ "AS" \notin Punctuation
    BY FoldedNames, WordIs, VocabularyIsWords DEF Vocabulary, ReservedWords
  <1>3. x = expr \o b
    BY DEF Named
  <1> HIDE DEF b
  <1>4. \A w \in Symbols : Fold(w) \in F
    BY DEF Folded
  <1> HIDE DEF F
  <1>5. /\ a \in Seq(F) /\ Len(a) = Len(expr) /\ Len(expr) \in Nat
        /\ \A j \in 1..Len(expr) : a[j] = Fold(expr[j])
    BY <1>1, <1>4, CanonicalIs
  <1>6. e \in Seq(F) /\ Len(e) = 2 /\ \A j \in 1..2 : e[j] = Fold(b[j])
    BY <1>1, <1>4, CanonicalIs
  <1>7. Single(a) /\ (Len(expr) # 0 => a[1] # ")")
    BY ExpressionIsSingle
  <1>8. Canonical(x) = a \o e
    BY <1>1, <1>3, CanonicalConcat
  <1>9. /\ x \in Seq(Symbols) /\ Len(x) = Len(expr) + 2 /\ Spans(x, 0, expr) /\ Spans(x, Len(expr), b)
    BY <1>1, <1>3, SpansConcat
  <1> HIDE DEF a, e
  <1>10. Single(a \o e)
    <2>1. \A j \in 1..2 : e[j] \notin Punctuation
      <3>1. \A j \in 1..2 : j = 1 \/ j = 2
        OBVIOUS
      <3> QED BY <1>1, <1>2, <1>6, <3>1
    <2>2. \A j \in 1..Len(e) : e[j] # "(" /\ e[j] # ")" /\ e[j] # Comma
      BY <1>6, <2>1, VocabularyIsWords
    <2> QED BY <1>5, <1>6, <1>7, <2>2, SingleWithName
  <1>11. Fold(x[1]) # ")"
    <2>1. CASE Len(expr) = 0
      <3>1. x[0 + 1] = b[1]
        BY <1>1, <1>9, <2>1 DEF Spans
      <3>2. ")" \in Punctuation
        BY VocabularyIsWords
      <3> QED BY <1>1, <1>2, <3>1, <3>2
    <2>2. CASE Len(expr) # 0
      <3>1. 1 \in 1..Len(expr)
        BY <1>5, <2>2
      <3>2. x[0 + 1] = expr[1]
        BY <1>9, <3>1 DEF Spans
      <3> QED BY <1>5, <1>7, <2>2, <3>1, <3>2
    <2> QED BY <2>1, <2>2
  <1>12. Len(x) \in Nat /\ Len(x) # 0
    BY <1>5, <1>9
  <1> QED BY <1>8, <1>9, <1>10, <1>11, <1>12 DEF Text

(* TOP is in the text with what follows, whatever the words are.           *)
WithTop(x, top, list) == x = (<<"TOP">> \o top) \o list

(* Where the number and the select list stand behind SELECT.               *)
LEMMA TopIn ==
    ASSUME NEW S, "TOP" \in S, NEW top \in Seq(S), NEW list \in Seq(S),
           NEW x, WithTop(x, top, list), NEW t, Len(t) \in Nat, Spans(t, 1, x)
    PROVE  /\ Len(top) \in Nat /\ Len(list) \in Nat /\ Len(x) = (1 + Len(top)) + Len(list)
           /\ t[2] = "TOP" /\ \A j \in 1..Len(top) : t[2 + j] = top[j]
           /\ Spans(t, 2 + Len(top), list)
  <1> DEFINE w == <<"TOP">>
             h == w \o top
  <1>1. w \in Seq(S) /\ Len(w) = 1 /\ w[1] = "TOP"
    OBVIOUS
  <1>2. x = h \o list
    BY DEF WithTop
  <1> HIDE DEF w
  <1>3. /\ h \in Seq(S) /\ Len(h) = Len(w) + Len(top) /\ Len(top) \in Nat
        /\ Spans(h, 0, w) /\ Spans(h, Len(w), top)
    BY <1>1, SpansConcat
  <1> HIDE DEF h
  <1>4. /\ x \in Seq(S) /\ Len(x) = Len(h) + Len(list) /\ Len(list) \in Nat
        /\ Spans(x, 0, h) /\ Spans(x, Len(h), list)
    <2> DEFINE y == h \o list
    <2>1. /\ y \in Seq(S) /\ Len(y) = Len(h) + Len(list) /\ Len(list) \in Nat
          /\ Spans(y, 0, h) /\ Spans(y, Len(h), list)
      BY <1>3, SpansConcat
    <2>2. x = y
      BY <1>2
    <2> HIDE DEF y
    <2> QED BY <2>1, <2>2
  <1>5. Len(h) = 1 + Len(top) /\ Len(x) = (1 + Len(top)) + Len(list)
    BY <1>1, <1>3, <1>4
  <1>6. Spans(t, 1 + 0, h)
    <2>1. 1 \in Nat /\ 0 \in Nat
      OBVIOUS
    <2> QED BY <1>3, <1>4, <2>1, SpansWithin
  <1>7. Spans(t, 1 + Len(h), list)
    <2>1. 1 \in Nat /\ Len(h) \in Nat
      BY <1>3, <1>5
    <2> QED BY <1>4, <2>1, SpansWithin
  <1>8. Spans(t, (1 + 0) + 0, w)
    <2>1. 1 + 0 \in Nat /\ 0 \in Nat
      OBVIOUS
    <2> QED BY <1>1, <1>3, <1>6, <2>1, SpansWithin
  <1>9. Spans(t, (1 + 0) + Len(w), top)
    <2>1. 1 + 0 \in Nat /\ Len(w) \in Nat
      BY <1>1
    <2> QED BY <1>3, <1>6, <2>1, SpansWithin
  <1>10. t[2] = "TOP"
    <2>1. t[((1 + 0) + 0) + 1] = w[1]
      BY <1>1, <1>8 DEF Spans
    <2> QED BY <1>1, <2>1
  <1>11. \A j \in 1..Len(top) : t[2 + j] = top[j]
    <2>1. (1 + 0) + Len(w) = 2
      BY <1>1
    <2> QED BY <1>9, <2>1 DEF Spans
  <1>12. Spans(t, 2 + Len(top), list)
    <2>1. 1 + Len(h) = 2 + Len(top)
      BY <1>3, <1>5
    <2> QED BY <1>7, <2>1
  <1> QED BY <1>3, <1>4, <1>5, <1>10, <1>11, <1>12

(* The clause of SELECT as it stands in the text.                          *)
LEMMA SelectStands ==
    ASSUME NEW q, NEW t, NEW at, NEW p, NEW i, Reads(q, t, at, p, i),
           NEW top, top = Canonical(q.top), NEW list, list = Canonical(Separated(Outputs(q)))
    PROVE  /\ top \in Seq(Folded(Symbols)) /\ list \in Seq(Folded(Symbols))
           /\ Len(top) \in Nat /\ Len(list) \in Nat /\ at[2] = ((2 + Len(top)) + Len(list)) + 1
           /\ t[2] = "TOP" /\ \A j \in 1..Len(top) : t[2 + j] = top[j]
           /\ Spans(t, 2 + Len(top), list)
  <1> DEFINE F == Folded(Symbols)
             tp == <<"TOP">>
             n == q.top
             x == Separated(Outputs(q))
             a == Cat(tp, n)
             d == FoldedParts(q)
  <1>1. n \in Seq(Symbols) /\ x \in Seq(Symbols) /\ tp \in Seq(Symbols) /\ Canonical(tp) = tp
    <2>1. n \in Plainly /\ x \in Plainly
      BY GrammaticalParts, SeparatedPlain DEF Reads, Whole
    <2>2. "TOP" \in Symbols /\ Fold("TOP") = "TOP"
      BY GateAssumption, FoldedNames DEF Vocabulary, ReservedWords
    <2>3. tp \in Seq(Symbols) /\ tp \in Seq({"TOP"})
      BY <2>2, ShortTexts
    <2> HIDE DEF n, x, tp
    <2>4. Canonical(tp) = tp
      BY <2>2, <2>3, CanonicalKept
    <2> QED BY <2>1, <2>3, <2>4, PlainlyCutsNothing DEF Text
  <1>2. top = Canonical(n) /\ list = Canonical(x) /\ d[1] = Canonical(Cat(a, x))
    BY FoldedPartsAre
  <1>3. "TOP" \in F
    BY GateAssumption, FoldedNames DEF Vocabulary, ReservedWords, Folded
  <1>4. /\ Apart(t, at, d)
    BY DEF Reads
  <1>5. Len(t) \in Nat /\ Spans(t, 1, d[1]) /\ at[2] = (1 + Len(d[1])) + 1
    <2>1. 1 \in 1..7
      OBVIOUS
    <2> HIDE DEF d
    <2>2. Len(t) \in Nat /\ at[1] = 1 /\ Spans(t, at[1], d[1]) /\ at[2] = (1 + Len(d[1])) + 1
      BY <1>4, <2>1, ApartEnds
    <2> QED BY <2>2
  <1>6. \A w \in Symbols : Fold(w) \in F
    BY DEF Folded
  <1> HIDE DEF n, x, tp, d, F
  <1>7. top \in Seq(F) /\ list \in Seq(F)
    BY <1>1, <1>2, <1>6, CanonicalIs
  <1>8. d[1] = (tp \o top) \o list
    <2>1. a \in Seq(Symbols) /\ Canonical(tp \o n) = Canonical(tp) \o Canonical(n)
      BY <1>1, ConcatProperties, CanonicalConcat DEF Cat
    <2>2. Canonical(a) = tp \o top
      BY <1>1, <1>2, <2>1 DEF Cat
    <2> HIDE DEF a
    <2>3. Canonical(a \o x) = Canonical(a) \o Canonical(x)
      BY <1>1, <2>1, CanonicalConcat
    <2> QED BY <1>2, <2>2, <2>3 DEF Cat
  <1> DEFINE y == d[1]
  <1>9. WithTop(y, top, list)
    BY <1>8 DEF tp, WithTop
  <1>10. Spans(t, 1, y) /\ Len(t) \in Nat
    BY <1>5
  <1> HIDE DEF y
  <1>11. /\ Len(top) \in Nat /\ Len(list) \in Nat /\ Len(y) = (1 + Len(top)) + Len(list)
         /\ t[2] = "TOP" /\ \A j \in 1..Len(top) : t[2 + j] = top[j]
         /\ Spans(t, 2 + Len(top), list)
    BY <1>3, <1>7, <1>9, <1>10, TopIn
  <1>12. at[2] = ((2 + Len(top)) + Len(list)) + 1
    <2> DEFINE l == Len(top)
               k == Len(list)
    <2>1. at[2] = (1 + ((1 + l) + k)) + 1 /\ l \in Nat /\ k \in Nat
      BY <1>5, <1>11 DEF y
    <2> HIDE DEF l, k
    <2>2. at[2] = ((2 + l) + k) + 1
      BY <2>1
    <2> QED BY <2>2 DEF l, k
  <1> QED BY <1>7, <1>11, <1>12 DEF F

(* What follows the TOP does not begin with a parenthesis.                 *)
LEMMA BehindTop ==
    ASSUME NEW q, NEW t, NEW at, NEW p, NEW i, Reads(q, t, at, p, i),
           NEW top, top = Canonical(q.top)
    PROVE  t[(2 + Len(top)) + 1] # ")" /\ (2 + Len(top)) + 1 \in 1..Len(t)
  <1> DEFINE items == Outputs(q)
             s == Separated(items)
             list == Canonical(s)
             k == 2 + Len(top)
  <1>1. /\ list \in Seq(Folded(Symbols)) /\ Len(top) \in Nat /\ Len(list) \in Nat
        /\ at[2] = (k + Len(list)) + 1 /\ Spans(t, k, list)
    <2>1. list = Canonical(Separated(Outputs(q)))
      OBVIOUS
    <2> HIDE DEF list
    <2>2. /\ list \in Seq(Folded(Symbols)) /\ Len(top) \in Nat /\ Len(list) \in Nat
          /\ at[2] = ((2 + Len(top)) + Len(list)) + 1 /\ Spans(t, 2 + Len(top), list)
      BY <2>1, SelectStands
    <2> QED BY <2>2
  <1>2. Apart(t, at, FoldedParts(q)) /\ 2 \in 1..7 /\ ClauseWord[2] = "FROM"
    BY SevenWords DEF Reads
  <1>3. at[2] \in 1..Len(t) /\ t[at[2]] = "FROM" /\ Len(t) \in Nat
    BY <1>2, ApartEnds
  <1>4. items \in Seq(Seq(Symbols)) /\ Comma \in Symbols /\ q.items \in Seq([expr : Text, name : Symbols])
    BY PartsAreTexts, GateAssumption, Zenon DEF Reads, Whole, Text, Comma
  <1>5. k + 1 \in 1..Len(t)
    <2> HIDE DEF list
    <2> QED BY <1>1, <1>3
  <1>6. CASE Len(list) = 0
    <2>1. at[2] = k + 1
      BY <1>1, <1>6
    <2> QED BY <1>3, <1>5, <2>1
  <1>7. CASE Len(list) # 0
    <2>1. s \in Seq(Symbols)
      <3> HIDE DEF items
      <3> QED BY <1>4, CommasAre
    <2>2. Len(items) # 0
      <3> SUFFICES ASSUME Len(items) = 0 PROVE FALSE
        OBVIOUS
      <3>1. items = <<>>
        <4> HIDE DEF items
        <4> QED BY <1>4, EmptySeq
      <3>2. s = <<>>
        <4> HIDE DEF items
        <4>1. Commas(items) = <<>>
          BY <3>1 DEF Commas
        <4> QED BY <4>1 DEF Separated, Commas, FlattenSeq
      <3>3. list = <<>>
        <4> HIDE DEF s
        <4> QED BY <3>2 DEF Canonical
      <3> QED BY <1>7, <3>3
    <2>3. /\ items[1] \in Text /\ Len(items[1]) \in Nat /\ Len(items[1]) # 0 /\ Fold(items[1][1]) # ")"
      <3>1. DOMAIN q.items = 1..Len(q.items) /\ Len(q.items) \in Nat
        BY <1>4, LenProperties
      <3>2. DOMAIN items = DOMAIN q.items
        BY DEF Outputs
      <3>3. 1 \in DOMAIN q.items
        <4>1. DOMAIN items = 1..Len(items) /\ Len(items) \in Nat
          <5> HIDE DEF items
          <5> QED BY <1>4, LenProperties
        <4> HIDE DEF items
        <4> QED BY <2>2, <3>2, <4>1
      <3>4. items[1] = Named(q.items[1].expr, q.items[1].name)
        BY <3>3 DEF Outputs
      <3>5. IsExpression(q.items[1].expr) /\ IsWord(q.items[1].name)
        BY <3>3 DEF Reads, Whole, Grammatical
      <3>6. q.items[1].expr \in Text /\ q.items[1].name \in Symbols
        <4>1. q.items[1] \in [expr : Text, name : Symbols]
          BY <1>4, <3>1, <3>3, ElementOfSeq
        <4> QED BY <4>1
      <3> HIDE DEF items
      <3> QED BY <3>4, <3>5, <3>6, NamedIsSingle
    <2>4. Spans(s, 0, items[1])
      <3> HIDE DEF items
      <3> QED BY <1>4, <2>2, BeginsWithFirst
    <2>5. s[1] = items[1][1]
      <3> HIDE DEF items, s
      <3>1. 1 \in 1..Len(items[1])
        BY <2>3
      <3>2. s[0 + 1] = items[1][1]
        BY <2>4, <3>1 DEF Spans
      <3> QED BY <3>2
    <2> HIDE DEF items, s
    <2>6. list[1] = Fold(s[1])
      <3>1. \A w \in Symbols : Fold(w) \in Folded(Symbols)
        BY DEF Folded
      <3>2. Len(list) = Len(s) /\ \A j \in 1..Len(s) : list[j] = Fold(s[j])
        BY <2>1, <3>1, CanonicalIs
      <3>3. 1 \in 1..Len(list)
        <4> HIDE DEF list
        <4> QED BY <1>1, <1>7
      <3> HIDE DEF list
      <3> QED BY <3>2, <3>3
    <2> HIDE DEF list
    <2>7. t[k + 1] = list[1]
      <3>1. 1 \in 1..Len(list)
        BY <1>1, <1>7
      <3> HIDE DEF k
      <3> QED BY <1>1, <3>1 DEF Spans
    <2> QED BY <1>5, <2>3, <2>5, <2>6, <2>7
  <1> QED BY <1>6, <1>7

(* The number of rows is read where it was written.                        *)
LEMMA TopIsNumeral ==
    ASSUME NEW w, w \notin Punctuation, NEW top, top \in {<<w>>, <<"(", w, ")">>},
           NEW t, HasTop(t), \A j \in 1..Len(top) : t[2 + j] = Canonical(top)[j],
           \A j \in 1..Len(top) : 2 + j \in DOMAIN t
    PROVE  w \in Numerals /\ TopOf(t) = ValueOf[w]
  <1> DEFINE v == Fold(w)
  <1>1. v \notin Punctuation /\ (v \in Numerals => v = w)
    BY SqlAssumption DEF Fold
  <1>2. Fold("(") = "(" /\ "(" \in Punctuation
    BY FoldKeepsPunctuation DEF Punctuation
  <1> HIDE DEF v
  <1>3. CASE top = <<w>>
    <2>1. Len(top) = 1 /\ 1 \in 1..1 /\ 1 \in DOMAIN top /\ top[1] = w
      BY <1>3
    <2>2. Canonical(top)[1] = v
      BY <2>1 DEF Canonical, v
    <2>3. t[2 + 1] = v
      BY <2>1, <2>2
    <2>4. TopPosition(t) = 3 /\ t[3] = v
      BY <1>1, <1>2, <2>3 DEF TopPosition, At
    <2> QED BY <1>1, <2>4 DEF HasTop, TopOf
  <1>4. CASE top = <<"(", w, ")">>
    <2>1. Len(top) = 3 /\ 1 \in 1..3 /\ 2 \in 1..3 /\ 1 \in DOMAIN top /\ 2 \in DOMAIN top
          /\ top[1] = "(" /\ top[2] = w
      BY <1>4
    <2>2. Canonical(top)[1] = "(" /\ Canonical(top)[2] = v
      BY <1>2, <2>1 DEF Canonical, v
    <2>3. t[2 + 1] = "(" /\ t[2 + 2] = v /\ 2 + 1 \in DOMAIN t
      BY <2>1, <2>2
    <2>4. TopPosition(t) = 4 /\ t[4] = v
      BY <2>3 DEF TopPosition, At
    <2> QED BY <1>1, <2>4 DEF HasTop, TopOf
  <1> QED BY <1>3, <1>4

(* TOP is a number of rows in bounds, and the list begins behind it.       *)
LEMMA TopRead ==
    ASSUME NEW q, NEW t, NEW at, NEW p, NEW i, Reads(q, t, at, p, i)
    PROVE  /\ \E n \in Numerals :
                 q.top \in {<<n>>, <<"(", n, ")">>} /\ ValueOf[n] \in 1..MaximumReturnedRows
           /\ TopEnd(t) = 2 + Len(Canonical(q.top))
  <1> DEFINE top == q.top
             c == Canonical(top)
             k == 2 + Len(c)
  <1>1. PICK w : w \notin Punctuation /\ top \in {<<w>>, <<"(", w, ")">>}
    BY DEF Reads, Whole, Grammatical
  <1>2. /\ Len(c) \in Nat /\ t[2] = "TOP" /\ \A j \in 1..Len(c) : t[2 + j] = c[j]
    BY SelectStands
  <1>3. t[k + 1] # ")" /\ k + 1 \in 1..Len(t)
    BY BehindTop
  <1>4. DOMAIN t = 1..Len(t) /\ Len(t) \in Nat
    BY DEF Reads, Apart
  <1>5. Len(c) = Len(top)
    <2>1. top \in Seq(Symbols)
      BY PartsAreTexts DEF Reads, Whole, Text
    <2> HIDE DEF top
    <2> QED BY <2>1, CanonicalLen
  <1>6. HasTop(t) /\ TopOf(t) \in 1..MaximumReturnedRows
    BY DEF Reads, Rules, TopIsBounded
  <1> HIDE DEF top
  <1>7. w \in Numerals /\ TopOf(t) = ValueOf[w]
    <2>1. \A j \in 1..Len(top) : 2 + j \in DOMAIN t
      BY <1>2, <1>3, <1>4, <1>5
    <2>2. \A j \in 1..Len(top) : t[2 + j] = Canonical(top)[j]
      BY <1>2, <1>5
    <2> HIDE DEF c, k
    <2> QED BY <1>1, <1>6, <2>1, <2>2, TopIsNumeral
  <1>8. c = top
    <2> HIDE DEF c
    <2> QED BY <1>1, <1>7, TopFolded DEF c
  <1>9. TopEnd(t) = 2 + Len(top)
    <2> DEFINE z == t[k + 1]
               list == <<z>>
    <2>1. Len(list) \in Nat /\ Len(list) > 0 /\ list[1] # ")"
      BY <1>3
    <2>2. Len(list) = 1 /\ list[1] = t[k + 1]
      OBVIOUS
    <2> HIDE DEF list, z, c
    <2>3. Spans(t, 2 + Len(top), list)
      <3>1. k = 2 + Len(top) /\ k \in Nat
        BY <1>2, <1>5
      <3> HIDE DEF k
      <3>2. k + Len(list) <= Len(t) /\ \A j \in 1..Len(list) : t[k + j] = list[j]
        BY <1>3, <1>4, <2>2, <3>1
      <3> QED BY <3>1, <3>2 DEF Spans
    <2>4. t[2] = "TOP" /\ \A j \in 1..Len(top) : t[2 + j] = top[j]
      BY <1>2, <1>8
    <2>5. w \in Numerals /\ ValueOf[w] \in 1..MaximumReturnedRows /\ top \in {<<w>>, <<"(", w, ")">>}
      BY <1>1, <1>6, <1>7
    <2> HIDE DEF k
    <2> QED BY <1>4, <2>1, <2>3, <2>4, <2>5, TopRule, SMTT(30)
  <1> QED BY <1>1, <1>5, <1>6, <1>7, <1>9 DEF top

(* The SELECT list is the four output columns asked for.                   *)
LEMMA OutputsListed ==
    ASSUME NEW q, NEW t, NEW at, NEW p, NEW i, Reads(q, t, at, p, i)
    PROVE  ListsAsWritten(Canonical(Separated(Outputs(q))), OutputExpressions(p, i))
  <1> DEFINE top == Canonical(q.top)
             list == Canonical(Separated(Outputs(q)))
             k == 2 + Len(top)
             F == Folded(Symbols)
  <1>1. /\ list \in Seq(F) /\ Len(top) \in Nat /\ Len(list) \in Nat
        /\ at[2] = (k + Len(list)) + 1 /\ Spans(t, k, list)
    <2>1. list = Canonical(Separated(Outputs(q))) /\ top = Canonical(q.top)
      OBVIOUS
    <2> HIDE DEF list, top
    <2>2. /\ list \in Seq(F) /\ Len(top) \in Nat /\ Len(list) \in Nat
          /\ at[2] = ((2 + Len(top)) + Len(list)) + 1 /\ Spans(t, 2 + Len(top), list)
      BY <2>1, SelectStands
    <2> QED BY <2>2
  <1>2. TopEnd(t) = k
    BY TopRead
  <1>3. Apart(t, at, FoldedParts(q)) /\ t \in Seq(F) /\ SelectListAsWritten(t, p, i)
    BY DEF Reads, Rules
  <1> HIDE DEF list, top, F
  <1>4. k \in Nat /\ k < at[2]
    BY <1>1
  <1> HIDE DEF k
  <1>5. FirstAfter(t, {"FROM"}, k) = at[2]
    <2>1. 2 \in 1..7 /\ ClauseWord[2] = "FROM"
      BY SevenWords
    <2>2. FirstAfter(t, {ClauseWord[2]}, k) = at[2] /\ at[2] \in DOMAIN t
      BY <1>3, <1>4, <2>1, ApartFound
    <2> QED BY <2>1, <2>2
  <1>6. SubSeq(t, k + 1, at[2] - 1) = list
    <2>1. at[2] - 1 = k + Len(list)
      BY <1>1, <1>4
    <2> QED BY <1>1, <1>3, <1>4, <2>1, SpansIsPart
  <1> QED BY <1>2, <1>3, <1>5, <1>6 DEF SelectListAsWritten, TopEnd, list

(* The rule on the select list means the output columns that were written. *)
LEMMA OutputsRead ==
    ASSUME NEW q, NEW t, NEW at, NEW p, NEW i, Reads(q, t, at, p, i)
    PROVE  /\ Len(q.items) = 4
           /\ {Canonical(Named(q.items[k].expr, q.items[k].name)) : k \in 1..4} =
                  OutputExpressions(p, i)
  <1> DEFINE g == Outputs(q)
  <1>1. g \in Seq(Text) /\ q.items \in Seq([expr : Text, name : Symbols])
    BY PartsAreTexts DEF Reads, Whole
  <1>2. DOMAIN q.items = 1..Len(q.items) /\ Len(q.items) \in Nat
    BY <1>1, LenProperties
  <1>3. DOMAIN g = 1..Len(q.items) /\ \A k \in 1..Len(q.items) : g[k] = Named(q.items[k].expr, q.items[k].name)
    BY <1>2 DEF Outputs
  <1>4. ListsAsWritten(Canonical(Separated(g)), OutputExpressions(p, i))
    BY OutputsListed
  <1> HIDE DEF g
  <1>5. Len(g) = Len(q.items)
    <2>1. DOMAIN g = 1..Len(g) /\ Len(g) \in Nat
      BY <1>1, LenProperties
    <2> QED BY <1>2, <1>3, <2>1, SameLength
  <1>6. \A k \in 1..Len(g) : Single(Canonical(g[k]))
    <2> TAKE k \in 1..Len(g)
    <2>1. q.items[k].expr \in Text /\ q.items[k].name \in Symbols
      <3>1. q.items[k] \in [expr : Text, name : Symbols]
        BY <1>1, <1>5, ElementOfSeq
      <3> QED BY <3>1
    <2>2. IsExpression(q.items[k].expr) /\ IsWord(q.items[k].name)
      BY <1>2, <1>5 DEF Reads, Whole, Grammatical
    <2>3. g[k] = Named(q.items[k].expr, q.items[k].name)
      BY <1>3, <1>5
    <2> QED BY <2>1, <2>2, <2>3, NamedIsSingle
  <1>7. Len(g) = 4 /\ Firsts(g, 4) = OutputExpressions(p, i)
    <2> DEFINE n == 4
               asked == OutputExpressions(p, i)
    <2>1. n \in Nat /\ n # 0 /\ n # 1 /\ Cardinality(asked) = n
      BY OutputsCounted
    <2>2. ListsAsWritten(Canonical(Separated(g)), asked) /\ g \in Seq(Text)
      BY <1>1, <1>4
    <2> HIDE DEF n, asked
    <2>3. Len(g) = n /\ Firsts(g, n) = asked
      BY <1>6, <2>1, <2>2, ListReadBack
    <2> QED BY <2>3 DEF n, asked
  <1>8. \A k \in 1..4 : Canonical(g[k]) = Canonical(Named(q.items[k].expr, q.items[k].name))
    BY <1>3, <1>5, <1>7
  <1> QED BY <1>5, <1>7, <1>8 DEF Firsts

(* What rule 12 reads behind ORDER BY, when the first key is a word or a   *)
(* group key.                                                              *)
KeyIsProductId(t, k) ==
    LET key == IF WordAt(t, k + 2) /\ At(t, k + 3, ".") THEN k + 4 ELSE k + 2
    IN  At(t, key, "ProductID") /\ At(t, key + 1, "ASC")

(* The rule on ORDER BY means the first sort key, when it is a column or a *)
(* name.                                                                   *)
LEMMA FirstKeyRead ==
    ASSUME NEW t, DOMAIN t = 1..Len(t), Len(t) \in Nat, NEW k \in Nat, NEW p, IsPlainWord(p),
           NEW way, way \in {"ASC", "DESC"}, NEW key, (\E v : key = <<v>>) \/ key \in GroupKeys(p),
           Spans(t, k + 1, key \o <<way>>), KeyIsProductId(t, k)
    PROVE  key \in {<<"ProductID">>, Column(p, "ProductID")} /\ way = "ASC"
  <1> DEFINE y == key \o <<way>>
  <1>1. ASSUME NEW v, key = <<v>>
        PROVE  key = <<"ProductID">> /\ way = "ASC"
    <2>1. y = <<v, way>>
      BY <1>1, TwoInARow
    <2> HIDE DEF y
    <2>2. Len(y) = 2 /\ y[1] = v /\ y[2] = way
      BY <2>1
    <2>3. (k + 1) + 2 <= Len(t) /\ t[(k + 1) + 1] = v /\ t[(k + 1) + 2] = way
      BY <2>2 DEF Spans, y
    <2>4. t[k + 2] = v /\ t[k + 3] = way
      BY <2>3
    <2>5. way # "."
      OBVIOUS
    <2>6. At(t, k + 2, "ProductID") /\ At(t, (k + 2) + 1, "ASC")
      BY <2>4, <2>5 DEF KeyIsProductId, At
    <2>7. (k + 2) + 1 = k + 3
      OBVIOUS
    <2> QED BY <1>1, <2>4, <2>6, <2>7 DEF At
  <1>2. ASSUME NEW c, key = <<p, ".", c>>
        PROVE  c = "ProductID" /\ way = "ASC"
    <2>1. y = <<p, ".", c, way>>
      BY <1>2, ThreeAndOneInARow
    <2> HIDE DEF y
    <2>2. Len(y) = 4 /\ y[1] = p /\ y[2] = "." /\ y[3] = c /\ y[4] = way
      BY <2>1
    <2>3. /\ (k + 1) + 4 <= Len(t) /\ t[(k + 1) + 1] = p /\ t[(k + 1) + 2] = "."
          /\ t[(k + 1) + 3] = c /\ t[(k + 1) + 4] = way
      BY <2>2 DEF Spans, y
    <2>4. /\ t[k + 2] = p /\ t[k + 3] = "." /\ t[k + 4] = c /\ t[k + 5] = way
          /\ k + 2 \in DOMAIN t /\ k + 3 \in DOMAIN t
      BY <2>3
    <2>5. WordAt(t, k + 2) /\ At(t, k + 3, ".")
      BY <2>4 DEF WordAt, At, IsPlainWord
    <2>6. At(t, k + 4, "ProductID") /\ At(t, (k + 4) + 1, "ASC")
      BY <2>5 DEF KeyIsProductId
    <2>7. (k + 4) + 1 = k + 5
      OBVIOUS
    <2> QED BY <2>4, <2>6, <2>7 DEF At
  <1>3. CASE \E v : key = <<v>>
    BY <1>1, <1>3
  <1>4. CASE key \in GroupKeys(p)
    BY <1>2, <1>4 DEF GroupKeys, Column
  <1> QED BY <1>3, <1>4

(* ORDER BY begins with its first entry.                                   *)
LEMMA OrderBegins ==
    ASSUME NEW q, NEW t, NEW at, NEW p, NEW i, Reads(q, t, at, p, i)
    PROVE  /\ q.order # <<>> /\ 1 \in DOMAIN q.order /\ q.order[1].direction \in {"ASC", "DESC"}
           /\ at[7] \in Nat
           /\ Spans(t, at[7] + 1, Canonical(q.order[1].key) \o <<q.order[1].direction>>)
  <1> DEFINE items == SortKeys(q)
             s == Separated(items)
             c == Canonical(s)
             F == Folded(Symbols)
  <1>1. /\ items \in Seq(Seq(Symbols)) /\ q.order \in Seq([key : Text, direction : {"ASC", "DESC"}])
        /\ Comma \in Symbols /\ s # <<>>
    BY PartsAreTexts, GateAssumption, Zenon DEF Reads, Whole, Text, Comma
  <1>2. s \in Seq(Symbols)
    <2> HIDE DEF items
    <2> QED BY <1>1, CommasAre
  <1>3. FoldedParts(q)[7] = Canonical(Cat(<<"BY">>, s))
    BY FoldedPartsAre
  <1>4. c \in Seq(F) /\ at[7] \in Nat /\ Spans(t, at[7] + 1, c)
    <2>1. 7 \in {5, 7} /\ s \in Text
      BY <1>2 DEF Text
    <2> HIDE DEF s
    <2> QED BY <1>3, <2>1, ListBehindBy
  <1>5. /\ DOMAIN items = DOMAIN q.order /\ DOMAIN items = 1..Len(items) /\ Len(items) \in Nat
        /\ DOMAIN q.order = 1..Len(q.order) /\ Len(q.order) \in Nat
    <2>1. DOMAIN items = DOMAIN q.order
      BY DEF SortKeys
    <2> HIDE DEF items
    <2> QED BY <1>1, <2>1, LenProperties
  <1>6. Len(items) # 0
    <2> SUFFICES ASSUME Len(items) = 0 PROVE FALSE
      OBVIOUS
    <2> HIDE DEF items
    <2>1. items = <<>>
      BY <1>1, EmptySeq
    <2>2. Commas(items) = <<>>
      BY <2>1 DEF Commas
    <2>3. s = <<>>
      BY <2>2 DEF Separated, Commas, FlattenSeq
    <2> QED BY <1>1, <2>3
  <1>7. 1 \in DOMAIN q.order /\ q.order # <<>>
    <2> HIDE DEF items
    <2>1. 1 \in DOMAIN q.order
      BY <1>5, <1>6
    <2>2. Len(q.order) # 0
      <3> DEFINE m == Len(q.order)
      <3>1. m \in Nat /\ 1 \in 1..m
        BY <1>5, <2>1
      <3> HIDE DEF m
      <3>2. m # 0
        BY <3>1
      <3> QED BY <3>2 DEF m
    <2>3. Len(<<>>) = 0
      OBVIOUS
    <2> QED BY <2>1, <2>2, <2>3
  <1>8. items[1] = Append(q.order[1].key, q.order[1].direction)
    BY <1>7 DEF SortKeys
  <1>9. q.order[1].key \in Seq(Symbols) /\ q.order[1].direction \in {"ASC", "DESC"}
    <2>1. q.order[1] \in [key : Text, direction : {"ASC", "DESC"}]
      BY <1>1, <1>5, <1>7, ElementOfSeq
    <2> QED BY <2>1 DEF Text
  <1> DEFINE y == Canonical(q.order[1].key) \o <<q.order[1].direction>>
  <1> HIDE DEF items
  <1>10. items[1] \in Seq(Symbols) /\ Canonical(items[1]) = y
    BY <1>8, <1>9, EntryFolded
  <1>11. Spans(s, 0, items[1])
    BY <1>1, <1>6, BeginsWithFirst
  <1> HIDE DEF s, y
  <1>12. Spans(c, 0, y)
    <2>1. 0 \in Nat
      OBVIOUS
    <2>2. Spans(Canonical(s), 0, Canonical(items[1]))
      BY <1>2, <1>10, <1>11, <2>1, SpansCanonical
    <2> QED BY <1>10, <2>2
  <1>13. y \in Seq(F)
    <2>1. \A w \in Symbols : Fold(w) \in F
      BY DEF Folded
    <2> QED BY <1>10, <2>1, CanonicalIs
  <1> HIDE DEF c, F
  <1>14. Spans(t, at[7] + 1, y)
    <2> DEFINE k == at[7] + 1
    <2>1. Len(t) \in Nat
      BY DEF Reads, Apart
    <2>2. k \in Nat /\ Spans(t, k, c)
      BY <1>4
    <2> HIDE DEF k
    <2>3. 0 \in Nat /\ k + 0 = k
      BY <2>2
    <2>4. Spans(t, k + 0, y)
      BY <1>4, <1>12, <1>13, <2>1, <2>2, <2>3, SpansWithin
    <2> QED BY <2>3, <2>4 DEF k
  <1> QED BY <1>4, <1>7, <1>9, <1>14 DEF y

(* The rows are sorted by the product id first, upwards.                   *)
LEMMA OrderRead ==
    ASSUME NEW q, NEW t, NEW at, NEW p, NEW i, Reads(q, t, at, p, i), Binds(q)
    PROVE  /\ q.order # <<>>
           /\ Canonical(q.order[1].key) \in {<<"ProductID">>, Column(p, "ProductID")}
           /\ q.order[1].direction = "ASC"
  <1> DEFINE key == Canonical(q.order[1].key)
             way == q.order[1].direction
             k == at[7]
  <1>1. /\ q.order # <<>> /\ 1 \in DOMAIN q.order /\ way \in {"ASC", "DESC"} /\ k \in Nat
        /\ Spans(t, k + 1, key \o <<way>>)
    BY OrderBegins
  <1>2. \/ \E j \in DOMAIN q.items : key = <<Fold(q.items[j].name)>>
        \/ \E j \in DOMAIN q.group : key = Canonical(q.group[j])
    BY <1>1 DEF Binds
  <1>3. (\E v : key = <<v>>) \/ key \in GroupKeys(p)
    <2>1. ASSUME NEW j \in DOMAIN q.group PROVE Canonical(q.group[j]) \in GroupKeys(p)
      <3>1. Len(q.group) = 3 /\ {Canonical(q.group[m]) : m \in 1..3} = GroupKeys(p)
        BY GroupRead
      <3>2. q.group \in Seq(Text)
        BY PartsAreTexts DEF Reads, Whole
      <3>3. j \in 1..3
        BY <2>1, <3>1, <3>2, LenProperties
      <3> QED BY <3>1, <3>3
    <2> HIDE DEF key
    <2> QED BY <1>2, <2>1
  <1>4. DOMAIN t = 1..Len(t) /\ Len(t) \in Nat /\ IsPlainWord(p) /\ Apart(t, at, FoldedParts(q))
    BY DEF Reads, Apart
  <1>5. KeyIsProductId(t, k)
    <2>1. 7 \in 1..7 /\ ClauseWord[7] = "ORDER"
      BY SevenWords
    <2>2. {j \in 1..Len(t) : t[j] = ClauseWord[7]} = {k}
      BY <1>4, <2>1, ApartKeyword
    <2>3. OrderedByProductId(t, {})
      BY DEF Reads, Rules
    <2>4. PICK j \in DOMAIN t : t[j] = "ORDER" /\ KeyIsProductId(t, j)
      BY <2>3 DEF OrderedByProductId, KeyIsProductId
    <2> HIDE DEF k
    <2> QED BY <1>4, <2>1, <2>2, <2>4
  <1> HIDE DEF key, way, k
  <1>6. key \in {<<"ProductID">>, Column(p, "ProductID")} /\ way = "ASC"
    BY <1>1, <1>3, <1>4, <1>5, FirstKeyRead
  <1> QED BY <1>1, <1>6 DEF key, way

(* Two columns with an equals sign between them.                           *)
LEMMA EqualRow ==
    ASSUME NEW v, NEW w, NEW x, x = Equal(Column(v, "ProductID"), Column(w, "ProductID"))
    PROVE  Len(x) = 7 /\ x[1] = v /\ x[2] = "." /\ x[5] = w /\ x[6] = "."
  <1> DEFINE S == {v, w, ".", "=", "ProductID"}
             a == Column(v, "ProductID")
             b == Column(w, "ProductID")
             e == <<"=">>
             y == a \o e
             z == y \o b
  <1>1. a = <<v, ".", "ProductID">> /\ b = <<w, ".", "ProductID">>
    BY DEF Column
  <1>2. /\ a \in Seq(S) /\ Len(a) = 3 /\ a[1] = v /\ a[2] = "."
        /\ b \in Seq(S) /\ Len(b) = 3 /\ b[1] = w /\ b[2] = "."
    <2>1. a \in Seq(S) /\ b \in Seq(S)
      BY <1>1, ShortTexts
    <2>2. Len(a) = 3 /\ a[1] = v /\ a[2] = "." /\ Len(b) = 3 /\ b[1] = w /\ b[2] = "."
      BY <1>1
    <2> QED BY <2>1, <2>2
  <1>3. e \in Seq(S) /\ Len(e) = 1
    BY ShortTexts
  <1>4. x = z
    BY DEF Equal
  <1> HIDE DEF S, a, b, e
  <1>5. y \in Seq(S) /\ Len(y) = Len(a) + Len(e) /\ Spans(y, 0, a)
    BY <1>2, <1>3, SpansConcat
  <1> HIDE DEF y
  <1>6. /\ Len(z) = Len(y) + Len(b) /\ Spans(z, 0, y) /\ Spans(z, Len(y), b)
    BY <1>2, <1>5, SpansConcat
  <1> HIDE DEF z
  <1>7. y[0 + 1] = v /\ y[0 + 2] = "." /\ Len(y) = 4
    BY <1>2, <1>3, <1>5 DEF Spans
  <1>8. z[0 + 1] = y[1] /\ z[0 + 2] = y[2] /\ z[4 + 1] = w /\ z[4 + 2] = "." /\ Len(z) = 7
    BY <1>2, <1>6, <1>7 DEF Spans
  <1> QED BY <1>4, <1>7, <1>8

(* The predicate of the join names both aliases.                           *)
LEMMA QualifiersRead ==
    ASSUME NEW on \in Text, NEW p, NEW i, Canonical(on) \in JoinPredicates(p, i)
    PROVE  p \in Qualifiers(on) /\ i \in Qualifiers(on)
  <1> DEFINE x == Canonical(on)
  <1>1. /\ Len(x) = 7 /\ x[2] = "." /\ x[6] = "."
        /\ (x[1] = p /\ x[5] = i) \/ (x[1] = i /\ x[5] = p)
    <2>1. CASE x = Equal(Column(p, "ProductID"), Column(i, "ProductID"))
      <3> HIDE DEF x
      <3> QED BY <2>1, EqualRow
    <2>2. CASE x = Equal(Column(i, "ProductID"), Column(p, "ProductID"))
      <3> HIDE DEF x
      <3> QED BY <2>2, EqualRow
    <2> HIDE DEF x
    <2> QED BY <2>1, <2>2 DEF JoinPredicates, x
  <1>2. /\ Len(x) = Len(on) /\ Len(on) \in Nat /\ DOMAIN on = 1..Len(on)
        /\ \A j \in 1..Len(on) : x[j] = Fold(on[j])
    <2>1. on \in Seq(Symbols) /\ \A w \in Symbols : Fold(w) \in Folded(Symbols)
      BY DEF Text, Folded
    <2> QED BY <2>1, CanonicalIs, LenProperties
  <1> HIDE DEF x
  <1>3. DOMAIN on = 1..7 /\ x[1] = Fold(on[1]) /\ x[5] = Fold(on[5])
        /\ Fold(on[2]) = "." /\ Fold(on[6]) = "."
    <2>1. Len(on) = 7
      BY <1>1, <1>2
    <2>2. 1 \in 1..7 /\ 2 \in 1..7 /\ 5 \in 1..7 /\ 6 \in 1..7
      OBVIOUS
    <2>3. DOMAIN on = 1..7 /\ \A j \in 1..7 : x[j] = Fold(on[j])
      BY <1>2, <2>1
    <2>4. x[1] = Fold(on[1]) /\ x[2] = Fold(on[2]) /\ x[5] = Fold(on[5]) /\ x[6] = Fold(on[6])
      BY <2>2, <2>3
    <2> QED BY <1>1, <2>3, <2>4
  <1>4. on[2] = "." /\ on[6] = "."
    BY <1>3, MarksKept, VocabularyIsWords
  <1>5. /\ 1 \in {j \in DOMAIN on : At(on, j + 1, ".")}
        /\ 5 \in {j \in DOMAIN on : At(on, j + 1, ".")}
    <2>1. 1 + 1 = 2 /\ 5 + 1 = 6 /\ 1 \in 1..7 /\ 2 \in 1..7 /\ 5 \in 1..7 /\ 6 \in 1..7
      OBVIOUS
    <2> QED BY <1>3, <1>4, <2>1 DEF At
  <1>6. Fold(on[1]) \in Qualifiers(on) /\ Fold(on[5]) \in Qualifiers(on)
    BY <1>5 DEF Qualifiers
  <1> QED BY <1>1, <1>3, <1>6

(* The join can see the table it is on: nothing else is before it.         *)
LEMMA OneTable ==
    ASSUME NEW q, Whole(q), Binds(q), NEW p, NEW i, {p, i} = {FirstAlias(q), SecondAlias(q)},
           FirstAlias(q) # SecondAlias(q), Canonical(q.joins[1].on) \in JoinPredicates(p, i)
    PROVE  Len(q.tables) = 1
  <1> DEFINE n == Len(q.tables)
             on == q.joins[1].on
             left == Last(q.tables).alias
             aliases == [k \in 1..(Len(q.tables) + Len(q.joins)) |->
                            Fold(IF k <= Len(q.tables) THEN q.tables[k].alias
                                 ELSE q.joins[k - Len(q.tables)].table.alias)]
  <1>1. q.tables \in Seq(Table) /\ q.tables # <<>> /\ Len(q.joins) = 1 /\ on \in Text
        /\ DOMAIN q.joins = 1..1
    <2>1. q.tables \in Seq(Table) /\ q.joins \in Seq([kind : Text, table : Table, on : Text])
      BY PartsAreTexts DEF Whole
    <2>2. q.tables # <<>> /\ Len(q.joins) = 1
      BY DEF Whole, Grammatical
    <2>3. on \in Text
      BY JoinParts DEF Whole
    <2> QED BY <2>1, <2>2, <2>3, LenProperties
  <1>2. n \in Nat /\ n # 0
    BY <1>1, EmptySeq, LenProperties
  <1>3. p \in Qualifiers(on) /\ i \in Qualifiers(on)
    <2> HIDE DEF on
    <2>1. Canonical(on) \in JoinPredicates(p, i)
      BY DEF on
    <2> QED BY <1>1, <2>1, QualifiersRead
  <1>4. Qualifiers(on) \subseteq {Fold(left), SecondAlias(q)}
    <2>1. 1 \in DOMAIN q.joins /\ \A j \in 1..1 : j = 1
      BY <1>1
    <2>2. Qualifiers(q.joins[1].on) \subseteq
             {Fold(Last(q.tables).alias)} \cup {Fold(q.joins[j].table.alias) : j \in 1..1}
      BY <2>1 DEF Binds
    <2> QED BY <2>1, <2>2 DEF SecondAlias
  <1>5. FirstAlias(q) = Fold(left)
    <2> HIDE DEF on, left
    <2> QED BY <1>3, <1>4
  <1>6. IsInjective(aliases)
    BY DEF Binds
  <1>7. aliases[1] = FirstAlias(q) /\ aliases[n] = Fold(left) /\ 1 \in DOMAIN aliases /\ n \in DOMAIN aliases
    <2>1. 1 \in 1..(n + 1) /\ n \in 1..(n + 1) /\ 1 <= n /\ n <= n
      BY <1>2
    <2>2. DOMAIN aliases = 1..(n + 1)
      BY <1>1
    <2>3. aliases[1] = Fold(q.tables[1].alias)
      BY <1>1, <2>1
    <2>4. aliases[n] = Fold(q.tables[n].alias)
      BY <1>1, <2>1
    <2>5. Last(q.tables) = q.tables[n]
      BY DEF Last
    <2> HIDE DEF aliases
    <2> QED BY <2>1, <2>2, <2>3, <2>4, <2>5 DEF FirstAlias
  <1> HIDE DEF aliases
  <1>8. 1 = n
    BY <1>5, <1>6, <1>7 DEF IsInjective
  <1> QED BY <1>8

(* What the guardrail accepts is read as it was written.                   *)
LEMMA AcceptedReads ==
    ASSUME NEW q \in Query, Grammatical(q), GuardrailAccepts(Sql(q)),
           ~HidesTable(q), ~MakesUpNames(q)
    PROVE  \E t, at, p, i :
              /\ Reads(q, t, at, p, i) /\ FirstAlias(q) # SecondAlias(q)
              /\ \/ /\ FirstName(q) = "Product" /\ SecondName(q) = "ProductInventory"
                    /\ p = FirstAlias(q) /\ i = SecondAlias(q)
                 \/ /\ FirstName(q) = "ProductInventory" /\ SecondName(q) = "Product"
                    /\ i = FirstAlias(q) /\ p = SecondAlias(q)
  <1> DEFINE t == Canonical(Render(q))
             p == AliasFor(t, "Product", {})
             i == AliasFor(t, "ProductInventory", {})
  <1>1. Whole(q) /\ Rules(t, p, i)
    BY AcceptedIsWhole
  <1>2. PICK at : Apart(t, at, FoldedParts(q))
    BY <1>1, PartsApart
  <1>3. t \in Seq(Folded(Symbols))
    BY <1>1, PartsApart
  <1>4. TablesAreApproved(t, {})
    BY <1>1 DEF Rules
  <1>5. t = Canonical(Render(q))
    OBVIOUS
  <1> HIDE DEF t
  <1>6. /\ {FirstName(q), SecondName(q)} = AllowedTables
        /\ FirstAlias(q) # SecondAlias(q)
        /\ AliasFor(t, FirstName(q), {}) = FirstAlias(q) /\ AliasFor(t, SecondName(q), {}) = SecondAlias(q)
    BY <1>1, <1>2, <1>4, <1>5, TablesRead
  <1>7. IsPlainWord(FirstAlias(q)) /\ IsPlainWord(SecondAlias(q))
    BY <1>1, <1>2, <1>5, TablesWritten
  <1>8. \/ /\ FirstName(q) = "Product" /\ SecondName(q) = "ProductInventory"
           /\ p = FirstAlias(q) /\ i = SecondAlias(q)
        \/ /\ FirstName(q) = "ProductInventory" /\ SecondName(q) = "Product"
           /\ i = FirstAlias(q) /\ p = SecondAlias(q)
    BY <1>6, TwoTables
  <1> HIDE DEF p, i
  <1>9. Reads(q, t, at, p, i)
    BY <1>1, <1>2, <1>3, <1>7, <1>8 DEF Reads
  <1> QED BY <1>6, <1>8, <1>9

(* An accepted query of the grammar that can be bound is the demo's.       *)
LEMMA AcceptedIsDemo ==
    ASSUME NEW q \in Query, Grammatical(q), Binds(q), GuardrailAccepts(Sql(q)),
           ~HidesTable(q), ~MakesUpNames(q)
    PROVE  Representative(q)
  <1>1. PICK t, at, p, i :
              /\ Reads(q, t, at, p, i) /\ FirstAlias(q) # SecondAlias(q)
              /\ \/ /\ FirstName(q) = "Product" /\ SecondName(q) = "ProductInventory"
                    /\ p = FirstAlias(q) /\ i = SecondAlias(q)
                 \/ /\ FirstName(q) = "ProductInventory" /\ SecondName(q) = "Product"
                    /\ i = FirstAlias(q) /\ p = SecondAlias(q)
    BY AcceptedReads
  <1>2. Whole(q) /\ Len(q.joins) = 1
    BY <1>1 DEF Reads, Whole
  <1>3. Canonical(q.joins[1].on) \in JoinPredicates(p, i) /\ q.where = <<>>
    BY <1>1, JoinRead
  <1>4. Len(q.tables) = 1
    <2>1. {p, i} = {FirstAlias(q), SecondAlias(q)}
      BY <1>1
    <2> QED BY <1>1, <1>2, <1>3, <2>1, OneTable
  <1>5. Len(q.group) = 3 /\ {Canonical(q.group[k]) : k \in 1..3} = GroupKeys(p)
    BY <1>1, GroupRead
  <1>6. Canonical(q.having) = HavingPredicate(p, i)
    BY <1>1, HavingRead
  <1>7. /\ Len(q.items) = 4
        /\ {Canonical(Named(q.items[k].expr, q.items[k].name)) : k \in 1..4} =
               {Named(column[1], column[2]) : column \in OutputColumns(p, i)}
    <2>1. /\ Len(q.items) = 4
          /\ {Canonical(Named(q.items[k].expr, q.items[k].name)) : k \in 1..4} =
                 OutputExpressions(p, i)
      BY <1>1, OutputsRead
    <2>2. OutputExpressions(p, i) = {Named(column[1], column[2]) : column \in OutputColumns(p, i)}
      BY OutputsAreNamed
    <2> QED BY <2>1, <2>2, Zenon
  <1>8. /\ q.order # <<>>
        /\ Canonical(q.order[1].key) \in {<<"ProductID">>, Column(p, "ProductID")}
        /\ q.order[1].direction = "ASC"
    BY <1>1, OrderRead
  <1>9. \E n \in Numerals :
           q.top \in {<<n>>, <<"(", n, ")">>} /\ ValueOf[n] \in 1..MaximumReturnedRows
    BY <1>1, TopRead
  <1> DEFINE first == q.tables[1]
             second == q.joins[1].table
  <1>10. /\ p = Fold(IF Fold(first.name) = "Product" THEN first.alias ELSE second.alias)
         /\ i = Fold(IF Fold(first.name) = "Product" THEN second.alias ELSE first.alias)
         /\ {Fold(first.name), Fold(second.name)} = AllowedTables
    BY <1>1 DEF FirstName, FirstAlias, SecondName, SecondAlias, AllowedTables
  <1> QED BY <1>2, <1>3, <1>4, <1>5, <1>6, <1>7, <1>8, <1>9, <1>10, SMTT(30) DEF Representative

(* What the guardrail of sql_guardrail.py lets through, over any words and *)
(* names and in any layout, is the demo's query, unless it hides a table   *)
(* or makes up names: no rule that looks for a word anywhere in the text   *)
(* is satisfied by a word of another clause.                               *)
THEOREM AcceptedAreRepresentative ==
    Spec => [](query # NoQuery /\ Grammatical(query) => AcceptedIsRepresentative)
  <1> DEFINE Typed == query # NoQuery => query \in Query
             Goal == query # NoQuery /\ Grammatical(query) => AcceptedIsRepresentative
  <1>1. Init => Typed
    BY GateAssumption DEF Init
  <1>2. Typed /\ [Next]_gateVars => Typed'
    BY DEF Next, Accept, Refuse, gateVars
  <1>3. Typed /\ VerdictOnQuery => Goal
    BY AcceptedIsDemo DEF VerdictOnQuery, AcceptedIsRepresentative
  <1> QED BY <1>1, <1>2, <1>3, LayoutsDoNotMatter, PTL DEF Spec
=============================================================================
