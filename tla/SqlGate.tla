-------------------------------- MODULE SqlGate --------------------------------
(***************************************************************************)
(* The SQL gate of a question: one answer of the LLM goes through          *)
(* _extract_sql of sql_generator and sql_guardrail.validate, without an    *)
(* await between them.                                                     *)
(*                                                                         *)
(* The guardrail judges text; what text means is said here by queries,     *)
(* records with one field per clause of a SELECT, which are rendered, and  *)
(* the layout of the text.  A FROM clause is a list of tables separated by *)
(* commas, the last of them joined with more tables; parentheses around    *)
(* tables are left out.                                                    *)
(***************************************************************************)
EXTENDS SqlGuardrail

CONSTANTS Symbols,     \* the tokens that there are
          LlmQueries,  \* queries that the LLM may render
          LlmTexts     \* other texts that the LLM may answer

Text == Seq(Symbols)
Table == [schema : BOOLEAN, name : Symbols, alias : Symbols]
Query ==
    [top : Text, items : Seq([expr : Text, name : Symbols]), tables : Seq(Table),
     joins : Seq([kind : Text, table : Table, on : Text]), where : Text, group : Seq(Text),
     having : Text, order : Seq([key : Text, direction : {"ASC", "DESC"}]), odd : SUBSET Nat]

(* Lines of text, and where the layout of the SQL among them is odd.       *)
Answer == [lines : Seq(Text), odd : SUBSET Nat]

ASSUME GateAssumption ==
    /\ {"SELECT", "TOP", "AS", "FROM", "Production", ".", ",", "JOIN", "ON", "WHERE",
        "GROUP", "BY", "HAVING", "ORDER", "ASC", "DESC", "FENCE", "sql"} \subseteq Symbols
    /\ LlmQueries \subseteq Query
    /\ LlmTexts \subseteq Answer

VARIABLES query,    \* the query that was rendered, NoQuery for another text
          answer,   \* the text of the LLM
          verdict

gateVars == <<query, answer, verdict>>

NoQuery == [none |-> TRUE]

-----------------------------------------------------------------------------
(* Mutant of ExtractSql: the closing fence is taken to be there always.    *)
ExtractSqlDropsLastLine(text) ==
    LET lines == text.lines
    IN  [tokens |-> IF lines # <<>> /\ At(lines[1], 1, "FENCE")
                    THEN FlattenSeq(SubSeq(lines, 2, Len(lines) - 1))
                    ELSE FlattenSeq(lines),
         odd |-> text.odd]

(* sql_generator._extract_sql: a first line that opens a fence is dropped, *)
(* and then a last line that begins with one.                              *)
WithoutFence(lines) ==
    IF lines # <<>> /\ At(lines[1], 1, "FENCE")
    THEN LET body == Tail(lines)
         IN  IF body # <<>> /\ At(Last(body), 1, "FENCE") THEN Front(body) ELSE body
    ELSE lines
ExtractSql(text) == [tokens |-> FlattenSeq(WithoutFence(text.lines)), odd |-> text.odd]

(* External: a query as SQL Server's grammar writes it.                    *)
Separated(items) ==
    FlattenSeq([k \in DOMAIN items |-> IF k = 1 THEN items[k] ELSE <<",">> \o items[k]])
Clause(keywords, body) == IF body = <<>> THEN <<>> ELSE keywords \o body
TableRef(table) ==
    (IF table.schema THEN <<"Production", ".">> ELSE <<>>) \o <<table.name, "AS", table.alias>>
Joined(join) == join.kind \o <<"JOIN">> \o TableRef(join.table) \o <<"ON">> \o join.on

Render(q) ==
    <<"SELECT", "TOP">> \o q.top \o Separated([k \in DOMAIN q.items |->
                                                  Named(q.items[k].expr, q.items[k].name)])
    \o <<"FROM">> \o Separated([k \in DOMAIN q.tables |-> TableRef(q.tables[k])])
    \o FlattenSeq([k \in DOMAIN q.joins |-> Joined(q.joins[k])])
    \o Clause(<<"WHERE">>, q.where)
    \o Clause(<<"GROUP", "BY">>, Separated(q.group))
    \o Clause(<<"HAVING">>, q.having)
    \o Clause(<<"ORDER", "BY">>, Separated([k \in DOMAIN q.order |->
                                               Append(q.order[k].key, q.order[k].direction)]))

Sql(q) == [tokens |-> Render(q), odd |-> q.odd]

(* The LLM answers in one line, or in a block with or without its end.     *)
Layouts(tokens) == {<<tokens>>,
                    << <<"FENCE", "sql">>, tokens, <<"FENCE">> >>,
                    << <<"FENCE">>, tokens>>}

-----------------------------------------------------------------------------
Init ==
    /\ \/ /\ query \in LlmQueries
          /\ answer \in [lines : Layouts(Render(query)), odd : {query.odd}]
       \/ /\ query = NoQuery
          /\ answer \in LlmTexts
    /\ verdict = "pending"

Accept ==
    /\ verdict = "pending" /\ GuardrailAccepts(ExtractSql(answer))
    /\ verdict' = "accepted"
    /\ UNCHANGED <<query, answer>>

(* Mutant of Refuse: the code of an earlier gate is reported.              *)
RefuseAsPlan ==
    /\ verdict = "pending" /\ ~GuardrailAccepts(ExtractSql(answer))
    /\ verdict' = "query_plan_invalid"
    /\ UNCHANGED <<query, answer>>

Refuse ==
    /\ verdict = "pending" /\ ~GuardrailAccepts(ExtractSql(answer))
    /\ verdict' = "sql_rejected"
    /\ UNCHANGED <<query, answer>>

Next == Accept \/ Refuse

Spec == Init /\ [][Next]_gateVars

-----------------------------------------------------------------------------
(* What a query means, apart from the code.                                *)

(* SQL Server can bind the names: the tables have different aliases, a     *)
(* join sees its own table and those joined before it but nothing left of  *)
(* a comma, and a sort key is an output column or a group key.             *)
Qualifiers(tokens) == {Fold(tokens[k]) : k \in {j \in DOMAIN tokens : At(tokens, j + 1, ".")}}

Binds(q) ==
    LET left == Last(q.tables).alias
        aliases == [k \in 1..(Len(q.tables) + Len(q.joins)) |->
                       Fold(IF k <= Len(q.tables) THEN q.tables[k].alias
                            ELSE q.joins[k - Len(q.tables)].table.alias)]
    IN  /\ IsInjective(aliases)
        /\ \A k \in DOMAIN q.joins :
              Qualifiers(q.joins[k].on) \subseteq
                  {Fold(left)} \cup {Fold(q.joins[j].table.alias) : j \in 1..k}
        /\ \A k \in DOMAIN q.order :
              LET key == Canonical(q.order[k].key)
              IN  \/ \E j \in DOMAIN q.items : key = <<Fold(q.items[j].name)>>
                  \/ \E j \in DOMAIN q.group : key = Canonical(q.group[j])

(* What the code does not see through.  A table touches, with its bracket, *)
(* the FROM or JOIN in front of it.                                        *)
HidesTable(q) ==
    \E k \in DOMAIN Render(q) : Fold(Render(q)[k]) \in {"FROM", "JOIN"} /\ k + 1 \in q.odd

(* Words that stand side by side are, taken together, an approved          *)
(* expression over aliases of the query.                                   *)
ApprovedTexts(p, i) ==
    JoinPredicates(p, i) \cup GroupKeys(p) \cup {HavingPredicate(p, i), SumOf(Column(i, "Quantity"))}
MakesUpNames(q) ==
    LET t == Canonical(Render(q))
        aliases == {t[k + 1] : k \in {j \in DOMAIN t : t[j] = "AS"}}
    IN  \E a, b \in DOMAIN t :
           /\ SideBySide(SubSeq(t, a, b))
           /\ LET read == RunTogether(SubSeq(t, a, b))
              IN  \E p, i \in aliases : read \in ApprovedTexts(p, i)

(* The query keeps to a grammar: no clause holds a word that begins        *)
(* another, and the items of a list are expressions, with matching         *)
(* parentheses and no comma outside of them.  Subqueries, LEFT as a        *)
(* function, names that are such words and TOP of anything but a constant  *)
(* are left out.                                                           *)
ClauseKeywords == {"SELECT", "FROM", "JOIN", "ON", "WHERE", "GROUP", "HAVING", "ORDER", ";"}
Lacks(tokens, words) == \A k \in DOMAIN tokens : Fold(tokens[k]) \notin words
IsTerm(tokens) == Lacks(tokens, ClauseKeywords \cup {"INNER", "LEFT"})
IsWord(w) == IsTerm(<<w>>) /\ w \notin Punctuation \cup Numerals
IsExpression(tokens) ==
    /\ IsTerm(tokens)
    /\ \A k \in DOMAIN tokens : Depth(tokens, k) >= 0
    /\ Depth(tokens, Len(tokens) + 1) = 0
    /\ Cuts(tokens) = {0}
NamesTable(table) == IsWord(table.name) /\ IsWord(table.alias)

Grammatical(q) ==
    /\ \E k \in DOMAIN q.top :
          /\ IsTerm(q.top) /\ q.top[k] \notin Punctuation
          /\ q.top \in {<<q.top[k]>>, <<"(", q.top[k], ")">>}
    /\ \A k \in DOMAIN q.items : IsExpression(q.items[k].expr) /\ IsWord(q.items[k].name)
    /\ q.tables # <<>> /\ \A k \in DOMAIN q.tables : NamesTable(q.tables[k])
    /\ \A k \in DOMAIN q.joins :
          /\ Lacks(q.joins[k].kind, ClauseKeywords)
          /\ NamesTable(q.joins[k].table) /\ IsTerm(q.joins[k].on)
    /\ IsTerm(q.where) /\ IsTerm(q.having)
    /\ \A k \in DOMAIN q.group : IsExpression(q.group[k])
    /\ \A k \in DOMAIN q.order : IsTerm(q.order[k].key)

(* The query is the demo's: per product its id, name, stock and safety     *)
(* stock, where the stock is below, at most the allowed number of rows     *)
(* from the smallest id on.  An outer join adds no row, for HAVING drops   *)
(* what has no match.                                                      *)
Representative(q) ==
    /\ Len(q.tables) = 1 /\ Len(q.joins) = 1 /\ q.where = <<>>
    /\ LET first == q.tables[1]
           second == q.joins[1].table
           p == Fold(IF Fold(first.name) = "Product" THEN first.alias ELSE second.alias)
           i == Fold(IF Fold(first.name) = "Product" THEN second.alias ELSE first.alias)
       IN  /\ {Fold(first.name), Fold(second.name)} = AllowedTables
           /\ Canonical(q.joins[1].on) \in JoinPredicates(p, i)
           /\ Len(q.group) = 3 /\ {Canonical(q.group[k]) : k \in 1..3} = GroupKeys(p)
           /\ Canonical(q.having) = HavingPredicate(p, i)
           /\ Len(q.items) = 4
           /\ {Canonical(Named(q.items[k].expr, q.items[k].name)) : k \in 1..4} =
                  {Named(column[1], column[2]) : column \in OutputColumns(p, i)}
           /\ q.order # <<>>
           /\ Canonical(q.order[1].key) \in {<<"ProductID">>, Column(p, "ProductID")}
           /\ q.order[1].direction = "ASC"
    /\ \E n \in Numerals :
          q.top \in {<<n>>, <<"(", n, ")">>} /\ ValueOf[n] \in 1..MaximumReturnedRows

(* It is written as the prompt asks, in the usual layout: the four output  *)
(* names as they are, no alias that is a word of SQL or no word at all,    *)
(* and the join not outer on the right.                                    *)
IsAlias(w) == Fold(w) \notin ReservedWords \cup GuardrailForbidden \cup Punctuation \cup Numerals
WrittenAsAsked(q) ==
    /\ q.odd = {}
    /\ \A k \in DOMAIN q.items : q.items[k].name \in AllowedOutputAliases
    /\ \A k \in DOMAIN q.tables : IsAlias(q.tables[k].alias)
    /\ \A k \in DOMAIN q.joins :
          /\ q.joins[k].kind \in {<<>>, <<"INNER">>, <<"LEFT">>}
          /\ IsAlias(q.joins[k].table.alias)

-----------------------------------------------------------------------------
(* Every variable has its type.                                            *)
GateTypeOK ==
    /\ answer \in Answer
    /\ verdict \in {"pending", "accepted", "sql_rejected"}

(* The verdict is that of the guardrail on the query as the LLM wrote it:  *)
(* the code block around it neither saves nor spoils it.                   *)
VerdictOnQuery ==
    query # NoQuery =>
        /\ verdict = "accepted" => GuardrailAccepts(Sql(query))
        /\ verdict = "sql_rejected" => ~GuardrailAccepts(Sql(query))

(* A query that passes the twelve textual rules and the clause checks, and *)
(* that the database can bind at all, is the representative one: no word   *)
(* in one clause is taken for a part of another.  It does not hold of the  *)
(* two layouts that the code does not see through.                         *)
AcceptedIsRepresentative ==
    verdict = "accepted" /\ query # NoQuery /\ Binds(query) =>
        Representative(query) \/ HidesTable(query) \/ MakesUpNames(query)

(* "The same table is never referenced twice" (sql_guardrail.py:14-17), in *)
(* a query that passes and can be bound.                                   *)
AcceptedTablesAreDistinct ==
    verdict = "accepted" /\ query # NoQuery /\ Binds(query) =>
        LET tables == query.tables \o [k \in DOMAIN query.joins |-> query.joins[k].table]
        IN  IsInjective([k \in DOMAIN tables |-> Fold(tables[k].name)])

(* The representative query passes in every order of its tables, the sides *)
(* of its join, its group keys and its output columns, with the schema or  *)
(* without, in a code block or not, and whatever the capitals, as long as  *)
(* the layout is the usual one.                                            *)
RepresentativeIsAccepted ==
    verdict = "sql_rejected" /\ query # NoQuery =>
        ~(Representative(query) /\ Binds(query) /\ WrittenAsAsked(query))

(* The executor never refuses what the guardrail let through: a question   *)
(* that passes ends with the answer of the database.                       *)
AcceptedPassesExecutor ==
    verdict = "accepted" => ExecutorAccepts(Cleaned(ExtractSql(answer).tokens))
================================================================================
