----------------------------- MODULE SqlGuardrail -----------------------------
(***************************************************************************)
(* The two checks of generated SQL, which trust nothing of each other:     *)
(* sql_guardrail.validate in the backend and _validate_sql of the          *)
(* read-only query executor in the MCP server.                             *)
(*                                                                         *)
(* A statement is the sequence of its tokens, words, numerals and          *)
(* punctuation, and its layout.  Usually two words are separated by white  *)
(* space and nothing separates a word from a dot.  The layout is odd in    *)
(* front of a token where it is not so: a name and another word with       *)
(* nothing but a square bracket between them, or white space next to a     *)
(* dot.  The rules on single words demand the usual layout, each where its *)
(* pattern says so; the comparison of whole clauses ignores brackets and   *)
(* white space.  Two keywords are always separated by white space.         *)
(*                                                                         *)
(* A word that is spelled in other capitals than here is mapped by         *)
(* OtherCase; both checks ignore capitals everywhere but in the name of an *)
(* output column.                                                          *)
(***************************************************************************)
EXTENDS Integers, FiniteSets, SequencesExt

CONSTANTS Numerals,   \* the tokens that are written in digits
          ValueOf,    \* [Numerals -> Nat]
          OtherCase,  \* [spellings in other capitals -> spellings used here]
          MaximumReturnedRows

(* "FENCE" is the mark of a Markdown code block, three backquotes.         *)
Punctuation == {"(", ")", ".", ",", "=", "<", ">", ";", "'", "--", "/*", "*", "FENCE"}

ReservedWords ==
    {"SELECT", "FROM", "JOIN", "INNER", "LEFT", "ON", "WHERE", "GROUP", "BY",
     "HAVING", "ORDER", "ASC", "DESC", "TOP", "AS", "AND", "OR", "NOT", "IN",
     "IS", "NULL", "SUM", "COUNT", "AVG", "MIN", "MAX"}
AllowedTables == {"Product", "ProductInventory"}
AllowedSourceColumns == {"ProductID", "Name", "SafetyStockLevel", "Quantity"}
AllowedOutputAliases == {"ProductID", "Name", "CurrentInventory", "SafetyStockLevel"}
RequiredGroupByColumns == {"ProductID", "Name", "SafetyStockLevel"}
ClauseBoundaries == {"INNER", "LEFT", "JOIN", "GROUP", "HAVING", "ORDER"}

(* The executor's list, and what the guardrail's has in addition.          *)
ExecutorForbidden ==
    {"INSERT", "UPDATE", "DELETE", "MERGE", "EXEC", "EXECUTE", "DROP", "ALTER",
     "CREATE", "TRUNCATE", "GRANT", "REVOKE", "INTO"}
GuardrailForbidden == ExecutorForbidden \cup {"WITH", "UNION", "EXCEPT", "INTERSECT"}

(* The words that the code spells out.                                     *)
Vocabulary ==
    ReservedWords \cup GuardrailForbidden \cup AllowedTables \cup {"Production"}
        \cup AllowedSourceColumns \cup AllowedOutputAliases

ASSUME SqlAssumption ==
    /\ ValueOf \in [Numerals -> Nat]
    /\ Numerals \cap (Punctuation \cup Vocabulary) = {}
    /\ DOMAIN OtherCase \cap (Numerals \cup Punctuation \cup Vocabulary) = {}
    /\ \A w \in DOMAIN OtherCase : OtherCase[w] \notin Numerals \cup Punctuation
    /\ MaximumReturnedRows \in Nat \ {0}

-----------------------------------------------------------------------------
Fold(w) == IF w \in DOMAIN OtherCase THEN OtherCase[w] ELSE w
Canonical(s) == [k \in DOMAIN s |-> Fold(s[k])]

At(t, k, w) == k \in DOMAIN t /\ t[k] = w
WordAt(t, k) == k \in DOMAIN t /\ t[k] \notin Punctuation \cup Numerals
Occur(t, W) == \E k \in DOMAIN t : t[k] \in W

(* The first position after k that holds a word of W, or one past the end. *)
FirstAfter(t, W, k) ==
    Min({j \in (k + 1)..Len(t) : t[j] \in W} \cup {Len(t) + 1})

(* _extract_clause_after, for the word at position k.                      *)
ClauseAfter(t, k) == SubSeq(t, k + 1, FirstAfter(t, ClauseBoundaries, k) - 1)

(* _split_top_level_commas: where the items begin, and the item there.     *)
Depth(c, k) ==
    Cardinality({j \in 1..(k - 1) : c[j] = "("}) - Cardinality({j \in 1..(k - 1) : c[j] = ")"})
Cuts(c) == {0} \cup {k \in DOMAIN c : c[k] = "," /\ Depth(c, k) = 0}
ItemAfter(c, cuts, cut) == SubSeq(c, cut + 1, Min({k \in cuts : k > cut} \cup {Len(c) + 1}) - 1)

(* A list with these cuts, read so item by item, has the given items, each *)
(* once and in any order.                                                  *)
ListsExactly(cuts, read, items) == Cardinality(cuts) = Cardinality(items) /\ read = items

(* _normalize_predicate drops all white space: words that stand side by    *)
(* side are compared as the one word that they make together.              *)
SideBySide(c) == \E k \in 1..(Len(c) - 1) : c[k] \notin Punctuation /\ c[k + 1] \notin Punctuation
RunTogether(c) ==
    LET Add(read, w) ==
            IF read # <<>> /\ Last(read) \notin Punctuation /\ w \notin Punctuation
            THEN Append(Front(read), Last(read) \o w)
            ELSE Append(read, w)
    IN  Canonical(FoldLeft(Add, <<>>, c))
Squeezed(c) == IF SideBySide(c) THEN RunTogether(c) ELSE c

(* One semicolon at the end is dropped.                                    *)
Cleaned(s) == IF At(s, Len(s), ";") THEN SubSeq(s, 1, Len(s) - 1) ELSE s

-----------------------------------------------------------------------------
(* Rules 1 to 5 and 7 of the guardrail.                                    *)
SingleSelect(t) ==
    /\ t # <<>>
    /\ ~Occur(t, {";", "'", "--", "/*", "*"})
    /\ {k \in DOMAIN t : t[k] = "SELECT"} = {1}

(* Mutant of NoForbiddenKeyword: the keyword rule is left to the allowlist *)
(* of identifiers.                                                         *)
NoForbiddenKeywordSkipped(t) == TRUE

NoForbiddenKeyword(t) == ~Occur(t, GuardrailForbidden)

(* Rule 6: SELECT TOP n, each parenthesis optional by itself.              *)
TopPosition(t) == IF At(t, 3, "(") THEN 4 ELSE 3
HasTop(t) == At(t, 2, "TOP") /\ TopPosition(t) \in DOMAIN t /\ t[TopPosition(t)] \in Numerals
TopOf(t) == ValueOf[t[TopPosition(t)]]

(* Mutant of TopIsBounded: the bound is off by one.                        *)
TopIsBoundedPlusOne(t) == HasTop(t) /\ TopOf(t) \in 1..(MaximumReturnedRows + 1)

TopIsBounded(t) == HasTop(t) /\ TopOf(t) \in 1..MaximumReturnedRows

(* Rules 8 and 9: what follows FROM and JOIN, with its alias.  A word that *)
(* is FROM or JOIN and an alias too is refused with its clauses.  A table  *)
(* whose bracket touches FROM or JOIN is not seen, and the schema is only  *)
(* read with its dot between the names.                                    *)
TableRefs(t, odd) ==
    {k \in DOMAIN t : t[k] \in {"FROM", "JOIN"} /\ WordAt(t, k + 1) /\ k + 1 \notin odd}
NamePosition(t, ref, odd) ==
    IF /\ At(t, ref + 1, "Production") /\ At(t, ref + 2, ".") /\ WordAt(t, ref + 3)
       /\ ref + 2 \notin odd /\ ref + 3 \notin odd
    THEN ref + 3
    ELSE ref + 1
TableAt(t, ref, odd) == t[NamePosition(t, ref, odd)]
AliasAt(t, ref, odd) == t[NamePosition(t, ref, odd) + 2]
DeclaresAlias(t, ref, odd) ==
    LET n == NamePosition(t, ref, odd)
    IN  At(t, n + 1, "AS") /\ WordAt(t, n + 2) /\ n + 1 \notin odd /\ n + 2 \notin odd

(* Mutant of TablesAreDistinct: a table may be referenced twice.           *)
AliasesAreDistinct(t, odd) ==
    \A a, b \in TableRefs(t, odd) : a # b => AliasAt(t, a, odd) # AliasAt(t, b, odd)

TablesAreDistinct(t, odd) ==
    \A a, b \in TableRefs(t, odd) :
        a # b => TableAt(t, a, odd) # TableAt(t, b, odd) /\ AliasAt(t, a, odd) # AliasAt(t, b, odd)

TablesAreApproved(t, odd) ==
    /\ \A ref \in TableRefs(t, odd) :
          TableAt(t, ref, odd) \in AllowedTables /\ DeclaresAlias(t, ref, odd)
    /\ TablesAreDistinct(t, odd)
    /\ AllowedTables \subseteq {TableAt(t, ref, odd) : ref \in TableRefs(t, odd)}

(* The alias of a table: table_alias_to_table, turned round.               *)
AliasFor(t, table, odd) ==
    AliasAt(t, CHOOSE ref \in TableRefs(t, odd) : TableAt(t, ref, odd) = table, odd)

(* Rules 10 and 11: every other AS, and all words.  The name of an output  *)
(* column is compared as it is spelled in s.                               *)
OutputAs(t, odd) ==
    {k \in DOMAIN t : At(t, k, "AS") /\ WordAt(t, k + 1) /\ k + 1 \notin odd}
        \ {NamePosition(t, ref, odd) + 1 : ref \in TableRefs(t, odd)}

OutputNamesAreApproved(s, t, odd) == \A k \in OutputAs(t, odd) : s[k + 1] \in AllowedOutputAliases

WordsAreApproved(t, odd) ==
    LET names == {AliasAt(t, ref, odd) : ref \in TableRefs(t, odd)} \cup {t[k + 1] : k \in OutputAs(t, odd)}
        approved == ReservedWords \cup AllowedTables \cup {"Production"} \cup AllowedSourceColumns
    IN  {t[k] : k \in {j \in DOMAIN t : WordAt(t, j)}} \subseteq approved \cup names

(* Rule 12, found anywhere in the text.                                    *)
OrderedByProductId(t, odd) ==
    \E k \in DOMAIN t :
        /\ t[k] = "ORDER" /\ At(t, k + 1, "BY")
        /\ LET key == IF WordAt(t, k + 2) /\ At(t, k + 3, ".") THEN k + 4 ELSE k + 2
           IN  /\ At(t, key, "ProductID") /\ At(t, key + 1, "ASC")
               /\ ((k + 2)..(key + 1)) \cap odd = {}

-----------------------------------------------------------------------------
(* The checks of the fixed demo scope: every clause, from its keyword to   *)
(* the next boundary, is the approved one.                                 *)
Column(alias, column) == <<alias, ".", column>>
SumOf(expr) == <<"SUM", "(">> \o expr \o <<")">>
Named(expr, name) == expr \o <<"AS", name>>

Equal(a, b) == a \o <<"=">> \o b
JoinPredicates(p, i) ==
    {Equal(Column(p, "ProductID"), Column(i, "ProductID")),
     Equal(Column(i, "ProductID"), Column(p, "ProductID"))}
HavingPredicate(p, i) == SumOf(Column(i, "Quantity")) \o <<"<">> \o Column(p, "SafetyStockLevel")
GroupKeys(p) == {Column(p, c) : c \in RequiredGroupByColumns}
OutputColumns(p, i) ==
    {<<Column(p, c), c>> : c \in RequiredGroupByColumns}
        \cup {<<SumOf(Column(i, "Quantity")), "CurrentInventory">>}

JoinIsApproved(t, p, i) ==
    LET on == FirstAfter(t, {"ON"}, 0)
    IN  on \in DOMAIN t /\ Squeezed(ClauseAfter(t, on)) \in JoinPredicates(p, i)

GroupBys(t) == {k \in DOMAIN t : t[k] = "GROUP" /\ At(t, k + 1, "BY")}
GroupByIsApproved(t, p) ==
    \E k \in GroupBys(t) :
        LET c == ClauseAfter(t, k + 1)
            cuts == Cuts(c)
        IN  /\ GroupBys(t) = {k}
            /\ ListsExactly(cuts, {Squeezed(ItemAfter(c, cuts, cut)) : cut \in cuts}, GroupKeys(p))

(* Mutant of HavingIsApproved: the predicate may be followed by another.   *)
HavingBeginsApproved(t, p, i) ==
    LET having == FirstAfter(t, {"HAVING"}, 0)
        approved == HavingPredicate(p, i)
        clause == ClauseAfter(t, having)
    IN  /\ having \in DOMAIN t
        /\ Len(clause) >= Len(approved)
        /\ SubSeq(clause, 1, Len(approved)) = approved

HavingIsApproved(t, p, i) ==
    LET having == FirstAfter(t, {"HAVING"}, 0)
    IN  having \in DOMAIN t /\ Squeezed(ClauseAfter(t, having)) = HavingPredicate(p, i)

(* _SELECT_ITEM_PATTERN: an expression, compared without its white space,  *)
(* and a name behind the AS.                                               *)
ReadItem(c) ==
    IF Len(c) > 2 /\ c[Len(c) - 1] = "AS"
    THEN <<Squeezed(SubSeq(c, 1, Len(c) - 2)), Last(c)>>
    ELSE <<>>

(* _extract_select_list: from behind the TOP to the next FROM.             *)
SelectListIsApproved(t, p, i) ==
    LET top == IF At(t, TopPosition(t) + 1, ")") THEN TopPosition(t) + 1 ELSE TopPosition(t)
        c == SubSeq(t, top + 1, FirstAfter(t, {"FROM"}, top) - 1)
        cuts == Cuts(c)
    IN  ListsExactly(cuts, {ReadItem(ItemAfter(c, cuts, cut)) : cut \in cuts}, OutputColumns(p, i))

(* sql_guardrail.validate.  The plan is not among its arguments.           *)
GuardrailAccepts(sql) ==
    LET s == Cleaned(sql.tokens)
        t == Canonical(s)
        p == AliasFor(t, "Product", sql.odd)
        i == AliasFor(t, "ProductInventory", sql.odd)
    IN  /\ SingleSelect(t) /\ NoForbiddenKeyword(t) /\ TopIsBounded(t)
        /\ TablesAreApproved(t, sql.odd)
        /\ OutputNamesAreApproved(s, t, sql.odd) /\ WordsAreApproved(t, sql.odd)
        /\ OrderedByProductId(t, sql.odd)
        /\ JoinIsApproved(t, p, i)
        /\ GroupByIsApproved(t, p)
        /\ HavingIsApproved(t, p, i)
        /\ SelectListIsApproved(t, p, i)

(* readonly_query_executor._validate_sql.                                  *)
ExecutorAccepts(tokens) ==
    LET t == Canonical(Cleaned(tokens))
    IN  /\ t # <<>> /\ t[1] = "SELECT"
        /\ ~Occur(t, {";", "--", "/*"})
        /\ ~Occur(t, ExecutorForbidden)
=============================================================================
