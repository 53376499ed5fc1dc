------------------------------- MODULE MCSqlGate -------------------------------
(***************************************************************************)
(* SqlGate over the representative query and every query that differs from *)
(* it in at most two clauses, and over the texts one token away from it.   *)
(***************************************************************************)
EXTENDS SqlGate

MCSymbols == STRING
MCNumerals == {"0", "1", "100", "101"}
MCValueOf == [n \in MCNumerals |-> CASE n = "0" -> 0 [] n = "1" -> 1 [] n = "100" -> 2 [] n = "101" -> 3]
MCOtherCase == [w \in {"P", "productid", "product"} |->
                   CASE w = "P" -> "p" [] w = "productid" -> "ProductID" [] w = "product" -> "Product"]

Of(name, alias) == [schema |-> TRUE, name |-> name, alias |-> alias]
Unqualified(table) == [table EXCEPT !.schema = FALSE]
Join(table, on) == [kind |-> <<"INNER">>, table |-> table, on |-> on]
On(a, b) == Equal(Column(a, "ProductID"), Column(b, "ProductID"))
Output(expr, name) == [expr |-> expr, name |-> name]
Key(key, direction) == [key |-> key, direction |-> direction]

BaseQuery ==
    [top |-> <<"(", "100", ")">>,
     items |-> <<Output(Column("p", "ProductID"), "ProductID"),
                 Output(Column("p", "Name"), "Name"),
                 Output(SumOf(Column("pi", "Quantity")), "CurrentInventory"),
                 Output(Column("p", "SafetyStockLevel"), "SafetyStockLevel")>>,
     tables |-> <<Of("Product", "p")>>,
     joins |-> <<Join(Of("ProductInventory", "pi"), On("p", "pi"))>>,
     where |-> <<>>,
     group |-> <<Column("p", "ProductID"), Column("p", "Name"), Column("p", "SafetyStockLevel")>>,
     having |-> HavingPredicate("p", "pi"),
     order |-> <<Key(Column("p", "ProductID"), "ASC")>>,
     odd |-> {}]

(* Each list with one element dropped, replaced, repeated or exchanged.    *)
Lists(list, elements) ==
    {RemoveAt(list, k) : k \in DOMAIN list}
    \cup {ReplaceAt(list, k, e) : k \in DOMAIN list, e \in elements}
    \cup {Append(list, e) : e \in elements}
    \cup {[list EXCEPT ![j] = list[k], ![k] = list[j]] : j, k \in DOMAIN list}

Predicates == {<<>>, Equal(<<"1">>, <<"1">>), On("p", "p"), On("pi", "p"), On("P", "pi")}
Extended(on) == {on \o <<w>> \o Equal(<<"1">>, <<"1">>) : w \in {"OR", "AND"}}

Variations ==
    [top |-> {<<n>> : n \in MCNumerals} \cup {<<"(", n, ")">> : n \in MCNumerals},
     items |-> Lists(BaseQuery.items,
                     {Output(Column("p", "ProductID"), "ProductID"),
                      Output(Column("P", "productid"), "ProductID"),
                      Output(Column("p", "ProductID"), "productid"),
                      Output(Column("pi", "Quantity"), "Name"),
                      Output(Column("p", "Quantity"), "CurrentInventory"),
                      Output(SumOf(Column("p", "Quantity")), "CurrentInventory"),
                      Output(Column("p", "ListPrice"), "SafetyStockLevel")}),
     tables |-> {<<Of(n, a)>> : n \in AllowedTables \cup {"Location"}, a \in {"p", "pi", "INTO"}}
         \cup {<<Unqualified(Of("Product", "p"))>>, <<Of("Product", "P")>>, <<Of("product", "p")>>}
         \cup {<<Of(n, a), Of(m, "p")>> : n, m \in AllowedTables, a \in {"Name", "x"}}
         \cup {<<Of("Product", "p"), Of(n, "Name")>> : n \in AllowedTables},
     joins |-> {<<>>}
         \cup {<<Join(Of("ProductInventory", "pi"), on)>> :
                   on \in (Predicates \cup Extended(On("p", "pi"))) \ {<<>>}}
         \cup {<<Join(Of("Product", "p"), On("p", "pi"))>>,
               <<Join(Of("ProductInventory", "INTO"), On("p", "INTO"))>>,
               <<Join(Unqualified(Of("ProductInventory", "pi")), On("p", "pi"))>>}
         \cup {<<[BaseQuery.joins[1] EXCEPT !.kind = kind]>> : kind \in {<<>>, <<"LEFT">>, <<"RIGHT">>}}
         \cup {<<Join(Of(n, "x"), On("p", "x")), BaseQuery.joins[1]>> : n \in AllowedTables}
         \cup {<<BaseQuery.joins[1], Join(Of(n, "x"), On("p", "p"))>> : n \in AllowedTables},
     where |-> Predicates \cup {<<"p", ".", "Name", "IS", "NOT", "NULL">>},
     group |-> Lists(BaseQuery.group,
                     {Column("pi", "Quantity"), Column("p", "Quantity"), Column("P", "Name"),
                      Column("pi", "ProductID"), <<"1">>, SumOf(Column("p", "SafetyStockLevel"))}),
     having |-> {<<>>, HavingPredicate("pi", "p"), HavingPredicate("p", "INTO"),
                 HavingPredicate("P", "pi"),
                 Column("pi", "Quantity") \o <<"<">> \o Column("p", "SafetyStockLevel"),
                 SumOf(Column("pi", "Quantity")) \o <<">">> \o Column("p", "SafetyStockLevel")}
         \cup Extended(HavingPredicate("p", "pi")),
     order |-> {<<>>}
         \cup {<<Key(k, d)>> : k \in {<<"ProductID">>, <<"Name">>, Column("p", "ProductID"),
                                      Column("pi", "ProductID"), Column("p", "productid")},
                              d \in {"ASC", "DESC"}}
         \cup {<<Key(Column("p", c), "ASC"), Key(Column("p", d), "ASC")>> :
                   c, d \in {"ProductID", "Name"}}]

Clauses == <<"top", "items", "tables", "joins", "where", "group", "having", "order">>
Vary(queries, c) == UNION {{[q EXCEPT ![c] = x] : x \in Variations[c]} : q \in queries}

(* The representative query with other aliases all through.                *)
Renamed(p, i) ==
    [BaseQuery EXCEPT
        !.items = <<Output(Column(p, "ProductID"), "ProductID"),
                    Output(Column(p, "Name"), "Name"),
                    Output(SumOf(Column(i, "Quantity")), "CurrentInventory"),
                    Output(Column(p, "SafetyStockLevel"), "SafetyStockLevel")>>,
        !.tables = <<Of("Product", p)>>,
        !.joins = <<Join(Of("ProductInventory", i), On(p, i))>>,
        !.group = <<Column(p, "ProductID"), Column(p, "Name"), Column(p, "SafetyStockLevel")>>,
        !.having = HavingPredicate(p, i),
        !.order = <<Key(Column(p, "ProductID"), "ASC")>>]

Swapped ==
    [BaseQuery EXCEPT !.tables = <<Of("ProductInventory", "pi")>>,
                      !.joins = <<Join(Of("Product", "p"), On("p", "pi"))>>]

(* One odd place anywhere, and a table more that touches its JOIN or not.  *)
WithoutSchema == [BaseQuery EXCEPT !.tables = <<Unqualified(Of("Product", "p"))>>]
WithJoin(name, alias, schema) ==
    [BaseQuery EXCEPT !.joins =
        Append(@, Join([schema |-> schema, name |-> name, alias |-> alias], Equal(<<"1">>, <<"1">>)))]
LaterJoins(q) == {k \in DOMAIN Render(q) : Render(q)[k] = "JOIN"} \ {FirstAfter(Render(q), {"JOIN"}, 0)}
OddlyLaidOut ==
    UNION {{[q EXCEPT !.odd = {k}] : k \in DOMAIN Render(q)} : q \in {BaseQuery, Swapped, WithoutSchema}}
    \cup UNION {{[q EXCEPT !.odd = {k + 1 : k \in seen}] : seen \in SUBSET LaterJoins(q)} :
                   q \in {WithJoin(n, a, b) : n \in AllowedTables \cup {"Location"},
                                             a \in {"Name", "x"}, b \in BOOLEAN}}

(* A condition that is the approved one without its white space.           *)
RunningTogether ==
    {[Renamed("NOTpi", "pi") EXCEPT !.joins[1].on = <<"NOT">> \o On("pi", "pi")],
     [Renamed("pORp", "pi") EXCEPT !.having = @ \o <<"OR", "p">>],
     [Renamed("NOTpi", "pi") EXCEPT !.group[1] = <<"NOT">> \o Column("pi", "ProductID")]}

MCQueries ==
    UNION {UNION {Vary(Vary({BaseQuery}, Clauses[j]), Clauses[k]) : k \in (j + 1)..Len(Clauses)} :
               j \in DOMAIN Clauses}
    \cup UNION {Vary({Swapped}, Clauses[j]) : j \in DOMAIN Clauses}
    \cup {Renamed(p, i) : p, i \in {"Name", "Quantity", "INTO", "Product", "x", "GROUP"}}
    \cup OddlyLaidOut \cup RunningTogether

BaseText == Render(BaseQuery)

Tokens == {"SELECT", "FROM", "JOIN", "WITH", "INTO", "AS", "ON", "OR", ";", ",", "'", "--", "*", "(",
           "FENCE", "p", "Name", "NOLOCK", "101"}

MCLines ==
    {<<>>, << <<"FENCE">> >>, << <<"FENCE">> \o BaseText >>, <<BaseText \o <<"FENCE">> >>,
     <<BaseText \o <<";", ";">> >>, <<BaseText \o <<";", "--">> >>}
    \cup {<<RemoveAt(BaseText, k)>> : k \in DOMAIN BaseText}
    \cup {<<ReplaceAt(BaseText, k, w)>> : k \in DOMAIN BaseText, w \in Tokens}
    \cup {<<InsertAt(BaseText, k, w)>> : k \in 1..(Len(BaseText) + 1), w \in Tokens}
MCTexts == [lines : MCLines, odd : {{}}]
=============================================================================
