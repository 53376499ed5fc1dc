------------------------ MODULE SchemaInspectionProofs ------------------------
(***************************************************************************)
(* Proofs about SchemaInspection, for all databases and all DDL.           *)
(*                                                                         *)
(* The induction theorems of the library take the formula to prove as an   *)
(* operator.  Least and OrderExists argue from a smallest counterexample   *)
(* instead, which the well-foundedness of the finite subsets of a set      *)
(* gives for a set of counterexamples.                                     *)
(***************************************************************************)
EXTENDS SchemaInspection, FiniteSetTheorems, TLAPS

(* A set of numbers that is not empty has a least one.                     *)
LEMMA Least ==
    ASSUME NEW T \in SUBSET Nat, T # {}
    PROVE  \E x \in T : \A y \in T : x <= y
  <1> DEFINE Segments == {0..n : n \in T}
  <1>1. Segments \subseteq FiniteSubsetsOf(Nat) /\ Segments # {}
    <2>1. ASSUME NEW n \in T PROVE IsFiniteSet(0..n) /\ 0..n \subseteq Nat
      BY FS_Interval
    <2> QED BY <2>1 DEF FiniteSubsetsOf
  <1> HIDE DEF Segments
  <1>2. PICK i \in Segments : \A j \in Segments : <<j, i>> \notin StrictSubsetOrdering(Nat)
    BY <1>1, FS_StrictSubsetOrderingWellFounded, WFMin
  <1>3. PICK x \in T : i = 0..x
    BY DEF Segments
  <1>4. ASSUME NEW y \in T PROVE x <= y
    <2>1. <<0..y, 0..x>> \notin StrictSubsetOrdering(Nat)
      BY <1>2, <1>3 DEF Segments
    <2>2. SUFFICES ASSUME y < x PROVE FALSE
      OBVIOUS
    <2>3. 0..y \subseteq 0..x /\ 0..y # 0..x
      BY <2>2
    <2>4. 0..x \in SUBSET Nat /\ 0..y \in SUBSET Nat
      OBVIOUS
    <2> QED BY <2>1, <2>3, <2>4 DEF StrictSubsetOrdering
  <1> QED BY <1>4

Increasing(s) == \A i, j \in DOMAIN s : i < j => s[i] < s[j]

(* A finite set of numbers can be put in order.                            *)
LEMMA OrderExists ==
    ASSUME NEW ids \in SUBSET Nat, IsFiniteSet(ids)
    PROVE  \E s \in [1..Cardinality(ids) -> ids] : Increasing(s)
  <1> DEFINE Ordered(U) == \E s \in [1..Cardinality(U) -> U] : Increasing(s)
             Bad == {U \in FiniteSubsetsOf(Nat) : ~Ordered(U)}
  <1> SUFFICES ASSUME Bad # {} PROVE FALSE
    BY DEF FiniteSubsetsOf
  <1>1. PICK U \in Bad : \A V \in Bad : <<V, U>> \notin StrictSubsetOrdering(Nat)
    <2> HIDE DEF Ordered
    <2>1. Bad \subseteq FiniteSubsetsOf(Nat)
      OBVIOUS
    <2> HIDE DEF Bad
    <2> QED BY <2>1, FS_StrictSubsetOrderingWellFounded, WFMin
  <1>2. U \in SUBSET Nat /\ IsFiniteSet(U) /\ ~Ordered(U)
    BY DEF FiniteSubsetsOf
  <1>3. U # {}
    <2> SUFFICES ASSUME U = {} PROVE Ordered(U)
      BY <1>2
    <2>1. Cardinality(U) = 0
      BY FS_EmptySet
    <2>2. [i \in 1..0 |-> 0] \in [1..0 -> {}] /\ Increasing([i \in 1..0 |-> 0])
      BY DEF Increasing
    <2> QED BY <2>1, <2>2
  <1>4. PICK m \in U : \A y \in U : m <= y
    BY <1>2, <1>3, Least
  <1> DEFINE W == U \ {m}
             n == Cardinality(W)
  <1>5. IsFiniteSet(W) /\ n \in Nat /\ Cardinality(U) = n + 1
    <2>1. IsFiniteSet(W) /\ n = Cardinality(U) - 1
      BY <1>2, <1>4, FS_RemoveElement
    <2>2. n \in Nat /\ Cardinality(U) \in Nat
      BY <1>2, <2>1, FS_CardinalityType
    <2> QED BY <2>1, <2>2
  <1>6. Ordered(W)
    <2>1. <<W, U>> \in StrictSubsetOrdering(Nat)
      BY <1>2, <1>4 DEF StrictSubsetOrdering
    <2>2. W \in FiniteSubsetsOf(Nat)
      BY <1>2, <1>5 DEF FiniteSubsetsOf
    <2> HIDE DEF W, Ordered
    <2> QED BY <1>1, <2>1, <2>2
  <1>7. PICK w \in [1..n -> W] : Increasing(w)
    BY <1>6
  <1> DEFINE s == [i \in 1..(n + 1) |-> IF i = 1 THEN m ELSE w[i - 1]]
  <1>8. \A i \in 2..(n + 1) : i - 1 \in 1..n /\ w[i - 1] \in W /\ m < w[i - 1]
    <2> TAKE i \in 2..(n + 1)
    <2>1. i - 1 \in 1..n
      BY <1>5
    <2>2. w[i - 1] \in W
      BY <1>7, <2>1
    <2>3. m \in Nat /\ w[i - 1] \in Nat /\ m <= w[i - 1] /\ m # w[i - 1]
      BY <1>2, <1>4, <2>2
    <2> QED BY <2>1, <2>2, <2>3
  <1>9. s \in [1..(n + 1) -> U]
    <2> HIDE DEF n
    <2> QED BY <1>4, <1>5, <1>8
  <1>10. Increasing(s)
    <2> HIDE DEF n
    <2> SUFFICES ASSUME NEW i \in 1..(n + 1), NEW j \in 1..(n + 1), i < j
                 PROVE  s[i] < s[j]
      BY DEF Increasing
    <2>1. j \in 2..(n + 1) /\ s[j] = w[j - 1]
      BY <1>5
    <2>2. CASE i = 1
      BY <1>8, <2>1, <2>2
    <2>3. CASE i # 1
      <3>1. i \in 2..(n + 1) /\ s[i] = w[i - 1] /\ i - 1 < j - 1
        BY <1>5, <2>3
      <3>2. i - 1 \in DOMAIN w /\ j - 1 \in DOMAIN w
        BY <1>7, <1>8, <2>1, <3>1
      <3> HIDE DEF s
      <3> QED BY <1>7, <2>1, <3>1, <3>2 DEF Increasing
    <2> QED BY <2>2, <2>3
  <1> QED BY <1>2, <1>5, <1>9, <1>10

(* InOrder lists numbers of the set, in increasing order.                  *)
LEMMA InOrderType ==
    ASSUME NEW ids \in SUBSET Nat, IsFiniteSet(ids)
    PROVE  /\ Cardinality(ids) \in Nat
           /\ InOrder(ids) \in [1..Cardinality(ids) -> ids]
           /\ Increasing(InOrder(ids))
  BY OrderExists, FS_CardinalityType DEF InOrder, Increasing

(* The first k entries of an increasing list are k numbers.                *)
LEMMA FirstEntries ==
    ASSUME NEW n \in Nat, NEW s \in [1..n -> Nat], Increasing(s), NEW k \in 0..n
    PROVE  Cardinality({s[i] : i \in 1..k}) = k
  <1> DEFINE first == {s[i] : i \in 1..k}
             f == [i \in 1..k |-> s[i]]
  <1>1. \A i, j \in 1..k : i # j => s[i] # s[j]
    <2> SUFFICES ASSUME NEW i \in 1..k, NEW j \in 1..k, i < j PROVE s[i] # s[j]
      OBVIOUS
    <2>1. i \in DOMAIN s /\ j \in DOMAIN s
      OBVIOUS
    <2> QED BY <2>1 DEF Increasing
  <1>2. f \in Bijection(1..k, first)
    BY <1>1 DEF Bijection, Injection, Surjection, IsInjective
  <1>3. ExistsBijection(1..k, first) /\ k \in Nat
    <2> HIDE DEF f, first
    <2> QED BY <1>2 DEF ExistsBijection
  <1> QED BY <1>3, FS_CountingElements

(* InOrder leaves no number out, and puts each at its rank.                *)
LEMMA InOrderRank ==
    ASSUME NEW ids \in SUBSET Nat, IsFiniteSet(ids), NEW c \in ids
    PROVE  LET k == Cardinality({e \in ids : e <= c})
           IN  k \in 1..Cardinality(ids) /\ InOrder(ids)[k] = c
  <1> DEFINE s == InOrder(ids)
             n == Cardinality(ids)
  <1>1. n \in Nat /\ s \in [1..n -> ids] /\ s \in [1..n -> Nat] /\ Increasing(s)
    BY InOrderType
  <1> HIDE DEF s
  <1>2. {s[i] : i \in 1..n} = ids
    <2>1. Cardinality({s[i] : i \in 1..n}) = n
      BY <1>1, FirstEntries
    <2>2. {s[i] : i \in 1..n} \in SUBSET ids
      BY <1>1
    <2> QED BY <2>1, <2>2, FS_Subset
  <1>3. PICK k \in 1..n : s[k] = c
    BY <1>2
  <1>4. {e \in ids : e <= c} = {s[i] : i \in 1..k}
    <2>1. \A i \in 1..n : s[i] <= c <=> i <= k
      <3> TAKE i \in 1..n
      <3>1. s[i] \in Nat /\ s[k] \in Nat /\ i \in DOMAIN s /\ k \in DOMAIN s
        BY <1>1
      <3>2. i < k => s[i] < s[k]
        BY <1>1, <3>1 DEF Increasing
      <3>3. k < i => s[k] < s[i]
        BY <1>1, <3>1 DEF Increasing
      <3> QED BY <1>1, <1>3, <3>1, <3>2, <3>3
    <2>2. {e \in ids : e <= c} = {s[i] : i \in {j \in 1..n : s[j] <= c}}
      BY <1>2
    <2>3. {j \in 1..n : s[j] <= c} = 1..k
      BY <1>1, <2>1
    <2> QED BY <2>2, <2>3
  <1>5. Cardinality({e \in ids : e <= c}) = k
    BY <1>1, <1>4, FirstEntries
  <1> QED BY <1>3, <1>5 DEF s

(* In an interval from 1 each number is its own rank.                      *)
LEMMA InOrderInterval ==
    ASSUME NEW n \in Nat
    PROVE  InOrder(1..n) = [k \in 1..n |-> k]
  <1>1. IsFiniteSet(1..n) /\ Cardinality(1..n) = n
    BY FS_Interval
  <1>2. InOrder(1..n) \in [1..n -> 1..n]
    BY <1>1, InOrderType
  <1>3. ASSUME NEW k \in 1..n PROVE InOrder(1..n)[k] = k
    <2>1. {e \in 1..n : e <= k} = 1..k
      OBVIOUS
    <2>2. Cardinality(1..k) = k
      BY FS_Interval
    <2> QED BY <1>1, <2>1, <2>2, InOrderRank
  <1> QED BY <1>2, <1>3

-----------------------------------------------------------------------------
(* The columns of a table in the catalog are those of its rows.            *)
LEMMA ColumnNames ==
    ASSUME OneRowPerColumn(columnRows), NEW key \in {r.key : r \in columnRows}, NEW descriptions
    PROVE  {ColumnsOf(key, descriptions)[k].name : k \in DOMAIN ColumnsOf(key, descriptions)} =
               {r.name : r \in {q \in columnRows : q.key = key}}
  <1> DEFINE rows == {r \in columnRows : r.key = key}
             ids == {r.column_id : r \in rows}
             row(k) == CHOOSE r \in rows : r.column_id = InOrder(ids)[k]
             columns == ColumnsOf(key, descriptions)
  <1>1. ids \in SUBSET Nat /\ IsFiniteSet(ids)
    BY DEF OneRowPerColumn
  <1>2. /\ Cardinality(ids) \in Nat
        /\ InOrder(ids) \in [1..Cardinality(ids) -> ids]
    BY <1>1, InOrderType
  <1>3. ASSUME NEW k \in 1..Cardinality(ids) PROVE row(k) \in rows
    <2>1. InOrder(ids)[k] \in ids
      BY <1>2
    <2> QED BY <2>1
  <1>4. ASSUME NEW r \in rows
        PROVE  \E k \in 1..Cardinality(ids) : row(k) = r
    <2> DEFINE k == Cardinality({e \in ids : e <= r.column_id})
    <2>1. k \in 1..Cardinality(ids) /\ InOrder(ids)[k] = r.column_id
      BY <1>1, InOrderRank
    <2>2. row(k) \in rows /\ row(k).column_id = r.column_id
      BY <2>1
    <2>3. row(k) = r
      BY <2>2 DEF OneRowPerColumn
    <2> QED BY <2>1, <2>3
  <1>5. /\ DOMAIN columns = 1..Cardinality(ids)
        /\ \A k \in 1..Cardinality(ids) : columns[k].name = row(k).name
    BY <1>2 DEF ColumnsOf
  <1> HIDE DEF columns, row, ids, rows
  <1>6. ASSUME NEW k \in DOMAIN columns
        PROVE  columns[k].name \in {r.name : r \in rows}
    BY <1>3, <1>5
  <1>7. ASSUME NEW r \in rows
        PROVE  r.name \in {columns[k].name : k \in DOMAIN columns}
    BY <1>4, <1>5
  <1>8. {columns[k].name : k \in DOMAIN columns} = {r.name : r \in rows}
    BY <1>6, <1>7
  <1> QED BY <1>8 DEF columns, rows

(* A foreign key of one column is one row.                                 *)
LEMMA SingleColumnKey ==
    ASSUME OneRowPerKeyColumn(foreignKeyRows), NEW r \in foreignKeyRows
    PROVE  IsRequiredKey(ForeignKeyFrom(GroupOf(r))) <=>
               /\ GroupOf(r) = {r}
               /\ r.source = Inventory /\ r.source_column = "ProductID"
               /\ r.target = Product /\ r.target_column = "ProductID"
  <1> DEFINE group == GroupOf(r)
             ids == {q.constraint_column_id : q \in group}
             row(k) == CHOOSE q \in group : q.constraint_column_id = InOrder(ids)[k]
             fk == ForeignKeyFrom(group)
  <1>1. ids \in SUBSET Nat /\ IsFiniteSet(ids) /\ r \in group
    BY DEF OneRowPerKeyColumn, GroupOf
  <1>2. /\ Cardinality(ids) \in Nat
        /\ InOrder(ids) \in [1..Cardinality(ids) -> ids]
    BY <1>1, InOrderType
  <1>3. /\ fk.source = row(1).source /\ fk.target = row(1).target
        /\ fk.source_columns = [k \in 1..Cardinality(ids) |-> row(k).source_column]
        /\ fk.target_columns = [k \in 1..Cardinality(ids) |-> row(k).target_column]
    BY <1>2 DEF ForeignKeyFrom
  <1>4. \A q \in group : q.constraint_column_id = r.constraint_column_id => q = r
    BY DEF OneRowPerKeyColumn, GroupOf
  <1>5. group = {r} => Cardinality(ids) = 1 /\ row(1) = r
    <2> SUFFICES ASSUME group = {r} PROVE Cardinality(ids) = 1 /\ row(1) = r
      OBVIOUS
    <2>1. ids = {r.constraint_column_id}
      OBVIOUS
    <2>2. Cardinality(ids) = 1
      BY <2>1, FS_Singleton
    <2>3. InOrder(ids)[1] \in ids
      BY <1>2, <2>2
    <2> QED BY <2>1, <2>2, <2>3
  <1>6. Cardinality(ids) = 1 => group = {r}
    <2> SUFFICES ASSUME Cardinality(ids) = 1 PROVE \A q \in group : q = r
      BY <1>1
    <2>1. PICK c : ids = {c}
      BY <1>1, FS_Singleton
    <2>2. \A q \in group : q.constraint_column_id = r.constraint_column_id
      BY <1>1, <2>1
    <2> QED BY <1>4, <2>2
  <1>7. IsRequiredKey(fk) => Cardinality(ids) = 1
    <2> SUFFICES ASSUME fk.source_columns = <<"ProductID">> PROVE Cardinality(ids) = 1
      BY DEF IsRequiredKey
    <2> HIDE DEF row, ids, fk
    <2>1. DOMAIN fk.source_columns = 1..Cardinality(ids)
      BY <1>3
    <2>2. Len(fk.source_columns) = 1 /\ DOMAIN fk.source_columns = 1..1
      OBVIOUS
    <2>3. 1 \in 1..Cardinality(ids) /\ 2 \notin 1..Cardinality(ids)
      BY <2>1, <2>2
    <2> QED BY <1>2, <2>3
  <1>8. Cardinality(ids) = 1 =>
            (IsRequiredKey(fk) <=> /\ row(1).source = Inventory /\ row(1).source_column = "ProductID"
                                   /\ row(1).target = Product /\ row(1).target_column = "ProductID")
    <2> HIDE DEF row, ids, fk
    <2> SUFFICES ASSUME Cardinality(ids) = 1
                 PROVE  /\ fk.source_columns = <<row(1).source_column>>
                        /\ fk.target_columns = <<row(1).target_column>>
      BY <1>3 DEF IsRequiredKey
    <2> QED BY <1>3
  <1> HIDE DEF row, ids, fk
  <1>9. IsRequiredKey(fk) <=>
            /\ group = {r}
            /\ r.source = Inventory /\ r.source_column = "ProductID"
            /\ r.target = Product /\ r.target_column = "ProductID"
    BY <1>5, <1>6, <1>7, <1>8
  <1> QED BY <1>9 DEF fk

(* The judgement is whether the rows have what the mapping needs.          *)
LEMMA Judgement ==
    ASSUME OneRowPerColumn(columnRows), OneRowPerKeyColumn(foreignKeyRows), NEW descriptions
    PROVE  MappingValid(Catalog(descriptions)) <=> ColumnsAmong(columnRows) /\ KeyAmong(foreignKeyRows)
  <1> DEFINE c == Catalog(descriptions)
  <1>1. /\ DOMAIN c.tables = {r.key : r \in columnRows}
        /\ \A key \in DOMAIN c.tables : c.tables[key].columns = ColumnsOf(key, descriptions)
    BY DEF Catalog
  <1>2. /\ DOMAIN c.foreign_keys = {GroupOf(r) : r \in foreignKeyRows}
        /\ \A g \in DOMAIN c.foreign_keys : c.foreign_keys[g] = ForeignKeyFrom(g)
    BY DEF Catalog
  <1> HIDE DEF c
  <1>3. ASSUME NEW key \in {Product, Inventory}
        PROVE  (/\ key \in DOMAIN c.tables
                /\ RequiredColumns(key) \subseteq
                       {c.tables[key].columns[k].name : k \in DOMAIN c.tables[key].columns})
               <=> RequiredColumns(key) \subseteq {r.name : r \in {q \in columnRows : q.key = key}}
    <2>1. "ProductID" \in RequiredColumns(key)
      BY DEF RequiredColumns
    <2>2. CASE key \in DOMAIN c.tables
      <3> DEFINE columns == ColumnsOf(key, descriptions)
      <3>. key \in {r.key : r \in columnRows}
        BY <1>1, <2>2
      <3>1. {columns[k].name : k \in DOMAIN columns} =
                {r.name : r \in {q \in columnRows : q.key = key}}
        BY ColumnNames
      <3>2. c.tables[key].columns = columns
        BY <1>1, <2>2
      <3> HIDE DEF columns
      <3> QED BY <2>2, <3>1, <3>2
    <2>3. CASE key \notin DOMAIN c.tables
      BY <1>1, <2>1, <2>3
    <2> QED BY <2>2, <2>3
  <1>4. (\E g \in DOMAIN c.foreign_keys : IsRequiredKey(c.foreign_keys[g])) <=> KeyAmong(foreignKeyRows)
    <2>1. \A r \in foreignKeyRows : GroupOf(r) = {q \in foreignKeyRows : q.object_id = r.object_id}
      BY DEF GroupOf
    <2>2. (\E g \in DOMAIN c.foreign_keys : IsRequiredKey(c.foreign_keys[g]))
              <=> \E r \in foreignKeyRows : IsRequiredKey(ForeignKeyFrom(GroupOf(r)))
      BY <1>2
    <2> QED BY <2>1, <2>2, SingleColumnKey DEF KeyAmong
  <1>5. MappingValid(c) <=> ColumnsAmong(columnRows) /\ KeyAmong(foreignKeyRows)
    BY <1>3, <1>4 DEF MappingValid, ColumnsAmong
  <1> QED BY <1>5 DEF c

-----------------------------------------------------------------------------
(* The row of one column, and that of one column of a foreign key.         *)
ColumnRow(d, t, c) ==
    [key |-> KeyOf(d, t), column_id |-> c, name |-> NameOf(d, t, c),
     base |-> d.tables[t].columns[c].type.base,
     max_length |-> SystemLength(d.tables[t].columns[c].type),
     scale |-> d.tables[t].columns[c].type.scale]

ForeignKeyRow(d, f, k) ==
    LET fk == d.foreign_keys[f] IN
    [object_id |-> f, name |-> fk.name,
     source |-> KeyOf(d, fk.parent), source_column |-> NameOf(d, fk.parent, fk.pairs[k][1]),
     target |-> KeyOf(d, fk.referenced),
     target_column |-> NameOf(d, fk.referenced, fk.pairs[k][2]),
     constraint_column_id |-> k]

(* What the column view returns.                                           *)
LEMMA ColumnRowsMember ==
    ASSUME NEW d, NEW r
    PROVE  r \in ColumnRows(d) <=>
             \E t \in UserTables(d) : \E c \in DOMAIN d.tables[t].columns :
                d.tables[t].columns[c].kind \in VisibleKinds /\ r = ColumnRow(d, t, c)
  <1> DEFINE pairs == UNION {{<<t, c>> : c \in {e \in DOMAIN d.tables[t].columns :
                                            d.tables[t].columns[e].kind \in VisibleKinds}} :
                                t \in UserTables(d)}
  <1>1. ColumnRows(d) = {ColumnRow(d, x[1], x[2]) : x \in pairs}
    BY DEF ColumnRows, ColumnRow
  <1>2. \A x : x \in pairs <=> \E t \in UserTables(d) : \E c \in DOMAIN d.tables[t].columns :
                                 d.tables[t].columns[c].kind \in VisibleKinds /\ x = <<t, c>>
    OBVIOUS
  <1> HIDE DEF pairs
  <1>3. ASSUME NEW x \in pairs, r = ColumnRow(d, x[1], x[2])
        PROVE  \E t \in UserTables(d) : \E c \in DOMAIN d.tables[t].columns :
                   d.tables[t].columns[c].kind \in VisibleKinds /\ r = ColumnRow(d, t, c)
    BY <1>2, <1>3
  <1>4. ASSUME NEW t \in UserTables(d), NEW c \in DOMAIN d.tables[t].columns,
               d.tables[t].columns[c].kind \in VisibleKinds, r = ColumnRow(d, t, c)
        PROVE  r \in ColumnRows(d)
    <2>1. <<t, c>> \in pairs
      BY <1>2, <1>4
    <2> QED BY <1>1, <1>4, <2>1
  <1> QED BY <1>1, <1>3, <1>4

(* What the foreign key view returns.                                      *)
LEMMA ForeignKeyRowsMember ==
    ASSUME NEW d, NEW r
    PROVE  r \in ForeignKeyRows(d) <=>
             \E f \in DOMAIN d.foreign_keys :
                /\ {d.foreign_keys[f].parent, d.foreign_keys[f].referenced} \subseteq UserTables(d)
                /\ \E k \in DOMAIN d.foreign_keys[f].pairs : r = ForeignKeyRow(d, f, k)
  BY DEF ForeignKeyRows, ForeignKeyRow

(* The columns of a table.                                                 *)
LEMMA TableFacts ==
    ASSUME NEW d, WellFormed(d), NEW t \in DOMAIN d.tables
    PROVE  /\ d.tables[t].used \in Nat
           /\ d.tables[t].primary_key \in Seq(Nat)
           /\ DOMAIN d.tables[t].columns \subseteq 1..d.tables[t].used
           /\ IsFiniteSet(DOMAIN d.tables[t].columns)
           /\ \A c \in DOMAIN d.tables[t].columns :
                 /\ c \in Nat
                 /\ d.tables[t].columns[c] \in Column
                 /\ d.tables[t].columns[c].kind \in VisibleKinds <=> c \in Shown(d, t)
  <1> DEFINE table == d.tables[t]
  <1>1. IsTable(table)
    BY DEF WellFormed
  <1> HIDE DEF table
  <1>2. /\ table.used \in Nat /\ table.primary_key \in Seq(Nat)
        /\ DOMAIN table.columns \subseteq 1..table.used
        /\ table.columns \in [DOMAIN table.columns -> Column]
    BY <1>1 DEF IsTable
  <1>3. IsFiniteSet(DOMAIN table.columns)
    <2>1. IsFiniteSet(1..table.used)
      BY <1>2, FS_Interval
    <2>2. DOMAIN table.columns \in SUBSET (1..table.used)
      BY <1>2
    <2> QED BY <2>1, <2>2, FS_Subset
  <1>4. ASSUME NEW c \in DOMAIN table.columns
        PROVE  /\ c \in Nat /\ table.columns[c] \in Column
               /\ table.columns[c].kind \in VisibleKinds <=> table.columns[c].kind # "clr"
    BY <1>2 DEF Column, Kinds, VisibleKinds
  <1> QED BY <1>2, <1>3, <1>4 DEF table, Shown

(* _USER_TABLE_FILTER selects among the tables.                            *)
LEMMA UserTablesAreTables ==
    ASSUME NEW d
    PROVE  UserTables(d) \subseteq DOMAIN d.tables
  BY DEF UserTables

(* A database has one row per column.                                      *)
LEMMA ColumnRowsOnce ==
    ASSUME NEW d, WellFormed(d)
    PROVE  OneRowPerColumn(ColumnRows(d))
  <1> DEFINE rows == ColumnRows(d)
  <1>1. ASSUME NEW t \in UserTables(d), NEW u \in UserTables(d), KeyOf(d, t) = KeyOf(d, u)
        PROVE  t = u
    BY <1>1, UserTablesAreTables DEF WellFormed
  <1>2. ASSUME NEW r \in rows
        PROVE  \E t \in UserTables(d) :
                   /\ r.key = KeyOf(d, t) /\ r.column_id \in DOMAIN d.tables[t].columns
                   /\ r = ColumnRow(d, t, r.column_id)
    BY ColumnRowsMember DEF ColumnRow
  <1> HIDE DEF rows
  <1>3. ASSUME NEW r \in rows
        PROVE  /\ r.column_id \in Nat
               /\ IsFiniteSet({q.column_id : q \in {p \in rows : p.key = r.key}})
    <2>1. PICK t \in UserTables(d) :
                 r.key = KeyOf(d, t) /\ r.column_id \in DOMAIN d.tables[t].columns
      BY <1>2
    <2>2. \A q \in rows : q.key = r.key => q.column_id \in DOMAIN d.tables[t].columns
      BY <1>1, <1>2, <2>1
    <2>3. {q.column_id : q \in {p \in rows : p.key = r.key}} \in SUBSET DOMAIN d.tables[t].columns
      BY <2>2
    <2>4. t \in DOMAIN d.tables
      BY UserTablesAreTables
    <2> QED BY <2>1, <2>3, <2>4, TableFacts, FS_Subset
  <1>4. \A r, q \in rows : r.key = q.key /\ r.column_id = q.column_id => r = q
    BY <1>1, <1>2
  <1>5. OneRowPerColumn(rows)
    BY <1>3, <1>4 DEF OneRowPerColumn
  <1> QED BY <1>5 DEF rows

(* A database has one row per column of a foreign key.                     *)
LEMMA ForeignKeyRowsOnce ==
    ASSUME NEW d, WellFormed(d)
    PROVE  OneRowPerKeyColumn(ForeignKeyRows(d))
  <1> DEFINE rows == ForeignKeyRows(d)
  <1>1. ASSUME NEW r \in rows
        PROVE  /\ r.object_id \in DOMAIN d.foreign_keys
               /\ r.constraint_column_id \in DOMAIN d.foreign_keys[r.object_id].pairs
    BY ForeignKeyRowsMember DEF ForeignKeyRow
  <1>2. ASSUME NEW f \in DOMAIN d.foreign_keys
        PROVE  /\ DOMAIN d.foreign_keys[f].pairs \in SUBSET Nat
               /\ IsFiniteSet(DOMAIN d.foreign_keys[f].pairs)
    <2>1. d.foreign_keys[f].pairs \in Seq(Nat \X Nat)
      BY DEF WellFormed, IsForeignKey
    <2>2. /\ DOMAIN d.foreign_keys[f].pairs = 1..Len(d.foreign_keys[f].pairs)
          /\ Len(d.foreign_keys[f].pairs) \in Nat
      BY <2>1
    <2> QED BY <2>2, FS_Interval
  <1>3. ASSUME NEW r \in rows
        PROVE  /\ r.constraint_column_id \in Nat
               /\ IsFiniteSet({q.constraint_column_id :
                                  q \in {p \in rows : p.object_id = r.object_id}})
    <2>1. {q.constraint_column_id : q \in {p \in rows : p.object_id = r.object_id}}
              \in SUBSET DOMAIN d.foreign_keys[r.object_id].pairs
      BY <1>1
    <2> QED BY <1>1, <1>2, <2>1, FS_Subset
  <1>4. \A r, q \in rows :
            r.object_id = q.object_id /\ r.constraint_column_id = q.constraint_column_id => q = r
    BY ForeignKeyRowsMember DEF ForeignKeyRow
  <1> QED BY <1>3, <1>4 DEF OneRowPerKeyColumn

(* The rows have the columns and the foreign key of the mapping exactly    *)
(* when the database has them.                                             *)
LEMMA ColumnsAmongRows ==
    ASSUME NEW d, WellFormed(d)
    PROVE  ColumnsAmong(ColumnRows(d)) <=> HasColumns(d)
  <1> DEFINE rows == ColumnRows(d)
             names(key) == {r.name : r \in {q \in rows : q.key = key}}
             listed(t) == {NameOf(d, t, c) : c \in Shown(d, t)}
  <1>1. ASSUME NEW t \in UserTables(d), NEW name
        PROVE  name \in listed(t) => name \in names(KeyOf(d, t))
    <2> SUFFICES ASSUME NEW c \in Shown(d, t), name = NameOf(d, t, c)
                 PROVE  name \in names(KeyOf(d, t))
      OBVIOUS
    <2>1. c \in DOMAIN d.tables[t].columns /\ d.tables[t].columns[c].kind \in VisibleKinds
      BY TableFacts, UserTablesAreTables DEF Shown
    <2>2. ColumnRow(d, t, c) \in rows
      BY <2>1, ColumnRowsMember
    <2>3. ColumnRow(d, t, c).key = KeyOf(d, t) /\ ColumnRow(d, t, c).name = name
      BY DEF ColumnRow
    <2> HIDE DEF rows
    <2> QED BY <2>2, <2>3
  <1>2. ASSUME NEW key, NEW name \in names(key)
        PROVE  \E t \in UserTables(d) : KeyOf(d, t) = key /\ name \in listed(t)
    <2>1. PICK r \in rows : r.key = key /\ r.name = name
      OBVIOUS
    <2>2. PICK t \in UserTables(d) : \E c \in DOMAIN d.tables[t].columns :
                 d.tables[t].columns[c].kind \in VisibleKinds /\ r = ColumnRow(d, t, c)
      BY ColumnRowsMember
    <2>3. PICK c \in DOMAIN d.tables[t].columns :
                 d.tables[t].columns[c].kind \in VisibleKinds /\ r = ColumnRow(d, t, c)
      BY <2>2
    <2>4. c \in Shown(d, t)
      BY <2>3, TableFacts, UserTablesAreTables
    <2>5. r.key = KeyOf(d, t) /\ r.name = NameOf(d, t, c)
      BY <2>3 DEF ColumnRow
    <2> QED BY <2>1, <2>4, <2>5
  <1>3. ASSUME NEW t \in UserTables(d), NEW u \in UserTables(d), KeyOf(d, t) = KeyOf(d, u)
        PROVE  t = u
    BY <1>3, UserTablesAreTables DEF WellFormed
  <1> HIDE DEF rows, names, listed
  <1>4. ASSUME NEW key
        PROVE  RequiredColumns(key) \subseteq names(key) <=>
                 \E t \in UserTables(d) : KeyOf(d, t) = key /\ RequiredColumns(key) \subseteq listed(t)
    <2>1. "ProductID" \in RequiredColumns(key)
      BY DEF RequiredColumns
    <2>2. ASSUME RequiredColumns(key) \subseteq names(key)
          PROVE  \E t \in UserTables(d) : KeyOf(d, t) = key /\ RequiredColumns(key) \subseteq listed(t)
      <3>1. PICK t \in UserTables(d) : KeyOf(d, t) = key
        BY <1>2, <2>1, <2>2
      <3>2. \A name \in names(key) : name \in listed(t)
        BY <1>2, <1>3, <3>1
      <3> QED BY <2>2, <3>1, <3>2
    <2> QED BY <1>1, <2>2
  <1>5. ColumnsAmong(rows) <=> \A key \in {Product, Inventory} : RequiredColumns(key) \subseteq names(key)
    BY DEF ColumnsAmong, names
  <1>6. HasColumns(d) <=>
          \A key \in {Product, Inventory} :
              \E t \in UserTables(d) : KeyOf(d, t) = key /\ RequiredColumns(key) \subseteq listed(t)
    BY DEF HasColumns, listed
  <1>7. ColumnsAmong(rows) <=> HasColumns(d)
    BY <1>4, <1>5, <1>6
  <1> QED BY <1>7 DEF rows

(* The same of the foreign key, which needs one row and no other.         *)
LEMMA KeyAmongRows ==
    ASSUME NEW d, WellFormed(d)
    PROVE  KeyAmong(ForeignKeyRows(d)) <=> HasKey(d)
  <1> DEFINE rows == ForeignKeyRows(d)
             inScope(f) == {d.foreign_keys[f].parent, d.foreign_keys[f].referenced}
                               \subseteq UserTables(d)
  <1>1. ASSUME NEW f \in DOMAIN d.foreign_keys
        PROVE  /\ Len(d.foreign_keys[f].pairs) \in Nat \ {0}
               /\ DOMAIN d.foreign_keys[f].pairs = 1..Len(d.foreign_keys[f].pairs)
    <2>1. d.foreign_keys[f].pairs \in Seq(Nat \X Nat) \ {<<>>}
      BY DEF WellFormed, IsForeignKey
    <2> QED BY <2>1
  <1>2. ASSUME NEW f \in DOMAIN d.foreign_keys, NEW k \in DOMAIN d.foreign_keys[f].pairs, inScope(f)
        PROVE  ForeignKeyRow(d, f, k) \in rows
    BY <1>2, ForeignKeyRowsMember
  <1>3. ASSUME NEW r \in rows
        PROVE  \E f \in DOMAIN d.foreign_keys : \E k \in DOMAIN d.foreign_keys[f].pairs :
                   inScope(f) /\ r = ForeignKeyRow(d, f, k)
    BY ForeignKeyRowsMember
  <1> HIDE DEF rows
  <1>4. \A f, k : /\ ForeignKeyRow(d, f, k).object_id = f
                 /\ ForeignKeyRow(d, f, k).constraint_column_id = k
                 /\ ForeignKeyRow(d, f, k).source = KeyOf(d, d.foreign_keys[f].parent)
                 /\ ForeignKeyRow(d, f, k).target = KeyOf(d, d.foreign_keys[f].referenced)
                 /\ ForeignKeyRow(d, f, k).source_column =
                        NameOf(d, d.foreign_keys[f].parent, d.foreign_keys[f].pairs[k][1])
                 /\ ForeignKeyRow(d, f, k).target_column =
                        NameOf(d, d.foreign_keys[f].referenced, d.foreign_keys[f].pairs[k][2])
    BY DEF ForeignKeyRow
  <1>5. ASSUME NEW f \in DOMAIN d.foreign_keys, inScope(f)
        PROVE  {q \in rows : q.object_id = f} = {ForeignKeyRow(d, f, 1)}
                   <=> Len(d.foreign_keys[f].pairs) = 1
    <2>1. CASE Len(d.foreign_keys[f].pairs) = 1
      <3>1. \A q \in rows : q.object_id = f => q = ForeignKeyRow(d, f, 1)
        BY <1>1, <1>3, <1>4, <2>1
      <3> QED BY <1>1, <1>2, <1>4, <1>5, <2>1, <3>1
    <2>2. CASE Len(d.foreign_keys[f].pairs) # 1
      <3>1. 2 \in DOMAIN d.foreign_keys[f].pairs
        <4> DEFINE n == Len(d.foreign_keys[f].pairs)
        <4>1. n \in Nat /\ n # 0 /\ n # 1 /\ DOMAIN d.foreign_keys[f].pairs = 1..n
          BY <1>1, <2>2
        <4> HIDE DEF n
        <4> QED BY <4>1
      <3>2. ForeignKeyRow(d, f, 2) \in rows /\ ForeignKeyRow(d, f, 2).object_id = f
        BY <1>2, <1>4, <1>5, <3>1
      <3>3. ForeignKeyRow(d, f, 2) # ForeignKeyRow(d, f, 1)
        BY <1>4
      <3> QED BY <2>2, <3>2, <3>3
    <2> QED BY <2>1, <2>2
  <1>6. ASSUME KeyAmong(rows) PROVE HasKey(d)
    <2>1. PICK r \in rows :
                 /\ {q \in rows : q.object_id = r.object_id} = {r}
                 /\ r.source = Inventory /\ r.source_column = "ProductID"
                 /\ r.target = Product /\ r.target_column = "ProductID"
      BY <1>6 DEF KeyAmong
    <2>2. PICK f \in DOMAIN d.foreign_keys : \E k \in DOMAIN d.foreign_keys[f].pairs :
                 inScope(f) /\ r = ForeignKeyRow(d, f, k)
      BY <1>3
    <2>3. ForeignKeyRow(d, f, 1) \in rows /\ ForeignKeyRow(d, f, 1).object_id = f
      BY <1>1, <1>2, <1>4, <2>2
    <2>4. r = ForeignKeyRow(d, f, 1) /\ r.object_id = f
      BY <1>4, <2>1, <2>2, <2>3
    <2>5. Len(d.foreign_keys[f].pairs) = 1
      BY <1>5, <2>1, <2>2, <2>4
    <2> QED BY <1>4, <2>1, <2>2, <2>4, <2>5 DEF HasKey
  <1>7. ASSUME HasKey(d) PROVE KeyAmong(rows)
    <2>1. PICK f \in DOMAIN d.foreign_keys :
                 /\ inScope(f)
                 /\ KeyOf(d, d.foreign_keys[f].parent) = Inventory
                 /\ KeyOf(d, d.foreign_keys[f].referenced) = Product
                 /\ Len(d.foreign_keys[f].pairs) = 1
                 /\ NameOf(d, d.foreign_keys[f].parent, d.foreign_keys[f].pairs[1][1]) = "ProductID"
                 /\ NameOf(d, d.foreign_keys[f].referenced, d.foreign_keys[f].pairs[1][2]) = "ProductID"
      BY <1>7 DEF HasKey
    <2>2. ForeignKeyRow(d, f, 1) \in rows
      BY <1>1, <1>2, <2>1
    <2>3. {q \in rows : q.object_id = f} = {ForeignKeyRow(d, f, 1)}
      BY <1>5, <2>1
    <2> QED BY <1>4, <2>1, <2>2, <2>3 DEF KeyAmong
  <1> QED BY <1>6, <1>7 DEF rows

-----------------------------------------------------------------------------
(* What one DDL statement may do from d to e: what stays is the same, and  *)
(* a foreign key that is new comes alone or with the table that it is of.  *)
Evolves(d, e) ==
    /\ \A f \in DOMAIN d.foreign_keys \cap DOMAIN e.foreign_keys :
          e.foreign_keys[f] = d.foreign_keys[f]
    /\ \A t \in DOMAIN d.tables \cap DOMAIN e.tables :
          /\ e.tables[t].shipped = d.tables[t].shipped
          /\ e.tables[t].schema = d.tables[t].schema /\ e.tables[t].name = d.tables[t].name
          /\ \A c \in DOMAIN d.tables[t].columns \cap DOMAIN e.tables[t].columns :
                e.tables[t].columns[c] = d.tables[t].columns[c]
    /\ \A f \in DOMAIN e.foreign_keys \ DOMAIN d.foreign_keys :
          \/ e.tables = d.tables
          \/ /\ e.foreign_keys[f].parent \notin DOMAIN d.tables
             /\ DOMAIN d.tables \subseteq DOMAIN e.tables

(* One statement cannot make up a mapping from columns of one instant and  *)
(* a foreign key of the next.                                              *)
LEMMA NoMixedMapping ==
    ASSUME NEW d, NEW e, WellFormed(d), WellFormed(e), Evolves(d, e), HasColumns(d), HasKey(e)
    PROVE  MappingHolds(d) \/ MappingHolds(e)
  <1>1. PICK f \in DOMAIN e.foreign_keys :
               /\ {e.foreign_keys[f].parent, e.foreign_keys[f].referenced} \subseteq UserTables(e)
               /\ KeyOf(e, e.foreign_keys[f].parent) = Inventory
               /\ KeyOf(e, e.foreign_keys[f].referenced) = Product
               /\ Len(e.foreign_keys[f].pairs) = 1
               /\ NameOf(e, e.foreign_keys[f].parent, e.foreign_keys[f].pairs[1][1]) = "ProductID"
               /\ NameOf(e, e.foreign_keys[f].referenced, e.foreign_keys[f].pairs[1][2]) = "ProductID"
    BY DEF HasKey
  <1> DEFINE fk == e.foreign_keys[f]
  <1>2. CASE f \in DOMAIN d.foreign_keys
    <2>1. fk = d.foreign_keys[f]
      BY <1>2 DEF Evolves
    <2>2. Fits(d, fk) /\ Fits(e, fk) /\ 1 \in DOMAIN fk.pairs
      <3>1. fk.pairs \in Seq(Nat \X Nat) \ {<<>>}
        BY DEF WellFormed, IsForeignKey
      <3>2. DOMAIN fk.pairs = 1..Len(fk.pairs)
        BY <3>1
      <3>3. Fits(d, fk) /\ Fits(e, fk)
        BY <1>2, <2>1 DEF WellFormed
      <3> QED BY <1>1, <3>2, <3>3
    <2> HIDE DEF fk
    <2>3. /\ fk.parent \in DOMAIN d.tables \cap DOMAIN e.tables
          /\ fk.referenced \in DOMAIN d.tables \cap DOMAIN e.tables
          /\ fk.pairs[1][1] \in DOMAIN d.tables[fk.parent].columns
                                   \cap DOMAIN e.tables[fk.parent].columns
          /\ fk.pairs[1][2] \in DOMAIN d.tables[fk.referenced].columns
                                   \cap DOMAIN e.tables[fk.referenced].columns
      BY <2>2 DEF Fits
    <2>4. /\ NameOf(d, fk.parent, fk.pairs[1][1]) = NameOf(e, fk.parent, fk.pairs[1][1])
          /\ NameOf(d, fk.referenced, fk.pairs[1][2]) = NameOf(e, fk.referenced, fk.pairs[1][2])
          /\ KeyOf(d, fk.parent) = KeyOf(e, fk.parent)
          /\ KeyOf(d, fk.referenced) = KeyOf(e, fk.referenced)
      BY <2>3 DEF Evolves, NameOf, KeyOf
    <2>5. {fk.parent, fk.referenced} \subseteq UserTables(e)
              => {fk.parent, fk.referenced} \subseteq UserTables(d)
      BY <2>3 DEF Evolves, UserTables
    <2>6. HasKey(d)
      BY <1>1, <1>2, <2>1, <2>4, <2>5 DEF HasKey, fk
    <2> QED BY <2>6 DEF MappingHolds
  <1>3. CASE f \notin DOMAIN d.foreign_keys /\ e.tables = d.tables
    <2>1. HasColumns(e)
      BY <1>3 DEF HasColumns, UserTables, KeyOf, NameOf, Shown
    <2> QED BY <2>1 DEF MappingHolds
  <1>4. CASE f \notin DOMAIN d.foreign_keys /\ e.tables # d.tables
    <2>1. fk.parent \notin DOMAIN d.tables /\ DOMAIN d.tables \subseteq DOMAIN e.tables
      BY <1>4 DEF Evolves
    <2>2. PICK t \in UserTables(d) : KeyOf(d, t) = Inventory
      BY DEF HasColumns
    <2>3. t \in DOMAIN d.tables /\ t \in DOMAIN e.tables
      BY <2>1, UserTablesAreTables
    <2>4. KeyOf(e, t) = Inventory
      BY <2>2, <2>3 DEF Evolves, KeyOf
    <2>5. t = fk.parent
      BY <1>1, <2>3, <2>4, UserTablesAreTables DEF WellFormed
    <2> QED BY <2>1, <2>3, <2>5
  <1> QED BY <1>2, <1>3, <1>4

(* A table with one more column.                                           *)
LEMMA AddColumnEvolves ==
    ASSUME WellFormed(db), AddColumn
    PROVE  \E d : Change(d) /\ WellFormed(d) /\ Evolves(db, d)
  <1>1. PICK t \in DOMAIN db.tables, c \in NewColumns :
               Change([db EXCEPT !.tables[t].used = db.tables[t].used + 1,
                                 !.tables[t].columns =
                                     [e \in DOMAIN @ \cup {db.tables[t].used + 1} |->
                                         IF e = db.tables[t].used + 1 THEN c ELSE @[e]]])
    BY DEF AddColumn
  <1> DEFINE id == db.tables[t].used + 1
             table == [db.tables[t] EXCEPT !.used = id,
                                           !.columns = [e \in DOMAIN @ \cup {id} |->
                                                           IF e = id THEN c ELSE @[e]]]
             d == [db EXCEPT !.tables = [db.tables EXCEPT ![t] = table]]
  <1>2. Change(d)
    <2>1. d = [db EXCEPT !.tables[t].used = id,
                         !.tables[t].columns = [e \in DOMAIN @ \cup {id} |->
                                                   IF e = id THEN c ELSE @[e]]]
      BY DEF WellFormed
    <2> QED BY <1>1, <2>1
  <1> DEFINE columns == db.tables[t].columns
  <1>3. /\ d.foreign_keys = db.foreign_keys /\ d.described = db.described
        /\ DOMAIN d.tables = DOMAIN db.tables /\ d.tables[t] = table
        /\ \A u \in DOMAIN db.tables : u # t => d.tables[u] = db.tables[u]
        /\ d \in [tables : {d.tables}, foreign_keys : {d.foreign_keys}, described : SUBSET (Nat \X Nat)]
    BY DEF WellFormed
  <1>4. IsTable(db.tables[t]) /\ c \in Column
    BY InspectionAssumption DEF WellFormed
  <1>5. /\ id \in Nat /\ id \notin DOMAIN columns
        /\ table.schema = db.tables[t].schema /\ table.name = db.tables[t].name
        /\ table.shipped = db.tables[t].shipped
        /\ DOMAIN table.columns = DOMAIN columns \cup {id}
        /\ table.columns[id] = c
        /\ \A e \in DOMAIN columns : table.columns[e] = columns[e]
    BY <1>4 DEF IsTable
  <1>6. IsTable(table)
    <2> DEFINE old == db.tables[t]
               grown == [e \in DOMAIN columns \cup {id} |-> IF e = id THEN c ELSE columns[e]]
    <2>1. /\ old \in [schema : STRING, name : STRING, shipped : BOOLEAN,
                      columns : [DOMAIN columns -> Column], used : Nat, primary_key : Seq(Nat)]
          /\ DOMAIN columns \subseteq 1..old.used
      BY <1>4 DEF IsTable
    <2>2. table = [schema |-> old.schema, name |-> old.name, shipped |-> old.shipped,
                   columns |-> grown, used |-> id, primary_key |-> old.primary_key]
      <3>1. table = [old EXCEPT !.used = id, !.columns = grown]
        OBVIOUS
      <3> HIDE DEF grown, old, id, table, columns
      <3> QED BY <2>1, <3>1
    <2>3. grown \in [DOMAIN grown -> Column] /\ DOMAIN grown \subseteq 1..id
      BY <1>4, <1>5, <2>1
    <2> HIDE DEF grown, old, table, id
    <2> QED BY <1>5, <2>1, <2>2, <2>3 DEF IsTable
  <1> HIDE DEF d, table, id
  <1>7. \A u \in DOMAIN db.tables : KeyOf(d, u) = KeyOf(db, u) /\ IsTable(d.tables[u])
    BY <1>3, <1>5, <1>6 DEF KeyOf, WellFormed
  <1>8. \A u \in DOMAIN db.tables : DOMAIN db.tables[u].columns \subseteq DOMAIN d.tables[u].columns
    BY <1>3, <1>5
  <1>9. WellFormed(d)
    BY <1>3, <1>7, <1>8 DEF WellFormed, Fits
  <1>10. Evolves(db, d)
    BY <1>3, <1>5 DEF Evolves
  <1> QED BY <1>2, <1>9, <1>10

(* A table with one column less, of which no foreign key is.               *)
LEMMA DropColumnEvolves ==
    ASSUME WellFormed(db), DropColumn
    PROVE  \E d : Change(d) /\ WellFormed(d) /\ Evolves(db, d)
  <1>1. PICK t \in DOMAIN db.tables : \E c \in DOMAIN db.tables[t].columns :
               /\ ~Referenced(t, c)
               /\ Change([db EXCEPT !.tables[t].columns = [e \in DOMAIN @ \ {c} |-> @[e]],
                                    !.described = @ \ {<<t, c>>}])
    BY DEF DropColumn
  <1>2. PICK c \in DOMAIN db.tables[t].columns :
               /\ ~Referenced(t, c)
               /\ Change([db EXCEPT !.tables[t].columns = [e \in DOMAIN @ \ {c} |-> @[e]],
                                    !.described = @ \ {<<t, c>>}])
    BY <1>1
  <1> DEFINE old == db.tables[t]
             fewer == [e \in DOMAIN old.columns \ {c} |-> old.columns[e]]
             table == [old EXCEPT !.columns = fewer]
             d == [db EXCEPT !.tables = [db.tables EXCEPT ![t] = table],
                             !.described = @ \ {<<t, c>>}]
  <1>3. Change(d)
    BY <1>2
  <1>4. /\ d.foreign_keys = db.foreign_keys
        /\ DOMAIN d.tables = DOMAIN db.tables /\ d.tables[t] = table
        /\ \A u \in DOMAIN db.tables : u # t => d.tables[u] = db.tables[u]
        /\ d \in [tables : {d.tables}, foreign_keys : {d.foreign_keys}, described : SUBSET (Nat \X Nat)]
    BY DEF WellFormed
  <1>5. /\ old \in [schema : STRING, name : STRING, shipped : BOOLEAN,
                    columns : [DOMAIN old.columns -> Column], used : Nat, primary_key : Seq(Nat)]
        /\ DOMAIN old.columns \subseteq 1..old.used
    BY DEF WellFormed, IsTable
  <1>6. table = [schema |-> old.schema, name |-> old.name, shipped |-> old.shipped,
                 columns |-> fewer, used |-> old.used, primary_key |-> old.primary_key]
    <2> HIDE DEF old, fewer
    <2> QED BY <1>5
  <1>7. fewer \in [DOMAIN fewer -> Column] /\ DOMAIN fewer = DOMAIN old.columns \ {c}
        /\ \A e \in DOMAIN fewer : fewer[e] = old.columns[e]
    BY <1>5
  <1> HIDE DEF d, table, fewer, old
  <1>8. IsTable(table)
    BY <1>5, <1>6, <1>7 DEF IsTable
  <1>9. \A u \in DOMAIN db.tables : KeyOf(d, u) = KeyOf(db, u) /\ IsTable(d.tables[u])
    BY <1>4, <1>6, <1>8 DEF KeyOf, WellFormed, old
  <1>10. ASSUME NEW f \in DOMAIN db.foreign_keys
         PROVE  Fits(d, db.foreign_keys[f])
    <2> DEFINE fk == db.foreign_keys[f]
    <2>1. Fits(db, fk)
      BY DEF WellFormed
    <2>2. /\ fk.parent = t => \A k \in DOMAIN fk.pairs : fk.pairs[k][1] # c
          /\ fk.referenced = t => \A k \in DOMAIN fk.pairs : fk.pairs[k][2] # c
      BY <1>2 DEF Referenced
    <2> HIDE DEF fk
    <2>3. \A u \in DOMAIN db.tables : \A e \in DOMAIN db.tables[u].columns :
              (u = t /\ e = c) \/ e \in DOMAIN d.tables[u].columns
      BY <1>4, <1>6, <1>7 DEF old
    <2>4. Fits(d, fk)
      BY <1>4, <2>1, <2>2, <2>3 DEF Fits
    <2> QED BY <2>4 DEF fk
  <1>11. WellFormed(d)
    BY <1>4, <1>9, <1>10 DEF WellFormed
  <1>12. Evolves(db, d)
    BY <1>4, <1>6, <1>7 DEF Evolves, old
  <1> QED BY <1>3, <1>11, <1>12

(* A new table, the foreign keys of which are new too.                     *)
LEMMA CreateTableEvolves ==
    ASSUME WellFormed(db), CreateTable
    PROVE  \E d : Change(d) /\ WellFormed(d) /\ Evolves(db, d)
  <1>1. PICK n \in NewTables :
            /\ n.id \notin DOMAIN db.tables
            /\ DOMAIN n.foreign_keys \cap DOMAIN db.foreign_keys = {}
            /\ <<n.table.schema, n.table.name>> \notin {KeyOf(db, t) : t \in DOMAIN db.tables}
            /\ LET d == [db EXCEPT !.tables = [t \in DOMAIN @ \cup {n.id} |->
                                                  IF t = n.id THEN n.table ELSE @[t]],
                                   !.foreign_keys = [f \in DOMAIN @ \cup DOMAIN n.foreign_keys |->
                                                        IF f \in DOMAIN n.foreign_keys
                                                        THEN n.foreign_keys[f] ELSE @[f]]]
               IN  /\ \A f \in DOMAIN n.foreign_keys :
                         n.foreign_keys[f].parent = n.id /\ Fits(d, n.foreign_keys[f])
                   /\ Change(d)
    BY DEF CreateTable
  <1> DEFINE d == [db EXCEPT !.tables = [t \in DOMAIN @ \cup {n.id} |->
                                           IF t = n.id THEN n.table ELSE @[t]],
                            !.foreign_keys = [f \in DOMAIN @ \cup DOMAIN n.foreign_keys |->
                                                 IF f \in DOMAIN n.foreign_keys
                                                 THEN n.foreign_keys[f] ELSE @[f]]]
  <1>2. /\ Change(d)
        /\ \A f \in DOMAIN n.foreign_keys :
              n.foreign_keys[f].parent = n.id /\ Fits(d, n.foreign_keys[f])
    BY <1>1
  <1>3. /\ DOMAIN d.tables = DOMAIN db.tables \cup {n.id}
        /\ d.tables[n.id] = n.table
        /\ \A t \in DOMAIN db.tables : d.tables[t] = db.tables[t]
        /\ DOMAIN d.foreign_keys = DOMAIN db.foreign_keys \cup DOMAIN n.foreign_keys
        /\ \A f \in DOMAIN n.foreign_keys : d.foreign_keys[f] = n.foreign_keys[f]
        /\ \A f \in DOMAIN db.foreign_keys : d.foreign_keys[f] = db.foreign_keys[f]
        /\ d \in [tables : {d.tables}, foreign_keys : {d.foreign_keys}, described : SUBSET (Nat \X Nat)]
    BY <1>1 DEF WellFormed
  <1> HIDE DEF d
  <1>4. IsTable(n.table) /\ \A f \in DOMAIN n.foreign_keys : IsForeignKey(n.foreign_keys[f])
    BY InspectionAssumption
  <1>5. \A t \in DOMAIN d.tables : IsTable(d.tables[t])
    BY <1>3, <1>4 DEF WellFormed
  <1>6. \A t, u \in DOMAIN d.tables : KeyOf(d, t) = KeyOf(d, u) => t = u
    <2>1. \A t \in DOMAIN db.tables : KeyOf(d, t) = KeyOf(db, t)
      BY <1>3 DEF KeyOf
    <2>2. KeyOf(d, n.id) = <<n.table.schema, n.table.name>>
      BY <1>3 DEF KeyOf
    <2>3. \A t \in DOMAIN db.tables : KeyOf(d, t) # KeyOf(d, n.id)
      BY <1>1, <2>1, <2>2
    <2> QED BY <1>3, <2>1, <2>3 DEF WellFormed
  <1>7. ASSUME NEW f \in DOMAIN d.foreign_keys
        PROVE  IsForeignKey(d.foreign_keys[f]) /\ Fits(d, d.foreign_keys[f])
    <2>1. CASE f \in DOMAIN n.foreign_keys
      BY <1>2, <1>3, <1>4, <2>1
    <2>2. CASE f \in DOMAIN db.foreign_keys
      <3>1. IsForeignKey(db.foreign_keys[f]) /\ Fits(db, db.foreign_keys[f])
        BY <2>2 DEF WellFormed
      <3> QED BY <1>3, <2>2, <3>1 DEF Fits
    <2> QED BY <1>3, <2>1, <2>2
  <1>8. WellFormed(d)
    BY <1>3, <1>5, <1>6, <1>7 DEF WellFormed
  <1>9. Evolves(db, d)
    BY <1>1, <1>2, <1>3 DEF Evolves
  <1> QED BY <1>2, <1>8, <1>9

(* No foreign key is of a table that is dropped, but its own.              *)
LEMMA DropTableEvolves ==
    ASSUME WellFormed(db), DropTable
    PROVE  \E d : Change(d) /\ WellFormed(d) /\ Evolves(db, d)
  <1>1. PICK t \in DOMAIN db.tables :
            /\ \A f \in DOMAIN db.foreign_keys :
                  db.foreign_keys[f].referenced = t => db.foreign_keys[f].parent = t
            /\ Change([tables |-> [u \in DOMAIN db.tables \ {t} |-> db.tables[u]],
                       foreign_keys |-> [f \in {g \in DOMAIN db.foreign_keys :
                                                   db.foreign_keys[g].parent # t} |->
                                            db.foreign_keys[f]],
                       described |-> {x \in db.described : x[1] # t}])
    BY DEF DropTable
  <1> DEFINE left == {g \in DOMAIN db.foreign_keys : db.foreign_keys[g].parent # t}
             d == [tables |-> [u \in DOMAIN db.tables \ {t} |-> db.tables[u]],
                   foreign_keys |-> [f \in left |-> db.foreign_keys[f]],
                   described |-> {x \in db.described : x[1] # t}]
  <1>2. Change(d)
    BY <1>1
  <1>3. /\ DOMAIN d.tables = DOMAIN db.tables \ {t}
        /\ \A u \in DOMAIN d.tables : d.tables[u] = db.tables[u]
        /\ DOMAIN d.foreign_keys = left
        /\ \A f \in left : d.foreign_keys[f] = db.foreign_keys[f]
        /\ d \in [tables : {d.tables}, foreign_keys : {d.foreign_keys}, described : SUBSET (Nat \X Nat)]
    BY DEF WellFormed
  <1> HIDE DEF d
  <1>4. ASSUME NEW f \in DOMAIN d.foreign_keys
        PROVE  IsForeignKey(d.foreign_keys[f]) /\ Fits(d, d.foreign_keys[f])
    <2>1. IsForeignKey(db.foreign_keys[f]) /\ Fits(db, db.foreign_keys[f])
      BY <1>3 DEF WellFormed
    <2>2. db.foreign_keys[f].parent # t /\ db.foreign_keys[f].referenced # t
      BY <1>1, <1>3
    <2> QED BY <1>3, <2>1, <2>2 DEF Fits
  <1>5. WellFormed(d)
    BY <1>3, <1>4 DEF WellFormed, KeyOf
  <1>6. Evolves(db, d)
    BY <1>3 DEF Evolves
  <1> QED BY <1>2, <1>5, <1>6

(* The tables are left alone.                                              *)
LEMMA ForeignKeyEvolves ==
    ASSUME WellFormed(db), AddForeignKey \/ DropForeignKey
    PROVE  \E d : Change(d) /\ WellFormed(d) /\ Evolves(db, d)
  <1>1. CASE AddForeignKey
    <2>1. PICK n \in NewForeignKeys :
              /\ n.id \notin DOMAIN db.foreign_keys
              /\ Fits(db, n.key)
              /\ Change([db EXCEPT !.foreign_keys = [f \in DOMAIN @ \cup {n.id} |->
                                                        IF f = n.id THEN n.key ELSE @[f]]])
      BY <1>1 DEF AddForeignKey
    <2> DEFINE d == [db EXCEPT !.foreign_keys = [f \in DOMAIN @ \cup {n.id} |->
                                                    IF f = n.id THEN n.key ELSE @[f]]]
    <2>2. /\ d.tables = db.tables
          /\ DOMAIN d.foreign_keys = DOMAIN db.foreign_keys \cup {n.id}
          /\ d.foreign_keys[n.id] = n.key
          /\ \A f \in DOMAIN db.foreign_keys : d.foreign_keys[f] = db.foreign_keys[f]
          /\ d \in [tables : {d.tables}, foreign_keys : {d.foreign_keys},
                    described : SUBSET (Nat \X Nat)]
      BY <2>1 DEF WellFormed
    <2>3. Change(d)
      BY <2>1
    <2> HIDE DEF d
    <2>4. IsForeignKey(n.key)
      BY InspectionAssumption
    <2>5. WellFormed(d)
      BY <2>1, <2>2, <2>4 DEF WellFormed, KeyOf, Fits
    <2>6. Evolves(db, d)
      BY <2>1, <2>2 DEF Evolves
    <2> QED BY <2>3, <2>5, <2>6
  <1>2. CASE DropForeignKey
    <2>1. PICK f \in DOMAIN db.foreign_keys :
              Change([db EXCEPT !.foreign_keys = [g \in DOMAIN @ \ {f} |-> @[g]]])
      BY <1>2 DEF DropForeignKey
    <2> DEFINE d == [db EXCEPT !.foreign_keys = [g \in DOMAIN @ \ {f} |-> @[g]]]
    <2>2. /\ d.tables = db.tables
          /\ DOMAIN d.foreign_keys = DOMAIN db.foreign_keys \ {f}
          /\ \A g \in DOMAIN d.foreign_keys : d.foreign_keys[g] = db.foreign_keys[g]
          /\ d \in [tables : {d.tables}, foreign_keys : {d.foreign_keys},
                    described : SUBSET (Nat \X Nat)]
      BY DEF WellFormed
    <2>3. Change(d)
      BY <2>1
    <2> HIDE DEF d
    <2>4. WellFormed(d)
      BY <2>2 DEF WellFormed, KeyOf, Fits
    <2>5. Evolves(db, d)
      BY <2>2 DEF Evolves
    <2> QED BY <2>3, <2>4, <2>5
  <1> QED BY <1>1, <1>2

-----------------------------------------------------------------------------
(* An inspection starts with no rows.                                      *)
LEMMA InitSchemaInv == Init => SchemaInv
  <1> SUFFICES ASSUME Init PROVE SchemaInv
    OBVIOUS
  <1>1. TypeOK
    BY InspectionAssumption DEF Init, TypeOK, Ended, MappingHolds, HasColumns, HasKey
  <1>2. RowsInv
    BY InspectionAssumption DEF Init, RowsInv, OneRowPerColumn, OneRowPerKeyColumn,
        ColumnsAreRead, KeysAreRead, ForeignKeysAreRead, Judged
  <1>3. MappingInv
    BY DEF Init, MappingInv, ColumnsAreRead, ForeignKeysAreRead
  <1> QED BY <1>1, <1>2, <1>3 DEF SchemaInv

(* The columns are read before any DDL statement.                          *)
LEMMA ReadColumnsKeeps ==
    ASSUME SchemaInv, ReadColumns
    PROVE  SchemaInv'
  <1> USE DEF SchemaInv, ReadColumns, ColumnsAreRead, KeysAreRead, ForeignKeysAreRead, Judged
  <1>1. TypeOK'
    BY DEF TypeOK, Ended
  <1>2. WellFormed(db) /\ ddl = 0 /\ columnRows' = ColumnRows(db)
    BY DEF RowsInv
  <1>3. OneRowPerColumn(columnRows') /\ (ColumnsAmong(columnRows') <=> HasColumns(db))
    BY <1>2, ColumnRowsOnce, ColumnsAmongRows
  <1>4. RowsInv'
    BY <1>2, <1>3 DEF RowsInv
  <1>5. MappingInv'
    BY <1>2, <1>3 DEF MappingInv, MappingHolds
  <1> QED BY <1>1, <1>4, <1>5

(* The foreign keys are read with the database as it is by then.           *)
LEMMA ReadForeignKeysKeeps ==
    ASSUME SchemaInv, ReadForeignKeys
    PROVE  SchemaInv'
  <1> USE DEF SchemaInv, ReadForeignKeys, ColumnsAreRead, KeysAreRead, ForeignKeysAreRead, Judged
  <1>1. TypeOK'
    BY DEF TypeOK, Ended
  <1>2. WellFormed(db) /\ foreignKeyRows' = ForeignKeyRows(db)
    BY DEF RowsInv
  <1>3. OneRowPerKeyColumn(foreignKeyRows') /\ (KeyAmong(foreignKeyRows') <=> HasKey(db))
    BY <1>2, ForeignKeyRowsOnce, KeyAmongRows
  <1>4. RowsInv'
    BY <1>2, <1>3 DEF RowsInv
  <1>5. MappingInv'
    BY <1>2, <1>3 DEF MappingInv, MappingHolds
  <1> QED BY <1>1, <1>4, <1>5

(* The catalog is a function of the rows, and so is the judgement.         *)
LEMMA CatalogOfSameRows ==
    ASSUME UNCHANGED <<db, readVars>>
    PROVE  Catalog(DescriptionRows(db))' = Catalog(DescriptionRows(db))
  BY DEF readVars, Catalog, ColumnsOf, PrimaryKeyOf, GroupOf

(* The last statement makes the catalog, and its judgement is that of the  *)
(* rows.                                                                   *)
LEMMA ReadDescriptionsKeeps ==
    ASSUME SchemaInv, ReadDescriptions
    PROVE  SchemaInv'
  <1> USE DEF SchemaInv, ReadDescriptions, readVars, ColumnsAreRead, KeysAreRead,
              ForeignKeysAreRead, Judged
  <1>1. TypeOK'
    BY DEF TypeOK, Ended
  <1>2. catalog' = Catalog(DescriptionRows(db))'
    BY CatalogOfSameRows
  <1>3. RowsInv'
    BY <1>2 DEF RowsInv
  <1>4. MappingValid(Catalog(DescriptionRows(db))) <=>
            ColumnsAmong(columnRows) /\ KeyAmong(foreignKeyRows)
    BY Judgement DEF RowsInv
  <1>5. MappingInv'
    BY <1>4 DEF MappingInv
  <1> QED BY <1>1, <1>3, <1>5

(* The other steps of the inspection.                                      *)
LEMMA OtherStepsKeep ==
    ASSUME SchemaInv, Connect \/ ReadKeys \/ Fail
    PROVE  SchemaInv'
  <1> USE DEF SchemaInv, Connect, ReadKeys, Fail, readVars, ColumnsAreRead, KeysAreRead,
              ForeignKeysAreRead, Judged
  <1>1. TypeOK'
    BY DEF TypeOK, Ended
  <1>2. RowsInv'
    BY DEF RowsInv
  <1>3. MappingInv'
    BY DEF MappingInv
  <1> QED BY <1>1, <1>2, <1>3

(* A statement of somebody else.                                           *)
LEMMA ChangeKeeps ==
    ASSUME SchemaInv, NEW d, Change(d), WellFormed(d), Evolves(db, d)
    PROVE  SchemaInv'
  <1> USE DEF SchemaInv, Change, readVars, ColumnsAreRead, KeysAreRead, ForeignKeysAreRead, Judged
  <1>1. ddl \in Nat /\ ddl' = ddl + 1 /\ ddl' # 0
    BY InspectionAssumption DEF TypeOK
  <1>2. TypeOK'
    BY InspectionAssumption DEF TypeOK, Ended, MappingHolds, HasColumns, HasKey
  <1>3. RowsInv'
    BY <1>1 DEF RowsInv
  <1>4. ASSUME ColumnsAmong(columnRows), ddl = 0, HasKey(d)
        PROVE  ever'
    <2>1. HasColumns(db)
      BY <1>4 DEF MappingInv
    <2>2. MappingHolds(db) \/ MappingHolds(d)
      BY <1>4, <2>1, NoMixedMapping DEF RowsInv
    <2> QED BY <2>2 DEF MappingInv
  <1>5. /\ db' = d /\ pc' = pc /\ pc \notin {"accepted", "refused"}
        /\ ColumnsAmong(columnRows)' = ColumnsAmong(columnRows)
        /\ KeyAmong(foreignKeyRows)' = KeyAmong(foreignKeyRows)
    OBVIOUS
  <1>6. /\ MappingHolds(db)' => ever'
        /\ always' => MappingHolds(db)'
        /\ always' => always
        /\ ever => ever'
    BY <1>5
  <1>7. ddl' <= 1 => ddl = 0 /\ ddl <= 1
    BY <1>1
  <1>8. ColumnsAmong(columnRows) /\ ddl' <= 1 /\ HasKey(db)' => ever'
    BY <1>4, <1>5, <1>7
  <1>9. MappingInv'
    BY <1>1, <1>5, <1>6, <1>7, <1>8 DEF MappingInv
  <1> QED BY <1>2, <1>3, <1>9

(* The invariant is inductive.                                             *)
LEMMA StepSchemaInv == SchemaInv /\ [Next]_vars => SchemaInv'
  <1> SUFFICES ASSUME SchemaInv, [Next]_vars PROVE SchemaInv'
    OBVIOUS
  <1>1. CASE Connect \/ ReadKeys \/ Fail
    BY <1>1, OtherStepsKeep
  <1>2. CASE ReadColumns
    BY <1>2, ReadColumnsKeeps
  <1>3. CASE ReadForeignKeys
    BY <1>3, ReadForeignKeysKeeps
  <1>4. CASE ReadDescriptions
    BY <1>4, ReadDescriptionsKeeps
  <1>5. CASE Ddl
    <2>1. WellFormed(db)
      BY DEF SchemaInv, RowsInv
    <2>2. \E d : Change(d) /\ WellFormed(d) /\ Evolves(db, d)
      BY <1>5, <2>1, AddColumnEvolves, DropColumnEvolves, CreateTableEvolves, DropTableEvolves,
         ForeignKeyEvolves DEF Ddl
    <2> QED BY <2>2, ChangeKeeps
  <1>6. CASE UNCHANGED vars
    <2> USE <1>6 DEF SchemaInv, vars
    <2>1. TypeOK' /\ MappingInv'
      BY DEF TypeOK, MappingInv, Ended, readVars, ColumnsAreRead, ForeignKeysAreRead
    <2>2. RowsInv'
      BY CatalogOfSameRows DEF RowsInv, readVars, ColumnsAreRead, KeysAreRead,
         ForeignKeysAreRead, Judged
    <2> QED BY <2>1, <2>2
  <1> QED BY <1>1, <1>2, <1>3, <1>4, <1>5, <1>6 DEF Next

(* The invariant holds in every state of an inspection.                    *)
LEMMA SchemaInvariant == Spec => []SchemaInv
  BY InitSchemaInv, StepSchemaInv, PTL DEF Spec

(* The database stays well formed, control keeps its type, and an ended    *)
(* inspection keeps no connection, whatever the databases and the DDL are.  *)
THEOREM InspectionTypeCorrect == Spec => []TypeOK
  <1>1. SchemaInv => TypeOK
    BY DEF SchemaInv
  <1> QED BY <1>1, SchemaInvariant, PTL

(* The startup check accepts only a mapping that held at some instant of   *)
(* the inspection if one DDL statement at most came between its four       *)
(* statements (mcp_server/tools/inspect_schema.py:79).                     *)
THEOREM AcceptedMappingsHeld == Spec => []AcceptedMappingHeld
  <1>1. SchemaInv => AcceptedMappingHeld
    BY DEF SchemaInv, MappingInv, AcceptedMappingHeld, ColumnsAreRead, ForeignKeysAreRead
  <1> QED BY <1>1, SchemaInvariant, PTL

(* It refuses a mapping only if it was broken at some instant, however     *)
(* many DDL statements there were.                                         *)
THEOREM RefusedMappingsBroke == Spec => []RefusedMappingBroke
  <1>1. SchemaInv => RefusedMappingBroke
    BY DEF SchemaInv, MappingInv, RefusedMappingBroke, ColumnsAreRead, ForeignKeysAreRead
  <1> QED BY <1>1, SchemaInvariant, PTL

-----------------------------------------------------------------------------
(* A description is found for the table or the column that bears it.       *)
LEMMA DescriptionFound ==
    ASSUME NEW d, WellFormed(d), NEW t \in UserTables(d), NEW c
    PROVE  DescriptionFor(DescriptionRows(d), KeyOf(d, t), c) =
               IF <<t, c>> \in d.described THEN <<t, c>> ELSE NoDescription
  <1> DEFINE rows == DescriptionRows(d)
             of(r) == r.key = KeyOf(d, t) /\ r.minor_id = c
  <1>1. \A x \in d.described : x = <<x[1], x[2]>>
    BY DEF WellFormed
  <1>2. ASSUME NEW r \in rows, of(r)
        PROVE  r.value = <<t, c>> /\ <<t, c>> \in d.described
    <2>1. PICK x \in d.described :
                 /\ x[1] \in UserTables(d)
                 /\ r = [key |-> KeyOf(d, x[1]), minor_id |-> x[2], value |-> x]
      BY DEF DescriptionRows
    <2>2. x[2] = c /\ KeyOf(d, x[1]) = KeyOf(d, t)
      BY <1>2, <2>1
    <2>3. x[1] = t
      BY <2>1, <2>2, UserTablesAreTables DEF WellFormed
    <2> QED BY <1>1, <2>1, <2>2, <2>3
  <1>3. ASSUME <<t, c>> \in d.described
        PROVE  \E r \in rows : of(r)
    <2>1. [key |-> KeyOf(d, t), minor_id |-> c, value |-> <<t, c>>] \in rows
      BY <1>3 DEF DescriptionRows
    <2> HIDE DEF rows
    <2> QED BY <2>1
  <1> HIDE DEF rows
  <1>4. DescriptionFor(rows, KeyOf(d, t), c) =
            IF \E r \in rows : of(r) THEN (CHOOSE r \in rows : of(r)).value ELSE NoDescription
    BY DEF DescriptionFor
  <1>5. CASE \E r \in rows : of(r)
    <2> DEFINE r == CHOOSE r \in rows : of(r)
    <2>1. r \in rows /\ of(r)
      BY <1>5
    <2> QED BY <1>2, <1>4, <1>5, <2>1 DEF rows
  <1>6. CASE ~\E r \in rows : of(r)
    BY <1>3, <1>4, <1>6 DEF rows
  <1> QED BY <1>5, <1>6

(* The type that the tool formats is the type that was declared: the       *)
(* length is kept in bytes, -1 stands for max.                             *)
LEMMA TypeFormatted ==
    ASSUME NEW type \in ColumnTypes
    PROVE  FormatDataType(type.base, SystemLength(type), type.scale) = type
  <1>1. /\ type \in [base : STRING, length : Int, scale : Nat]
        /\ type.base \notin Wide \cup Narrow => type.length = 0
        /\ type.base \notin Exact \cup Scaled => type.scale = 0
    BY DEF ColumnTypes
  <1> DEFINE formatted == FormatDataType(type.base, SystemLength(type), type.scale)
  <1>2. formatted.length = type.length
    <2>1. CASE type.base \in Wide
      BY <1>1, <2>1 DEF FormatDataType, SystemLength, Wide, Narrow
    <2>2. CASE type.base \in Narrow
      BY <1>1, <2>2 DEF FormatDataType, SystemLength, Wide, Narrow
    <2>3. CASE type.base \notin Wide \cup Narrow
      BY <1>1, <2>3 DEF FormatDataType, SystemLength
    <2> QED BY <2>1, <2>2, <2>3
  <1>3. formatted.scale = type.scale /\ formatted.base = type.base
    BY <1>1 DEF FormatDataType
  <1>4. formatted = [base |-> formatted.base, length |-> formatted.length, scale |-> formatted.scale]
    BY DEF FormatDataType
  <1>5. type = [base |-> type.base, length |-> type.length, scale |-> type.scale]
    BY <1>1
  <1> QED BY <1>2, <1>3, <1>4, <1>5

(* The columns of a table that was read undisturbed.                       *)
LEMMA ColumnsExact ==
    ASSUME WellFormed(db), columnRows = ColumnRows(db), NEW t \in UserTables(db)
    PROVE  LET columns == ColumnsOf(KeyOf(db, t), DescriptionRows(db))
           IN  /\ Len(columns) = Cardinality(Shown(db, t))
               /\ \A c \in Shown(db, t) :
                     Lists(columns[Cardinality({e \in Shown(db, t) : e <= c})], t, c)
  <1> DEFINE key == KeyOf(db, t)
             rows == {r \in columnRows : r.key = key}
             ids == {r.column_id : r \in rows}
             row(k) == CHOOSE r \in rows : r.column_id = InOrder(ids)[k]
             columns == ColumnsOf(key, DescriptionRows(db))
  <1>1. \A u \in UserTables(db) : KeyOf(db, u) = key => u = t
    BY UserTablesAreTables DEF WellFormed
  <1>2. ASSUME NEW r \in rows
        PROVE  r.column_id \in Shown(db, t) /\ r = ColumnRow(db, t, r.column_id)
    <2>1. PICK u \in UserTables(db) : \E c \in DOMAIN db.tables[u].columns :
                 db.tables[u].columns[c].kind \in VisibleKinds /\ r = ColumnRow(db, u, c)
      BY ColumnRowsMember
    <2>2. u = t /\ \A c : ColumnRow(db, t, c).column_id = c
      BY <1>1, <2>1 DEF ColumnRow
    <2> QED BY <2>1, <2>2, TableFacts, UserTablesAreTables
  <1>3. ASSUME NEW c \in Shown(db, t)
        PROVE  ColumnRow(db, t, c) \in rows /\ ColumnRow(db, t, c).column_id = c
    <2>1. c \in DOMAIN db.tables[t].columns /\ db.tables[t].columns[c].kind \in VisibleKinds
      BY TableFacts, UserTablesAreTables DEF Shown
    <2>2. ColumnRow(db, t, c) \in columnRows
      BY <2>1, ColumnRowsMember
    <2> QED BY <2>2 DEF ColumnRow
  <1>4. ids = Shown(db, t)
    <2> HIDE DEF rows
    <2> QED BY <1>2, <1>3
  <1>5. ids \in SUBSET Nat /\ IsFiniteSet(ids)
    <2>1. Shown(db, t) \in SUBSET DOMAIN db.tables[t].columns
      BY DEF Shown
    <2> QED BY <1>4, <2>1, TableFacts, UserTablesAreTables, FS_Subset
  <1>6. Cardinality(ids) \in Nat /\ DOMAIN InOrder(ids) = 1..Cardinality(ids)
    BY <1>5, InOrderType
  <1>7. columns = [k \in 1..Cardinality(ids) |->
                      [name |-> row(k).name,
                       data_type |-> FormatDataType(row(k).base, row(k).max_length, row(k).scale),
                       description |-> DescriptionFor(DescriptionRows(db), key, row(k).column_id)]]
    BY <1>6 DEF ColumnsOf
  <1> HIDE DEF columns
  <1>8. Len(columns) = Cardinality(ids)
    BY <1>6, <1>7
  <1>9. ASSUME NEW c \in ids
        PROVE  Lists(columns[Cardinality({e \in ids : e <= c})], t, c)
    <2> DEFINE k == Cardinality({e \in ids : e <= c})
    <2>1. k \in 1..Cardinality(ids) /\ InOrder(ids)[k] = c
      BY <1>5, InOrderRank
    <2>2. row(k) = ColumnRow(db, t, c)
      <3>1. ColumnRow(db, t, c) \in rows /\ ColumnRow(db, t, c).column_id = c
        BY <1>3, <1>4
      <3>2. row(k) \in rows /\ row(k).column_id = c
        BY <2>1, <3>1
      <3> QED BY <1>2, <3>2
    <2> DEFINE type == db.tables[t].columns[c].type
    <2>3. columns[k] =
              [name |-> NameOf(db, t, c),
               data_type |-> FormatDataType(type.base, SystemLength(type), type.scale),
               description |-> DescriptionFor(DescriptionRows(db), key, c)]
      <3> HIDE DEF row, k
      <3> QED BY <1>7, <2>1, <2>2 DEF ColumnRow
    <2>4. type \in ColumnTypes
      <3>1. db.tables[t].columns[c] \in Column
        BY <1>4, TableFacts, UserTablesAreTables DEF Shown
      <3> QED BY <3>1 DEF Column
    <2>5. FormatDataType(type.base, SystemLength(type), type.scale) = type
      BY <2>4, TypeFormatted
    <2>6. DescriptionFor(DescriptionRows(db), key, c) =
              IF <<t, c>> \in db.described THEN <<t, c>> ELSE NoDescription
      BY DescriptionFound
    <2> HIDE DEF k, key
    <2>7. Lists(columns[k], t, c)
      BY <2>3, <2>5, <2>6 DEF Lists
    <2> QED BY <2>7 DEF k
  <1> QED BY <1>4, <1>8, <1>9 DEF columns

(* The primary key of a table that was read undisturbed.                   *)
LEMMA PrimaryKeyExact ==
    ASSUME WellFormed(db), keyRows = KeyRows(db), NEW t \in UserTables(db)
    PROVE  PrimaryKeyOf(KeyOf(db, t)) =
               [k \in DOMAIN db.tables[t].primary_key |-> NameOf(db, t, db.tables[t].primary_key[k])]
  <1> DEFINE key == KeyOf(db, t)
             rows == {r \in keyRows : r.key = key}
             ordinals == {r.key_ordinal : r \in rows}
             primary == db.tables[t].primary_key
             Row(k) == [key |-> key, column |-> NameOf(db, t, primary[k]), key_ordinal |-> k]
  <1>1. /\ Len(primary) \in Nat /\ DOMAIN primary = 1..Len(primary)
    BY TableFacts, UserTablesAreTables
  <1>2. \A u \in UserTables(db) : KeyOf(db, u) = key => u = t
    BY UserTablesAreTables DEF WellFormed
  <1>3. ASSUME NEW r \in rows
        PROVE  \E k \in DOMAIN primary : r = Row(k)
    <2>1. PICK u \in UserTables(db) : \E k \in DOMAIN db.tables[u].primary_key :
                 r = [key |-> KeyOf(db, u), column |-> NameOf(db, u, db.tables[u].primary_key[k]),
                      key_ordinal |-> k]
      BY DEF KeyRows
    <2>2. u = t
      BY <1>2, <2>1
    <2> QED BY <2>1, <2>2
  <1>4. ASSUME NEW k \in DOMAIN primary PROVE Row(k) \in rows
    BY DEF KeyRows
  <1>5. \A k : Row(k).key_ordinal = k /\ Row(k).column = NameOf(db, t, primary[k])
    OBVIOUS
  <1> HIDE DEF rows, Row, primary
  <1>6. ordinals = 1..Len(primary)
    BY <1>1, <1>3, <1>4, <1>5
  <1>7. InOrder(ordinals) = [k \in 1..Len(primary) |-> k]
    BY <1>1, <1>6, InOrderInterval
  <1>8. ASSUME NEW k \in 1..Len(primary)
        PROVE  (CHOOSE r \in rows : r.key_ordinal = k).column = NameOf(db, t, primary[k])
    <2> DEFINE r == CHOOSE q \in rows : q.key_ordinal = k
    <2>1. r \in rows /\ r.key_ordinal = k
      BY <1>1, <1>4, <1>5
    <2>2. r = Row(k)
      BY <1>3, <1>5, <2>1
    <2> QED BY <1>5, <2>2
  <1>9. PrimaryKeyOf(key) =
            [k \in DOMAIN InOrder(ordinals) |->
                (CHOOSE r \in rows : r.key_ordinal = InOrder(ordinals)[k]).column]
    BY DEF PrimaryKeyOf, rows
  <1> HIDE DEF ordinals, key
  <1>10. PrimaryKeyOf(key) = [k \in 1..Len(primary) |-> NameOf(db, t, primary[k])]
    BY <1>7, <1>8, <1>9
  <1> QED BY <1>1, <1>10 DEF primary, key

(* A foreign key as the database has it.                                   *)
KeyInCatalog(f) ==
    LET fk == db.foreign_keys[f]
    IN  [name |-> fk.name,
         source |-> KeyOf(db, fk.parent),
         source_columns |-> [k \in DOMAIN fk.pairs |-> NameOf(db, fk.parent, fk.pairs[k][1])],
         target |-> KeyOf(db, fk.referenced),
         target_columns |-> [k \in DOMAIN fk.pairs |-> NameOf(db, fk.referenced, fk.pairs[k][2])]]

KeysInScope ==
    {f \in DOMAIN db.foreign_keys :
        {db.foreign_keys[f].parent, db.foreign_keys[f].referenced} \subseteq UserTables(db)}

(* A foreign key that was read undisturbed, from the rows with its id.     *)
LEMMA ForeignKeyExact ==
    ASSUME WellFormed(db), NEW f \in KeysInScope
    PROVE  /\ ForeignKeyRow(db, f, 1) \in ForeignKeyRows(db)
           /\ ForeignKeyFrom({r \in ForeignKeyRows(db) : r.object_id = f}) = KeyInCatalog(f)
  <1> DEFINE group == {r \in ForeignKeyRows(db) : r.object_id = f}
             ids == {r.constraint_column_id : r \in group}
             pairs == db.foreign_keys[f].pairs
             n == Len(pairs)
  <1>1. n \in Nat /\ n # 0 /\ DOMAIN pairs = 1..n
    <2>1. pairs \in Seq(Nat \X Nat) \ {<<>>}
      BY DEF WellFormed, IsForeignKey, KeysInScope
    <2> QED BY <2>1
  <1>2. \A k : ForeignKeyRow(db, f, k).object_id = f /\ ForeignKeyRow(db, f, k).constraint_column_id = k
    BY DEF ForeignKeyRow
  <1>3. \A k \in 1..n : ForeignKeyRow(db, f, k) \in group
    BY <1>1, <1>2, ForeignKeyRowsMember DEF KeysInScope
  <1>4. \A r \in group : r.constraint_column_id \in 1..n
                         /\ r = ForeignKeyRow(db, f, r.constraint_column_id)
    <2> TAKE r \in group
    <2>1. PICK g \in DOMAIN db.foreign_keys : \E k \in DOMAIN db.foreign_keys[g].pairs :
                 r = ForeignKeyRow(db, g, k)
      BY ForeignKeyRowsMember
    <2>2. \A k : ForeignKeyRow(db, g, k).object_id = g
      BY DEF ForeignKeyRow
    <2> QED BY <1>1, <1>2, <2>1, <2>2
  <1> HIDE DEF group, n
  <1>5. ids = 1..n
    BY <1>2, <1>3, <1>4
  <1>6. InOrder(ids) = [k \in 1..n |-> k]
    BY <1>1, <1>5, InOrderInterval
  <1>7. ASSUME NEW k \in 1..n
        PROVE  (CHOOSE r \in group : r.constraint_column_id = k) = ForeignKeyRow(db, f, k)
    BY <1>2, <1>3, <1>4
  <1> DEFINE row(k) == CHOOSE r \in group : r.constraint_column_id = InOrder(ids)[k]
  <1>8. ForeignKeyFrom(group) =
            [name |-> row(1).name, source |-> row(1).source,
             source_columns |-> [k \in DOMAIN InOrder(ids) |-> row(k).source_column],
             target |-> row(1).target,
             target_columns |-> [k \in DOMAIN InOrder(ids) |-> row(k).target_column]]
    BY DEF ForeignKeyFrom
  <1> HIDE DEF ids
  <1>9. DOMAIN InOrder(ids) = 1..n /\ \A k \in 1..n : row(k) = ForeignKeyRow(db, f, k)
    BY <1>6, <1>7
  <1> HIDE DEF row
  <1>10. 1 \in 1..n
    BY <1>1
  <1>11. ForeignKeyFrom(group) =
             [name |-> ForeignKeyRow(db, f, 1).name, source |-> ForeignKeyRow(db, f, 1).source,
              source_columns |-> [k \in 1..n |-> ForeignKeyRow(db, f, k).source_column],
              target |-> ForeignKeyRow(db, f, 1).target,
              target_columns |-> [k \in 1..n |-> ForeignKeyRow(db, f, k).target_column]]
    BY <1>8, <1>9, <1>10
  <1>12. ForeignKeyFrom(group) = KeyInCatalog(f)
    BY <1>1, <1>11 DEF KeyInCatalog, ForeignKeyRow
  <1> QED BY <1>3, <1>10, <1>12 DEF group

(* The foreign keys of the catalog are those of the database.              *)
LEMMA ForeignKeysExact ==
    ASSUME WellFormed(db), foreignKeyRows = ForeignKeyRows(db), NEW descriptions
    PROVE  LET keys == Catalog(descriptions).foreign_keys
           IN  {keys[g] : g \in DOMAIN keys} = {KeyInCatalog(f) : f \in KeysInScope}
  <1> DEFINE keys == Catalog(descriptions).foreign_keys
  <1>1. keys = [g \in {GroupOf(row) : row \in foreignKeyRows} |-> ForeignKeyFrom(g)]
    BY DEF Catalog
  <1> HIDE DEF keys
  <1>2. \A f, k : ForeignKeyRow(db, f, k).object_id = f
    BY DEF ForeignKeyRow
  <1>3. \A row \in foreignKeyRows :
            /\ row.object_id \in KeysInScope
            /\ GroupOf(row) = {r \in ForeignKeyRows(db) : r.object_id = row.object_id}
    BY <1>2, ForeignKeyRowsMember DEF GroupOf, KeysInScope
  <1>4. ASSUME NEW g \in DOMAIN keys
        PROVE  keys[g] \in {KeyInCatalog(f) : f \in KeysInScope}
    <2>1. PICK row \in foreignKeyRows : g = GroupOf(row)
      BY <1>1
    <2>2. keys[g] = ForeignKeyFrom({r \in ForeignKeyRows(db) : r.object_id = row.object_id})
      BY <1>1, <1>3, <2>1
    <2> QED BY <1>3, <2>2, ForeignKeyExact
  <1>5. ASSUME NEW f \in KeysInScope
        PROVE  KeyInCatalog(f) \in {keys[g] : g \in DOMAIN keys}
    <2> DEFINE row == ForeignKeyRow(db, f, 1)
    <2>1. row \in foreignKeyRows /\ row.object_id = f
      BY <1>2, ForeignKeyExact
    <2>2. GroupOf(row) \in DOMAIN keys /\ keys[GroupOf(row)] = ForeignKeyFrom(GroupOf(row))
      BY <1>1, <2>1
    <2>3. GroupOf(row) = {r \in ForeignKeyRows(db) : r.object_id = f}
      BY <1>3, <2>1
    <2>4. keys[GroupOf(row)] = KeyInCatalog(f)
      BY <2>2, <2>3, ForeignKeyExact
    <2> QED BY <2>2, <2>4
  <1>6. {keys[g] : g \in DOMAIN keys} = {KeyInCatalog(f) : f \in KeysInScope}
    BY <1>4, <1>5
  <1> QED BY <1>6 DEF keys

(* The tables of the catalog are those with a column that it can show.     *)
LEMMA TablesExact ==
    ASSUME WellFormed(db), columnRows = ColumnRows(db)
    PROVE  {r.key : r \in columnRows} =
               {KeyOf(db, t) : t \in {u \in UserTables(db) : Shown(db, u) # {}}}
  <1>1. ASSUME NEW r \in columnRows
        PROVE  \E t \in UserTables(db) : Shown(db, t) # {} /\ r.key = KeyOf(db, t)
    <2>1. PICK t \in UserTables(db) : \E c \in DOMAIN db.tables[t].columns :
                 db.tables[t].columns[c].kind \in VisibleKinds /\ r = ColumnRow(db, t, c)
      BY ColumnRowsMember
    <2>2. Shown(db, t) # {}
      BY <2>1, TableFacts, UserTablesAreTables
    <2> QED BY <2>1, <2>2 DEF ColumnRow
  <1>2. ASSUME NEW t \in UserTables(db), Shown(db, t) # {}
        PROVE  \E r \in columnRows : r.key = KeyOf(db, t)
    <2>1. PICK c \in DOMAIN db.tables[t].columns : c \in Shown(db, t)
      BY <1>2 DEF Shown
    <2>2. db.tables[t].columns[c].kind \in VisibleKinds
      BY <2>1, TableFacts, UserTablesAreTables
    <2>3. ColumnRow(db, t, c) \in columnRows
      BY <2>2, ColumnRowsMember
    <2> QED BY <2>3 DEF ColumnRow
  <1> QED BY <1>1, <1>2

(* An inspection that no DDL disturbed and that ended with a judgement     *)
(* gives the database as it is: every table, column, type, description,    *)
(* primary key and foreign key, each once and in order, whatever columns   *)
(* were dropped before (mcp_server/tools/inspect_schema.py:97).            *)
THEOREM InspectionsAreExact == Spec => []InspectionIsExact
  <1>1. SchemaInv => InspectionIsExact
    <2> SUFFICES ASSUME SchemaInv, Judged, ddl = 0
                 PROVE  InspectionIsExact
      BY DEF InspectionIsExact
    <2>1. /\ WellFormed(db)
          /\ columnRows = ColumnRows(db) /\ keyRows = KeyRows(db)
          /\ foreignKeyRows = ForeignKeyRows(db)
          /\ catalog = Catalog(DescriptionRows(db))
      BY DEF SchemaInv, RowsInv, Judged, ColumnsAreRead, KeysAreRead, ForeignKeysAreRead
    <2> DEFINE tables == {t \in UserTables(db) : Shown(db, t) # {}}
               names(t, ids) == [k \in DOMAIN ids |-> NameOf(db, t, ids[k])]
               Key(f) ==
                   LET fk == db.foreign_keys[f]
                   IN  [name |-> fk.name,
                        source |-> KeyOf(db, fk.parent),
                        source_columns |->
                            names(fk.parent, [k \in DOMAIN fk.pairs |-> fk.pairs[k][1]]),
                        target |-> KeyOf(db, fk.referenced),
                        target_columns |->
                            names(fk.referenced, [k \in DOMAIN fk.pairs |-> fk.pairs[k][2]])]
    <2>2. DOMAIN catalog.tables = {KeyOf(db, t) : t \in tables}
      <3>1. DOMAIN catalog.tables = {r.key : r \in columnRows}
        BY <2>1 DEF Catalog
      <3> QED BY <2>1, <3>1, TablesExact
    <2>3. ASSUME NEW t \in tables
          PROVE  LET entry == catalog.tables[KeyOf(db, t)] IN
                 /\ entry.description = IF <<t, 0>> \in db.described THEN <<t, 0>> ELSE NoDescription
                 /\ Len(entry.columns) = Cardinality(Shown(db, t))
                 /\ \A c \in Shown(db, t) :
                       Lists(entry.columns[Cardinality({e \in Shown(db, t) : e <= c})], t, c)
                 /\ entry.primary_key = names(t, db.tables[t].primary_key)
      <3> DEFINE key == KeyOf(db, t)
                 rows == DescriptionRows(db)
      <3>1. key \in {r.key : r \in columnRows}
        BY <2>1, TablesExact
      <3>2. catalog.tables[key] = [description |-> DescriptionFor(rows, key, 0),
                                   columns |-> ColumnsOf(key, rows),
                                   primary_key |-> PrimaryKeyOf(key)]
        BY <2>1, <3>1 DEF Catalog
      <3>3. DescriptionFor(rows, key, 0) =
                IF <<t, 0>> \in db.described THEN <<t, 0>> ELSE NoDescription
        BY <2>1, DescriptionFound
      <3>4. /\ Len(ColumnsOf(key, rows)) = Cardinality(Shown(db, t))
            /\ \A c \in Shown(db, t) :
                  Lists(ColumnsOf(key, rows)[Cardinality({e \in Shown(db, t) : e <= c})], t, c)
        BY <2>1, ColumnsExact
      <3>5. PrimaryKeyOf(key) = names(t, db.tables[t].primary_key)
        BY <2>1, PrimaryKeyExact
      <3> HIDE DEF key, rows, names
      <3>6. QED BY <3>2, <3>3, <3>4, <3>5 DEF key
    <2>4. {catalog.foreign_keys[g] : g \in DOMAIN catalog.foreign_keys} = {Key(f) : f \in KeysInScope}
      <3>1. \A f : KeyInCatalog(f) = Key(f)
        BY DEF KeyInCatalog
      <3> HIDE DEF Key
      <3> DEFINE rows == DescriptionRows(db)
      <3>2. catalog.foreign_keys = Catalog(rows).foreign_keys
        BY <2>1
      <3> HIDE DEF rows
      <3>3. {catalog.foreign_keys[g] : g \in DOMAIN catalog.foreign_keys} =
                {KeyInCatalog(f) : f \in KeysInScope}
        BY <2>1, <3>2, ForeignKeysExact
      <3>4. {KeyInCatalog(f) : f \in KeysInScope} = {Key(f) : f \in KeysInScope}
        BY <3>1
      <3> QED BY <3>3, <3>4
    <2> QED BY <2>2, <2>3, <2>4 DEF InspectionIsExact, KeysInScope
  <1> QED BY <1>1, SchemaInvariant, PTL
=============================================================================
