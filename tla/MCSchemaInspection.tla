-------------------------- MODULE MCSchemaInspection --------------------------
(***************************************************************************)
(* SchemaInspection over small databases with what is hard in them: gaps   *)
(* in the column ids, alias and CLR types, keys of two columns out of      *)
(* order, two foreign keys of one name, tables of one name in two schemas, *)
(* and tables that must not be seen.                                       *)
(***************************************************************************)
EXTENDS SchemaInspection

Type(base, length, scale) == [base |-> base, length |-> length, scale |-> scale]
Integer == Type("int", 0, 0)
C(name, kind, type) == [name |-> name, kind |-> kind, type |-> type]

Table(schema, name, columns, used, primary_key) ==
    [schema |-> schema, name |-> name, shipped |-> FALSE,
     columns |-> columns, used |-> used, primary_key |-> primary_key]

Columns(list) == LET ids == {list[k][1] : k \in DOMAIN list}
                 IN  [c \in ids |-> (CHOOSE x \in Range(list) : x[1] = c)[2]]

ProductTable ==
    Table("Production", "Product",
          Columns(<< <<1, C("ProductID", "system", Integer)>>,
                     <<2, C("Name", "alias", Type("nvarchar", 50, 0))>>,
                     <<4, C("SafetyStockLevel", "system", Type("numeric", 0, 2))>>,
                     <<6, C("Number", "system", Type("varchar", -1, 0))>> >>), 7, <<1>>)

InventoryTable ==
    Table("Production", "ProductInventory",
          Columns(<< <<1, C("LocationID", "system", Integer)>>,
                     <<2, C("ProductID", "system", Integer)>>,
                     <<3, C("Quantity", "system", Integer)>> >>), 3, <<2, 1>>)

DocumentTable ==
    Table("Sales", "Product",
          Columns(<< <<1, C("Node", "clr", Type("hierarchyid", 0, 0))>>,
                     <<2, C("ProductID", "system", Integer)>>,
                     <<3, C("Title", "system", Type("nchar", 8, 0))>> >>), 3, <<1>>)

HiddenTable == Table("guest", "Product", Columns(<< <<1, C("ProductID", "system", Integer)>> >>), 1, <<>>)
ShippedTable == [HiddenTable EXCEPT !.schema = "Production", !.name = "spt", !.shipped = TRUE]

Foreign(name, parent, referenced, pairs) ==
    [name |-> name, parent |-> parent, referenced |-> referenced, pairs |-> pairs]
RequiredKey == Foreign("FK_Product", 2, 1, << <<2, 1>> >>)

BaseDb ==
    [tables |-> <<ProductTable, InventoryTable, DocumentTable, HiddenTable, ShippedTable>>,
     foreign_keys |-> [f \in {10, 11, 12} |->
         CASE f = 10 -> RequiredKey
           [] f = 11 -> Foreign("FK_Product", 3, 2, << <<3, 1>>, <<2, 2>> >>)
           [] f = 12 -> Foreign("FK_Hidden", 4, 1, << <<1, 1>> >>)],
     described |-> {<<1, 0>>, <<1, 2>>, <<1, 4>>, <<2, 3>>, <<3, 2>>, <<4, 1>>}]

Without(f, S) == [x \in DOMAIN f \ S |-> f[x]]

(* The base, with columns of Product, foreign keys or descriptions missing.*)
MCInitialDbs ==
    {[BaseDb EXCEPT !.tables[1].columns = Without(@, cs),
                    !.foreign_keys = Without(@, fs),
                    !.described = @ \ ({1} \X cs)] :
        cs \in {{}, {2}, {4}, {6}}, fs \in {{}, {10}, {11}, {11, 12}}}
    \cup {[BaseDb EXCEPT !.described = {}],
          [BaseDb EXCEPT !.tables[2].columns = Without(@, {3})],
          [BaseDb EXCEPT !.tables[2].columns[3].kind = "clr"],
          [BaseDb EXCEPT !.foreign_keys[10].pairs = << <<2, 4>> >>],
          [BaseDb EXCEPT !.foreign_keys[10].pairs = << <<2, 1>>, <<1, 6>> >>],
          [BaseDb EXCEPT !.tables = Without(@, {2}), !.foreign_keys = Without(@, {10, 11})],
          [BaseDb EXCEPT !.tables[3].columns = Without(@, {2, 3}), !.foreign_keys = Without(@, {11})]}

MCNewColumns == {C("Name", "alias", Type("nvarchar", 50, 0)), C("SafetyStockLevel", "system", Integer)}
MCNewTables ==
    {[id |-> 6, table |-> [DocumentTable EXCEPT !.name = "Document"],
      foreign_keys |-> [f \in {13} |-> Foreign("FK_Document", 6, 6, << <<3, 3>> >>)]]}
MCNewForeignKeys ==
    {[id |-> 20, key |-> RequiredKey], [id |-> 21, key |-> Foreign("FK_Wrong", 2, 1, << <<2, 6>> >>)]}
=============================================================================
