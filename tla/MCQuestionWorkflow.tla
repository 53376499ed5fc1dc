------------------------- MODULE MCQuestionWorkflow -------------------------
(***************************************************************************)
(* Instances of QuestionWorkflow for TLC: one LLM answer for each way a    *)
(* gate can decide.                                                        *)
(***************************************************************************)
EXTENDS QuestionWorkflow, Sequences

Term(w) == [word |-> w, decorated |-> TRUE]

InScopeIntent ==
    [subject |-> Term("product"),
     requested_concepts |-> {Term("inventory"), Term("safety_stock")},
     requires_clarification |-> FALSE,
     clarification_reason |-> "null"]

MCIntents ==
    {InScopeIntent,
     [InScopeIntent EXCEPT !.requested_concepts = {Term("inventory"), Term("other")}],
     [InScopeIntent EXCEPT !.requires_clarification = TRUE],
     [InScopeIntent EXCEPT !.requires_clarification = TRUE, !.clarification_reason = "text"]}

InScopePlan ==
    [purpose |-> "text", entity_id |-> "product",
     dimension_ids |-> <<"product_id", "product_name">>,
     metric_ids |-> <<"current_inventory", "safety_stock_level">>,
     filters |-> <<[filter_id |-> "below_safety_stock", parameters |-> FALSE]>>,
     time_policy_id |-> "null", grain_id |-> "product",
     join_ids |-> <<"product_to_product_inventory">>,
     order_by |-> <<[field_id |-> "product_id", direction |-> "asc"]>>,
     limit |-> MaximumReturnedRows, depth |-> 1]

MCPlans == {InScopePlan, [InScopePlan EXCEPT !.filters = <<>>]}

(* Two rows at most, while the maximum is one.                             *)
MCNumerals == {"0", "1", "2"}
MCValueOf == [n \in MCNumerals |-> CASE n = "0" -> 0 [] n = "1" -> 1 [] n = "2" -> 2]
MCOtherCase == [w \in {"PI"} |-> "pi"]

Top(n, i) ==
    <<"SELECT", "TOP", "(", n, ")", "p", ".", "ProductID", "AS", "ProductID", ",",
      "p", ".", "Name", "AS", "Name", ",",
      "SUM", "(", i, ".", "Quantity", ")", "AS", "CurrentInventory", ",",
      "p", ".", "SafetyStockLevel", "AS", "SafetyStockLevel",
      "FROM", "Production", ".", "Product", "AS", "p",
      "JOIN", "Production", ".", "ProductInventory", "AS", "pi",
      "ON", "p", ".", "ProductID", "=", "pi", ".", "ProductID",
      "GROUP", "BY", "p", ".", "ProductID", ",", "p", ".", "Name", ",", "p", ".", "SafetyStockLevel",
      "HAVING", "SUM", "(", "pi", ".", "Quantity", ")", "<", "p", ".", "SafetyStockLevel",
      "ORDER", "BY", "p", ".", "ProductID", "ASC">>

(* The representative query in other capitals with a semicolon at its end, *)
(* and with a TOP above the maximum.                                       *)
MCSqls == [tokens : {Append(Top("1", "PI"), ";"), Top("2", "pi")}, odd : {{}}]
=============================================================================
