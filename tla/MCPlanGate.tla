----------------------------- MODULE MCPlanGate -----------------------------
(***************************************************************************)
(* PlanGate over the accepted plan and every plan that differs from it in  *)
(* at most two fields.                                                     *)
(***************************************************************************)
EXTENDS PlanGate

SomeIds == {"product", "product_id", "below_safety_stock", Blank} \cup OtherIds

UpTo(n, S) == UNION {[1..k -> S] : k \in 0..n}

BasePlan ==
    [purpose |-> "text", entity_id |-> "product",
     dimension_ids |-> <<"product_id", "product_name">>,
     metric_ids |-> <<"current_inventory", "safety_stock_level">>,
     filters |-> <<[filter_id |-> "below_safety_stock", parameters |-> FALSE]>>,
     time_policy_id |-> "null", grain_id |-> "product",
     join_ids |-> <<"product_to_product_inventory">>,
     order_by |-> <<[field_id |-> "product_id", direction |-> "asc"]>>,
     limit |-> MaximumReturnedRows, depth |-> 1]

(* The values each field is varied over.                                   *)
Variations ==
    [purpose |-> {"text", "blank"},
     entity_id |-> SomeIds,
     dimension_ids |-> UpTo(3, {"product_id", "product_name", "current_inventory"})
         \cup UpTo(1, {Blank} \cup OtherIds),
     metric_ids |-> UpTo(3, {"current_inventory", "safety_stock_level", "product_id"})
         \cup UpTo(1, {Blank} \cup OtherIds),
     filters |-> UpTo(2, {[filter_id |-> "below_safety_stock", parameters |-> TRUE],
                          [filter_id |-> "below_safety_stock", parameters |-> FALSE],
                          [filter_id |-> "product", parameters |-> FALSE],
                          [filter_id |-> Blank, parameters |-> FALSE]}),
     time_policy_id |-> {"null", "product"},
     grain_id |-> SomeIds,
     join_ids |-> UpTo(2, {"product_to_product_inventory", "product", Blank}),
     order_by |-> UpTo(2, {[field_id |-> "product_id", direction |-> "asc"],
                           [field_id |-> "product_id", direction |-> "desc"],
                           [field_id |-> "current_inventory", direction |-> "asc"],
                           [field_id |-> "product", direction |-> "asc"],
                           [field_id |-> Blank, direction |-> "asc"]}),
     limit |-> -1..(MaximumReturnedRows + 1),
     depth |-> 0..2]

Fields == DOMAIN BasePlan

Vary(plans, f) == UNION {{[p EXCEPT ![f] = x] : x \in Variations[f]} : p \in plans}

MCRawPlans == UNION {Vary(Vary({BasePlan}, f), g) : f, g \in Fields}
=============================================================================
