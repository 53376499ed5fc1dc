--------------------------- MODULE PlanGateProofs ---------------------------
(***************************************************************************)
(* The plan gate lets exactly the demo scope through, for plans of any     *)
(* size, any foreign ids and any maximum of returned rows.                 *)
(***************************************************************************)
EXTENDS PlanGate, TLAPS

(* What is registered under each kind.                                     *)
LEMMA ContextOfKind ==
    /\ MetadataContext["entity"] = {"product"}
    /\ MetadataContext["dimension"] = {"product_id", "product_name"}
    /\ MetadataContext["metric"] = {"current_inventory", "safety_stock_level"}
    /\ MetadataContext["filter"] = {"below_safety_stock"}
    /\ MetadataContext["grain"] = {"product"}
    /\ MetadataContext["join"] = {"product_to_product_inventory"}
  <1> DEFINE OfKind(k) == {e.id : e \in {x \in AllEntries : x.kind = k}}
  <1>1. \A k \in Kinds : MetadataContext[k] = OfKind(k)
    BY DEF MetadataContext
  <1>2. \A i, k : i \in OfKind(k) <=> \E e \in AllEntries : e.kind = k /\ e.id = i
    OBVIOUS
  <1>3. \A i, k : (\E e \in AllEntries : e.kind = k /\ e.id = i) <=>
                     \/ k = "entity" /\ i = "product"
                     \/ k = "dimension" /\ i \in {"product_id", "product_name"}
                     \/ k = "metric" /\ i \in {"current_inventory", "safety_stock_level"}
                     \/ k = "filter" /\ i = "below_safety_stock"
                     \/ k = "grain" /\ i = "product"
                     \/ k = "join" /\ i = "product_to_product_inventory"
    BY DEF AllEntries
  <1> HIDE DEF OfKind
  <1>4. OfKind("entity") = {"product"} /\ OfKind("grain") = {"product"}
    BY <1>2, <1>3
  <1>5. OfKind("dimension") = {"product_id", "product_name"}
    BY <1>2, <1>3
  <1>6. OfKind("metric") = {"current_inventory", "safety_stock_level"}
    BY <1>2, <1>3
  <1>7. OfKind("filter") = {"below_safety_stock"}
    BY <1>2, <1>3
  <1>8. OfKind("join") = {"product_to_product_inventory"}
    BY <1>2, <1>3
  <1> QED BY <1>1, <1>4, <1>5, <1>6, <1>7, <1>8 DEF Kinds

(* A list without repetition of one given member.                          *)
LEMMA OnlyOne ==
    ASSUME NEW S, NEW s \in Seq(S), NEW a
    PROVE  s = <<a>> <=> IsInjective(s) /\ Range(s) = {a}
  <1>1. ASSUME s = <<a>>
        PROVE  IsInjective(s) /\ Range(s) = {a}
    <2>1. DOMAIN s = {1} /\ s[1] = a
      BY <1>1
    <2> QED BY <2>1 DEF IsInjective, Range
  <1>2. ASSUME IsInjective(s), Range(s) = {a}
        PROVE  s = <<a>>
    <2>1. DOMAIN s = 1..Len(s) /\ Len(s) \in Nat
      OBVIOUS
    <2>2. \A i \in DOMAIN s : s[i] = a
      BY <1>2 DEF Range
    <2>3. PICK k \in DOMAIN s : s[k] = a
      BY <1>2 DEF Range
    <2>4. \A i \in DOMAIN s : i = k
      BY <1>2, <2>2, <2>3 DEF IsInjective
    <2>5. Len(s) = 1
      BY <2>1, <2>3, <2>4
    <2> QED BY <2>1, <2>2, <2>5
  <1> QED BY <1>1, <1>2

(* A list without repetition of two given members: one of the two orders.  *)
LEMMA OnlyTwo ==
    ASSUME NEW S, NEW s \in Seq(S), NEW a, NEW b, a # b
    PROVE  s \in EitherOrder(a, b) <=> IsInjective(s) /\ Range(s) = {a, b}
  <1>1. ASSUME s \in EitherOrder(a, b)
        PROVE  IsInjective(s) /\ Range(s) = {a, b}
    <2>1. DOMAIN s = {1, 2} /\ {s[1], s[2]} = {a, b} /\ s[1] # s[2]
      BY <1>1 DEF EitherOrder
    <2> QED BY <2>1 DEF IsInjective, Range
  <1>2. ASSUME IsInjective(s), Range(s) = {a, b}
        PROVE  s \in EitherOrder(a, b)
    <2>1. DOMAIN s = 1..Len(s) /\ Len(s) \in Nat
      OBVIOUS
    <2>2. \A i \in DOMAIN s : s[i] \in {a, b}
      BY <1>2 DEF Range
    <2>3. PICK i \in DOMAIN s, j \in DOMAIN s : s[i] = a /\ s[j] = b
      BY <1>2 DEF Range
    <2>4. \A k \in DOMAIN s : k \in {i, j}
      BY <1>2, <2>2, <2>3 DEF IsInjective
    <2>5. Len(s) = 2
      <3>1. i # j
        BY <2>3
      <3>2. i \in 1..Len(s) /\ j \in 1..Len(s)
        BY <2>1
      <3>3. ~(Len(s) >= 3)
        <4> SUFFICES ASSUME Len(s) >= 3
                     PROVE  FALSE
          OBVIOUS
        <4>1. {1, 2, 3} \subseteq DOMAIN s
          BY <2>1
        <4> QED BY <2>4, <4>1
      <3> QED BY <2>1, <3>1, <3>2, <3>3
    <2>6. s[1] \in {a, b} /\ s[2] \in {a, b} /\ s[1] # s[2]
      BY <1>2, <2>1, <2>2, <2>5 DEF IsInjective
    <2> QED BY <2>1, <2>5, <2>6 DEF EitherOrder
  <1> QED BY <1>1, <1>2

(* The list of filters, in terms of its ids.                               *)
LEMMA OnlyOneFilter ==
    ASSUME NEW f \in Seq(Filters),
           \A i, j \in DOMAIN f : f[i].filter_id = f[j].filter_id => i = j,
           NEW a, {f[i].filter_id : i \in DOMAIN f} = {a},
           \A i \in DOMAIN f : f[i].filter_id = a => ~f[i].parameters
    PROVE  f = <<[filter_id |-> a, parameters |-> FALSE]>>
  <1>1. DOMAIN f = 1..Len(f) /\ Len(f) \in Nat /\ \A i \in DOMAIN f : f[i] \in Filters
    OBVIOUS
  <1>2. PICK k \in DOMAIN f : f[k].filter_id = a
    OBVIOUS
  <1>3. \A i \in DOMAIN f : f[i].filter_id = a /\ i = k
    BY <1>2
  <1>4. Len(f) = 1 /\ k = 1
    BY <1>1, <1>2, <1>3
  <1>5. f[1] = [filter_id |-> a, parameters |-> FALSE]
    BY <1>1, <1>2, <1>4 DEF Filters
  <1> QED BY <1>1, <1>4, <1>5

(* The two gates of the code, for any plan, against the closed form.       *)
LEMMA AcceptedIffInScope ==
    ASSUME NEW p \in Plans
    PROVE  PlanAccepted(p) <=> InDemoScope(p)
  <1>0. /\ p.dimension_ids \in Seq(Ids) /\ p.metric_ids \in Seq(Ids)
        /\ p.join_ids \in Seq(Ids) /\ p.filters \in Seq(Filters)
        /\ p.order_by \in Seq(Orders) /\ p.limit \in Int
        /\ p.purpose \in {"text", "blank"}
    BY DEF Plans
  <1>1. /\ CheckKind({p.entity_id}, "entity") <=> p.entity_id = "product"
        /\ CheckKind({p.grain_id}, "grain") <=> p.grain_id = "product"
    BY ContextOfKind DEF CheckKind
  <1>2. /\ CheckKind(Range(p.dimension_ids), "dimension")
              <=> Range(p.dimension_ids) \subseteq {"product_id", "product_name"}
        /\ CheckKind(Range(p.metric_ids), "metric")
              <=> Range(p.metric_ids) \subseteq {"current_inventory", "safety_stock_level"}
        /\ CheckKind(FilterIds(p), "filter") <=> FilterIds(p) \subseteq {"below_safety_stock"}
        /\ CheckKind(Range(p.join_ids), "join")
              <=> Range(p.join_ids) \subseteq {"product_to_product_inventory"}
    BY ContextOfKind DEF CheckKind
  <1>3. /\ p.dimension_ids \in EitherOrder("product_id", "product_name")
              <=> /\ IsInjective(p.dimension_ids)
                  /\ Range(p.dimension_ids) = {"product_id", "product_name"}
        /\ p.metric_ids \in EitherOrder("current_inventory", "safety_stock_level")
              <=> /\ IsInjective(p.metric_ids)
                  /\ Range(p.metric_ids) = {"current_inventory", "safety_stock_level"}
        /\ p.join_ids = <<"product_to_product_inventory">>
              <=> /\ IsInjective(p.join_ids)
                  /\ Range(p.join_ids) = {"product_to_product_inventory"}
    <2>1. p.dimension_ids \in EitherOrder("product_id", "product_name")
              <=> /\ IsInjective(p.dimension_ids)
                  /\ Range(p.dimension_ids) = {"product_id", "product_name"}
      <3>1. "product_id" # "product_name"
        OBVIOUS
      <3> QED BY <1>0, <3>1, OnlyTwo
    <2>2. p.metric_ids \in EitherOrder("current_inventory", "safety_stock_level")
              <=> /\ IsInjective(p.metric_ids)
                  /\ Range(p.metric_ids) = {"current_inventory", "safety_stock_level"}
      <3>1. "current_inventory" # "safety_stock_level"
        OBVIOUS
      <3> QED BY <1>0, <3>1, OnlyTwo
    <2> QED BY <1>0, <2>1, <2>2, OnlyOne
  <1>4. Blank \notin RegistryIds
    BY DemoScopeAssumption
  <1>5. ASSUME PlanAccepted(p)
        PROVE  InDemoScope(p)
    <2> USE <1>5 DEF PlanAccepted
    <2>1. /\ Range(p.dimension_ids) = {"product_id", "product_name"}
          /\ Range(p.metric_ids) = {"current_inventory", "safety_stock_level"}
          /\ Range(p.join_ids) = {"product_to_product_inventory"}
          /\ FilterIds(p) = {"below_safety_stock"}
      BY <1>2 DEF PlanValid
    <2>2. /\ p.dimension_ids \in EitherOrder("product_id", "product_name")
          /\ p.metric_ids \in EitherOrder("current_inventory", "safety_stock_level")
          /\ p.join_ids = <<"product_to_product_inventory">>
      BY <1>3, <2>1 DEF PlanContract
    <2>3. p.filters = <<[filter_id |-> "below_safety_stock", parameters |-> FALSE]>>
      BY <1>0, <2>1, OnlyOneFilter DEF PlanContract, PlanValid, FilterIds
    <2>4. \A i \in DOMAIN p.order_by :
             /\ p.order_by[i].field_id \in {"product_id", "product_name",
                                            "current_inventory", "safety_stock_level"}
             /\ \A j \in DOMAIN p.order_by :
                    p.order_by[i].field_id = p.order_by[j].field_id => i = j
      BY <2>1 DEF PlanContract
    <2>5. /\ p.purpose = "text" /\ p.time_policy_id = "null" /\ p.depth = 1
          /\ p.entity_id = "product" /\ p.grain_id = "product"
          /\ p.order_by # <<>>
          /\ p.order_by[1] = [field_id |-> "product_id", direction |-> "asc"]
          /\ p.limit \in 1..MaximumReturnedRows
      BY <1>0, DemoScopeAssumption DEF PlanContract, PlanValid
    <2> QED BY <2>2, <2>3, <2>4, <2>5 DEF InDemoScope
  <1>6. ASSUME InDemoScope(p)
        PROVE  PlanAccepted(p)
    <2> USE <1>6
    <2>1. /\ IsInjective(p.dimension_ids) /\ IsInjective(p.metric_ids)
          /\ IsInjective(p.join_ids)
          /\ Range(p.dimension_ids) = {"product_id", "product_name"}
          /\ Range(p.metric_ids) = {"current_inventory", "safety_stock_level"}
          /\ Range(p.join_ids) = {"product_to_product_inventory"}
      BY <1>3 DEF InDemoScope
    <2>2. /\ DOMAIN p.filters = {1}
          /\ p.filters[1] = [filter_id |-> "below_safety_stock", parameters |-> FALSE]
      BY DEF InDemoScope
    <2>3. FilterIds(p) = {"below_safety_stock"}
      BY <2>2 DEF FilterIds
    <2>4. PlanContract(p)
      <3>1. p.metric_ids # <<>> /\ p.limit >= 1
        <4>1. p.metric_ids # <<>>
          BY DEF InDemoScope, EitherOrder
        <4>2. p.limit >= 1
          BY <1>0, DemoScopeAssumption DEF InDemoScope
        <4> QED BY <4>1, <4>2
      <3>2. \A i, j \in DOMAIN p.filters :
               p.filters[i].filter_id = p.filters[j].filter_id => i = j
        BY <2>2
      <3>3. /\ p.purpose # "blank" /\ p.entity_id # Blank /\ p.grain_id # Blank
            /\ Blank \notin FilterIds(p)
        BY <1>4, <2>3 DEF InDemoScope, RegistryIds
      <3>4. \A i \in DOMAIN p.order_by :
               /\ p.order_by[i].field_id # Blank
               /\ p.order_by[i].field_id \in Range(p.dimension_ids) \cup Range(p.metric_ids)
        BY <1>4, <2>1 DEF InDemoScope, RegistryIds
      <3>5. /\ p.order_by # <<>>
            /\ \A i, j \in DOMAIN p.order_by :
                   p.order_by[i].field_id = p.order_by[j].field_id => i = j
        BY DEF InDemoScope
      <3> QED BY <2>1, <3>1, <3>2, <3>3, <3>4, <3>5 DEF PlanContract
    <2>5. PlanValid(p)
      <3>1. \A i \in DOMAIN p.filters :
               p.filters[i].filter_id = "below_safety_stock" => ~p.filters[i].parameters
        BY <2>2
      <3>2. /\ p.entity_id = "product" /\ p.grain_id = "product" /\ p.depth = 1
            /\ p.time_policy_id = "null"
            /\ p.order_by[1] = [field_id |-> "product_id", direction |-> "asc"]
            /\ 1 <= p.limit /\ p.limit <= MaximumReturnedRows
        BY <1>0, DemoScopeAssumption DEF InDemoScope
      <3> QED BY <1>1, <1>2, <2>1, <2>3, <3>1, <3>2 DEF PlanValid
    <2> QED BY <2>4, <2>5 DEF PlanAccepted
  <1> QED BY <1>5, <1>6

(* Every question's plan is accepted if and only if it is in the demo      *)
(* scope.                                                                  *)
THEOREM GateIsExact == Spec => [](GateTypeOK /\ ScopeIsExact)
  <1> DEFINE Inv == GateTypeOK /\ ScopeIsExact
  <1>1. Init => Inv
    BY RawPlansAssumption DEF Init, GateTypeOK, ScopeIsExact
  <1>2. Inv /\ [Next]_gateVars => Inv'
    <2> SUFFICES ASSUME Inv, [Next]_gateVars
                 PROVE  Inv'
      OBVIOUS
    <2>1. CASE Accept
      BY <2>1, AcceptedIffInScope DEF Accept, GateTypeOK, ScopeIsExact
    <2>2. CASE Refuse
      BY <2>2, AcceptedIffInScope DEF Refuse, GateTypeOK, ScopeIsExact
    <2>3. CASE UNCHANGED gateVars
      BY <2>3 DEF gateVars, GateTypeOK, ScopeIsExact
    <2> QED BY <2>1, <2>2, <2>3 DEF Next
  <1> QED BY <1>1, <1>2, PTL DEF Spec
=============================================================================
