------------------------------ MODULE DemoScope ------------------------------
(***************************************************************************)
(* The gates between the LLM's answers and SQL generation: the contracts   *)
(* of RuntimeIntent and QueryPlan, the retrieval of business metadata and  *)
(* the semantic validation of a plan (app/services: intent_resolver,       *)
(* metadata_retriever, metadata_service, context_builder, query_planner,   *)
(* plan_validator).                                                        *)
(*                                                                         *)
(* The metadata ids are the registry's own.  Any other text is a member of *)
(* OtherIds; a string that is empty once stripped is Blank.                *)
(***************************************************************************)
EXTENDS Integers, Sequences, Functions

CONSTANTS OtherIds,          \* ids that are registered nowhere
          Blank,             \* a string without a visible character
          MaximumReturnedRows

Kinds == {"entity", "dimension", "metric", "filter", "grain", "join"}

(* The seven registered ids; "product" names an entity and a grain.        *)
RegistryIds == {"product", "product_id", "product_name", "current_inventory",
                "safety_stock_level", "below_safety_stock",
                "product_to_product_inventory"}
Ids == RegistryIds \cup OtherIds \cup {Blank}

ASSUME DemoScopeAssumption ==
    /\ OtherIds \cap RegistryIds = {}
    /\ Blank \notin RegistryIds \cup OtherIds
    /\ MaximumReturnedRows \in Nat \ {0}

-----------------------------------------------------------------------------
(* RuntimeIntent, as far as a later step reads it.                         *)

(* What a word means to the registry's alias sets; "decorated" is the same *)
(* word with outer spaces or capitals.                                     *)
Words == {"product", "inventory", "safety_stock", "other", "blank"}
Terms == [word: Words, decorated: BOOLEAN]

RawIntents == [subject: Terms,
               requested_concepts: SUBSET Terms,
               requires_clarification: BOOLEAN,
               clarification_reason: {"null", "blank", "text"}]

(* RuntimeIntent._check_invariants.                                        *)
IntentContract(i) ==
    IF i.requires_clarification
    THEN i.clarification_reason = "text"
    ELSE /\ i.clarification_reason = "null"
         /\ i.requested_concepts # {}
         /\ i.subject.word # "blank"

(* metadata_retriever._normalize: strip and lower.                         *)
Normalize(t) == [t EXCEPT !.decorated = FALSE]

Aliases(w) == {[word |-> w, decorated |-> FALSE]}

(* metadata_retriever.retrieve succeeds.                                   *)
Retrieves(i) ==
    LET concepts == {Normalize(t) : t \in i.requested_concepts}
    IN  /\ Normalize(i.subject) \in Aliases("product")
        /\ concepts \cap Aliases("inventory") # {}
        /\ concepts \cap Aliases("safety_stock") # {}

-----------------------------------------------------------------------------
(* Mutant of AllEntries: an id is registered under a second kind.          *)
AllEntriesExtraMetric ==
    {[id |-> "product", kind |-> "entity"],
     [id |-> "product_id", kind |-> "dimension"],
     [id |-> "product_name", kind |-> "dimension"],
     [id |-> "current_inventory", kind |-> "metric"],
     [id |-> "safety_stock_level", kind |-> "metric"],
     [id |-> "product_id", kind |-> "metric"],
     [id |-> "below_safety_stock", kind |-> "filter"],
     [id |-> "product", kind |-> "grain"],
     [id |-> "product_to_product_inventory", kind |-> "join"]}

(* metadata_service.all_entries: the business metadata of the demo scope.  *)
AllEntries ==
    {[id |-> "product", kind |-> "entity"],
     [id |-> "product_id", kind |-> "dimension"],
     [id |-> "product_name", kind |-> "dimension"],
     [id |-> "current_inventory", kind |-> "metric"],
     [id |-> "safety_stock_level", kind |-> "metric"],
     [id |-> "below_safety_stock", kind |-> "filter"],
     [id |-> "product", kind |-> "grain"],
     [id |-> "product_to_product_inventory", kind |-> "join"]}

(* context_builder.build: the ids of each kind.                            *)
MetadataContext == [k \in Kinds |-> {e.id : e \in {x \in AllEntries : x.kind = k}}]

-----------------------------------------------------------------------------
(* QueryPlan, field by field; the text of purpose does not matter.         *)
Filters == [filter_id: Ids, parameters: BOOLEAN]  \* TRUE: some parameter is given
Orders == [field_id: Ids, direction: {"asc", "desc"}]

Plans == [purpose: {"text", "blank"},
          entity_id: Ids,
          dimension_ids: Seq(Ids),
          metric_ids: Seq(Ids),
          filters: Seq(Filters),
          time_policy_id: Ids \cup {"null"},
          grain_id: Ids,
          join_ids: Seq(Ids),
          order_by: Seq(Orders),
          limit: Int,
          depth: Int]

FilterIds(p) == {p.filters[i].filter_id : i \in DOMAIN p.filters}

(* QueryPlan._check_invariants and the validators of its parts.            *)
PlanContract(p) ==
    /\ p.purpose # "blank"
    /\ p.entity_id # Blank /\ p.grain_id # Blank
    /\ Blank \notin FilterIds(p)
    /\ IsInjective(p.dimension_ids)
    /\ p.metric_ids # <<>> /\ IsInjective(p.metric_ids)
    /\ IsInjective(p.join_ids)
    /\ \A i, j \in DOMAIN p.filters :
           p.filters[i].filter_id = p.filters[j].filter_id => i = j
    /\ p.order_by # <<>>
    /\ \A i, j \in DOMAIN p.order_by :
           p.order_by[i].field_id = p.order_by[j].field_id => i = j
    /\ \A i \in DOMAIN p.order_by :
           /\ p.order_by[i].field_id # Blank
           /\ p.order_by[i].field_id \in Range(p.dimension_ids) \cup Range(p.metric_ids)
    /\ p.limit >= 1

(* plan_validator._check_kind: an id counts only within its own kind.      *)
CheckKind(ids, kind) == ids \subseteq MetadataContext[kind]

(* plan_validator.validate, for a plan that meets PlanContract: every id   *)
(* is of its kind, then the parts that the demo scope requires.            *)
PlanValid(p) ==
    /\ CheckKind({p.entity_id}, "entity")
    /\ CheckKind(Range(p.dimension_ids), "dimension")
    /\ CheckKind(Range(p.metric_ids), "metric")
    /\ CheckKind(FilterIds(p), "filter")
    /\ CheckKind({p.grain_id}, "grain")
    /\ CheckKind(Range(p.join_ids), "join")
    /\ p.time_policy_id = "null"
    /\ p.entity_id = "product"
    /\ {"product_id", "product_name"} \subseteq Range(p.dimension_ids)
    /\ {"current_inventory", "safety_stock_level"} \subseteq Range(p.metric_ids)
    /\ "below_safety_stock" \in FilterIds(p)
    /\ \A i \in DOMAIN p.filters :
           p.filters[i].filter_id = "below_safety_stock" => ~p.filters[i].parameters
    /\ {"product_to_product_inventory"} \subseteq Range(p.join_ids)
    /\ p.grain_id = "product"
    /\ p.depth = 1
    /\ p.order_by[1] = [field_id |-> "product_id", direction |-> "asc"]
    /\ 1 <= p.limit /\ p.limit <= MaximumReturnedRows

(* generate_query_plan followed by plan_validator.validate.                *)
PlanAccepted(p) == PlanContract(p) /\ PlanValid(p)

-----------------------------------------------------------------------------
EitherOrder(a, b) == {<<a, b>>, <<b, a>>}

(* The reference: the one question of the demo scope, in closed form.  The *)
(* lists of dimensions, metrics and orderings are free in their order, and *)
(* ordering beyond product_id and the limit up to the maximum are free.    *)
InDemoScope(p) ==
    /\ p.purpose = "text" /\ p.time_policy_id = "null" /\ p.depth = 1
    /\ p.entity_id = "product" /\ p.grain_id = "product"
    /\ p.dimension_ids \in EitherOrder("product_id", "product_name")
    /\ p.metric_ids \in EitherOrder("current_inventory", "safety_stock_level")
    /\ p.filters = <<[filter_id |-> "below_safety_stock", parameters |-> FALSE]>>
    /\ p.join_ids = <<"product_to_product_inventory">>
    /\ p.order_by # <<>>
    /\ p.order_by[1] = [field_id |-> "product_id", direction |-> "asc"]
    /\ \A i \in DOMAIN p.order_by :
           /\ p.order_by[i].field_id \in {"product_id", "product_name",
                                          "current_inventory", "safety_stock_level"}
           /\ \A j \in DOMAIN p.order_by :
                  p.order_by[i].field_id = p.order_by[j].field_id => i = j
    /\ p.limit \in 1..MaximumReturnedRows
=============================================================================
