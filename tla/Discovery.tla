----------------------------- MODULE Discovery -----------------------------
(***************************************************************************)
(* What discovery says of the upstream's models: translate_mistral_models, *)
(* which renders the models that survive in two shapes, and the answers of *)
(* GET /service and GET /v1/models made of them.  Fields every model has   *)
(* alike are left out.                                                     *)
(***************************************************************************)
EXTENDS Configuration, Selection

CONSTANTS
  Listings,             \* upstream listings considered
  DefaultWindow,        \* DEFAULT_CONTEXT_WINDOW
  DefaultInstructions,  \* DEFAULT_BASE_INSTRUCTIONS
  MaxWindow             \* u32::MAX

\* An entry of the upstream's list.
MistralModel == [id : Model, chat : BOOLEAN, max_context_length : Optional(Int)]

ASSUME DiscoveryAssumption ==
  /\ Listings \subseteq Seq(MistralModel)
  /\ MaxWindow \in Nat /\ DefaultWindow \in 0..MaxWindow
  /\ Window \subseteq 0..MaxWindow

\* The models that survive, in the upstream's order.
Survivors(listing, config) ==
  Among(listing,
        {m \in MistralModel :
           m.chat /\ m.id \notin ExcludedBy(config) \cup DisabledBy(config)})

ContextWindow(m, ovr) ==
  OrElse(ovr.context_window, OrElse(m.max_context_length, DefaultWindow))

Instructions(ovr) == OrElse(ovr.base_instructions, DefaultInstructions)

\* Faulty variant of ModelInfoFor: an override's context window is forgotten.
ModelInfoForUnmeasured(index, m, ovr) ==
  [slug |-> m.id, priority |-> index, base_instructions |-> Instructions(ovr),
   context_window |-> OrElse(m.max_context_length, DefaultWindow)]

ModelInfoFor(index, m, ovr) ==
  [slug |-> m.id, priority |-> index, base_instructions |-> Instructions(ovr),
   context_window |-> ContextWindow(m, ovr)]

\* i64::clamp(0, u32::MAX).
Clamp(n) == IF n < 0 THEN 0 ELSE IF n > MaxWindow THEN MaxWindow ELSE n

ModelDocumentFor(m, ovr) ==
  [id |-> m.id, enabled |-> TRUE, base_instructions |-> Instructions(ovr),
   context_window |-> Clamp(ContextWindow(m, ovr)),
   upstream_model_id |-> ovr.upstream_model_id, detail |-> ovr.detail]

\* Both renderings of the models that survive.
TranslateMistralModels(listing, config) ==
  LET s == Survivors(listing, config)
      ovr(i) == OverrideOf(config, s[i].id)
  IN [response  |-> [i \in DOMAIN s |-> ModelInfoFor(i - 1, s[i], ovr(i))],
      documents |-> [i \in DOMAIN s |-> ModelDocumentFor(s[i], ovr(i))]]

\* GET /service: no service at all when it is switched off.
ServiceList(listing, config) ==
  IF config.enabled
    THEN <<[enabled |-> TRUE, models |-> TranslateMistralModels(listing, config).documents]>>
    ELSE <<>>

\* GET /v1/models.
ModelsResponse(listing, config) ==
  IF config.enabled THEN TranslateMistralModels(listing, config).response ELSE <<>>
=============================================================================
