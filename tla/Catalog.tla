------------------------------ MODULE Catalog ------------------------------
(***************************************************************************)
(* The upstream model catalog and the two filters the proxy applies to it. *)
(*                                                                         *)
(* A listing is what one GET {upstream}/models returns: for every model id *)
(* whether it is listed, and whether it is listed as chat-capable.  The    *)
(* operator's configuration is a set of ids its exclusion globs match and  *)
(* a set of ids an override disables; both are fixed at startup.           *)
(***************************************************************************)
CONSTANTS
  Model,     \* the model ids a client may name or the upstream may list
  Excluded,  \* ids matched by `model_exclude_globs`
  Disabled   \* ids whose override says `enabled: false`

ASSUME ConfigAssumption == Excluded \subseteq Model /\ Disabled \subseteq Model

\* MistralModel.capabilities.completion_chat, or not in the list at all.
Capability == {"absent", "chat", "other"}
Listing == [Model -> Capability]

\* Faulty variant of Offered: discovery forgets the exclusion globs.
OfferedGlobsForgotten(listing) ==
  {m \in Model : listing[m] = "chat" /\ m \notin Disabled}

\* The models that survive translate_mistral_models, hence allowed_ids: the
\* chat-capable ones, less the excluded and the disabled ones.
Offered(listing) ==
  {m \in Model : /\ listing[m] = "chat"
                 /\ m \notin Excluded
                 /\ m \notin Disabled}

\* ResolvedConfig::model_allowed, the other copy of the same filter.
ConfigAllows(m) == m \notin Excluded /\ m \notin Disabled

=============================================================================
