------------------------------- MODULE Setup -------------------------------
(***************************************************************************)
(* What a proxy that has started serves, given what its operator wrote:    *)
(* the discovery answers and the headers its configuration leads to.  The  *)
(* configuration does not change while a process serves, so the answers    *)
(* are functions of it and of what the upstream and the client send.       *)
(***************************************************************************)
EXTENDS Startup, Discovery, Headers

CONSTANTS Auth   \* the header value made of the key

\* The lockdown as Relay and GatePromise know it, for the configuration of p.
Gate(p) == INSTANCE Catalog WITH
  Excluded <- ExcludedBy(config[p]),
  Disabled <- DisabledBy(config[p])

Serving == {p \in Process : pc[p] = "serving"}

\* The strongest an upstream's listing says of each model, if no id is listed
\* twice.
Capabilities(listing) ==
  [m \in Model |->
     IF \E i \in DOMAIN listing : listing[i].id = m /\ listing[i].chat THEN "chat"
     ELSE IF \E i \in DOMAIN listing : listing[i].id = m THEN "other" ELSE "absent"]

\* Whatever the upstream lists, both discovery endpoints name the same models
\* in the same order, exactly those the gate forwards, with priorities dense
\* from 0, and say the same of each: what the operator's file sets, and a
\* context window that differs only where it does not fit the document
\* (translate_mistral_models, model_info_for, model_document_for).
ShapesAgree ==
  \A p \in Serving : \A listing \in Listings :
    LET shown_models == ModelsResponse(listing, config[p])
        service == ServiceList(listing, config[p])
        docs == IF service = <<>> THEN <<>> ELSE service[1].models
    IN /\ (service = <<>>) = (File(p).enabled = FALSE)
       /\ Len(docs) = Len(shown_models)
       /\ File(p).enabled # FALSE =>
            {docs[i].id : i \in DOMAIN docs} = Gate(p)!Offered(Capabilities(listing))
       /\ \A i \in DOMAIN docs :
            LET d == docs[i]
                s == shown_models[i]
                o == File(p).model_overrides[d.id]
            IN /\ s.slug = d.id /\ s.priority = i - 1
               /\ Gate(p)!ConfigAllows(d.id)
               /\ s.base_instructions = d.base_instructions
               /\ d.context_window \in 0..MaxWindow
               /\ s.context_window \in 0..MaxWindow => d.context_window = s.context_window
               /\ o # Absent =>
                    /\ o.context_window # Absent => s.context_window = o.context_window
                    /\ o.base_instructions # Absent =>
                         d.base_instructions = o.base_instructions
                    /\ d.upstream_model_id = o.upstream_model_id /\ d.detail = o.detail

\* The values of the headers of list l whose name is n.
ValuesOf(n, l) ==
  LET at == Among(l, {h \in Header : Lower[h.field] = n /\ h.value # BadValue})
  IN [i \in DOMAIN at |-> at[i].value]

\* However the caller spells or repeats them, the upstream gets the proxy's own
\* authorization and the configured host, each once, nothing that describes the
\* caller's body, and every end-to-end header as it came; its answer comes back
\* less the headers of its connection (build_upstream_headers, relay_response).
\* Of other credentials, and of a caller's trailer and upgrade, nothing is said
\* here: see CredentialsStripped.
HeadersPass ==
  \A p \in Serving : \A l \in HeaderLists :
    LET up == UpstreamHeaders(Auth, Host[base[p]], l)
        back == RelayedHeaders(l)
    IN /\ up["authorization"] = <<Auth>> /\ up["host"] = <<Host[base[p]]>>
       /\ \A n \in Recomputed : up[n] = <<>>
       /\ \A n \in Name \ (Replaced \cup Recomputed \cup HopByHop \cup Credential) :
            up[n] = ValuesOf(n, l)
       /\ \A n \in Name :
            ValuesOf(n, back) = (IF n \in HopByHop THEN <<>> ELSE ValuesOf(n, l))

\* What docs/proxy-spec.md:175-176 says of the relay: it strips any credential
\* headers the caller supplies.  build_upstream_headers drops authorization and
\* forwards every other one.
CredentialsStripped ==
  \A p \in Serving : \A l \in HeaderLists : \A n \in Credential :
    UpstreamHeaders(Auth, Host[base[p]], l)[n] = <<>>
=============================================================================
