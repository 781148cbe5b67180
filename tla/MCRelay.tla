------------------------------ MODULE MCRelay ------------------------------
(* The server on a small instance: a plain model, one with a mapped id,    *)
(* one excluded, one disabled; two requests, of every kind that reaches a  *)
(* branch; two listings.                                                   *)
EXTENDS Relay, TLC

CONSTANTS plain, mapped, excl, dis, r1, r2

MCModel == {plain, mapped, excl, dis}
MCExcluded == {excl}
MCDisabled == {dis}
MCRequest == {r1, r2}
MCMapped == mapped :> "upstream-id"

\* Everything chat-capable; the plain model no longer chat-capable and the
\* mapped one retired.
All == [m \in MCModel |-> "chat"]
MCListings == {All, [All EXCEPT ![plain] = "other", ![mapped] = "absent"]}

Http(p, m) == [path |-> p, query |-> TRUE, method |-> m, body |-> "unreadable",
               model |-> plain, stream |-> FALSE]
Relaying(b, m, s) == [path |-> "/v1/responses", query |-> FALSE,
                      method |-> "POST", body |-> b, model |-> m, stream |-> s]

Gated == {Relaying("usable", plain, TRUE), Relaying("usable", mapped, FALSE),
          Relaying("usable", excl, FALSE), Relaying("usable", dis, FALSE)}
Discovery == {Http("/v1/models", "GET"), Http("/service", "GET")}

\* Every route, allowed and not, and every way a body can be unusable.
MCEverything ==
  Gated \cup Discovery \cup
  {Relaying("no_model", plain, FALSE),
   Http("/shutdown", "POST"), Http("/shutdown", "GET"), Http("/health", "GET"),
   Http("/models", "POST"), Http("/elsewhere", "GET")}

\* An upstream error met by discovery and by a relayed request.
MCRelaying == {Relaying("usable", plain, TRUE), Http("/models", "GET"),
               Http("/service", "GET")}

\* Lockdown on and off, and a shutdown route for GET too.
On == [enabled |-> TRUE, shutdown |-> "PostOnly"]
MCConfigs == {On, [On EXCEPT !.shutdown = "PostOrGet"], [On EXCEPT !.enabled = FALSE]}
MCEnabled == {On}
=============================================================================
