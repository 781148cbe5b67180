------------------------------- MODULE Relay -------------------------------
(***************************************************************************)
(* The proxy's server: one thread per request, the request-time gate with  *)
(* its shared cache, the upstream it asks, and /shutdown.                  *)
(*                                                                         *)
(* A thread runs `handle` for one request.  Everything it does between two *)
(* blocking calls is one step; it blocks on the cache lock, on the reply   *)
(* to GET /models, on the reply to POST /chat/completions and on the       *)
(* stream it relays.  The upstream is external: it publishes listings, and *)
(* answers, refuses or drops each call whenever it likes.                  *)
(***************************************************************************)
EXTENDS Catalog, Integers, Sequences

CONSTANTS
  Request,      \* request ids; each has its own thread
  Incoming,     \* the requests clients may send, a subset of RequestSpace
  Configs,      \* the configurations considered, a subset of Config
  Listings,     \* the listings the upstream may have, a subset of Listing
  Mapped,       \* `upstream_model_id` overrides: model -> id sent upstream
  MaxVersions,  \* bound: how many listings the upstream goes through
  None          \* no request, no model, no lock holder

Path == {"/service", "/v1/models", "/models", "/v1/responses", "/shutdown",
         "/health", "/elsewhere"}
Method == {"GET", "POST", "PUT"}

\* `body` says how far parsing gets: it cannot be read, it is not JSON, it
\* names no model, or it is a usable request for `model`.
RequestSpace ==
  [path : Path, query : BOOLEAN, method : Method,
   body : {"unreadable", "not_json", "no_model", "usable"},
   model : Model, stream : BOOLEAN]

\* service_enabled(), and the ShutdownPolicy of --http-shutdown.
Config == [enabled : BOOLEAN, shutdown : {"PostOnly", "PostOrGet"}]

ASSUME RelayAssumption ==
  /\ Configs \subseteq Config
  /\ Incoming \subseteq RequestSpace
  /\ Listings \subseteq Listing
  /\ MaxVersions \in Nat \ {0}
  /\ None \notin Model
  /\ None \notin Request
  /\ DOMAIN Mapped \subseteq Model
  /\ \A m \in DOMAIN Mapped : Mapped[m] # None

-----------------------------------------------------------------------------
VARIABLES
  config,     \* a Config, fixed at startup
  catalogs,   \* every listing the upstream has had, the current one last
  cache,      \* allowed_models: None, or the ids of the last good fetch
  lock,       \* who holds the mutex around allowed_models
  pc,         \* where each request's thread is
  req,        \* the request each thread handles
  reply,      \* what the upstream answered to the thread's pending call
  sent,       \* the model id each thread put in its chat request, or None
  answer,     \* what the client was answered
  listed,     \* the models a discovery answer listed
  exited,     \* std::process::exit was called
  \* history, read by no guard:
  cacheSeen,  \* the catalog version `cache` was fetched from
  since,      \* the catalog version when the request arrived
  basis,      \* the catalog version a gate verdict or a listing is based on
  verdict     \* what the gate said

state == <<config, catalogs, cache, lock, pc, req, reply, sent, answer,
           listed, exited>>
history == <<cacheSeen, since, basis, verdict>>
vars == <<state, history>>

\* relay_response copies an upstream non-200 answer through as it is.
Answer ==
  {"none", "health", "shutdown", "list", "no_service", "forbidden",
   "service_disabled", "bad_request", "model_not_enabled", "upstream_error",
   "relayed", "json", "stream"}

PC ==
  {"idle",       \* not arrived
   "handle",     \* accepted, thread spawned
   "gate",       \* waiting for the cache lock
   "gate_fetch", \* holding the lock, waiting for GET /models
   "list_fetch", \* discovery: waiting for GET /models, no lock held
   "forward",    \* accepted by the gate, about to send the chat request
   "chat",       \* waiting for POST /chat/completions
   "stream",     \* 200 sent, translating the upstream's stream
   "exiting",    \* /shutdown answered, about to exit the process
   "done"}

NoReply == [kind |-> "none", version |-> 0]
\* "ok" is a 200 whose body arrives and parses; "non_ok" another status;
\* "failed" a transport error, or a 200 whose body does not arrive or parse.
Reply == [kind : {"none", "ok", "non_ok", "failed"}, version : Nat]

Now == Len(catalogs)

-----------------------------------------------------------------------------
\* classify_route compares the path only, whatever the query string.
ClassifyRoute(q) ==
  CASE q.path = "/service"                    -> "ServiceList"
    [] q.path \in {"/v1/models", "/models"}   -> "Models"
    [] q.path = "/v1/responses"               -> "Responses"
    [] q.path = "/shutdown"                   -> "Shutdown"
    [] q.path = "/health"                     -> "Health"
    [] q.path = "/elsewhere"                  -> "Forbidden"

\* ShutdownPolicy::allows
ShutdownAllowed(method) ==
  \/ method = "POST"
  \/ config.shutdown = "PostOrGet" /\ method = "GET"

\* The dispatch of `handle`: the first route whose method fits, else 403.
Dispatch(q) ==
  CASE ClassifyRoute(q) = "Health" /\ q.method = "GET"        -> "health"
    [] ClassifyRoute(q) = "Shutdown"
         /\ ShutdownAllowed(q.method)                         -> "shutdown"
    [] ClassifyRoute(q) = "ServiceList" /\ q.method = "GET"   -> "service"
    [] ClassifyRoute(q) = "Models" /\ q.method = "GET"        -> "models"
    [] ClassifyRoute(q) = "Responses" /\ q.method = "POST"    -> "responses"
    [] OTHER                                                  -> "forbidden"

\* Faulty variant of ForwardedId: no mapping yields an empty id.
ForwardedIdOrEmpty(m) == IF m \in DOMAIN Mapped THEN Mapped[m] ELSE ""

\* The id forwarded upstream: the requested one, or its configured mapping.
ForwardedId(m) == IF m \in DOMAIN Mapped THEN Mapped[m] ELSE m

\* The thread of r gives its client its answer and ends.
Finish(r, a) ==
  /\ answer' = [answer EXCEPT ![r] = a]
  /\ pc' = [pc EXCEPT ![r] = "done"]

-----------------------------------------------------------------------------
Init ==
  /\ config \in Configs
  /\ \E l \in Listings : catalogs = <<l>>
  /\ cache = None
  /\ lock = None
  /\ pc = [r \in Request |-> "idle"]
  /\ req = [r \in Request |-> None]
  /\ reply = [r \in Request |-> NoReply]
  /\ sent = [r \in Request |-> None]
  /\ answer = [r \in Request |-> "none"]
  /\ listed = [r \in Request |-> {}]
  /\ exited = FALSE
  /\ cacheSeen = 0
  /\ since = [r \in Request |-> 0]
  /\ basis = [r \in Request |-> 0]
  /\ verdict = [r \in Request |-> "none"]

\* The upstream releases, retires or reclassifies models.
Publish ==
  /\ Now < MaxVersions
  /\ \E l \in Listings \ {catalogs[Now]} : catalogs' = Append(catalogs, l)
  /\ UNCHANGED <<config, cache, lock, pc, req, reply, sent, answer, listed,
                 exited, history>>

\* incoming_requests yields a request and `serve` spawns its thread.
Arrive(r) ==
  /\ ~exited
  /\ pc[r] = "idle"
  /\ \E q \in Incoming : req' = [req EXCEPT ![r] = q]
  /\ pc' = [pc EXCEPT ![r] = "handle"]
  /\ since' = [since EXCEPT ![r] = Now]
  /\ UNCHANGED <<config, catalogs, cache, lock, reply, sent, answer, listed,
                 exited, cacheSeen, basis, verdict>>

Handles(r, target) ==
  /\ ~exited
  /\ pc[r] = "handle"
  /\ Dispatch(req[r]) = target

\* GET /health
HandleHealth(r) ==
  /\ Handles(r, "health")
  /\ Finish(r, "health")
  /\ UNCHANGED <<config, catalogs, cache, lock, req, reply, sent, listed,
                 exited, history>>

\* /shutdown with a method the policy allows: answer now, exit afterwards.
HandleShutdown(r) ==
  /\ Handles(r, "shutdown")
  /\ answer' = [answer EXCEPT ![r] = "shutdown"]
  /\ pc' = [pc EXCEPT ![r] = "exiting"]
  /\ UNCHANGED <<config, catalogs, cache, lock, req, reply, sent, listed,
                 exited, history>>

\* `serve`, after `handle` returned Flow::Shutdown: every thread is gone.
Exit(r) ==
  /\ ~exited
  /\ pc[r] = "exiting"
  /\ exited' = TRUE
  /\ UNCHANGED <<config, catalogs, cache, lock, pc, req, reply, sent, answer,
                 listed, history>>

HandleForbidden(r) ==
  /\ Handles(r, "forbidden")
  /\ Finish(r, "forbidden")
  /\ UNCHANGED <<config, catalogs, cache, lock, req, reply, sent, listed,
                 exited, history>>

\* Faulty variant of HandleDiscovery: a remembered catalog is good enough.
HandleDiscoveryCached(r) ==
  /\ Handles(r, "service") \/ Handles(r, "models")
  /\ IF config.enabled /\ cache = None
     THEN /\ pc' = [pc EXCEPT ![r] = "list_fetch"]
          /\ UNCHANGED <<answer, listed, basis>>
     ELSE /\ listed' = [listed EXCEPT ![r] = IF cache = None THEN {} ELSE cache]
          /\ basis' = [basis EXCEPT ![r] = cacheSeen]
          /\ Finish(r, "list")
  /\ UNCHANGED <<config, catalogs, cache, lock, req, reply, sent, exited,
                 cacheSeen, since, verdict>>

\* GET /service and GET /v1/models begin alike: nothing is listed when the
\* service is disabled, otherwise the upstream is asked, every time.
HandleDiscovery(r) ==
  /\ Handles(r, "service") \/ Handles(r, "models")
  /\ IF config.enabled
     THEN /\ pc' = [pc EXCEPT ![r] = "list_fetch"]
          /\ UNCHANGED answer
     ELSE Finish(r, IF Dispatch(req[r]) = "service"
                    THEN "no_service" ELSE "list")
  /\ UNCHANGED <<config, catalogs, cache, lock, req, reply, sent, listed,
                 exited, history>>

\* Discovery gets the upstream's answer.  Only /v1/models relays a non-200.
ListReply(r) ==
  /\ ~exited
  /\ pc[r] = "list_fetch"
  /\ \/ /\ reply[r].kind = "ok"
        /\ listed' = [listed EXCEPT ![r] = Offered(catalogs[reply[r].version])]
        /\ basis' = [basis EXCEPT ![r] = reply[r].version]
        /\ Finish(r, "list")
     \/ /\ reply[r].kind = "non_ok"
        /\ Finish(r, IF Dispatch(req[r]) = "service"
                     THEN "upstream_error" ELSE "relayed")
        /\ UNCHANGED <<listed, basis>>
     \/ /\ reply[r].kind = "failed"
        /\ Finish(r, "upstream_error")
        /\ UNCHANGED <<listed, basis>>
  /\ reply' = [reply EXCEPT ![r] = NoReply]
  /\ UNCHANGED <<config, catalogs, cache, lock, req, sent, exited, cacheSeen,
                 since, verdict>>

-----------------------------------------------------------------------------
\* Faulty variant of HandleResponses: the kill-switch only hides discovery.
HandleResponsesAlways(r) ==
  /\ Handles(r, "responses")
  /\ IF req[r].body # "usable"
     THEN Finish(r, "bad_request")
     ELSE /\ pc' = [pc EXCEPT ![r] = "gate"]
          /\ UNCHANGED answer
  /\ UNCHANGED <<config, catalogs, cache, lock, req, reply, sent, listed,
                 exited, history>>

\* POST /v1/responses up to the gate: a disabled service and an unusable
\* body are refused before anything is asked of the upstream.
HandleResponses(r) ==
  /\ Handles(r, "responses")
  /\ \/ /\ ~config.enabled
        /\ Finish(r, "service_disabled")
     \/ /\ config.enabled
        /\ req[r].body # "usable"
        /\ Finish(r, "bad_request")
     \/ /\ config.enabled
        /\ req[r].body = "usable"
        /\ pc' = [pc EXCEPT ![r] = "gate"]
        /\ UNCHANGED answer
  /\ UNCHANGED <<config, catalogs, cache, lock, req, reply, sent, listed,
                 exited, history>>

CacheHas(m) == cache # None /\ m \in cache

\* model_allowed takes the lock and finds the model in the cached set.
GateHit(r) ==
  /\ ~exited
  /\ pc[r] = "gate"
  /\ lock = None
  /\ CacheHas(req[r].model) /\ ConfigAllows(req[r].model)
  /\ pc' = [pc EXCEPT ![r] = "forward"]
  /\ verdict' = [verdict EXCEPT ![r] = "accept"]
  /\ basis' = [basis EXCEPT ![r] = cacheSeen]
  /\ UNCHANGED <<config, catalogs, cache, lock, req, reply, sent, answer,
                 listed, exited, cacheSeen, since>>

\* Faulty variant of GateMiss: only an empty cache is ever filled.
GateMissNoRefresh(r) ==
  /\ ~exited
  /\ pc[r] = "gate"
  /\ lock = None
  /\ ~(CacheHas(req[r].model) /\ ConfigAllows(req[r].model))
  /\ IF cache = None
     THEN /\ lock' = r
          /\ pc' = [pc EXCEPT ![r] = "gate_fetch"]
          /\ UNCHANGED <<answer, verdict, basis>>
     ELSE /\ verdict' = [verdict EXCEPT ![r] = "refuse"]
          /\ basis' = [basis EXCEPT ![r] = cacheSeen]
          /\ Finish(r, "model_not_enabled")
          /\ UNCHANGED lock
  /\ UNCHANGED <<config, catalogs, cache, req, reply, sent, listed, exited,
                 cacheSeen, since>>

\* Faulty variant of GateMiss: the lock is dropped before the fetch.
GateMissUnlocked(r) ==
  /\ ~exited
  /\ pc[r] = "gate"
  /\ lock = None
  /\ ~(CacheHas(req[r].model) /\ ConfigAllows(req[r].model))
  /\ pc' = [pc EXCEPT ![r] = "gate_fetch"]
  /\ UNCHANGED <<config, catalogs, cache, lock, req, reply, sent, answer,
                 listed, exited, history>>

\* model_allowed takes the lock, misses, and keeps it while it fetches.
GateMiss(r) ==
  /\ ~exited
  /\ pc[r] = "gate"
  /\ lock = None
  /\ ~(CacheHas(req[r].model) /\ ConfigAllows(req[r].model))
  /\ lock' = r
  /\ pc' = [pc EXCEPT ![r] = "gate_fetch"]
  /\ UNCHANGED <<config, catalogs, cache, req, reply, sent, answer, listed,
                 exited, history>>

\* Faulty variant of GateReply: a failed fetch lets the request through.
GateReplyFailOpen(r) ==
  /\ ~exited
  /\ pc[r] = "gate_fetch"
  /\ reply[r].kind # "none"
  /\ IF reply[r].kind = "ok"
     THEN /\ cache' = Offered(catalogs[reply[r].version])
          /\ cacheSeen' = reply[r].version
          /\ basis' = [basis EXCEPT ![r] = reply[r].version]
     ELSE UNCHANGED <<cache, cacheSeen, basis>>
  /\ verdict' = [verdict EXCEPT ![r] = "accept"]
  /\ pc' = [pc EXCEPT ![r] = "forward"]
  /\ lock' = None
  /\ reply' = [reply EXCEPT ![r] = NoReply]
  /\ UNCHANGED <<config, catalogs, req, sent, answer, listed, exited, since>>

\* Faulty variant of GateReply: the early return on a failed fetch keeps the
\* lock.
GateReplyLeaksLock(r) ==
  /\ ~exited
  /\ pc[r] = "gate_fetch"
  /\ \/ /\ reply[r].kind = "ok"
        /\ cache' = Offered(catalogs[reply[r].version])
        /\ cacheSeen' = reply[r].version
        /\ basis' = [basis EXCEPT ![r] = reply[r].version]
        /\ lock' = None
        /\ \/ /\ req[r].model \in cache' /\ ConfigAllows(req[r].model)
              /\ verdict' = [verdict EXCEPT ![r] = "accept"]
              /\ pc' = [pc EXCEPT ![r] = "forward"]
              /\ UNCHANGED answer
           \/ /\ ~(req[r].model \in cache' /\ ConfigAllows(req[r].model))
              /\ verdict' = [verdict EXCEPT ![r] = "refuse"]
              /\ Finish(r, "model_not_enabled")
     \/ /\ reply[r].kind \in {"non_ok", "failed"}
        /\ verdict' = [verdict EXCEPT ![r] = "error"]
        /\ Finish(r, "upstream_error")
        /\ UNCHANGED <<cache, cacheSeen, basis, lock>>
  /\ reply' = [reply EXCEPT ![r] = NoReply]
  /\ UNCHANGED <<config, catalogs, req, sent, listed, exited, since>>

\* The fetch is over: replace the set and retry the check, or give up with
\* the cache as it was.  Returning releases the lock.
GateReply(r) ==
  /\ ~exited
  /\ pc[r] = "gate_fetch"
  /\ \/ /\ reply[r].kind = "ok"
        /\ cache' = Offered(catalogs[reply[r].version])
        /\ cacheSeen' = reply[r].version
        /\ basis' = [basis EXCEPT ![r] = reply[r].version]
        /\ \/ /\ req[r].model \in cache' /\ ConfigAllows(req[r].model)
              /\ verdict' = [verdict EXCEPT ![r] = "accept"]
              /\ pc' = [pc EXCEPT ![r] = "forward"]
              /\ UNCHANGED answer
           \/ /\ ~(req[r].model \in cache' /\ ConfigAllows(req[r].model))
              /\ verdict' = [verdict EXCEPT ![r] = "refuse"]
              /\ Finish(r, "model_not_enabled")
     \/ /\ reply[r].kind \in {"non_ok", "failed"}
        /\ verdict' = [verdict EXCEPT ![r] = "error"]
        /\ Finish(r, "upstream_error")
        /\ UNCHANGED <<cache, cacheSeen, basis>>
  /\ lock' = None
  /\ reply' = [reply EXCEPT ![r] = NoReply]
  /\ UNCHANGED <<config, catalogs, req, sent, listed, exited, since>>

-----------------------------------------------------------------------------
\* The chat request goes out, with the requested or the mapped model id.
SendChat(r) ==
  /\ ~exited
  /\ pc[r] = "forward"
  /\ sent' = [sent EXCEPT ![r] = ForwardedId(req[r].model)]
  /\ pc' = [pc EXCEPT ![r] = "chat"]
  /\ UNCHANGED <<config, catalogs, cache, lock, req, reply, answer, listed,
                 exited, history>>

\* The upstream's answer to the chat request: relayed unless it is a 200,
\* then translated whole or, for a stream, from now on piece by piece.
ChatReply(r) ==
  /\ ~exited
  /\ pc[r] = "chat"
  /\ \/ reply[r].kind = "failed" /\ Finish(r, "upstream_error")
     \/ reply[r].kind = "non_ok" /\ Finish(r, "relayed")
     \/ reply[r].kind = "ok" /\ ~req[r].stream /\ Finish(r, "json")
     \/ /\ reply[r].kind = "ok" /\ req[r].stream
        /\ answer' = [answer EXCEPT ![r] = "stream"]
        /\ pc' = [pc EXCEPT ![r] = "stream"]
  /\ reply' = [reply EXCEPT ![r] = NoReply]
  /\ UNCHANGED <<config, catalogs, cache, lock, req, sent, listed, exited,
                 history>>

\* The stream is over, because the upstream ended it, because reading from
\* it failed, or because the client is gone: `respond` returns.
StreamEnd(r) ==
  /\ ~exited
  /\ pc[r] = "stream"
  /\ pc' = [pc EXCEPT ![r] = "done"]
  /\ UNCHANGED <<config, catalogs, cache, lock, req, reply, sent, answer,
                 listed, exited, history>>

-----------------------------------------------------------------------------
\* External: the upstream serves a pending GET /models from the listing it
\* has at that moment; the thread reads the answer later.
UpstreamLists(r) ==
  /\ ~exited
  /\ pc[r] \in {"gate_fetch", "list_fetch"}
  /\ reply[r].kind = "none"
  /\ \E k \in {"ok", "non_ok", "failed"} :
       reply' = [reply EXCEPT ![r] = [kind |-> k, version |-> Now]]
  /\ UNCHANGED <<config, catalogs, cache, lock, pc, req, sent, answer, listed,
                 exited, history>>

\* External: the upstream answers a pending chat request.  For a stream,
\* "failed" is a failure before the status line arrived.
UpstreamChats(r) ==
  /\ ~exited
  /\ pc[r] = "chat"
  /\ reply[r].kind = "none"
  /\ \E k \in {"ok", "non_ok", "failed"} :
       reply' = [reply EXCEPT ![r] = [kind |-> k, version |-> Now]]
  /\ UNCHANGED <<config, catalogs, cache, lock, pc, req, sent, answer, listed,
                 exited, history>>

\* Every request is served or the process is gone: nothing is left to do.
Rest ==
  /\ exited \/ \A r \in Request : pc[r] = "done"
  /\ UNCHANGED vars

Thread(r) ==
  \/ HandleHealth(r) \/ HandleShutdown(r) \/ Exit(r) \/ HandleForbidden(r)
  \/ HandleDiscovery(r) \/ ListReply(r) \/ HandleResponses(r)
  \/ GateHit(r) \/ GateMiss(r) \/ GateReply(r)
  \/ SendChat(r) \/ ChatReply(r) \/ StreamEnd(r)

Upstream(r) == UpstreamLists(r) \/ UpstreamChats(r)

Next ==
  \/ Publish
  \/ \E r \in Request : Arrive(r) \/ Thread(r) \/ Upstream(r)
  \/ Rest

Spec == Init /\ [][Next]_vars

\* A thread that can run is eventually run, and the upstream eventually
\* answers or fails each call.  A stream may last as long as it likes.
\* The mutex is not fair: a thread waiting for it is only promised a turn
\* when the lock stays free, and each request waits for it once.
Fairness ==
  \A r \in Request : /\ WF_vars(Thread(r) /\ ~StreamEnd(r))
                     /\ WF_vars(Upstream(r))

LiveSpec == Spec /\ Fairness

-----------------------------------------------------------------------------
(* Correctness                                                             *)

\* Every variable has its type; the reachable requests are the incoming ones.
TypeOK ==
  /\ config \in Config
  /\ catalogs \in Seq(Listings) /\ Len(catalogs) >= 1
  /\ cache \in {None} \cup SUBSET Model
  /\ lock \in {None} \cup Request
  /\ pc \in [Request -> PC]
  /\ req \in [Request -> {None} \cup Incoming]
  /\ \A r \in Request : pc[r] # "idle" => req[r] \in Incoming
  /\ reply \in [Request -> Reply]
  /\ sent \in [Request -> {None} \cup Model \cup {Mapped[m] : m \in DOMAIN Mapped}]
  /\ answer \in [Request -> Answer]
  /\ listed \in [Request -> SUBSET Model]
  /\ exited \in BOOLEAN
  /\ cacheSeen \in Nat
  /\ since \in [Request -> Nat]
  /\ basis \in [Request -> Nat]
  /\ verdict \in [Request -> {"none", "accept", "refuse", "error"}]

\* The request r asks the gate about its model (if it gets that far).
Asks(r) == /\ pc[r] # "idle"
           /\ Dispatch(req[r]) = "responses"
           /\ req[r].body = "usable"

\* The strengthening that makes the properties below inductive.

\* One thread fetches for the gate at a time: the one holding the lock.
LockInv == \A r \in Request : pc[r] = "gate_fetch" <=> lock = r

\* The cached set is what some version of the catalog offers.
CacheInv ==
  /\ cacheSeen \in 0..Now
  /\ cacheSeen = 0 => cache = None
  /\ cacheSeen > 0 => cache = Offered(catalogs[cacheSeen])

\* A listing in flight was served after its request arrived and, for the
\* gate, is no older than the cached one; only a waiting thread has a reply.
ReplyInv ==
  \A r \in Request :
    /\ since[r] \in 0..Now
    /\ (since[r] = 0 <=> pc[r] = "idle")
    /\ pc[r] \notin {"gate_fetch", "list_fetch", "chat"} => reply[r].kind = "none"
    /\ pc[r] \in {"gate_fetch", "list_fetch"} /\ reply[r].kind # "none" =>
         /\ reply[r].version \in since[r]..Now
         /\ pc[r] = "gate_fetch" => cacheSeen <= reply[r].version

\* How far a request got says what it asked and what it was told.
VerdictOf(r) ==
  /\ pc[r] \in {"gate", "gate_fetch", "forward", "chat", "stream"} =>
       config.enabled /\ Asks(r)
  /\ pc[r] \in {"idle", "handle", "list_fetch", "gate", "gate_fetch", "exiting"} =>
       verdict[r] = "none" /\ sent[r] = None
  /\ pc[r] \in {"idle", "handle", "list_fetch", "gate", "gate_fetch", "forward",
                "chat"} => answer[r] = "none"
  /\ pc[r] \in {"forward", "chat", "stream"} => verdict[r] = "accept"
  /\ verdict[r] # "none" => Asks(r) /\ config.enabled
  /\ verdict[r] = "accept" =>
       /\ basis[r] \in 1..Now
       /\ req[r].model \in Offered(catalogs[basis[r]])
  /\ verdict[r] = "refuse" =>
       /\ basis[r] \in since[r]..Now
       /\ req[r].model \notin Offered(catalogs[basis[r]])
  /\ answer[r] = "model_not_enabled" => verdict[r] = "refuse"
  /\ sent[r] # None =>
       verdict[r] = "accept" /\ sent[r] = ForwardedId(req[r].model)

VerdictInv == \A r \in Request : VerdictOf(r)

\* Discovery answers come from discovery requests and from fresh listings.
DiscoveryOf(r) ==
  /\ pc[r] = "list_fetch" \/ answer[r] = "list" =>
       pc[r] # "idle" /\ Dispatch(req[r]) \in {"service", "models"}
  /\ answer[r] = "list" /\ config.enabled =>
       /\ basis[r] \in since[r]..Now
       /\ listed[r] = Offered(catalogs[basis[r]])

DiscoveryInv == \A r \in Request : DiscoveryOf(r)

\* Only a /shutdown request exits the process, after its answer.
ExitOf(r) ==
  pc[r] = "exiting" \/ answer[r] = "shutdown" =>
    /\ pc[r] # "idle" /\ answer[r] = "shutdown"
    /\ Dispatch(req[r]) = "shutdown"

ExitInv ==
  /\ \A r \in Request : ExitOf(r)
  /\ exited => \E r \in Request : answer[r] = "shutdown"

IInv == TypeOK /\ LockInv /\ CacheInv /\ ReplyInv /\ VerdictInv
        /\ DiscoveryInv /\ ExitInv

\* The cached set never goes back to an older listing, although fetches are
\* slow and the catalog changes under them (model_allowed, lib.rs).
CacheNeverOlder == [][cacheSeen' >= cacheSeen]_vars

\* Nothing is sent to the upstream for a request unless the service is
\* enabled and the gate accepted its model, which the configuration allows
\* and a listing the upstream really had offers; the id sent is that model
\* or the id the configuration maps it to (handle_responses).
NoEscalation ==
  \A r \in Request : sent[r] # None =>
    /\ config.enabled
    /\ Asks(r) /\ verdict[r] = "accept"
    /\ basis[r] \in 1..Now
    /\ req[r].model \in Offered(catalogs[basis[r]])
    /\ IF req[r].model \in DOMAIN Mapped THEN sent[r] = Mapped[req[r].model]
                                         ELSE sent[r] = req[r].model

\* A model_not_enabled answer is true: the model was missing from a listing
\* the upstream had after the request arrived, so a model released before
\* the request is never refused (model_allowed refreshes on a miss).
RefusalWasTrue ==
  \A r \in Request : answer[r] = "model_not_enabled" =>
    /\ basis[r] \in since[r]..Now
    /\ req[r].model \notin Offered(catalogs[basis[r]])

\* The two enforcement points agree: what discovery listed from some version
\* of the catalog is what the gate accepts on that version, and it refuses
\* the rest (translate_mistral_models against ResolvedConfig::model_allowed).
DiscoveryMatchesGate ==
  \A d, r \in Request :
    /\ answer[d] = "list" /\ config.enabled
    /\ verdict[r] \in {"accept", "refuse"}
    /\ basis[d] = basis[r]
    => (verdict[r] = "accept" <=> req[r].model \in listed[d])

\* A discovery answer shows a listing the upstream had while the request was
\* being served, never a remembered one (handle_service_list, handle_models).
DiscoveryIsFresh ==
  \A r \in Request : answer[r] = "list" /\ config.enabled =>
    /\ basis[r] \in since[r]..Now
    /\ listed[r] = Offered(catalogs[basis[r]])

\* The process exits only after a /shutdown was answered whose method the
\* policy allows, and no request is accepted afterwards (serve, handle).
ExitWasAsked ==
  exited => \E r \in Request :
              /\ answer[r] = "shutdown"
              /\ ClassifyRoute(req[r]) = "Shutdown"
              /\ \/ req[r].method = "POST"
                 \/ req[r].method = "GET" /\ config.shutdown = "PostOrGet"

\* Every request that arrives is answered, unless the process exits: no
\* thread waits forever for the cache lock (model_allowed, handle).
EveryRequestAnswered ==
  \A r \in Request : pc[r] = "handle" ~> (answer[r] # "none" \/ exited)

\* The gate with its lock, cache and slow fetches does what GatePromise
\* says: one verdict per request, each against one catalog version, with
\* versions that never go backwards.
Promise == INSTANCE GatePromise WITH
  asked <- [r \in Request |-> IF Asks(r) THEN req[r].model ELSE None],
  seen <- cacheSeen

GatePromised == Promise!GSpec

\* What docs/proxy-spec.md section 5 and the comment on model_allowed say:
\* a model accepted was in the catalog the upstream had for this request.
AcceptIsCurrent ==
  \A r \in Request : sent[r] # None =>
    \E v \in since[r]..Now : req[r].model \in Offered(catalogs[v])

\* What docs/proxy-spec.md section 5 says: no answer carries an upstream
\* error body, and section 6: /v1/models is never a raw upstream relay.
NoRawRelay == \A r \in Request : answer[r] # "relayed"
=============================================================================
