---------------------------- MODULE GatePromise ----------------------------
(***************************************************************************)
(* What the request-time gate promises, with no lock, cache, fetch or      *)
(* failure in sight: every verdict is taken, in one step, against one      *)
(* version of the upstream catalog; the versions used never go backwards;  *)
(* a refusal uses a version at least as new as the request it refuses, an  *)
(* acceptance may use the version the previous verdict used.               *)
(***************************************************************************)
EXTENDS Catalog, Integers, Sequences

CONSTANT Request

VARIABLES
  catalogs,  \* every listing the upstream has had, the current one last
  asked,     \* request -> the model it asks the gate about, or None
  since,     \* request -> the catalog version when it arrived
  verdict,   \* request -> "none", "accept", "refuse" or "error"
  seen       \* the newest catalog version a verdict was taken against

CONSTANT None

gvars == <<catalogs, asked, since, verdict, seen>>

GInit ==
  /\ \E l \in Listing : catalogs = <<l>>
  /\ asked = [r \in Request |-> None]
  /\ since = [r \in Request |-> 0]
  /\ verdict = [r \in Request |-> "none"]
  /\ seen = 0

\* The upstream releases or retires models.
GPublish ==
  /\ \E l \in Listing : catalogs' = Append(catalogs, l)
  /\ UNCHANGED <<asked, since, verdict, seen>>

\* A request comes in; it may or may not reach the gate later.
GArrive(r) ==
  /\ since[r] = 0
  /\ since' = [since EXCEPT ![r] = Len(catalogs)]
  /\ \E m \in Model \cup {None} : asked' = [asked EXCEPT ![r] = m]
  /\ UNCHANGED <<catalogs, verdict, seen>>

\* Accepted: the model is offered in some version not older than `seen`.
GAccept(r) ==
  /\ asked[r] # None
  /\ verdict[r] = "none"
  /\ \E v \in 1..Len(catalogs) :
       /\ seen <= v
       /\ asked[r] \in Offered(catalogs[v])
       /\ seen' = v
  /\ verdict' = [verdict EXCEPT ![r] = "accept"]
  /\ UNCHANGED <<catalogs, asked, since>>

\* Refused: the model is missing from a version the upstream had while the
\* request was being served.
GRefuse(r) ==
  /\ asked[r] # None
  /\ verdict[r] = "none"
  /\ \E v \in 1..Len(catalogs) :
       /\ seen <= v /\ since[r] <= v
       /\ asked[r] \notin Offered(catalogs[v])
       /\ seen' = v
  /\ verdict' = [verdict EXCEPT ![r] = "refuse"]
  /\ UNCHANGED <<catalogs, asked, since>>

\* The catalog could not be had: no verdict on the model, nothing learned.
GError(r) ==
  /\ asked[r] # None
  /\ verdict[r] = "none"
  /\ verdict' = [verdict EXCEPT ![r] = "error"]
  /\ UNCHANGED <<catalogs, asked, since, seen>>

GNext ==
  \/ GPublish
  \/ \E r \in Request : GArrive(r) \/ GAccept(r) \/ GRefuse(r) \/ GError(r)

GSpec == GInit /\ [][GNext]_gvars
=============================================================================
