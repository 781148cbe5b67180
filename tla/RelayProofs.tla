---------------------------- MODULE RelayProofs ----------------------------
(* Theorems about the server, for every value of its constants.            *)
EXTENDS Relay, TLAPS

\* What discovery and the gate build from a listing is a set of models.
LEMMA OfferedType == \A l : Offered(l) \in SUBSET Model
  BY DEF Offered

\* Records built by the upstream's answers are replies.
LEMMA ReplyType ==
  /\ NoReply \in Reply
  /\ \A k \in {"none", "ok", "non_ok", "failed"}, v \in Nat :
       [kind |-> k, version |-> v] \in Reply
  /\ \A y \in Reply : y.version \in Nat
  BY DEF Reply, NoReply

\* What a chat request may name as its model.
LEMMA ForwardedType ==
  \A m \in Model : ForwardedId(m) \in Model \cup {Mapped[n] : n \in DOMAIN Mapped}
  BY RelayAssumption DEF ForwardedId

\* Every step keeps every variable in its type.
LEMMA TypeStep ==
  ASSUME TypeOK, [Next]_vars
  PROVE  TypeOK'
<1> USE RelayAssumption
<1> USE DEF TypeOK, PC, Answer
<1>1. CASE Publish
  <2>1. catalogs' \in Seq(Listings) /\ Len(catalogs') >= 1
    <3>1. PICK l \in Listings : catalogs' = Append(catalogs, l)
      BY <1>1 DEF Publish
    <3>2. QED
      BY <3>1 DEF Now
  <2>2. QED
    BY <1>1, <2>1 DEF Publish, history
<1>2. ASSUME NEW r \in Request, Arrive(r) PROVE TypeOK'
  BY <1>2 DEF Arrive, Now
<1>3. ASSUME NEW r \in Request, HandleHealth(r) PROVE TypeOK'
  BY <1>3 DEF HandleHealth, Finish, Handles, history
<1>4. ASSUME NEW r \in Request, HandleShutdown(r) PROVE TypeOK'
  BY <1>4 DEF HandleShutdown, Handles, history
<1>5. ASSUME NEW r \in Request, Exit(r) PROVE TypeOK'
  BY <1>5 DEF Exit, history
<1>6. ASSUME NEW r \in Request, HandleForbidden(r) PROVE TypeOK'
  BY <1>6 DEF HandleForbidden, Finish, Handles, history
<1>7. ASSUME NEW r \in Request, HandleDiscovery(r) PROVE TypeOK'
  BY <1>7 DEF HandleDiscovery, Finish, Handles, history
<1>8. ASSUME NEW r \in Request, ListReply(r) PROVE TypeOK'
  <2>1. reply[r].version \in Nat
    BY ReplyType
  <2>2. Offered(catalogs[reply[r].version]) \in SUBSET Model
    BY OfferedType
  <2>3. reply' \in [Request -> Reply]
    BY <1>8, ReplyType DEF ListReply
  <2>4. answer' \in [Request -> Answer] /\ pc' \in [Request -> PC]
    BY <1>8 DEF ListReply, Finish
  <2>5. listed' \in [Request -> SUBSET Model]
    BY <1>8, <2>2 DEF ListReply
  <2>6. basis' \in [Request -> Nat]
    BY <1>8, <2>1 DEF ListReply
  <2>7. \A q \in Request : pc'[q] # "idle" => pc[q] # "idle"
    BY <1>8 DEF ListReply, Finish
  <2>8. QED
    BY <1>8, <2>3, <2>4, <2>5, <2>6, <2>7 DEF ListReply
<1>9. ASSUME NEW r \in Request, HandleResponses(r) PROVE TypeOK'
  BY <1>9 DEF HandleResponses, Finish, Handles, history
<1>10. ASSUME NEW r \in Request, GateHit(r) PROVE TypeOK'
  BY <1>10 DEF GateHit, history
<1>11. ASSUME NEW r \in Request, GateMiss(r) PROVE TypeOK'
  BY <1>11 DEF GateMiss, history
<1>12. ASSUME NEW r \in Request, GateReply(r) PROVE TypeOK'
  <2>1. reply[r].version \in Nat
    BY ReplyType
  <2>2. Offered(catalogs[reply[r].version]) \in SUBSET Model
    BY OfferedType
  <2>3. reply' \in [Request -> Reply]
    BY <1>12, ReplyType DEF GateReply
  <2>4. QED
    BY <1>12, <2>1, <2>2, <2>3 DEF GateReply, Finish
<1>13. ASSUME NEW r \in Request, SendChat(r) PROVE TypeOK'
  <2>1. req[r].model \in Model
    BY <1>13 DEF SendChat, RequestSpace
  <2>2. QED
    BY <1>13, <2>1, ForwardedType DEF SendChat, history
<1>14. ASSUME NEW r \in Request, ChatReply(r) PROVE TypeOK'
  BY <1>14, ReplyType DEF ChatReply, Finish, history
<1>15. ASSUME NEW r \in Request, StreamEnd(r) PROVE TypeOK'
  BY <1>15 DEF StreamEnd, history
<1>16. ASSUME NEW r \in Request, UpstreamLists(r) PROVE TypeOK'
  BY <1>16, ReplyType DEF UpstreamLists, Now, history
<1>17. ASSUME NEW r \in Request, UpstreamChats(r) PROVE TypeOK'
  BY <1>17, ReplyType DEF UpstreamChats, Now, history
<1>18. CASE UNCHANGED vars
  BY <1>18 DEF vars, state, history
<1>19. QED
  BY <1>1, <1>2, <1>3, <1>4, <1>5, <1>6, <1>7, <1>8, <1>9, <1>10, <1>11, <1>12, <1>13, <1>14, <1>15, <1>16, <1>17, <1>18 DEF Next, Thread, Upstream, Rest

\* The initial states are well-typed.
LEMMA TypeInit == Init => TypeOK
<1> USE RelayAssumption
<1> SUFFICES ASSUME Init PROVE TypeOK
  OBVIOUS
<1>1. catalogs \in Seq(Listings) /\ Len(catalogs) >= 1
  BY DEF Init
<1>2. reply \in [Request -> Reply]
  BY DEF Init, Reply, NoReply
<1>3. QED
  BY <1>1, <1>2 DEF Init, TypeOK, PC, Answer

\* Every reachable state is well-typed, whatever the requests, the listings
\* and the order of the steps.
THEOREM TypeCorrect == Spec => []TypeOK
  BY TypeInit, TypeStep, PTL DEF Spec

\* A step of one request's thread, or of the upstream for it, touches that
\* request alone.
LEMMA Frame ==
  ASSUME TypeOK, NEW r \in Request, Thread(r) \/ Upstream(r)
  PROVE  /\ config' = config /\ catalogs' = catalogs
         /\ req' = req /\ since' = since
         /\ \A q \in Request \ {r} :
              /\ pc'[q] = pc[q] /\ reply'[q] = reply[q] /\ sent'[q] = sent[q]
              /\ answer'[q] = answer[q] /\ listed'[q] = listed[q]
              /\ basis'[q] = basis[q] /\ verdict'[q] = verdict[q]
<1> USE DEF TypeOK, Finish
<1>1. CASE HandleHealth(r)
  BY <1>1 DEF HandleHealth, history
<1>2. CASE HandleShutdown(r)
  BY <1>2 DEF HandleShutdown, history
<1>3. CASE Exit(r)
  BY <1>3 DEF Exit, history
<1>4. CASE HandleForbidden(r)
  BY <1>4 DEF HandleForbidden, history
<1>5. CASE HandleDiscovery(r)
  BY <1>5 DEF HandleDiscovery, history
<1>6. CASE ListReply(r)
  BY <1>6 DEF ListReply
<1>7. CASE HandleResponses(r)
  BY <1>7 DEF HandleResponses, history
<1>8. CASE GateHit(r)
  BY <1>8 DEF GateHit, history
<1>9. CASE GateMiss(r)
  BY <1>9 DEF GateMiss, history
<1>10. CASE GateReply(r)
  BY <1>10 DEF GateReply
<1>11. CASE SendChat(r)
  BY <1>11 DEF SendChat, history
<1>12. CASE ChatReply(r)
  BY <1>12 DEF ChatReply, history
<1>13. CASE StreamEnd(r)
  BY <1>13 DEF StreamEnd, history
<1>14. CASE UpstreamLists(r)
  BY <1>14 DEF UpstreamLists, history
<1>15. CASE UpstreamChats(r)
  BY <1>15 DEF UpstreamChats, history
<1>16. QED
  BY <1>1, <1>2, <1>3, <1>4, <1>5, <1>6, <1>7, <1>8, <1>9, <1>10, <1>11, <1>12, <1>13, <1>14, <1>15 DEF Thread, Upstream

\* What a request asks for does not change while it is served.
LEMMA DispatchStable ==
  ASSUME NEW r \in Request, config' = config, req'[r] = req[r]
  PROVE  /\ Dispatch(req[r])' = Dispatch(req[r])
         /\ (pc'[r] = "idle" <=> pc[r] = "idle") => (Asks(r)' <=> Asks(r))
  BY DEF Dispatch, ShutdownAllowed, Asks

\* The lock is held exactly while a gate fetch is in progress.
LEMMA LockStep ==
  ASSUME IInv, [Next]_vars
  PROVE  LockInv'
<1> USE RelayAssumption DEF IInv, LockInv
<1>1. CASE Publish
  BY <1>1 DEF TypeOK, Publish, history
<1>2. ASSUME NEW r \in Request, Arrive(r) PROVE LockInv'
  BY <1>2 DEF TypeOK, Arrive
<1>3. ASSUME NEW r \in Request, Thread(r) \/ Upstream(r) PROVE LockInv'
  <2>1. CASE HandleHealth(r)
    BY <2>1 DEF TypeOK, HandleHealth, Handles, Finish, history
  <2>2. CASE HandleShutdown(r)
    BY <2>2 DEF TypeOK, HandleShutdown, Handles, history
  <2>3. CASE Exit(r)
    BY <2>3 DEF TypeOK, Exit, history
  <2>4. CASE HandleForbidden(r)
    BY <2>4 DEF TypeOK, HandleForbidden, Handles, Finish, history
  <2>5. CASE HandleDiscovery(r)
    BY <2>5 DEF TypeOK, HandleDiscovery, Handles, Finish, history
  <2>6. CASE ListReply(r)
    BY <2>6 DEF TypeOK, ListReply, Finish
  <2>7. CASE HandleResponses(r)
    BY <2>7 DEF TypeOK, HandleResponses, Handles, Finish, history
  <2>8. CASE GateHit(r)
    BY <2>8 DEF TypeOK, GateHit, history
  <2>9. CASE GateMiss(r)
    BY <2>9 DEF TypeOK, GateMiss, history
  <2>10. CASE GateReply(r)
    BY <2>10 DEF TypeOK, GateReply, Finish
  <2>11. CASE SendChat(r)
    BY <2>11 DEF TypeOK, SendChat, history
  <2>12. CASE ChatReply(r)
    BY <2>12 DEF TypeOK, ChatReply, Finish, history
  <2>13. CASE StreamEnd(r)
    BY <2>13 DEF TypeOK, StreamEnd, history
  <2>14. CASE UpstreamLists(r)
    BY <2>14 DEF TypeOK, UpstreamLists, history
  <2>15. CASE UpstreamChats(r)
    BY <2>15 DEF TypeOK, UpstreamChats, history
  <2>16. QED
    BY <1>3, <2>1, <2>2, <2>3, <2>4, <2>5, <2>6, <2>7, <2>8, <2>9, <2>10, <2>11, <2>12, <2>13, <2>14, <2>15 DEF Thread, Upstream
<1>4. CASE UNCHANGED vars
  BY <1>4 DEF vars, state, history
<1>5. QED
  BY <1>1, <1>2, <1>3, <1>4 DEF Next, Rest

\* The cached set stays what some version of the catalog offers.
LEMMA CacheStep ==
  ASSUME IInv, [Next]_vars
  PROVE  CacheInv'
<1> USE RelayAssumption DEF IInv, CacheInv, Now
<1>1. CASE Publish
  <2>1. PICK l \in Listings : catalogs' = Append(catalogs, l)
    BY <1>1 DEF Publish
  <2>2. QED
    BY <1>1, <2>1 DEF TypeOK, Publish, history
<1>2. ASSUME NEW r \in Request, Arrive(r) PROVE CacheInv'
  BY <1>2 DEF TypeOK, Arrive
<1>3. ASSUME NEW r \in Request, Thread(r) \/ Upstream(r) PROVE CacheInv'
  <2>1. CASE HandleHealth(r)
    BY <2>1 DEF TypeOK, HandleHealth, Handles, Finish, history
  <2>2. CASE HandleShutdown(r)
    BY <2>2 DEF TypeOK, HandleShutdown, Handles, history
  <2>3. CASE Exit(r)
    BY <2>3 DEF TypeOK, Exit, history
  <2>4. CASE HandleForbidden(r)
    BY <2>4 DEF TypeOK, HandleForbidden, Handles, Finish, history
  <2>5. CASE HandleDiscovery(r)
    BY <2>5 DEF TypeOK, HandleDiscovery, Handles, Finish, history
  <2>6. CASE ListReply(r)
    BY <2>6 DEF TypeOK, ListReply, Finish
  <2>7. CASE HandleResponses(r)
    BY <2>7 DEF TypeOK, HandleResponses, Handles, Finish, history
  <2>8. CASE GateHit(r)
    BY <2>8 DEF TypeOK, GateHit, history
  <2>9. CASE GateMiss(r)
    BY <2>9 DEF TypeOK, GateMiss, history
  <2>10. CASE GateReply(r)
    <3>1. CASE reply[r].kind = "ok"
      <4>1. reply[r].version \in 1..Now
        BY <2>10, <3>1 DEF GateReply, TypeOK, ReplyInv
      <4>2. QED
        BY <2>10, <3>1, <4>1 DEF GateReply, Finish
    <3>2. CASE reply[r].kind # "ok"
      BY <2>10, <3>2 DEF GateReply, Finish
    <3>3. QED
      BY <3>1, <3>2
  <2>11. CASE SendChat(r)
    BY <2>11 DEF TypeOK, SendChat, history
  <2>12. CASE ChatReply(r)
    BY <2>12 DEF TypeOK, ChatReply, Finish, history
  <2>13. CASE StreamEnd(r)
    BY <2>13 DEF TypeOK, StreamEnd, history
  <2>14. CASE UpstreamLists(r)
    BY <2>14 DEF TypeOK, UpstreamLists, history
  <2>15. CASE UpstreamChats(r)
    BY <2>15 DEF TypeOK, UpstreamChats, history
  <2>16. QED
    BY <1>3, <2>1, <2>2, <2>3, <2>4, <2>5, <2>6, <2>7, <2>8, <2>9, <2>10, <2>11, <2>12, <2>13, <2>14, <2>15 DEF Thread, Upstream
<1>4. CASE UNCHANGED vars
  BY <1>4 DEF vars, state, history
<1>5. QED
  BY <1>1, <1>2, <1>3, <1>4 DEF Next, Rest

\* Listings in flight stay newer than their request and than the cache.
LEMMA ReplyStep ==
  ASSUME IInv, [Next]_vars
  PROVE  ReplyInv'
<1> USE RelayAssumption DEF IInv, ReplyInv, Now, NoReply
<1>1. CASE Publish
  <2>1. PICK l \in Listings : catalogs' = Append(catalogs, l)
    BY <1>1 DEF Publish
  <2>2. QED
    BY <1>1, <2>1 DEF TypeOK, Publish, history
<1>2. ASSUME NEW r \in Request, Arrive(r) PROVE ReplyInv'
  BY <1>2 DEF TypeOK, Arrive
<1>3. ASSUME NEW r \in Request, Thread(r) \/ Upstream(r) PROVE ReplyInv'
  <2>1. CASE HandleHealth(r)
    BY <2>1, Frame DEF TypeOK, HandleHealth, Handles, Finish, history
  <2>2. CASE HandleShutdown(r)
    BY <2>2, Frame DEF TypeOK, HandleShutdown, Handles, history
  <2>3. CASE Exit(r)
    BY <2>3, Frame DEF TypeOK, Exit, history
  <2>4. CASE HandleForbidden(r)
    BY <2>4, Frame DEF TypeOK, HandleForbidden, Handles, Finish, history
  <2>5. CASE HandleDiscovery(r)
    BY <2>5, Frame DEF TypeOK, HandleDiscovery, Handles, Finish, history
  <2>6. CASE ListReply(r)
    BY <2>6, Frame DEF TypeOK, ListReply, Finish
  <2>7. CASE HandleResponses(r)
    BY <2>7, Frame DEF TypeOK, HandleResponses, Handles, Finish, history
  <2>8. CASE GateHit(r)
    BY <2>8, Frame DEF TypeOK, GateHit, history
  <2>9. CASE GateMiss(r)
    BY <2>9, Frame DEF TypeOK, GateMiss, history
  <2>10. CASE GateReply(r)
    \* No other thread fetches for the gate, so none can be overtaken.
    <3>1. \A q \in Request \ {r} : pc[q] # "gate_fetch" /\ pc'[q] = pc[q]
      BY <2>10, Frame, <1>3 DEF LockInv, GateReply
    <3>2. pc'[r] \in {"forward", "done"} /\ reply'[r].kind = "none"
      BY <2>10 DEF TypeOK, GateReply, Finish
    <3>3. QED
      BY <2>10, <3>1, <3>2, <1>3, Frame DEF TypeOK, GateReply
  <2>11. CASE SendChat(r)
    BY <2>11, Frame DEF TypeOK, SendChat, history
  <2>12. CASE ChatReply(r)
    BY <2>12, Frame DEF TypeOK, ChatReply, Finish, history
  <2>13. CASE StreamEnd(r)
    BY <2>13, Frame DEF TypeOK, StreamEnd, history
  <2>14. CASE UpstreamLists(r)
    <3>1. reply'[r].version = Now /\ cacheSeen <= Now
      BY <2>14 DEF TypeOK, CacheInv, UpstreamLists
    <3>2. QED
      BY <2>14, <3>1, <1>3, Frame DEF TypeOK, UpstreamLists, history
  <2>15. CASE UpstreamChats(r)
    BY <2>15, Frame DEF TypeOK, UpstreamChats, history
  <2>16. QED
    BY <1>3, <2>1, <2>2, <2>3, <2>4, <2>5, <2>6, <2>7, <2>8, <2>9, <2>10, <2>11, <2>12, <2>13, <2>14, <2>15 DEF Thread, Upstream
<1>4. CASE UNCHANGED vars
  BY <1>4 DEF vars, state, history
<1>5. QED
  BY <1>1, <1>2, <1>3, <1>4 DEF Next, Rest

\* What a request was told stays what its catalog version says.
LEMMA VerdictStep ==
  ASSUME IInv, [Next]_vars
  PROVE  VerdictInv'
<1> USE RelayAssumption DEF IInv, VerdictInv
<1> SUFFICES ASSUME NEW q \in Request PROVE VerdictOf(q)'
  OBVIOUS
<1>0. VerdictOf(q)
  OBVIOUS
<1>1. CASE Publish
  <2>1. PICK l \in Listings : catalogs' = Append(catalogs, l)
    BY <1>1 DEF Publish
  <2>2. (Asks(q)' <=> Asks(q)) /\ Dispatch(req[q])' = Dispatch(req[q])
    BY <1>1, DispatchStable DEF Publish
  <2>3. QED
    BY <1>0, <1>1, <2>1, <2>2 DEF TypeOK, VerdictOf, ReplyInv, Publish, history, Now
<1>2. ASSUME NEW r \in Request, Arrive(r) PROVE VerdictOf(q)'
  <2>1. CASE q = r
    BY <1>0, <1>2, <2>1 DEF TypeOK, Arrive, VerdictOf, ReplyInv, Now, VerdictInv, VerdictOf
  <2>2. CASE q # r
    <3>1. (Asks(q)' <=> Asks(q)) /\ Dispatch(req[q])' = Dispatch(req[q])
      BY <1>2, <2>2, DispatchStable DEF TypeOK, Arrive
    <3>2. QED
      BY <1>0, <1>2, <2>2, <3>1 DEF TypeOK, Arrive, VerdictOf, Now
  <2>3. QED
    BY <2>1, <2>2
<1>3. ASSUME NEW r \in Request, Thread(r) \/ Upstream(r) PROVE VerdictOf(q)'
  <2>0. CASE q # r
    <3>1. (Asks(q)' <=> Asks(q)) /\ Dispatch(req[q])' = Dispatch(req[q])
      BY <1>3, <2>0, Frame, DispatchStable
    <3>2. QED
      BY <1>0, <1>3, <2>0, <3>1, Frame DEF VerdictOf, Now
  <2>1. CASE q = r /\ HandleHealth(r)
    <3>1. Dispatch(req[q])' = Dispatch(req[q])
      BY <1>3, Frame, DispatchStable
    <3>2. QED
      BY <1>0, <2>1, <3>1 DEF TypeOK, HandleHealth, Handles, Finish, history, VerdictOf, Asks, Now
  <2>2. CASE q = r /\ HandleShutdown(r)
    <3>1. Dispatch(req[q])' = Dispatch(req[q])
      BY <1>3, Frame, DispatchStable
    <3>2. QED
      BY <1>0, <2>2, <3>1 DEF TypeOK, HandleShutdown, Handles, history, VerdictOf, Asks, Now
  <2>3. CASE q = r /\ Exit(r)
    <3>1. Dispatch(req[q])' = Dispatch(req[q])
      BY <1>3, Frame, DispatchStable
    <3>2. QED
      BY <1>0, <2>3, <3>1 DEF TypeOK, Exit, history, VerdictOf, Asks, Now
  <2>4. CASE q = r /\ HandleForbidden(r)
    <3>1. Dispatch(req[q])' = Dispatch(req[q])
      BY <1>3, Frame, DispatchStable
    <3>2. QED
      BY <1>0, <2>4, <3>1 DEF TypeOK, HandleForbidden, Handles, Finish, history, VerdictOf, Asks, Now
  <2>5. CASE q = r /\ HandleDiscovery(r)
    <3>1. Dispatch(req[q])' = Dispatch(req[q])
      BY <1>3, Frame, DispatchStable
    <3>2. QED
      BY <1>0, <2>5, <3>1 DEF TypeOK, HandleDiscovery, Handles, Finish, history, VerdictOf, Asks, Now
  <2>6. CASE q = r /\ ListReply(r)
    <3>1. Dispatch(req[q])' = Dispatch(req[q])
      BY <1>3, Frame, DispatchStable
    <3>2. QED
      BY <1>0, <2>6, <3>1 DEF TypeOK, ListReply, Finish, VerdictOf, Asks, Now
  <2>7. CASE q = r /\ HandleResponses(r)
    <3>1. Dispatch(req[q])' = Dispatch(req[q])
      BY <1>3, Frame, DispatchStable
    <3>2. /\ verdict'[q] = "none" /\ sent'[q] = None
          /\ answer'[q] \in {"none", "service_disabled", "bad_request"}
          /\ pc'[q] \in {"gate", "done"}
      BY <1>0, <2>7 DEF TypeOK, HandleResponses, Handles, Finish, history, VerdictOf
    <3>3. pc'[q] = "gate" => config'.enabled /\ Asks(q)' /\ answer'[q] = "none"
      BY <1>0, <2>7, <3>1 DEF TypeOK, HandleResponses, Handles, Finish, Asks, VerdictOf
    <3>4. QED
      BY <3>2, <3>3 DEF VerdictOf
  <2>8. CASE q = r /\ GateHit(r)
    <3>1. Asks(q)' <=> Asks(q)
      BY <1>3, <2>8, Frame, DispatchStable DEF TypeOK, GateHit
    <3>2. cacheSeen \in 1..Now /\ req[q].model \in Offered(catalogs[cacheSeen])
      BY <2>8 DEF TypeOK, CacheInv, CacheHas, GateHit, Now
    <3>3. QED
      BY <1>0, <2>8, <3>1, <3>2 DEF TypeOK, GateHit, VerdictOf, Now
  <2>9. CASE q = r /\ GateMiss(r)
    <3>1. Dispatch(req[q])' = Dispatch(req[q])
      BY <1>3, Frame, DispatchStable
    <3>2. QED
      BY <1>0, <2>9, <3>1 DEF TypeOK, GateMiss, history, VerdictOf, Asks, Now
  <2>10. CASE q = r /\ GateReply(r)
    <3>1. Asks(q)' <=> Asks(q)
      BY <1>3, <2>10, Frame, DispatchStable DEF TypeOK, GateReply, Finish
    <3>2. CASE reply[q].kind = "ok"
      <4>1. reply[q].version \in since[q]..Now /\ since[q] >= 1
        BY <2>10, <3>2 DEF TypeOK, ReplyInv, GateReply, Now
      <4>2. \A m \in Offered(catalogs[reply[q].version]) : ConfigAllows(m)
        BY DEF Offered, ConfigAllows
      <4>3. QED
        BY <1>0, <2>10, <3>1, <3>2, <4>1, <4>2
        DEF TypeOK, GateReply, Finish, VerdictOf, Now
    <3>3. CASE reply[q].kind # "ok"
      BY <1>0, <2>10, <3>1, <3>3 DEF TypeOK, GateReply, Finish, VerdictOf, Now
    <3>4. QED
      BY <3>2, <3>3
  <2>11. CASE q = r /\ SendChat(r)
    <3>1. Dispatch(req[q])' = Dispatch(req[q])
      BY <1>3, Frame, DispatchStable
    <3>2. QED
      BY <1>0, <2>11, <3>1 DEF TypeOK, SendChat, history, VerdictOf, Asks, Now
  <2>12. CASE q = r /\ ChatReply(r)
    <3>1. Dispatch(req[q])' = Dispatch(req[q])
      BY <1>3, Frame, DispatchStable
    <3>2. QED
      BY <1>0, <2>12, <3>1 DEF TypeOK, ChatReply, Finish, history, VerdictOf, Asks, Now
  <2>13. CASE q = r /\ StreamEnd(r)
    <3>1. Dispatch(req[q])' = Dispatch(req[q])
      BY <1>3, Frame, DispatchStable
    <3>2. QED
      BY <1>0, <2>13, <3>1 DEF TypeOK, StreamEnd, history, VerdictOf, Asks, Now
  <2>14. CASE q = r /\ UpstreamLists(r)
    <3>1. Dispatch(req[q])' = Dispatch(req[q])
      BY <1>3, Frame, DispatchStable
    <3>2. QED
      BY <1>0, <2>14, <3>1 DEF TypeOK, UpstreamLists, history, VerdictOf, Asks, Now
  <2>15. CASE q = r /\ UpstreamChats(r)
    <3>1. Dispatch(req[q])' = Dispatch(req[q])
      BY <1>3, Frame, DispatchStable
    <3>2. QED
      BY <1>0, <2>15, <3>1 DEF TypeOK, UpstreamChats, history, VerdictOf, Asks, Now
  <2>16. QED
    BY <1>3, <2>0, <2>1, <2>2, <2>3, <2>4, <2>5, <2>6, <2>7, <2>8, <2>9, <2>10, <2>11, <2>12, <2>13, <2>14, <2>15 DEF Thread, Upstream
<1>4. CASE UNCHANGED vars
  <2>1. (Asks(q)' <=> Asks(q)) /\ Dispatch(req[q])' = Dispatch(req[q])
    BY <1>4, DispatchStable DEF vars, state, history
  <2>2. QED
    BY <1>0, <1>4, <2>1 DEF vars, state, history, VerdictOf, Now
<1>5. QED
  BY <1>1, <1>2, <1>3, <1>4 DEF Next, Rest

\* What discovery listed stays what its catalog version says.
LEMMA DiscoveryStep ==
  ASSUME IInv, [Next]_vars
  PROVE  DiscoveryInv'
<1> USE RelayAssumption DEF IInv, DiscoveryInv
<1> SUFFICES ASSUME NEW q \in Request PROVE DiscoveryOf(q)'
  OBVIOUS
<1>0. DiscoveryOf(q)
  OBVIOUS
<1>1. CASE Publish
  <2>1. PICK l \in Listings : catalogs' = Append(catalogs, l)
    BY <1>1 DEF Publish
  <2>2. (Asks(q)' <=> Asks(q)) /\ Dispatch(req[q])' = Dispatch(req[q])
    BY <1>1, DispatchStable DEF Publish
  <2>3. QED
    BY <1>0, <1>1, <2>1, <2>2 DEF TypeOK, DiscoveryOf, ReplyInv, Publish, history, Now
<1>2. ASSUME NEW r \in Request, Arrive(r) PROVE DiscoveryOf(q)'
  <2>1. CASE q = r
    BY <1>0, <1>2, <2>1 DEF TypeOK, Arrive, DiscoveryOf, ReplyInv, Now, VerdictInv, VerdictOf
  <2>2. CASE q # r
    <3>1. (Asks(q)' <=> Asks(q)) /\ Dispatch(req[q])' = Dispatch(req[q])
      BY <1>2, <2>2, DispatchStable DEF TypeOK, Arrive
    <3>2. QED
      BY <1>0, <1>2, <2>2, <3>1 DEF TypeOK, Arrive, DiscoveryOf, Now
  <2>3. QED
    BY <2>1, <2>2
<1>3. ASSUME NEW r \in Request, Thread(r) \/ Upstream(r) PROVE DiscoveryOf(q)'
  <2>0. CASE q # r
    <3>1. (Asks(q)' <=> Asks(q)) /\ Dispatch(req[q])' = Dispatch(req[q])
      BY <1>3, <2>0, Frame, DispatchStable
    <3>2. QED
      BY <1>0, <1>3, <2>0, <3>1, Frame DEF DiscoveryOf, Now
  <2>1. CASE q = r /\ HandleHealth(r)
    <3>1. Dispatch(req[q])' = Dispatch(req[q])
      BY <1>3, Frame, DispatchStable
    <3>2. QED
      BY <1>0, <2>1, <3>1 DEF TypeOK, HandleHealth, Handles, Finish, history, DiscoveryOf, Asks, Now
  <2>2. CASE q = r /\ HandleShutdown(r)
    <3>1. Dispatch(req[q])' = Dispatch(req[q])
      BY <1>3, Frame, DispatchStable
    <3>2. QED
      BY <1>0, <2>2, <3>1 DEF TypeOK, HandleShutdown, Handles, history, DiscoveryOf, Asks, Now
  <2>3. CASE q = r /\ Exit(r)
    <3>1. Dispatch(req[q])' = Dispatch(req[q])
      BY <1>3, Frame, DispatchStable
    <3>2. QED
      BY <1>0, <2>3, <3>1 DEF TypeOK, Exit, history, DiscoveryOf, Asks, Now
  <2>4. CASE q = r /\ HandleForbidden(r)
    <3>1. Dispatch(req[q])' = Dispatch(req[q])
      BY <1>3, Frame, DispatchStable
    <3>2. QED
      BY <1>0, <2>4, <3>1 DEF TypeOK, HandleForbidden, Handles, Finish, history, DiscoveryOf, Asks, Now
  <2>5. CASE q = r /\ HandleDiscovery(r)
    <3>1. Dispatch(req[q])' = Dispatch(req[q])
      BY <1>3, Frame, DispatchStable
    <3>2. QED
      BY <1>0, <2>5, <3>1 DEF TypeOK, HandleDiscovery, Handles, Finish, history, DiscoveryOf, Asks, Now
  <2>6. CASE q = r /\ ListReply(r)
    <3>1. Dispatch(req[q])' = Dispatch(req[q])
      BY <1>3, Frame, DispatchStable
    <3>2. CASE reply[q].kind = "ok"
      <4>1. reply[q].version \in since[q]..Now
        BY <2>6, <3>2 DEF TypeOK, ReplyInv, ListReply, Now
      <4>2. basis'[q] = reply[q].version
        BY <2>6, <3>2 DEF TypeOK, ListReply
      <4>3. listed'[q] = Offered(catalogs[reply[q].version])
        BY <2>6, <3>2 DEF TypeOK, ListReply
      <4>4. pc'[q] = "done" /\ catalogs' = catalogs /\ since' = since
        BY <2>6, <3>2 DEF TypeOK, ListReply, Finish
      <4>5. QED
        BY <1>0, <2>6, <3>1, <4>1, <4>2, <4>3, <4>4 DEF DiscoveryOf, ListReply, Now
    <3>3. CASE reply[q].kind # "ok"
      <4>1. answer'[q] # "list" /\ pc'[q] = "done"
        BY <2>6, <3>3 DEF TypeOK, ListReply, Finish
      <4>2. QED
        BY <4>1 DEF DiscoveryOf
    <3>4. QED
      BY <3>2, <3>3
  <2>7. CASE q = r /\ HandleResponses(r)
    <3>1. Dispatch(req[q])' = Dispatch(req[q])
      BY <1>3, Frame, DispatchStable
    <3>2. QED
      BY <1>0, <2>7, <3>1 DEF TypeOK, HandleResponses, Handles, Finish, history, DiscoveryOf, Asks, Now
  <2>8. CASE q = r /\ GateHit(r)
    <3>1. pc'[q] = "forward" /\ answer'[q] = "none"
      BY <2>8 DEF TypeOK, GateHit, VerdictInv, VerdictOf
    <3>2. QED
      BY <3>1 DEF DiscoveryOf
  <2>9. CASE q = r /\ GateMiss(r)
    <3>1. Dispatch(req[q])' = Dispatch(req[q])
      BY <1>3, Frame, DispatchStable
    <3>2. QED
      BY <1>0, <2>9, <3>1 DEF TypeOK, GateMiss, history, DiscoveryOf, Asks, Now
  <2>10. CASE q = r /\ GateReply(r)
    <3>1. pc'[q] \in {"forward", "done"} /\ answer'[q] # "list"
      BY <2>10 DEF TypeOK, GateReply, Finish, VerdictInv, VerdictOf
    <3>2. QED
      BY <3>1 DEF DiscoveryOf
  <2>11. CASE q = r /\ SendChat(r)
    <3>1. Dispatch(req[q])' = Dispatch(req[q])
      BY <1>3, Frame, DispatchStable
    <3>2. QED
      BY <1>0, <2>11, <3>1 DEF TypeOK, SendChat, history, DiscoveryOf, Asks, Now
  <2>12. CASE q = r /\ ChatReply(r)
    <3>1. Dispatch(req[q])' = Dispatch(req[q])
      BY <1>3, Frame, DispatchStable
    <3>2. QED
      BY <1>0, <2>12, <3>1 DEF TypeOK, ChatReply, Finish, history, DiscoveryOf, Asks, Now
  <2>13. CASE q = r /\ StreamEnd(r)
    <3>1. Dispatch(req[q])' = Dispatch(req[q])
      BY <1>3, Frame, DispatchStable
    <3>2. QED
      BY <1>0, <2>13, <3>1 DEF TypeOK, StreamEnd, history, DiscoveryOf, Asks, Now
  <2>14. CASE q = r /\ UpstreamLists(r)
    <3>1. Dispatch(req[q])' = Dispatch(req[q])
      BY <1>3, Frame, DispatchStable
    <3>2. QED
      BY <1>0, <2>14, <3>1 DEF TypeOK, UpstreamLists, history, DiscoveryOf, Asks, Now
  <2>15. CASE q = r /\ UpstreamChats(r)
    <3>1. Dispatch(req[q])' = Dispatch(req[q])
      BY <1>3, Frame, DispatchStable
    <3>2. QED
      BY <1>0, <2>15, <3>1 DEF TypeOK, UpstreamChats, history, DiscoveryOf, Asks, Now
  <2>16. QED
    BY <1>3, <2>0, <2>1, <2>2, <2>3, <2>4, <2>5, <2>6, <2>7, <2>8, <2>9, <2>10, <2>11, <2>12, <2>13, <2>14, <2>15 DEF Thread, Upstream
<1>4. CASE UNCHANGED vars
  <2>1. (Asks(q)' <=> Asks(q)) /\ Dispatch(req[q])' = Dispatch(req[q])
    BY <1>4, DispatchStable DEF vars, state, history
  <2>2. QED
    BY <1>0, <1>4, <2>1 DEF vars, state, history, DiscoveryOf, Now
<1>5. QED
  BY <1>1, <1>2, <1>3, <1>4 DEF Next, Rest

\* Only a /shutdown request is answered as one.
LEMMA ExitOfStep ==
  ASSUME IInv, [Next]_vars
  PROVE  \A z \in Request : ExitOf(z)'
<1> USE RelayAssumption DEF IInv, ExitInv
<1> SUFFICES ASSUME NEW q \in Request PROVE ExitOf(q)'
  OBVIOUS
<1>0. ExitOf(q)
  OBVIOUS
<1>1. CASE Publish
  <2>1. PICK l \in Listings : catalogs' = Append(catalogs, l)
    BY <1>1 DEF Publish
  <2>2. (Asks(q)' <=> Asks(q)) /\ Dispatch(req[q])' = Dispatch(req[q])
    BY <1>1, DispatchStable DEF Publish
  <2>3. QED
    BY <1>0, <1>1, <2>1, <2>2 DEF TypeOK, ExitOf, ReplyInv, Publish, history, Now
<1>2. ASSUME NEW r \in Request, Arrive(r) PROVE ExitOf(q)'
  <2>1. CASE q = r
    BY <1>0, <1>2, <2>1 DEF TypeOK, Arrive, ExitOf, ReplyInv, Now, VerdictInv, VerdictOf
  <2>2. CASE q # r
    <3>1. (Asks(q)' <=> Asks(q)) /\ Dispatch(req[q])' = Dispatch(req[q])
      BY <1>2, <2>2, DispatchStable DEF TypeOK, Arrive
    <3>2. QED
      BY <1>0, <1>2, <2>2, <3>1 DEF TypeOK, Arrive, ExitOf, Now
  <2>3. QED
    BY <2>1, <2>2
<1>3. ASSUME NEW r \in Request, Thread(r) \/ Upstream(r) PROVE ExitOf(q)'
  <2>0. CASE q # r
    <3>1. (Asks(q)' <=> Asks(q)) /\ Dispatch(req[q])' = Dispatch(req[q])
      BY <1>3, <2>0, Frame, DispatchStable
    <3>2. QED
      BY <1>0, <1>3, <2>0, <3>1, Frame DEF ExitOf, Now
  <2>1. CASE q = r /\ HandleHealth(r)
    <3>1. Dispatch(req[q])' = Dispatch(req[q])
      BY <1>3, Frame, DispatchStable
    <3>2. QED
      BY <1>0, <2>1, <3>1 DEF TypeOK, HandleHealth, Handles, Finish, history, ExitOf, Asks, Now
  <2>2. CASE q = r /\ HandleShutdown(r)
    <3>1. Dispatch(req[q])' = Dispatch(req[q])
      BY <1>3, Frame, DispatchStable
    <3>2. QED
      BY <1>0, <2>2, <3>1 DEF TypeOK, HandleShutdown, Handles, history, ExitOf, Asks, Now
  <2>3. CASE q = r /\ Exit(r)
    <3>1. Dispatch(req[q])' = Dispatch(req[q])
      BY <1>3, Frame, DispatchStable
    <3>2. QED
      BY <1>0, <2>3, <3>1 DEF TypeOK, Exit, history, ExitOf, Asks, Now
  <2>4. CASE q = r /\ HandleForbidden(r)
    <3>1. Dispatch(req[q])' = Dispatch(req[q])
      BY <1>3, Frame, DispatchStable
    <3>2. QED
      BY <1>0, <2>4, <3>1 DEF TypeOK, HandleForbidden, Handles, Finish, history, ExitOf, Asks, Now
  <2>5. CASE q = r /\ HandleDiscovery(r)
    <3>1. Dispatch(req[q])' = Dispatch(req[q])
      BY <1>3, Frame, DispatchStable
    <3>2. QED
      BY <1>0, <2>5, <3>1 DEF TypeOK, HandleDiscovery, Handles, Finish, history, ExitOf, Asks, Now
  <2>6. CASE q = r /\ ListReply(r)
    <3>1. Dispatch(req[q])' = Dispatch(req[q])
      BY <1>3, Frame, DispatchStable
    <3>2. QED
      BY <1>0, <2>6, <3>1 DEF TypeOK, ListReply, Finish, ExitOf, Asks, Now
  <2>7. CASE q = r /\ HandleResponses(r)
    <3>1. Dispatch(req[q])' = Dispatch(req[q])
      BY <1>3, Frame, DispatchStable
    <3>2. QED
      BY <1>0, <2>7, <3>1 DEF TypeOK, HandleResponses, Handles, Finish, history, ExitOf, Asks, Now
  <2>8. CASE q = r /\ GateHit(r)
    <3>1. Dispatch(req[q])' = Dispatch(req[q])
      BY <1>3, Frame, DispatchStable
    <3>2. QED
      BY <1>0, <2>8, <3>1 DEF TypeOK, GateHit, history, ExitOf, Asks, Now
  <2>9. CASE q = r /\ GateMiss(r)
    <3>1. Dispatch(req[q])' = Dispatch(req[q])
      BY <1>3, Frame, DispatchStable
    <3>2. QED
      BY <1>0, <2>9, <3>1 DEF TypeOK, GateMiss, history, ExitOf, Asks, Now
  <2>10. CASE q = r /\ GateReply(r)
    <3>1. Dispatch(req[q])' = Dispatch(req[q])
      BY <1>3, Frame, DispatchStable
    <3>2. QED
      BY <1>0, <2>10, <3>1 DEF TypeOK, GateReply, Finish, ExitOf, Asks, Now
  <2>11. CASE q = r /\ SendChat(r)
    <3>1. Dispatch(req[q])' = Dispatch(req[q])
      BY <1>3, Frame, DispatchStable
    <3>2. QED
      BY <1>0, <2>11, <3>1 DEF TypeOK, SendChat, history, ExitOf, Asks, Now
  <2>12. CASE q = r /\ ChatReply(r)
    <3>1. Dispatch(req[q])' = Dispatch(req[q])
      BY <1>3, Frame, DispatchStable
    <3>2. QED
      BY <1>0, <2>12, <3>1 DEF TypeOK, ChatReply, Finish, history, ExitOf, Asks, Now
  <2>13. CASE q = r /\ StreamEnd(r)
    <3>1. Dispatch(req[q])' = Dispatch(req[q])
      BY <1>3, Frame, DispatchStable
    <3>2. QED
      BY <1>0, <2>13, <3>1 DEF TypeOK, StreamEnd, history, ExitOf, Asks, Now
  <2>14. CASE q = r /\ UpstreamLists(r)
    <3>1. Dispatch(req[q])' = Dispatch(req[q])
      BY <1>3, Frame, DispatchStable
    <3>2. QED
      BY <1>0, <2>14, <3>1 DEF TypeOK, UpstreamLists, history, ExitOf, Asks, Now
  <2>15. CASE q = r /\ UpstreamChats(r)
    <3>1. Dispatch(req[q])' = Dispatch(req[q])
      BY <1>3, Frame, DispatchStable
    <3>2. QED
      BY <1>0, <2>15, <3>1 DEF TypeOK, UpstreamChats, history, ExitOf, Asks, Now
  <2>16. QED
    BY <1>3, <2>0, <2>1, <2>2, <2>3, <2>4, <2>5, <2>6, <2>7, <2>8, <2>9, <2>10, <2>11, <2>12, <2>13, <2>14, <2>15 DEF Thread, Upstream
<1>4. CASE UNCHANGED vars
  <2>1. (Asks(q)' <=> Asks(q)) /\ Dispatch(req[q])' = Dispatch(req[q])
    BY <1>4, DispatchStable DEF vars, state, history
  <2>2. QED
    BY <1>0, <1>4, <2>1 DEF vars, state, history, ExitOf, Now
<1>5. QED
  BY <1>1, <1>2, <1>3, <1>4 DEF Next, Rest

\* A process that has exited answered a /shutdown first.
LEMMA ExitStep ==
  ASSUME IInv, [Next]_vars
  PROVE  ExitInv'
<1> USE DEF IInv, ExitInv
<1>1. \A z \in Request : ExitOf(z)'
  BY ExitOfStep
<1>2. CASE exited
  <2>1. Publish \/ UNCHANGED vars
    BY <1>2 DEF Next, Thread, Upstream, Rest, Arrive, Handles, HandleHealth,
       HandleShutdown, Exit, HandleForbidden, HandleDiscovery, ListReply,
       HandleResponses, GateHit, GateMiss, GateReply, SendChat, ChatReply,
       StreamEnd, UpstreamLists, UpstreamChats
  <2>2. answer' = answer
    BY <2>1 DEF Publish, vars, state
  <2>3. QED
    BY <1>1, <1>2, <2>2
<1>3. CASE ~exited /\ exited'
  <2>1. PICK r \in Request : Exit(r)
    <3>1. \A r \in Request : HandleHealth(r) \/ HandleShutdown(r) \/ HandleForbidden(r)
              \/ HandleDiscovery(r) \/ ListReply(r) \/ HandleResponses(r) => exited' = exited
      BY DEF HandleHealth, HandleShutdown, HandleForbidden, HandleDiscovery, ListReply,
         HandleResponses
    <3>2. \A r \in Request : GateHit(r) \/ GateMiss(r) \/ GateReply(r) \/ SendChat(r)
              \/ ChatReply(r) \/ StreamEnd(r) => exited' = exited
      BY DEF GateHit, GateMiss, GateReply, SendChat, ChatReply, StreamEnd
    <3>3. \A r \in Request : Arrive(r) \/ Upstream(r) => exited' = exited
      BY DEF Arrive, Upstream, UpstreamLists, UpstreamChats
    <3>4. Publish \/ Rest \/ UNCHANGED vars => exited' = exited
      BY DEF Publish, Rest, vars, state
    <3>5. QED
      BY <1>3, <3>1, <3>2, <3>3, <3>4 DEF Next, Thread
  <2>2. answer'[r] = "shutdown"
    BY <2>1 DEF Exit, ExitOf
  <2>3. QED
    BY <1>1, <2>2
<1>4. QED
  BY <1>1, <1>2, <1>3

\* The invariant behind the safety properties, and its three facts.
THEOREM Inductive == Spec => []IInv
<1>1. Init => IInv
  <2> SUFFICES ASSUME Init PROVE IInv
    OBVIOUS
  <2>1. TypeOK
    BY TypeInit
  <2>2. LockInv /\ CacheInv /\ ReplyInv
    BY <2>1, RelayAssumption DEF Init, TypeOK, LockInv, CacheInv, ReplyInv, NoReply, Now
  <2>3. VerdictInv /\ DiscoveryInv /\ ExitInv
    BY DEF Init, VerdictInv, VerdictOf, DiscoveryInv, DiscoveryOf, ExitInv, ExitOf
  <2>4. QED
    BY <2>1, <2>2, <2>3 DEF IInv
<1>2. IInv /\ [Next]_vars => IInv'
  BY TypeStep, LockStep, CacheStep, ReplyStep, VerdictStep, DiscoveryStep, ExitStep
  DEF IInv
<1>3. QED
  BY <1>1, <1>2, PTL DEF Spec

\* Nothing goes upstream for a request the gate did not accept from a real
\* listing, with the service enabled, under the requested or mapped id.
THEOREM NothingEscalates == Spec => []NoEscalation
<1>1. IInv => NoEscalation
  BY DEF IInv, VerdictInv, VerdictOf, NoEscalation, ForwardedId
<1>2. QED
  BY <1>1, Inductive, PTL

\* Every model_not_enabled answer is justified by a listing at least as new
\* as the request.
THEOREM RefusalsAreTrue == Spec => []RefusalWasTrue
<1>1. IInv => RefusalWasTrue
  BY DEF IInv, VerdictInv, VerdictOf, RefusalWasTrue
<1>2. QED
  BY <1>1, Inductive, PTL

\* Discovery lists exactly what the gate accepts on the same version.
THEOREM LockdownPointsAgree == Spec => []DiscoveryMatchesGate
<1>1. ASSUME IInv, NEW d \in Request, NEW r \in Request,
             answer[d] = "list", config.enabled,
             verdict[r] \in {"accept", "refuse"}, basis[d] = basis[r]
      PROVE  verdict[r] = "accept" <=> req[r].model \in listed[d]
  <2>1. listed[d] = Offered(catalogs[basis[r]])
    BY <1>1 DEF IInv, DiscoveryInv, DiscoveryOf
  <2>2. QED
    BY <1>1, <2>1 DEF IInv, VerdictInv, VerdictOf
<1>2. IInv => DiscoveryMatchesGate
  BY <1>1 DEF DiscoveryMatchesGate
<1>3. QED
  BY <1>2, Inductive, PTL

\* Discovery answers from a listing the upstream had during the request.
THEOREM DiscoveryStaysFresh == Spec => []DiscoveryIsFresh
<1>1. IInv => DiscoveryIsFresh
  BY DEF IInv, DiscoveryInv, DiscoveryOf, DiscoveryIsFresh
<1>2. QED
  BY <1>1, Inductive, PTL

\* The process exits only after answering an allowed /shutdown.
THEOREM ExitsAreAsked == Spec => []ExitWasAsked
<1>1. ASSUME NEW r \in Request, Dispatch(req[r]) = "shutdown"
      PROVE  ClassifyRoute(req[r]) = "Shutdown" /\ ShutdownAllowed(req[r].method)
  BY <1>1 DEF Dispatch
<1>2. IInv => ExitWasAsked
  BY <1>1 DEF IInv, ExitInv, ExitOf, ExitWasAsked, ShutdownAllowed
<1>3. QED
  BY <1>2, Inductive, PTL

\* The cached set is only ever replaced by what a newer listing offers.
THEOREM CacheStaysNewest == Spec => CacheNeverOlder
<1>1. ASSUME IInv, [Next]_vars PROVE cacheSeen' >= cacheSeen
  <2> USE <1>1 DEF IInv
  <2>1. ASSUME NEW r \in Request, GateReply(r) PROVE cacheSeen' >= cacheSeen
    BY <2>1 DEF TypeOK, ReplyInv, CacheInv, GateReply, Now
  <2>2. CASE ~\E r \in Request : GateReply(r)
    BY <2>2 DEF TypeOK, Next, Thread, Upstream, Rest, Publish, Arrive, HandleHealth,
       HandleShutdown, Exit, HandleForbidden, HandleDiscovery, ListReply,
       HandleResponses, GateHit, GateMiss, SendChat, ChatReply,
       StreamEnd, UpstreamLists, UpstreamChats, vars, history
  <2>3. QED
    BY <2>1, <2>2
<1>2. QED
  BY <1>1, Inductive, PTL DEF Spec, CacheNeverOlder

-----------------------------------------------------------------------------
(* The server implements GatePromise.                                      *)

\* What the promise calls `asked`.
Asked == [r \in Request |-> IF Asks(r) THEN req[r].model ELSE None]

\* A request's question stands once it has arrived.
LEMMA AskedStable ==
  ASSUME TypeOK, NEW r \in Request, Thread(r) \/ Upstream(r)
  PROVE  Asked' = Asked
<1>1. pc[r] # "idle" /\ pc'[r] # "idle"
  BY DEF TypeOK, Thread, Upstream, Handles, HandleHealth, HandleShutdown, Exit,
     HandleForbidden, HandleDiscovery, ListReply, HandleResponses, GateHit,
     GateMiss, GateReply, SendChat, ChatReply, StreamEnd, UpstreamLists,
     UpstreamChats, Finish
<1>2. \A q \in Request : Asks(q)' <=> Asks(q)
  BY <1>1, Frame, DispatchStable
<1>3. QED
  BY <1>2, Frame DEF Asked

\* The promise sees the gate's steps and the catalog's; the rest stutters.
LEMMA GateStep ==
  ASSUME IInv, [Next]_vars
  PROVE  [Promise!GNext]_(Promise!gvars)
<1> USE RelayAssumption DEF IInv, Promise!gvars
<1>1. CASE Publish
  <2>1. PICK l \in Listings : catalogs' = Append(catalogs, l)
    BY <1>1 DEF Publish
  <2>2. \A q \in Request : Asks(q)' <=> Asks(q)
    BY <1>1, DispatchStable DEF Publish
  <2>3. Asked' = Asked
    BY <1>1, <2>2 DEF Asked, Publish
  <2>4. Promise!GPublish
    BY <1>1, <2>1, <2>3 DEF Publish, history, Asked, Promise!GPublish,
       Promise!Listing, Listing, Promise!Capability, Capability
  <2>5. QED
    BY <2>4 DEF Promise!GNext
<1>2. ASSUME NEW r \in Request, Arrive(r) PROVE Promise!GArrive(r)
  <2>1. \A q \in Request \ {r} : Asks(q)' <=> Asks(q)
    BY <1>2, DispatchStable DEF TypeOK, Arrive
  <2>2. req'[r] \in Incoming /\ req'[r].model \in Model
    BY <1>2 DEF TypeOK, Arrive, RequestSpace
  <2>3. PICK m \in Model \cup {None} : m = IF Asks(r)' THEN req'[r].model ELSE None
    BY <2>2
  <2>4. Asked' = [Asked EXCEPT ![r] = m]
    BY <1>2, <2>1, <2>3 DEF Asked, TypeOK, Arrive
  <2>5. since[r] = 0 /\ since' = [since EXCEPT ![r] = Len(catalogs)]
    BY <1>2 DEF Arrive, ReplyInv, Now
  <2>6. UNCHANGED <<catalogs, verdict, cacheSeen>>
    BY <1>2 DEF Arrive
  <2>7. QED
    BY <2>3, <2>4, <2>5, <2>6 DEF Promise!GArrive, Asked
<1>3. ASSUME NEW r \in Request, GateHit(r) PROVE Promise!GAccept(r)
  <2>1. Asked' = Asked
    BY <1>3, AskedStable DEF Thread
  <2>2. Asked[r] = req[r].model /\ req[r].model \in Model /\ verdict[r] = "none"
    BY <1>3 DEF GateHit, VerdictInv, VerdictOf, Asked, TypeOK, RequestSpace
  <2>3. cacheSeen \in 1..Len(catalogs) /\ req[r].model \in Offered(catalogs[cacheSeen])
    BY <1>3 DEF TypeOK, CacheInv, CacheHas, GateHit, Now
  <2>4. verdict' = [verdict EXCEPT ![r] = "accept"] /\ catalogs' = catalogs
        /\ since' = since /\ cacheSeen' = cacheSeen
    BY <1>3 DEF GateHit
  <2>5. QED
    BY <2>1, <2>2, <2>3, <2>4 DEF Promise!GAccept, Asked, Promise!Offered, Offered, TypeOK
<1>4. ASSUME NEW r \in Request, GateReply(r)
      PROVE  Promise!GAccept(r) \/ Promise!GRefuse(r) \/ Promise!GError(r)
  <2>1. Asked' = Asked
    BY <1>4, AskedStable DEF Thread
  <2>2. Asked[r] = req[r].model /\ req[r].model \in Model /\ verdict[r] = "none"
    BY <1>4 DEF GateReply, VerdictInv, VerdictOf, Asked, TypeOK, RequestSpace
  <2>3. catalogs' = catalogs /\ since' = since
    BY <1>4 DEF GateReply
  <2>4. CASE reply[r].kind = "ok"
    <3> DEFINE v == reply[r].version
    <3>1. /\ v \in 1..Len(catalogs) /\ cacheSeen <= v /\ since[r] <= v
          /\ cacheSeen' = v
      BY <1>4, <2>4 DEF TypeOK, ReplyInv, GateReply, Now
    <3>2. \A m \in Offered(catalogs[v]) : ConfigAllows(m)
      BY DEF Offered, ConfigAllows
    <3>3. Promise!Offered(catalogs[v]) = Offered(catalogs[v])
      BY DEF Promise!Offered, Offered
    <3>4. CASE req[r].model \in Offered(catalogs[v])
      <4>1. verdict' = [verdict EXCEPT ![r] = "accept"]
        BY <1>4, <2>4, <3>2, <3>4 DEF GateReply
      <4>2. Promise!GAccept(r)
        BY <2>1, <2>2, <2>3, <3>1, <3>3, <3>4, <4>1 DEF Promise!GAccept, Asked
      <4>3. QED
        BY <4>2
    <3>5. CASE req[r].model \notin Offered(catalogs[v])
      <4>1. verdict' = [verdict EXCEPT ![r] = "refuse"]
        BY <1>4, <2>4, <3>5 DEF GateReply
      <4>2. Promise!GRefuse(r)
        BY <2>1, <2>2, <2>3, <3>1, <3>3, <3>5, <4>1 DEF Promise!GRefuse, Asked
      <4>3. QED
        BY <4>2
    <3>6. QED
      BY <3>4, <3>5
  <2>5. CASE reply[r].kind # "ok"
    <3>1. verdict' = [verdict EXCEPT ![r] = "error"] /\ cacheSeen' = cacheSeen
      BY <1>4, <2>5 DEF GateReply
    <3>2. Promise!GError(r)
      BY <2>1, <2>2, <2>3, <3>1 DEF Promise!GError, Asked
    <3>3. QED
      BY <3>2
  <2>6. QED
    BY <2>4, <2>5
<1>5. ASSUME NEW r \in Request, Thread(r) \/ Upstream(r), ~GateHit(r), ~GateReply(r)
      PROVE  UNCHANGED Promise!gvars
  <2>1. Asked' = Asked /\ catalogs' = catalogs /\ since' = since
    BY <1>5, AskedStable, Frame
  <2>2. verdict' = verdict /\ cacheSeen' = cacheSeen
    BY <1>5 DEF Thread, Upstream, HandleHealth, HandleShutdown, Exit,
       HandleForbidden, HandleDiscovery, ListReply, HandleResponses,
       GateMiss, SendChat, ChatReply, StreamEnd, UpstreamLists,
       UpstreamChats, history
  <2>3. QED
    BY <2>1, <2>2 DEF Asked
<1>6. CASE UNCHANGED vars
  <2>1. \A q \in Request : Asks(q)' <=> Asks(q)
    BY <1>6, DispatchStable DEF vars, state
  <2>2. QED
    BY <1>6, <2>1 DEF vars, state, history
<1>7. QED
  BY <1>1, <1>2, <1>3, <1>4, <1>5, <1>6 DEF Next, Rest, Promise!GNext

\* Every behaviour of the server, seen through its catalog, questions and
\* verdicts, is one GatePromise allows.
THEOREM ServerKeepsPromise == Spec => GatePromised
<1>1. Init => Promise!GInit
  BY RelayAssumption DEF Init, Promise!GInit, Asks, Promise!Listing, Listing, Promise!Capability, Capability
<1>2. QED
  BY <1>1, GateStep, Inductive, PTL DEF Spec, GatePromised, Promise!GSpec
=============================================================================
