------------------------------ MODULE Headers ------------------------------
(***************************************************************************)
(* The headers of a chat request sent upstream, and of an upstream answer  *)
(* passed back.  A header is the name it is spelled with, and a value that *)
(* is usable or not; a HeaderMap is every name's values in order.          *)
(***************************************************************************)
EXTENDS Selection

CONSTANTS
  Name,         \* header names in lower case
  Spelling,     \* ways to write them
  Lower,        \* Spelling -> Name
  Value,        \* header values HeaderValue accepts
  BadValue,     \* stands for a name or value it refuses
  Credential,   \* names, besides authorization, that carry a credential
  HeaderLists   \* lists of headers considered

Header == [field : Spelling, value : Value \cup {BadValue}]

Replaced == {"authorization", "host"}

\* What describes the caller's body, or its connection.
Recomputed == {"content-length", "content-type", "transfer-encoding", "connection"}

\* What relay_response does not pass back.
HopByHop == {"content-length", "transfer-encoding", "connection", "trailer", "upgrade"}

ASSUME HeadersAssumption ==
  /\ Replaced \cup Recomputed \cup HopByHop \subseteq Name
  /\ Credential \subseteq Name \ (Replaced \cup Recomputed \cup HopByHop)
  /\ Lower \in [Spelling -> Name]
  /\ BadValue \notin Value
  /\ HeaderLists \subseteq Seq(Header)

\* Faulty variant of Forwarded: names are compared as they are spelled.
ForwardedAsSpelled(h) ==
  h.field \notin Replaced \cup Recomputed /\ h.value # BadValue

\* Whether a caller's header goes on.
Forwarded(h) ==
  Lower[h.field] \notin Replaced \cup Recomputed /\ h.value # BadValue

\* HeaderMap::append and HeaderMap::insert.
HeaderAppend(headers, n, v) == [headers EXCEPT ![n] = Append(@, v)]
HeaderInsert(headers, n, v) == [headers EXCEPT ![n] = <<v>>]

\* The caller's part of the map: the loop of build_upstream_headers.
CallerHeaders(caller) ==
  LET headers[k \in 0..Len(caller)] ==
        IF k = 0 THEN [n \in Name |-> <<>>]
        ELSE IF Forwarded(caller[k])
               THEN HeaderAppend(headers[k - 1], Lower[caller[k].field], caller[k].value)
               ELSE headers[k - 1]
  IN headers[Len(caller)]

\* build_upstream_headers.
UpstreamHeaders(auth, host, caller) ==
  HeaderInsert(HeaderInsert(CallerHeaders(caller), "authorization", auth), "host", host)

\* relay_response: upstream headers come with lower-case names.
RelayedHeaders(upstream) ==
  Among(upstream, {h \in Header : Lower[h.field] \notin HopByHop /\ h.value # BadValue})
=============================================================================
