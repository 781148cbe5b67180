# Prompt Cult proxy: TLA+ specifications and proofs

This directory holds the formal model of the Prompt Cult proxy family: the
shared core (`src/crates/proxy-core`) and the reference Mistral proxy
(`src/crates/mistral-proxy`), a local HTTP server that answers the OpenAI
Responses API, enforces an operator's model lockdown, and translates to and
from Mistral's chat completions. TLC checks every module on small instances;
TLAPS proves the safety of the server, the stream translator and its line
reader, the conversation, the startup and the key reader for every value of
their constants.
`PROJECT.json` lists the runs, the source lines behind each definition, one
faulty variant of the code per property, the hazards and the theorems.

## Inventory

| Component | State | Operations | Where it is hard |
|---|---|---|---|
| HTTP server and dispatch (`lib.rs`) | one thread per request, the process | `serve`, `handle`, `classify_route`, `/shutdown` | exit under requests in flight, order of the route tests |
| Request-time gate (`lib.rs`, `model_allowed`) | `allowed_models: Mutex<Option<HashSet>>` | hit, miss and refresh, failed refresh | a lock held over an untimed upstream call; a set that is stale when used |
| Discovery (`lib.rs`, `models_translate.rs`) | none of its own | `GET /service`, `GET /v1/models` | shares the fetch but not the cache with the gate; a second copy of the lockdown filter |
| Responses relay (`lib.rs`, `handle_responses`) | per request | checks, gate, mapping, chat call, answer | many ways to fail, in an order that matters |
| Upstream headers (`lib.rs`) | none | `build_upstream_headers`, `relay_response` | names in any case, repeated, or refused |
| Line reader (`translate_sse.rs`) | `line_buf`, `buf`, `done` | `Read::read`, `next_line` | reads of any size at both ends, a last line without newline |
| SSE translator (`translate_sse.rs`) | the rest of `MistralToOaiStream` | `process_line` and what it calls | an upstream that may send pieces in any order; numbering and indices that may never shift |
| Request and response translation (`translate_request.rs`) | none: the client resends its history | `oai_to_mistral`, `mistral_response_to_oai` | a reply passes both ways before the upstream sees it again |
| Model translation (`models_translate.rs`) | none | `translate_mistral_models`, `model_info_for`, `model_document_for` | two renderings that must agree with each other and with the gate |
| Configuration (`config.rs`) | `ResolvedConfig`, fixed at startup | `load_config`, `resolve`, `model_allowed` | hard errors instead of silent defaults; files edited while they are read |
| API key reader (`secrets.rs`) | a fixed buffer | `read_auth_header` | several sources, split reads, the buffer limit, wiping on every path, copies left behind |
| Startup (`run_main`) | the listener, the server info file | key, config, listener, info file, server | each step can fail after the others took effect; several processes share port and file |
| Process hardening, wire types, schemas | none | | |

How they interact: `serve` spawns a thread per request, which runs `handle`.
All threads share one `MistralProxy`; its only mutable state is the cached set
behind a mutex (the request counter serves the log only). The gate and
discovery both call `fetch_catalog`, a blocking `GET {upstream}/models`. An
accepted request is translated (`oai_to_mistral`), sent as a blocking
`POST {upstream}/chat/completions`, and answered through
`mistral_response_to_oai` or, for a stream, through `MistralToOaiStream`, which
the HTTP server reads as the response body. Configuration and key are fixed
before the first request.

What makes each correct: the server answers what it accepts; the gate forwards
nothing the operator or the upstream does not offer, and refuses nothing that
is offered; discovery lists exactly what the gate accepts; the translator
numbers and indexes its events without gap, shift or loss; the translations
keep a conversation as it was; lines and bytes pass whole, in order and without
delay; the key is the environment's or the first line of stdin, whole, or is
refused; a proxy that serves does so under the configuration it read, and the
info file leads to it.

## Modules

**`Catalog`** - listings, and the two copies of the lockdown filter: `Offered`
is `translate_mistral_models` with `allowed_ids`, `ConfigAllows` is
`ResolvedConfig::model_allowed`. Globs and overrides are the sets of ids they
match or disable.

**`Relay`** (EXTENDS `Catalog`) - the server. `pc[r]` says where the thread of
request `r` is; everything a thread does between two blocking calls is one
step, and it blocks on the cache lock (`gate`), on `GET /models` (`gate_fetch`
with the lock, `list_fetch` without), on the chat request (`chat`) and on its
client (`stream`). `Handle...` are the branches of `handle`; `GateHit`,
`GateMiss` and `GateReply` are `model_allowed`, with the lock taken and
released where the guard is. The upstream is external: `Publish` changes its
catalog, `UpstreamLists` and `UpstreamChats` answer a call some time before the
thread reads the answer, from the catalog of that moment. `since`, `basis`,
`verdict` and `cacheSeen` are history: no guard reads them. `exited` stops
every thread, wherever it is, as `std::process::exit` does.

**`GatePromise`** - the gate as its clients may see it: each verdict in one
step, against one version of the catalog; versions never go backwards; a
refusal uses a version at least as new as the request.

**`LineReader`** - the two ends of `MistralToOaiStream`. `stream` is all the
upstream will send, `got` how much was read; `ReadUpstream(n)` takes the next
`n` bytes into `line_buf`, `TakeLine` and `LastLine` cut a line off and process
it, `ServeBuffer` fills the slice the client offers. What a line is translated
to is any number of bytes, tagged with the line. Bytes keep what the decoding
depends on: newline, other white space, the two bytes of a longer character.

**`SseTranslator`** - what is done with each line. A variable for each field of
the struct, and `events`, everything written. One line is
one `ChunkLine`, `UsageLine` or `DoneLine`, followed by the steps of the loops
it runs: one `HandleToolCallDelta` per delta, `HandleFinish`, one
`CloseToolCall` per tool call in the order the `HashMap` gives. No line is read
in between, and none of these steps is optional. Lines that are not data, not
JSON or empty change nothing and are left out.

**`ChatStream`** (EXTENDS `SseTranslator`) - the same translator under an
upstream that keeps to the chat stream: calls numbered from 0, introduced with
id and name, one finish reason, then only usage and `[DONE]`. It may break off
anywhere. `said` records what the upstream has said, so that `StatusAndUsage`
compares the answer with the upstream's words and not with the translator's
copy. **`ResponseStream`** is what a client may rely on; `ChatStream` reads
the client's view off the emitted events and implements it.

**`Conversation`** - `translate_request.rs` over turns. The proxy keeps
nothing, so the state is the client's history, and each request converts all of
it. `ConvertInput` is the loop of `convert_input_to_messages`, `Turn` one turn
of it: `AddSystem` and `AddItem` are what a turn does to the system text and to
the messages. `OutputItems` the loop of `mistral_response_to_oai`,
`StreamedItems` the output `emit_completed` gives for the same reply when it
was streamed. A tool output is a string or a list of parts; `OutputText` is
what `as_str().unwrap_or("")` makes of it, nothing in the second case. Joining
texts keeps the pieces and their order, so a text is a sequence of pieces.

**`KeyReader`** - `read_auth_header`: environment, then one line of stdin into
a buffer with room for `Room` bytes. A read returns any number of bytes that
are there and fit. The buffer's content is the first `got` bytes of the input,
of which `total` count. The environment variable may also hold a value that is
not Unicode, which `std::env::var` refuses and the code takes for an absent
one. `held` says where bytes of a key are, in use or dropped without being
wiped: the string `std::env::var` returns, the read buffer, the vector a header
is built in, the header value.

**`Configuration`** - the settings file, what `load_config` and `resolve` make
of it, and what the rest asks of the result. `Malformed` stands for whatever
JSON5 refuses, `BadGlob` for a pattern that does not compile; `Matching` says
which glob matches which model.

**`Startup`** (EXTENDS `Configuration`) - `run_main`, in every process an
operator starts. `pc[p]` is the step a process is at, one action per step, each
with its failure; `Killed` ends a process anywhere. A process whose key has yet
to come from stdin is at `stdin`, and leaves it by `StdinSettles`, a step of
whoever holds the other end. `owner` is who holds each port, `info` the bytes
of the server info file with their writer, `disk` and `texts` the files the
operator may `Edit` at any time. The instructions file of an override is read
when `resolve` comes to it, the settings file once.

**`Discovery`**, **`Headers`** - `models_translate.rs` and the header functions
of `lib.rs`, as operators: the caller's headers go through the loop they go
through in the code, filters are `Among` of **`Selection`**; `Credential`
are the names, besides `authorization`, that carry a credential. **`Setup`**
(EXTENDS `Startup`, `Discovery`, `Headers`) asks of every process that serves
what its operator's file makes of listings and headers, and compares discovery
with the gate of `Catalog`: the parameters `Excluded` and `Disabled` of `Relay`
are those of a configuration `Startup` has loaded.

**`RelayProofs`**, **`SseProofs`**, **`ChatProofs`**, **`LineProofs`**,
**`StartupProofs`**, **`KeyProofs`**, **`ConversationProofs`** - the theorems;
**`LoopProofs`** - lemmas about loops and `Among`, for `StartupProofs` and
`ConversationProofs`. The `MC...` modules and the
`.cfg` files give the constants their small values.

Definitions named `...` with a comment "Faulty variant of" are plausible bugs
in the code. They are used by no specification: each shows that a property
would notice.

## Runs

| Run | Bounds | What it shows |
|---|---|---|
| `relay` | 2 requests of 12 shapes, 3 configurations, 4 models (plain, mapped, excluded, disabled), a catalog that changes once | what is forwarded is enabled, accepted, offered and rightly named (`NoEscalation`); a refusal is true of a listing newer than the request (`RefusalWasTrue`); listings are fresh (`DiscoveryIsFresh`) and agree with the gate (`DiscoveryMatchesGate`); the cached set never goes back (`CacheNeverOlder`); the gate implements `GatePromise` (`GatePromised`); every request is answered (`EveryRequestAnswered`) |
| `sse_any` | any 5 lines out of 9 chunks and `[DONE]` | numbering, indices and framing hold whatever the upstream sends; a call is announced once and keeps its id (`AnnouncedOnce`); what seals the message text or a call repeats all that was streamed of it (`SealedIsStreamed`) |
| `sse_chat` | well-formed streams of up to 6 lines, 2 tool calls | items are opened under the id they keep and all closed at completion (`ItemsBracketed`); each is sealed with its own deltas (`ItemsSealed`); status and usage are right, the client's view implements `ResponseStream` |
| `lines` | every stream of up to 4 bytes over 5 kinds of byte, upstream reads of up to 3, client reads of 1 or 3, lines that become 0 or 2 bytes | lines are processed as sent (`LinesAsSent`), bytes arrive in order (`BytesInOrder`) and all before the end (`EndIsEnd`), nothing waits for more of the upstream (`NothingHeldBack`), the response ends (`ResponseEnds`) |
| `conversation` | histories of up to 6 items and a last reply, streamed or not | conversations and system text only grow, no text the client wrote in a message or a string output is lost (`NoTextLost`), outputs follow their calls |
| `key` | 5 kinds of environment value, every stdin of up to 4 bytes over 4 kinds of byte, room for 3 | an environment value that can be read and is not blank comes first, else the key is the first line however it is split (`KeySource`); refusals have their cause; what the reader wrote is wiped (`BuffersWiped`) |
| `startup` | 2 processes, 2 ports, 4 ways to start them, 9 settings files, one edit, info lines of 2 bytes and 1; 4 listings of up to 4 models, 5 header lists | the info file of a serving process is whole and its own (`InfoNamesServer`) and never leads elsewhere (`InfoReachesWriter`); the file is in force as read (`ConfigInForce`); discovery, documents and gate agree (`ShapesAgree`); the proxy's own headers go up once and end-to-end headers pass (`HeadersPass`); every start that has its key ends (`StartEnds`) |
| `relay_stale`, `relay_raw`, `sse_two_messages`, `key_copies`, `headers_credentials` | as above, 3 catalog versions for the first two | five places where a document or a test says otherwise (below) |

Why the bounds are enough. Two requests make every race at the gate that has
one holder and one waiter, every overlap of two fetches, and a discovery beside
a relayed request; one change of the catalog makes the slower of two fetches
the older one, retires a model behind the cache or brings one that a cached set
has not. More waiters, and a catalog that changes back, are left to the proofs,
which hold for any number of requests and versions; `relay_stale` and
`relay_raw` have three versions. Five lines reach a call before text, text
after a finish reason, two deltas of one call around another call, a repeated
`[DONE]` and usage at either side of it. Four bytes in reads of three split a
character, a newline from its line and a last line from its end in every way;
lines longer than a client's read, and lines that become nothing, both occur.
Two processes are an old and a new server, or a winner and a loser of one port;
an info line longer than the other's leaves a rest if the file is not emptied.
The four ways to start cover both on one port, both anywhere, every source of
the directory and of the URL, and none. Four bytes with room for three reach a
line that fills the buffer exactly, one byte more, a newline as its last byte,
and bytes after the newline.

Where the documentation says otherwise:

- `relay_stale`: the gate accepts from the cached set, so a model retired
  upstream stays accepted until some miss refreshes the set; `lib.rs:407-408`
  and section 5 of `proxy-spec.md` speak of the current catalog. What the code
  does guarantee is `GatePromise`: the set is one the upstream had, and the
  newest one any verdict used.
- `relay_raw`: an upstream answer other than 200 is relayed with its body, for
  `/v1/responses` and `/v1/models`; sections 5 and 6 of `proxy-spec.md` exclude
  it.
- `sse_two_messages`: text after a finish reason opens a second message item
  at index 0, which the test at `translate_sse.rs:685` excludes. `text_acc` is
  never cleared, so that item's done events repeat the first one's text too:
  `SealedIsStreamed` therefore compares a message with the text of the whole
  response, and only `ItemsSealed`, for streams that end with their finish
  reason, compares item by item.
- `key_copies`: a key from the environment leaves the string it was read into
  and the vector the header was built in behind, unwiped; invariant 1 of
  `hardening.md` and the head of `secrets.rs` promise one copy. What holds is
  `BuffersWiped`: the read buffer is wiped on every path, and the vector when
  the key is refused.
- `headers_credentials`: of a caller's credentials only `authorization` is
  dropped; `x-api-key`, `cookie` and the like go upstream, and so do `trailer`
  and `upgrade`, against `proxy-spec.md:175-176` and the comment at
  `lib.rs:628-631`. `HeadersPass` says nothing of these headers.
- An environment value that is not Unicode is passed over for stdin, while
  `secrets.rs:35-36` says that a non-empty value short-circuits the stdin path.
  `KeySource` states the fallback, in the run `key`.

Differences too small for a run, met on the way: section 6 of `proxy-spec.md`
promises at least one inference service, while a service switched off lists
none; an override of a model that does not exist is ignored as the comment in
`config.rs` says, unless its instructions file is missing, which stops the
start; a read may bring bytes after the newline of a key, which are then wiped
with the rest, though `secrets.rs:134-135` says they are never even buffered; a
tool output that is not a string is sent as an empty text, and `NoTextLost`
states it so; `GET /v1/models` shows a context window as it is where
`GET /service` clamps it to 32 bits (`ShapesAgree` allows exactly that).

## Fairness

Three runs assume any. `relay`: weak fairness of each thread: the operating
system runs a thread that can run. Weak fairness of the upstream: it answers or
fails each call some time; the client has no timeout (`lib.rs:237-241`), so the
code guarantees nothing without that. No fairness of `StreamEnd` (a stream may
last), of `Arrive` or of `Publish`. The mutex is not assumed fair: a waiting
thread has a turn only while the lock stays free, and the finitely many
requests each hold it once. `lines`: weak fairness of the reading thread, of an
upstream that sends what it has, and of a client that keeps reading; none of
`UpstreamFails` and `ClientLeaves`. `startup`: weak fairness of each started
process; none of `Start`, `Killed`, `Edit` and `StdinSettles`. A start without
a key in the environment blocks in `read(2)` until the other end of stdin
writes a line or closes it, and nothing in the code bounds that: `StartEnds`
begins where the key, the end of stdin or a read error is at hand. After that
the code opens regular files, binds a socket and writes a file, none of which
waits for another proxy or for the operator.

## Proofs

`RelayProofs` proves, for any sets of requests, models, listings and
configurations: every invariant of `relay`, `CacheNeverOlder` and the
refinement `GatePromised`; also that the process exits only after an allowed
`/shutdown` was answered. None of these is inductive alone. `RefusalWasTrue`
needs that a reply still in flight is no older than its request and, for the
refinement, no older than the cached set (`ReplyInv`); that needs that only the
holder of the lock fetches for the gate (`LockInv`) and that the set is what
its recorded version offers (`CacheInv`); `VerdictInv`, `DiscoveryInv` and
`ExitInv` tie each thread's place to what it was told. `IInv` is their
conjunction. Each conjunct has a lemma with one case per group of actions that
can disturb it and a `Frame` lemma for the rest. The refinement maps each step
to a step of `GatePromise` or a stutter: `Publish` and `Arrive` to theirs,
`GateHit` and `GateReply` to a verdict, everything else to nothing.

`SseProofs` proves, for any chunks in any order and number: `TypeOK`,
`IndicesNeverShift`, `AnnouncedOnce`, `FramedOnce` and `SequenceDense`. An
index could shift if a tool call were written about before the message item
took index 0; `MessageFirst` says that it is not: deltas and calls to close
imply `msg_id`, and `msg_id` an opened response. `GoodIn` states the properties
of a sequence of events, with which calls the call states say are announced,
and lemmas say what appending keeps of it: events that open, announce and
complete nothing (`Harmless`), the opening, an announcement, the completion.
`NumberedIn` says the same of the numbers: those below `seq`, in order. Each
action is a chain of these.

Its second half proves `SealedIsStreamed`. The invariant `TextInv` says more
than the property: not only when an item is sealed but at every moment,
`text_acc` and the arguments kept of each call are the pieces of the deltas
emitted for it, in order (`AccumulatedIn`). A seal then repeats what is kept,
and later deltas do not change what it repeated (`RepeatedIn`). That a call
keeps its id needs `IdInv`: every event about a call carries the id its state
holds.

`ChatProofs` proves, for any number of calls and any well-formed stream, broken
off anywhere: `ItemsBracketed`, `ItemsSealed`, `StatusAndUsage` and
`StreamKept`, the refinement of `ResponseStream`. `ChatInv` adds to `TextInv`
how the translator follows the upstream (`Progress`: finish reason, usage and
end are those of `said`; `Introduced`: every known call is announced, and what
is left of a chunk adds to known calls or introduces the next), what the
completed response repeats (`Completion`), and that the events of every item
tell the story its state says, from its opening to its seal (`Told`). The
refinement follows step by step: a chunk, a delta, a finish and a close move
the view of some items forward, `[DONE]` completes, every other step stutters.

`LineProofs` proves, for any stream and any sizes of reads, every safety
property of `lines`, `NothingHeldBack` among them. `Held` is what they rest on:
`line_buf` is the part of the stream between the last line and what was read.
`NoTornText`, that a character is replaced only where the upstream sent half of
one, is a corollary of `LinesAsSent`, because a line ends at a newline or at
the end, and so never inside a character; no run checks it separately.

`StartupProofs` proves, for any number of processes, ports, directories and
edits: `TypeOK`, `InfoNamesServer`, `InfoReachesWriter` and `ConfigInForce`.
`PortsHeld` says that a port is held from `bind` to the end, `WritersDone` that
whoever wrote into the info file is done writing, `InfoLocked` that with one
port its holder has the file for itself; `Resolving` follows `resolve` through
its loop: what is done agrees with the file, what is left is untouched.
`ShapesAgree` and `HeadersPass` follow from `ConfigInForce` and from what the
operators compute for a listing or a list of headers of any length:
`SurvivorsAre` that the models listed are those the gate accepts, `LoopKeeps`
that the loop over the headers keeps every header that is neither replaced nor
recomputed, and both in their order.

`KeyProofs` proves, for any inputs and any buffer size, that the buffer is not
overrun, that the environment comes first and an accepted key from stdin is the
first line, that a refusal has its cause and that what the reader wrote is
wiped. The
strengthening is `Progress`: until a newline comes the bytes read are the bytes
that count and none is a newline; then exactly those up to the first newline
count.

`ConversationProofs` proves, for any texts, calls, replies and additions, every
property of `conversation`. The loop is a recursive function; a lemma shows
that it exists and that one more item is one more turn (`ConvertMore`), by
induction on numbers, which needs no operator parameter: `Induct` takes a set,
and so does `SeqInduct`, for sequences.
The invariant then compares the last request with what would be sent now: while
the upstream works they are equal (`Asked`); afterwards what was sent and said
is the beginning of what would be sent (`Kept`), because a reply handed over as
items, in either form, turns back into the one message it was
(`ReplyComesBack`: text first, then every call joins it); and every call the
client may answer stands in an assistant message (`Paired`), without which
`OutputsFollowCalls` is not inductive. `NoTextLost` is `Balance`: each turn
adds to the messages or the system text each piece of its item as often as it
stands there, and a call that joins a message changes no text.

The assumptions are the named ASSUMEs of the modules: constants have their
types, marks such as `None` or `Absent` are not values of anything else, the
mapping does not map to `None`, `\n` and `\r` are no key bytes, tool-call
deltas come in a `tool_calls` array, credential headers are none of those the
proxy handles by name, a client makes no tool calls of its own and its messages
have the roles of the Responses API (one with role `tool` would be passed on as
it is). TLC evaluates them in every run.

Model-checked only: the liveness properties `EveryRequestAnswered`, `StartEnds`
and `ResponseEnds`, as fairness is beyond the prover.

## Not modelled

- Process hardening and mlock: best-effort system calls whose results are
  ignored. Logging.
- Schemas and their conformance test, wire names and serialisation: data shapes
  without behaviour. Of the value objects, the fields every model has alike.
- JSON5 and glob syntax: a file or pattern is well formed or not.
- In `Conversation`: tool definitions (`convert_tools`), `max_tokens`, usage
  and status of the JSON answer, which are copied field by field. The upstream
  answers only a conversation ending with a user's turn or a tool's output;
  after two assistant turns in a row a tool-call reply would be merged into the
  message before it. A streamed reply is taken from `response.completed`, whose
  calls are sorted; a client that collected `output_item.done` events instead
  would get parallel calls in the order of a `HashMap`.
- A timeout towards the upstream: the code has none, and an upstream that never
  answers a fetch holds the cache lock; `EveryRequestAnswered` assumes answers.
- A poisoned cache mutex: nothing in the code read panics while holding it.
- Overflow of `idx + 1` and of token sums: it takes upstream numbers near 2^64.

## Plan

Done: `Catalog`, `GatePromise`, `Relay`, `RelayProofs`; `SseTranslator`,
`ResponseStream`, `ChatStream`, `SseProofs`, `ChatProofs`; `LineReader`,
`LineProofs`; `Conversation`, `ConversationProofs`; `Configuration`, `Startup`,
`StartupProofs`; `Selection`, `Discovery`, `Headers`, `Setup`; `LoopProofs`;
`KeyReader`, `KeyProofs`.

What could follow: tool definitions and the other copied fields of
`Conversation`; the abstract gate of `GatePromise` instantiated with the sets
of a loaded configuration, so that `Setup` and `Relay` are one theorem.
