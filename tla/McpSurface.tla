----------------------------- MODULE McpSurface -----------------------------
(***************************************************************************)
(* The MCP surface: mcp/config.py, mcp/auth.py, mcp/tools.py,              *)
(* mcp/capability_tools.py, mcp/resources.py, mcp/server.py, and the       *)
(* service behind it (agentic/data_service.py, services/context.py, the    *)
(* quarantine read of services/governance.py).  Texts are members of a small set in  *)
(* which "" stands for an absent or empty text and "padded" for one with   *)
(* blanks around it; a string value is its length, a token its claims.     *)
(***************************************************************************)
EXTENDS Naturals, Sequences, FiniteSets, SequencesExt, Autonomy

CONSTANTS Hard,          \* HARD_MAX_*: [page, rows, filters, length]
          MaxPort,       \* 65535
          DefaultLimit   \* the limit of a query that names none: 100

Absent == [absent |-> TRUE]
Override == "certification_override"
MCP_SCOPES == {"models:read", "contracts:read", "lineage:read", "query:execute"}

------------------------------------------------------------------------------
(* Startup configuration. *)
_text(value) == value \notin {"", "padded"}
_closed(mapping, allowed) == mapping # Absent /\ DOMAIN mapping \subseteq allowed
ValidLimits(limits) == \A f \in DOMAIN limits : limits[f] \in 1..Hard[f]

_scopes(value) ==
    /\ value # <<>> /\ Cardinality(Range(value)) = Len(value)
    /\ Range(value) \subseteq MCP_SCOPES

_is_loopback(host) == host \in {"localhost", "127.0.0.1"}
_parse_bind(bind) == _text(bind.host) /\ bind.port \in 1..MaxPort
_parse_service(service) == service # Absent /\ _text(service.factory) /\ ValidLimits(service.limits)
_parse_stdio(stdio) ==
    /\ _closed(stdio, {"subject", "consumer_class", "scopes"})
    /\ _text(stdio.subject) /\ _text(stdio.consumer_class) /\ _scopes(stdio.scopes)
_parse_http(auth) ==
    /\ _closed(auth, {"verifier_factory", "audience", "issuer", "resource", "required_scopes"})
    /\ _text(auth.verifier_factory) /\ _text(auth.audience) /\ _text(auth.issuer) /\ _text(auth.resource)
    /\ _scopes(auth.required_scopes)

load_mcp_config(raw, transport) ==
    /\ raw.transport = transport
    /\ _parse_bind(raw.bind) /\ _parse_service(raw.service)
    /\ IF transport = "stdio"
       THEN raw.http = Absent /\ _parse_stdio(raw.stdio) /\ _is_loopback(raw.bind.host)
       ELSE raw.stdio = Absent /\ _parse_http(raw.http)

------------------------------------------------------------------------------
(* Contexts: a provider is built once, and asked for every request. *)
_validated_scopes(scopes, required, allowEmpty) ==
    /\ "" \notin scopes /\ "padded" \notin scopes
    /\ scopes # {} \/ allowEmpty
    /\ Override \notin scopes
    /\ required \subseteq scopes

create_stdio_context_provider(stdio) ==
    _validated_scopes(Range(stdio.scopes), {}, FALSE) /\ _text(stdio.subject) /\ _text(stdio.consumer_class)
create_http_context_provider(auth) ==
    /\ _text(auth.audience) /\ _text(auth.issuer) /\ _text(auth.resource)
    /\ _validated_scopes(Range(auth.required_scopes), {}, TRUE)

\* One authorization header whose second word is a token.
_bearer_token(headers) == Len(headers) = 1 /\ headers[1] = "bearer token"
_claim_values(values) == values # {} /\ \A v \in values : _text(v)

Authenticated(auth, headers, claims, now) ==
    /\ _bearer_token(headers)
    /\ _text(claims.subject) /\ _text(claims.consumer_class) /\ _text(claims.issuer)
    /\ claims.issuer = auth.issuer
    /\ _claim_values(claims.audience)
    /\ claims.resource = {} \/ _claim_values(claims.resource)
    /\ auth.audience \in claims.audience
    /\ auth.resource \in claims.audience \union claims.resource
    /\ claims.expires > now
    /\ _validated_scopes(claims.scopes, Range(auth.required_scopes), FALSE)

\* RequestContext.__post_init__: what a context must look like to exist.
ValidContext(ctx) == ctx.subject # "" /\ "" \notin ctx.scopes /\ ctx.consumer_class # ""

\* The context of one request: of the static authority, of the token, or none.
context_provider(config, headers, claims, now) ==
    IF config.transport = "stdio"
    THEN [subject |-> config.stdio.subject, consumer_class |-> config.stdio.consumer_class,
          scopes |-> Range(config.stdio.scopes)]
    ELSE IF Authenticated(config.http, headers, claims, now)
         THEN [subject |-> claims.subject, consumer_class |-> claims.consumer_class, scopes |-> claims.scopes]
         ELSE Absent

\* What the loader accepts can serve: the provider is built, every request it
\* authenticates has a context, and no context outlives its token, takes its
\* scopes from the other transport or carries the certification override.
AcceptedConfigServes(config, transport, headers, claims, now) ==
    load_mcp_config(config, transport) =>
        /\ IF transport = "stdio" THEN create_stdio_context_provider(config.stdio)
                                  ELSE create_http_context_provider(config.http)
        /\ LET ctx == context_provider(config, headers, claims, now)
           IN  ctx # Absent => /\ ValidContext(ctx)
                               /\ Override \notin ctx.scopes
                               /\ transport = "stdio" => ctx.scopes \subseteq MCP_SCOPES
                               /\ transport = "http" => /\ now < claims.expires
                                                        /\ Range(config.http.required_scopes) \subseteq ctx.scopes

------------------------------------------------------------------------------
(* The query tool.  A filter is [operator, given, list, lengths]: whether a *)
(* value was given, whether it is a list, and the lengths of its strings.   *)
build_input_schema(limits, args) ==
    /\ Len(args.metrics) <= limits.filters /\ Len(args.group_by) <= limits.filters
    /\ Len(args.filters) <= limits.filters
    /\ \A f \in Range(args.filters) : f.given => /\ \A n \in Range(f.lengths) : n <= limits.length
                                                 /\ Len(f.lengths) <= limits.filters
    /\ args.limit # 0 => args.limit <= limits.rows

_name_list(names, limits) == IF Len(names) > limits.filters THEN "limit_exceeded"
                             ELSE IF "" \in Range(names) THEN "invalid_request" ELSE "ok"
_filter_scalar(n) == n <= Hard.length
OneFilter(f) ==
    IF f.operator \in {"is_null", "is_not_null"}
    THEN IF f.given THEN "invalid_request" ELSE "ok"
    ELSE IF ~f.given THEN "invalid_request"
         ELSE IF f.operator = "in" /\ (~f.list \/ Len(f.lengths) > Hard.filters) THEN "limit_exceeded"
         ELSE IF f.operator # "in" /\ f.list THEN "invalid_request"
         ELSE IF \A n \in Range(f.lengths) : _filter_scalar(n) THEN "ok" ELSE "limit_exceeded"

\* The first refusal among verdicts, in the order of the code.
FirstRefusal(verdicts) ==
    LET faults == {i \in DOMAIN verdicts : verdicts[i] # "ok"} IN IF faults = {} THEN "ok" ELSE verdicts[Min(faults)]
_filters(filters, limits) ==
    IF Len(filters) > limits.filters THEN "limit_exceeded"
    ELSE FirstRefusal([i \in DOMAIN filters |-> OneFilter(filters[i])])
LimitOf(args) == IF args.limit = 0 THEN DefaultLimit ELSE args.limit

_parse_arguments(args, limits) ==
    FirstRefusal(<<_name_list(args.metrics, limits), _name_list(args.group_by, limits),
                   _filters(args.filters, limits),
                   IF LimitOf(args) \in 1..limits.rows THEN "ok" ELSE "limit_exceeded">>)

_validate_filter_value(f, limits) == \A n \in Range(f.lengths) : n <= limits.length

_validate_query(args, limits) ==
    IF \/ Len(args.filters) > limits.filters
       \/ \E f \in Range(args.filters) : f.given /\ ~_validate_filter_value(f, limits)
    THEN "limit_exceeded" ELSE "ok"

\* MCPTools.call and AgentReadyDataService.query, up to the engine.
call(ctx, args, limits) ==
    FirstRefusal(<<_parse_arguments(args, limits),
                   IF "query:execute" \in ctx.scopes THEN "ok" ELSE "scope_denied",
                   IF LimitOf(args) \in 1..limits.rows THEN "ok" ELSE "limit_exceeded",
                   _validate_query(args, limits)>>)

\* The schema a client plans against tells the truth about limits: a request
\* that satisfies it and names its limit is never refused for a limit, unless
\* "in" comes without a list; and whatever is served is within the bounds of
\* this service, not only under the hard ceilings.
AdvertisedBoundsHold(ctx, args, limits) ==
    /\ build_input_schema(limits, args) /\ args.limit # 0
       /\ (\A f \in Range(args.filters) : f.operator = "in" => f.list)
       => call(ctx, args, limits) # "limit_exceeded"
    /\ call(ctx, args, limits) = "ok" =>
          /\ LimitOf(args) <= limits.rows
          /\ \A f \in Range(args.filters) : f.given => \A n \in Range(f.lengths) : n <= limits.length

\* Rows of an answer: one more than asked for is fetched, to tell a cut.
Bounded(result, limit) ==
    LET fetched == SubSeq(result, 1, IF Len(result) < limit + 1 THEN Len(result) ELSE limit + 1)
        kept    == SubSeq(fetched, 1, IF Len(fetched) < limit THEN Len(fetched) ELSE limit)
    IN  [rows |-> kept, truncated |-> Len(fetched) > limit]
read_quarantine(result, limit) == Bounded(result, IF limit < Hard.page THEN limit ELSE Hard.page)

\* An answer is the whole result unless it says that it was cut.
TruncationIsTold(result, limit) ==
    \A answer \in {Bounded(result, limit), read_quarantine(result, limit)} :
        /\ answer.truncated <=> answer.rows # result
        /\ IsPrefix(answer.rows, result)

------------------------------------------------------------------------------
(* Capability tools.  A registered capability is [id, name, broken, mode,   *)
(* reserved, scopes, approval]: name is its tool name (distinct ids may     *)
(* share one), reserved tells whether its schema names a server-only field. *)
_effective_mode(c, configured) ==
    LET mode == IF configured = "none" THEN c.approval ELSE resolve_autonomy_mode(c.approval, configured)
    IN  IF c.mode # "write" \/ c.reserved \/ mode \notin {"SHADOW", "SUPERVISED"} THEN "none" ELSE mode
_has_required_scopes(ctx, c) == c.scopes \subseteq ctx.scopes

_is_visible(ctx, c, configured) == _effective_mode(c, configured) # "none" /\ _has_required_scopes(ctx, c)

Visible(ctx, registry, configured) == {c \in registry : ~c.broken /\ _is_visible(ctx, c, configured)}
list_tools(ctx, registry, configured) ==
    LET seen == Visible(ctx, registry, configured)
    IN  IF \E c, d \in seen : c # d /\ c.name = d.name THEN Absent
        ELSE [names |-> {c.name : c \in seen} \union (IF "query:execute" \in ctx.scopes THEN {"query"} ELSE {})]

_visible_definition(ctx, name, registry, configured) ==
    LET matches == {c \in registry : /\ c.name = name /\ ~c.broken
                                     /\ _effective_mode(c, configured) # "none" /\ _has_required_scopes(ctx, c)}
    IN  IF Cardinality(matches) = 1 THEN CHOOSE c \in matches : TRUE ELSE Absent

\* call_tool: the query tool's name never reaches the capabilities.
call_tool(ctx, name, registry, configured) ==
    IF name = "query" THEN IF "query:execute" \in ctx.scopes THEN [tool |-> "query"] ELSE Absent
    ELSE LET c == _visible_definition(ctx, name, registry, configured)
         IN  IF c = Absent THEN Absent ELSE [tool |-> c.id, mode |-> _effective_mode(c, configured)]

\* Discovery and dispatch, which filter the registry separately, agree: the
\* tools a caller is shown are those it can call, each name is one capability,
\* and none runs without its scopes or without a human in the loop.
ListedToolsAreServed(ctx, registry, configured, names) ==
    /\ list_tools(ctx, registry, configured) # Absent =>
          list_tools(ctx, registry, configured).names
              = {n \in names : call_tool(ctx, n, registry, configured) # Absent}
    /\ \A c \in registry : \A n \in names :
          LET served == call_tool(ctx, n, registry, configured)
          IN  served # Absent /\ served.tool = c.id => c.scopes \subseteq ctx.scopes /\ served.mode # "GUARDED"

------------------------------------------------------------------------------
(* Resources: what is advertised, and what each read requires. *)
RESOURCE_TEMPLATES == [catalog |-> "models:read", model |-> "models:read", contract |-> "contracts:read",
                       certification |-> "contracts:read", lineage |-> "lineage:read"]
_visible(ctx) == {r \in DOMAIN RESOURCE_TEMPLATES : RESOURCE_TEMPLATES[r] \in ctx.scopes}
require_scope(ctx, scope) == scope \in ctx.scopes

ReadScope(resource) == CASE resource \in {"catalog", "model"} -> "models:read"
                         [] resource \in {"contract", "certification"} -> "contracts:read"
                         [] resource = "lineage" -> "lineage:read"

\* A resource read: malformed addresses first, then the scope, then the store.
_read(ctx, uri, stored) ==
    IF uri.malformed \/ (uri.query /\ uri.resource # "catalog") THEN "invalid_request"
    ELSE IF ~require_scope(ctx, ReadScope(uri.resource)) THEN "scope_denied"
    ELSE IF ~stored.configured THEN "resource_unavailable"
    ELSE IF ~stored.found THEN "resource_not_found" ELSE "ok"

\* The advertised resources are the readable ones.
DiscoveryIsEnforced(ctx, uri, stored) ==
    ~uri.malformed /\ ~uri.query =>
        (uri.resource \in _visible(ctx) <=> _read(ctx, uri, stored) # "scope_denied")

------------------------------------------------------------------------------
(* Pages of the catalogue.  A cursor names the last key of its page and the *)
(* catalogue it was cut from (the fingerprint of the sorted keys).          *)
_encode_cursor(after, keys) == [after |-> after, catalog |-> keys]

\* Mutant of _decode_cursor: a cursor of another catalogue is followed.
DecodeAnyCatalog(cursor, keys) ==
    IF \E i \in DOMAIN keys : keys[i] = cursor.after /\ i < Len(keys)
    THEN (CHOOSE i \in DOMAIN keys : keys[i] = cursor.after) + 1 ELSE 0

_decode_cursor(cursor, keys) ==
    IF cursor.catalog = keys /\ \E i \in DOMAIN keys : keys[i] = cursor.after /\ i < Len(keys)
    THEN (CHOOSE i \in DOMAIN keys : keys[i] = cursor.after) + 1 ELSE 0

list_models(cursor, keys, limit) ==
    LET start == IF cursor = Absent THEN 1 ELSE _decode_cursor(cursor, keys)
        end   == IF start + limit - 1 < Len(keys) THEN start + limit - 1 ELSE Len(keys)
    IN  IF start = 0 THEN [items |-> <<>>, next |-> Absent, of |-> keys, ok |-> FALSE]
        ELSE [items |-> SubSeq(keys, start, end), of |-> keys, ok |-> TRUE,
              next |-> IF end < Len(keys) THEN _encode_cursor(keys[end], keys) ELSE Absent]

\* A traversal follows the cursors, the n-th page served from catalogues[n].
Traversal(catalogues, limit) ==
    LET page[n \in 1..Len(catalogues)] ==
            IF n = 1 THEN list_models(Absent, catalogues[1], limit)
            ELSE IF page[n - 1].ok /\ page[n - 1].next # Absent
                 THEN LET p == list_models(page[n - 1].next, catalogues[n], limit)
                      IN  [p EXCEPT !.items = page[n - 1].items \o @]
                 ELSE page[n - 1]
    IN  page[Len(catalogues)]

\* A traversal that comes to its end saw one catalogue, whole and once, even
\* if models were published or removed between its pages.
PagesListTheCatalog(catalogues, limit) ==
    LET last == Traversal(catalogues, limit)
    IN  last.ok /\ last.next = Absent => last.items = catalogues[1] /\ last.items = last.of

\* A dataset is asked for by the key of a model or by its table.
_resolve_dataset(dataset, entries) ==
    LET tables == {e.table : e \in {e \in entries : e.table # "" /\ dataset \in {e.key, e.table}}}
    IN  IF Cardinality(tables) = 1 THEN CHOOSE t \in tables : TRUE ELSE ""

\* Both names of a dataset lead to one certification, or one of them to none.
AliasesAgree(entries) ==
    \A e \in entries : LET byKey == _resolve_dataset(e.key, entries)
                       IN  byKey # "" => _resolve_dataset(byKey, entries) \in {byKey, ""}

------------------------------------------------------------------------------

\* The statuses that an answer of the governed executor may be reported with.
\* Mutant: a call whose fate is unknown is reported as waiting for approval.
EnvelopeLostAsPending(reply, mode) ==
    CASE reply \in {"succeeded", "failed", "proposed"} -> {IF mode = "SHADOW" THEN "proposed" ELSE "executed"}
      [] reply = "refused" -> {"refused"} \union (IF mode = "SUPERVISED" THEN {"pending"} ELSE {})
      [] reply \in {"duplicate", "lost"} -> {IF mode = "SUPERVISED" THEN "pending" ELSE "refused"}
      [] OTHER -> {"refused"}

\* A refusal is pending when it was the approval that failed or was missing;
\* duplicates, lost responses and store failures are refused.
Envelope(reply, mode) ==
    IF reply \in {"succeeded", "failed", "proposed"}
    THEN {IF mode = "SHADOW" THEN "proposed" ELSE "executed"}
    ELSE {"refused"} \union {s \in {"pending"} : reply = "refused" /\ mode = "SUPERVISED"}
=============================================================================
