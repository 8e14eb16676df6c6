------------------------------ MODULE Backends ------------------------------
(***************************************************************************)
(* One call of a backend (crates/mda-core/src/worker): what the Messages   *)
(* API (api.rs), a local server (local.rs) or the claude CLI               *)
(* (claude_cli.rs, parse.rs) did, and the Outcome the pool is given.       *)
(*                                                                         *)
(* A reason string is its stable prefix, or "" when it has none. Optional  *)
(* values are {} or {value}. A text is [card, fenced, empty]: whether it   *)
(* is a card once the code fence around it is taken off.                   *)
(***************************************************************************)
EXTENDS Integers, FiniteSets

CONSTANTS
  Prices,       \* model -> [input, output], list prices; other models cost nothing
  NoModel       \* the document names no model

FATAL_NOT_LOGGED_IN       == "claude not logged in"
FATAL_BAD_MODEL           == "bad model id"
FATAL_NO_API_KEY          == "api key rejected"
FATAL_LOCAL_DOWN          == "local model server unreachable"
FATAL_ACCOUNT             == "account problem"
FATAL_BACKEND_UNAVAILABLE == "backend unavailable"

------------------------------------------------------------------------------
(* Outcome, Usage: worker/mod.rs. *)

Ok(usage)        == [kind |-> "ok", usage |-> {usage}, reason |-> ""]
Malformed(usage) == [kind |-> "malformed", usage |-> usage, reason |-> ""]
Retryable        == [kind |-> "retryable", usage |-> {}, reason |-> ""]
RateLimited      == [kind |-> "rate_limited", usage |-> {}, reason |-> ""]
Fatal(reason)    == [kind |-> "fatal", usage |-> {}, reason |-> reason]

\* Every other job would fail the same way.
stops_pool(outcome) ==
  /\ outcome.kind = "fatal"
  /\ outcome.reason \in {FATAL_NOT_LOGGED_IN, FATAL_BAD_MODEL, FATAL_NO_API_KEY, FATAL_LOCAL_DOWN,
                         FATAL_ACCOUNT, FATAL_BACKEND_UNAVAILABLE}

\* http.rs parse_summary: one fence is taken off, nothing is not a card.
parse_summary(text) == ~text.empty /\ text.card

------------------------------------------------------------------------------
(* The Messages API. *)

price_for(model) == IF model \in DOMAIN Prices THEN {Prices[model]} ELSE {}

\* In 1/80 of a price unit per token: a cache write costs 1.25, a read 0.1 of an input token.
cost_usd(model, input, cache_write, cache_read, output) ==
  LET price == price_for(model)
  IN  IF price = {} THEN 0
      ELSE LET p == CHOOSE p \in price : TRUE
           IN  (80 * input + 100 * cache_write + 8 * cache_read) * p.input + 80 * output * p.output

ModelOf(doc, requested) == IF doc.model = NoModel THEN requested ELSE doc.model

api_usage_from(doc, requested) ==
  [input_tokens |-> doc.input + doc.cache_write + doc.cache_read, output_tokens |-> doc.output,
   cost |-> cost_usd(ModelOf(doc, requested), doc.input, doc.cache_write, doc.cache_read, doc.output),
   turns |-> 1, model |-> ModelOf(doc, requested)]

\* Credits, billing or the workspace header named in the message of a 4xx.
is_account_problem(msg) == msg = "account"

\* A refused key taken for one job's trouble.
MutApiClassifyError(resp) ==
  CASE resp.status = 404 -> Fatal(FATAL_BAD_MODEL)
    [] resp.status \in {429, 529} -> RateLimited
    [] resp.status \in 400 .. 499 -> Fatal(IF is_account_problem(resp.msg) THEN FATAL_ACCOUNT ELSE "")
    [] OTHER -> Retryable

api_classify_error(resp) ==
  CASE resp.status \in {401, 403} -> Fatal(FATAL_NO_API_KEY)
    [] resp.status = 404          -> Fatal(FATAL_BAD_MODEL)
    [] resp.status \in {429, 529} -> RateLimited
    [] resp.status \in (400 .. 499) \ {401, 403, 404, 429} ->
         Fatal(IF is_account_problem(resp.msg) THEN FATAL_ACCOUNT ELSE "")
    [] OTHER -> Retryable

\* The first text block of the content is the card.
api_classify_success(resp, requested) ==
  IF ~resp.json THEN Malformed({})
  ELSE LET usage == api_usage_from(resp.doc, requested)
       IN  CASE resp.doc.stop_reason = "max_tokens" -> Malformed({usage})
             [] resp.doc.stop_reason = "refusal"    -> Fatal("")
             [] OTHER -> IF parse_summary(resp.doc.text) THEN Ok(usage) ELSE Malformed({usage})

\* resp.transport: "http", or why no response came ("timeout", "connect", "other").
api_run_once(empty_chunk, resp, requested) ==
  CASE empty_chunk              -> Fatal("")
    [] ~empty_chunk /\ resp.transport # "http" -> Retryable
    [] ~empty_chunk /\ resp.transport = "http" ->
         IF resp.status # 200 THEN api_classify_error(resp) ELSE api_classify_success(resp, requested)

\* mda doctor: the model's name, or why not.
api_check(resp) ==
  CASE resp.transport # "http" -> "cannot reach"
    [] resp.transport = "http" /\ resp.status = 200 -> IF resp.json THEN "model" ELSE "not json"
    [] resp.transport = "http" /\ resp.status \in {401, 403} -> FATAL_NO_API_KEY
    [] resp.transport = "http" /\ resp.status = 404 -> "model not available"
    [] OTHER -> "http error"

------------------------------------------------------------------------------
(* The local server: one model, no cost. *)

local_usage_from(doc, configured) ==
  [input_tokens |-> doc.input, output_tokens |-> doc.output, cost |-> 0, turns |-> 1,
   model |-> ModelOf(doc, configured)]

classify_transport(transport) ==
  IF transport = "connect" THEN Fatal(FATAL_LOCAL_DOWN) ELSE Retryable

local_classify_error(resp) ==
  CASE resp.status = 429 -> RateLimited
    [] resp.status \in (400 .. 499) \ {429} -> Fatal("")
    [] OTHER -> Retryable

local_classify_success(resp, configured) ==
  IF ~resp.json THEN Malformed({})
  ELSE LET usage == local_usage_from(resp.doc, configured)
       IN  IF resp.doc.stop_reason # "max_tokens" /\ parse_summary(resp.doc.text) THEN Ok(usage)
           ELSE Malformed({usage})

local_run_once(empty_chunk, resp, configured) ==
  CASE empty_chunk -> Fatal("")
    [] ~empty_chunk /\ resp.transport # "http" -> classify_transport(resp.transport)
    [] ~empty_chunk /\ resp.transport = "http" ->
         IF resp.status # 200 THEN local_classify_error(resp) ELSE local_classify_success(resp, configured)

\* doc.model: a model the server lists, or NoModel when it lists none.
local_check(resp) ==
  CASE resp.transport = "connect" -> FATAL_LOCAL_DOWN
    [] resp.transport \in {"timeout", "other"} -> "cannot reach"
    [] resp.transport = "http" ->
         IF resp.status # 200 THEN "http error" ELSE IF ~resp.json THEN "not json"
         ELSE IF resp.doc.model = NoModel THEN "lists no models" ELSE "model"

------------------------------------------------------------------------------
(* The claude CLI. doc.error is what the error text looks like. *)

cli_usage(doc, requested) ==
  [input_tokens |-> doc.input, output_tokens |-> doc.output, cost |-> doc.cost, turns |-> doc.turns,
   model |-> ModelOf(doc, requested)]

looks_rate_limited(doc) == doc.error = "overloaded"

budget_exhausted(doc) == doc.terminal_reason = "budget_exhausted" \/ doc.subtype = "error_max_budget_usd"

\* Only a text that is a card stands in for missing structured output.
summary_from_text(doc, usage) == IF parse_summary(doc.text) THEN Ok(usage) ELSE Malformed({usage})

\* The rules of the table, in order.
parse_result(json, doc, requested) ==
  IF ~json THEN Malformed({})
  ELSE LET usage == cli_usage(doc, requested)
       IN  CASE doc.api_error_status \in {401, 403} -> Fatal(FATAL_NOT_LOGGED_IN)
             [] doc.api_error_status = 404          -> Fatal(FATAL_BAD_MODEL)
             [] doc.api_error_status \in {429, 529} -> RateLimited
             [] doc.api_error_status \notin {401, 403, 404, 429, 529} ->
                  IF budget_exhausted(doc) THEN Fatal("")
                  ELSE IF doc.is_error THEN IF looks_rate_limited(doc) THEN RateLimited ELSE Retryable
                  ELSE IF doc.structured = "card" THEN Ok(usage)
                  ELSE summary_from_text(doc, usage)

\* p.end: how the process went; p.found: stdout holds a { ... } at all.
cli_run_once(empty_chunk, p, requested) ==
  CASE empty_chunk -> Fatal("")
    [] ~empty_chunk /\ p.end = "timeout" -> Retryable
    [] ~empty_chunk /\ p.end # "timeout" ->
         IF p.found THEN parse_result(p.json, p.doc, requested)
         ELSE CASE p.end = "exit 0" -> Malformed({})
                [] p.end = "input must be provided" -> Fatal("")
                [] p.end \in {"not logged in", "authentication"} -> Fatal(FATAL_NOT_LOGGED_IN)
                [] p.end = "exit 1" -> Retryable

\* A binary that cannot be started or waited for is an error, not an outcome.
cli_summarize(empty_chunk, p, requested) ==
  IF ~empty_chunk /\ p.end = "no process" THEN {} ELSE {cli_run_once(empty_chunk, p, requested)}

------------------------------------------------------------------------------
(* The choice of a backend, and the one that stands in when there is none. *)

\* A key is needed only for the API.
backend_for(backend, has_key) == IF backend = "api" /\ ~has_key THEN {} ELSE {backend}

unavailable == Fatal(FATAL_BACKEND_UNAVAILABLE)

------------------------------------------------------------------------------
(* What the pool may rely on, whatever backend it was given. *)

\* The reply `r` of one of the three backends, as the pool is told of it.
OutcomeOf(backend, empty_chunk, r, requested) ==
  CASE backend = "api"   -> api_run_once(empty_chunk, r, requested)
    [] backend = "local" -> local_run_once(empty_chunk, r, requested)
    [] backend = "cli"   -> cli_run_once(empty_chunk, r, requested)

\* The account, the model or the server is the trouble, whatever the section was.
Shared(backend, r) ==
  CASE backend = "api"   -> /\ r.transport = "http"
                            /\ \/ r.status \in {401, 403, 404}
                               \/ r.status \in (400 .. 499) \ {429} /\ is_account_problem(r.msg)
    [] backend = "local" -> r.transport = "connect"
    [] backend = "cli"   -> /\ r.end # "timeout"
                            /\ IF r.found THEN r.json /\ r.doc.api_error_status \in {401, 403, 404}
                               ELSE r.end \in {"not logged in", "authentication"}

\* A card is whole and grounded in an answer that says it succeeded.
Succeeded(backend, r) ==
  /\ r.json
  /\ IF backend = "cli" THEN /\ ~r.doc.is_error /\ r.doc.subtype # "error_max_budget_usd"
                             /\ r.doc.structured = "card" \/ parse_summary(r.doc.text)
     ELSE r.transport = "http" /\ r.status = 200 /\ r.doc.stop_reason # "max_tokens" /\ parse_summary(r.doc.text)

\* What the pool is charged: the input however it was cached, and the output.
Charged(backend, r, u) ==
  /\ u.output_tokens = r.doc.output
  /\ u.input_tokens = IF backend = "api" THEN r.doc.input + r.doc.cache_write + r.doc.cache_read ELSE r.doc.input

Judged(outcome) == <<outcome.kind, stops_pool(outcome)>>

\* Outcome.stops_pool: a trouble every other job would have stops the pool and a job's own
\* never does, in all three backends; the API and the CLI treat a status alike; a card is
\* taken only from an answer that is whole, with the usage the answer reports; `mda doctor`
\* blames the key or the server when a call would. (The local server's 4xx are a job's own.)
JudgedAlike(backend, empty_chunk, r, requested) ==
  LET out == OutcomeOf(backend, empty_chunk, r, requested)
      read == r.json /\ (backend = "cli" => r.found)
  IN  /\ stops_pool(out) <=> ~empty_chunk /\ Shared(backend, r)
      /\ backend = "cli" /\ ~empty_chunk /\ r.end # "timeout" /\ r.found /\ r.json
           /\ r.doc.api_error_status \in {401, 403, 404, 429, 529} =>
             Judged(out) = Judged(api_classify_error([status |-> r.doc.api_error_status, msg |-> "other"]))
      /\ out.kind = "ok" => ~empty_chunk /\ Succeeded(backend, r)
      /\ out.kind \in {"ok", "malformed"} /\ read => \A u \in out.usage : Charged(backend, r, u)
      /\ out.kind = "malformed" => (out.usage = {} <=> ~read)
      /\ backend = "api" /\ ~empty_chunk =>
           (api_check(r) = FATAL_NO_API_KEY <=> out.reason = FATAL_NO_API_KEY)
      /\ backend = "local" /\ ~empty_chunk => (local_check(r) = FATAL_LOCAL_DOWN <=> stops_pool(out))

=============================================================================
