--------------------------- MODULE AlgorithmProofs ---------------------------
(***************************************************************************)
(* What the pure algorithms promise for every input: the outcome of a      *)
(* backend's call (Backends), the generator of the paired comparison       *)
(* (Analyses), reading documents whose files may have changed (Documents), *)
(* cutting a section for the model (Requests), and keeping what is         *)
(* grounded of its answer (Cards). SearchProofs has queries and datasets.  *)
(* MCAlgorithms checks the same on small inputs.                           *)
(***************************************************************************)
EXTENDS SearchProofs

------------------------------------------------------------------------------
(* Backends. Only the parts of a reply that are looked at have a type: any *)
(* status, any model, any usage, any list of prices.                       *)

IsText(text) == text.card \in BOOLEAN /\ text.empty \in BOOLEAN

IsHttpReply(r) ==
  /\ r.transport \in {"http", "timeout", "connect", "other"}
  /\ r.status \in Nat
  /\ r.json \in BOOLEAN
  /\ IsText(r.doc.text)

IsCliReply(r) ==
  /\ r.end \in {"exit 0", "exit 1", "timeout", "input must be provided", "not logged in", "authentication"}
  /\ r.found \in BOOLEAN /\ r.json \in BOOLEAN
  /\ r.doc.api_error_status \in Nat
  /\ r.doc.is_error \in BOOLEAN
  /\ IsText(r.doc.text)

\* A fatal outcome of one job, for a reason of its own.
Refused == Reply!Fatal("")

\* The statuses of an error: the key is refused, the model is not there, a limit is hit, the
\* request itself is at fault, or the trouble may pass.
KeyStatus(n) == n \in {401, 403}

ModelStatus(n) == n = 404

LimitStatus(n) == n \in {429, 529}

OwnStatus(n) == n \in (400 .. 499) \ {401, 403, 404, 429}

PassingStatus(n) == n \notin (400 .. 499) \cup {529}

\* api.rs classify_error: a key that is refused, a model that is not there, a limit, a
\* request that is wrong by itself, or trouble that may pass.
LEMMA ApiErrors ==
  ASSUME NEW resp, NEW n \in Nat, resp.status = n
  PROVE  /\ KeyStatus(n) => Reply!api_classify_error(resp) = Reply!Fatal(Reply!FATAL_NO_API_KEY)
         /\ ModelStatus(n) => Reply!api_classify_error(resp) = Reply!Fatal(Reply!FATAL_BAD_MODEL)
         /\ LimitStatus(n) => Reply!api_classify_error(resp) = Reply!RateLimited
         /\ OwnStatus(n) /\ Reply!is_account_problem(resp.msg) =>
              Reply!api_classify_error(resp) = Reply!Fatal(Reply!FATAL_ACCOUNT)
         /\ OwnStatus(n) /\ ~Reply!is_account_problem(resp.msg) =>
              Reply!api_classify_error(resp) = Refused
         /\ PassingStatus(n) => Reply!api_classify_error(resp) = Reply!Retryable
<1> DEFINE why == IF Reply!is_account_problem(resp.msg) THEN Reply!FATAL_ACCOUNT ELSE ""
<1>1. Reply!api_classify_error(resp) =
        CASE n \in {401, 403} -> Reply!Fatal(Reply!FATAL_NO_API_KEY)
          [] n = 404          -> Reply!Fatal(Reply!FATAL_BAD_MODEL)
          [] n \in {429, 529} -> Reply!RateLimited
          [] n \in (400 .. 499) \ {401, 403, 404, 429} -> Reply!Fatal(why)
          [] OTHER -> Reply!Retryable
  BY DEF Reply!api_classify_error
<1> HIDE DEF why
<1>2. KeyStatus(n) => Reply!api_classify_error(resp) = Reply!Fatal(Reply!FATAL_NO_API_KEY)
  BY <1>1 DEF KeyStatus
<1>3. ModelStatus(n) => Reply!api_classify_error(resp) = Reply!Fatal(Reply!FATAL_BAD_MODEL)
  BY <1>1 DEF ModelStatus
<1>4. LimitStatus(n) => Reply!api_classify_error(resp) = Reply!RateLimited
  BY <1>1 DEF LimitStatus
<1>5. OwnStatus(n) => Reply!api_classify_error(resp) = Reply!Fatal(why)
  BY <1>1 DEF OwnStatus
<1>6. PassingStatus(n) => Reply!api_classify_error(resp) = Reply!Retryable
  BY <1>1 DEF PassingStatus
<1>7. /\ Reply!is_account_problem(resp.msg) => why = Reply!FATAL_ACCOUNT
      /\ ~Reply!is_account_problem(resp.msg) => why = ""
  BY DEF why
<1> QED
  BY <1>2, <1>3, <1>4, <1>5, <1>6, <1>7 DEF Refused

\* An outcome without a card and without usage is judged by its reason alone.
Plain(out) == out.kind \in {"fatal", "retryable", "rate_limited"}

\* What the pool sees of each outcome: its kind, its usage, and whether it stops the pool.
LEMMA Outcomes ==
  /\ \A u : /\ Reply!Ok(u).kind = "ok" /\ Reply!Ok(u).usage = {u}
            /\ Reply!Ok(u).reason # Reply!FATAL_NO_API_KEY
            /\ Reply!Malformed(u).kind = "malformed" /\ Reply!Malformed(u).usage = u
            /\ Reply!Malformed(u).reason # Reply!FATAL_NO_API_KEY
            /\ ~Reply!stops_pool(Reply!Ok(u)) /\ ~Reply!stops_pool(Reply!Malformed(u))
  /\ \A out \in {Reply!Retryable, Reply!RateLimited, Refused} :
       Plain(out) /\ out.reason # Reply!FATAL_NO_API_KEY /\ ~Reply!stops_pool(out)
  /\ \A reason \in {Reply!FATAL_NOT_LOGGED_IN, Reply!FATAL_BAD_MODEL, Reply!FATAL_NO_API_KEY,
                    Reply!FATAL_LOCAL_DOWN, Reply!FATAL_ACCOUNT, Reply!FATAL_BACKEND_UNAVAILABLE} :
       LET out == Reply!Fatal(reason)
       IN  Plain(out) /\ out.kind = "fatal" /\ out.reason = reason /\ Reply!stops_pool(out)
BY DEF Plain, Refused, Reply!stops_pool, Reply!Ok, Reply!Malformed, Reply!Retryable, Reply!RateLimited,
       Reply!Fatal, Reply!FATAL_NOT_LOGGED_IN, Reply!FATAL_BAD_MODEL, Reply!FATAL_NO_API_KEY,
       Reply!FATAL_LOCAL_DOWN, Reply!FATAL_ACCOUNT, Reply!FATAL_BACKEND_UNAVAILABLE

LEMMA Reasons ==
  Reply!FATAL_BAD_MODEL # Reply!FATAL_NO_API_KEY /\ Reply!FATAL_ACCOUNT # Reply!FATAL_NO_API_KEY
BY DEF Reply!FATAL_BAD_MODEL, Reply!FATAL_NO_API_KEY, Reply!FATAL_ACCOUNT

------------------------------------------------------------------------------
(* The Messages API. *)

\* What JudgedAlike asks of the Messages API.
ApiGood(out, empty, r) ==
  /\ Reply!stops_pool(out) <=> ~empty /\ Reply!Shared("api", r)
  /\ out.kind = "ok" => ~empty /\ Reply!Succeeded("api", r)
  /\ out.kind \in {"ok", "malformed"} /\ r.json => \A u \in out.usage : Reply!Charged("api", r, u)
  /\ out.kind = "malformed" => (out.usage = {} <=> ~r.json)
  /\ ~empty => (Reply!api_check(r) = Reply!FATAL_NO_API_KEY <=> out.reason = Reply!FATAL_NO_API_KEY)

LEMMA ApiParts ==
  ASSUME NEW r, NEW empty \in BOOLEAN, NEW m, ApiGood(Reply!api_run_once(empty, r, m), empty, r)
  PROVE  Reply!JudgedAlike("api", empty, r, m)
<1>1. PICK out : out = Reply!api_run_once(empty, r, m)
  OBVIOUS
<1>2. Reply!OutcomeOf("api", empty, r, m) = out
  BY <1>1 DEF Reply!OutcomeOf
<1> QED
  BY <1>1, <1>2 DEF Reply!JudgedAlike, ApiGood

LEMMA ApiPlain ==
  ASSUME NEW r, NEW empty \in BOOLEAN, NEW out, Plain(out),
         Reply!stops_pool(out) <=> ~empty /\ Reply!Shared("api", r),
         ~empty => (Reply!api_check(r) = Reply!FATAL_NO_API_KEY <=> out.reason = Reply!FATAL_NO_API_KEY)
  PROVE  ApiGood(out, empty, r)
BY DEF ApiGood, Plain

LEMMA ApiShared ==
  ASSUME NEW r, NEW n \in Nat, r.status = n, r.transport = "http"
  PROVE  /\ n \in {401, 403, 404} => Reply!Shared("api", r)
         /\ OwnStatus(n) => (Reply!Shared("api", r) <=> Reply!is_account_problem(r.msg))
         /\ PassingStatus(n) \/ n \in {429, 529} => ~Reply!Shared("api", r)
<1>1. Reply!Shared("api", r) <=> \/ n \in {401, 403, 404}
                                 \/ n \in (400 .. 499) \ {429} /\ Reply!is_account_problem(r.msg)
  BY DEF Reply!Shared
<1> QED
  BY <1>1 DEF OwnStatus, PassingStatus

\* mda doctor blames the key for the statuses that say so.
LEMMA ApiCheck ==
  ASSUME NEW r, NEW n \in Nat, r.status = n
  PROVE  Reply!api_check(r) = Reply!FATAL_NO_API_KEY <=> r.transport = "http" /\ n \in {401, 403}
<1>1. CASE r.transport # "http"
  BY <1>1 DEF Reply!api_check, Reply!FATAL_NO_API_KEY
<1>2. CASE r.transport = "http" /\ n = 200
  BY <1>2 DEF Reply!api_check, Reply!FATAL_NO_API_KEY
<1>3. CASE r.transport = "http" /\ n \in {401, 403}
  <2>1. r.status # 200 /\ r.status \in {401, 403} /\ r.status # 404
    BY <1>3
  <2> QED
    BY <1>3, <2>1 DEF Reply!api_check
<1>4. CASE r.transport = "http" /\ n = 404
  BY <1>4 DEF Reply!api_check, Reply!FATAL_NO_API_KEY
<1>5. CASE r.transport = "http" /\ n \notin {200, 401, 403, 404}
  <2>1. r.status # 200 /\ r.status \notin {401, 403} /\ r.status # 404
    BY <1>5
  <2> QED
    BY <1>5, <2>1 DEF Reply!api_check, Reply!FATAL_NO_API_KEY
<1> QED
  BY <1>1, <1>2, <1>3, <1>4, <1>5

\* An error of the API says the same of the pool whichever way one looks at it.
LEMMA ApiErrorJudged ==
  ASSUME NEW r, r.status \in Nat \ {200}, r.transport = "http"
  PROVE  ApiGood(Reply!api_classify_error(r), FALSE, r)
<1>1. PICK out : out = Reply!api_classify_error(r)
  OBVIOUS
<1> PICK n \in Nat : r.status = n
  OBVIOUS
<1>2. CASE KeyStatus(n)
  <2>1. out = Reply!Fatal(Reply!FATAL_NO_API_KEY)
    BY <1>1, <1>2, ApiErrors
  <2>2. Plain(out) /\ out.reason = Reply!FATAL_NO_API_KEY /\ Reply!stops_pool(out)
    BY <2>1, Outcomes, Reasons
  <2>3. Reply!Shared("api", r)
    BY <1>2, ApiShared DEF KeyStatus
  <2>4. Reply!api_check(r) = Reply!FATAL_NO_API_KEY
    BY <1>2, ApiCheck DEF KeyStatus, ModelStatus, LimitStatus, OwnStatus, PassingStatus
  <2> QED
    BY <1>1, <2>2, <2>3, <2>4, ApiPlain
<1>3. CASE ModelStatus(n)
  <2>1. out = Reply!Fatal(Reply!FATAL_BAD_MODEL)
    BY <1>1, <1>3, ApiErrors
  <2>2. Plain(out) /\ out.reason # Reply!FATAL_NO_API_KEY /\ Reply!stops_pool(out)
    BY <2>1, Outcomes, Reasons
  <2>3. Reply!Shared("api", r)
    BY <1>3, ApiShared DEF ModelStatus
  <2>4. Reply!api_check(r) # Reply!FATAL_NO_API_KEY
    BY <1>3, ApiCheck DEF KeyStatus, ModelStatus, LimitStatus, OwnStatus, PassingStatus
  <2> QED
    BY <1>1, <2>2, <2>3, <2>4, ApiPlain
<1>4. CASE LimitStatus(n)
  <2>1. out = Reply!RateLimited
    BY <1>1, <1>4, ApiErrors
  <2>2. Plain(out) /\ out.reason # Reply!FATAL_NO_API_KEY /\ ~Reply!stops_pool(out)
    BY <2>1, Outcomes, Reasons
  <2>3. ~Reply!Shared("api", r)
    BY <1>4, ApiShared DEF LimitStatus
  <2>4. Reply!api_check(r) # Reply!FATAL_NO_API_KEY
    BY <1>4, ApiCheck DEF KeyStatus, ModelStatus, LimitStatus, OwnStatus, PassingStatus
  <2> QED
    BY <1>1, <2>2, <2>3, <2>4, ApiPlain
<1>5. CASE OwnStatus(n) /\ Reply!is_account_problem(r.msg)
  <2>1. out = Reply!Fatal(Reply!FATAL_ACCOUNT)
    BY <1>1, <1>5, ApiErrors
  <2>2. Plain(out) /\ out.reason # Reply!FATAL_NO_API_KEY /\ Reply!stops_pool(out)
    BY <2>1, Outcomes, Reasons
  <2>3. Reply!Shared("api", r)
    BY <1>5, ApiShared
  <2>4. Reply!api_check(r) # Reply!FATAL_NO_API_KEY
    BY <1>5, ApiCheck DEF KeyStatus, ModelStatus, LimitStatus, OwnStatus, PassingStatus
  <2> QED
    BY <1>1, <2>2, <2>3, <2>4, ApiPlain
<1>6. CASE OwnStatus(n) /\ ~Reply!is_account_problem(r.msg)
  <2>1. out = Refused
    BY <1>1, <1>6, ApiErrors
  <2>2. Plain(out) /\ out.reason # Reply!FATAL_NO_API_KEY /\ ~Reply!stops_pool(out)
    BY <2>1, Outcomes, Reasons
  <2>3. ~Reply!Shared("api", r)
    BY <1>6, ApiShared
  <2>4. Reply!api_check(r) # Reply!FATAL_NO_API_KEY
    BY <1>6, ApiCheck DEF KeyStatus, ModelStatus, LimitStatus, OwnStatus, PassingStatus
  <2> QED
    BY <1>1, <2>2, <2>3, <2>4, ApiPlain
<1>7. CASE PassingStatus(n)
  <2>1. out = Reply!Retryable
    BY <1>1, <1>7, ApiErrors
  <2>2. Plain(out) /\ out.reason # Reply!FATAL_NO_API_KEY /\ ~Reply!stops_pool(out)
    BY <2>1, Outcomes, Reasons
  <2>3. ~Reply!Shared("api", r)
    BY <1>7, ApiShared
  <2>4. Reply!api_check(r) # Reply!FATAL_NO_API_KEY
    BY <1>7, ApiCheck DEF KeyStatus, ModelStatus, LimitStatus, OwnStatus, PassingStatus
  <2> QED
    BY <1>1, <2>2, <2>3, <2>4, ApiPlain
<1> QED
  BY <1>2, <1>3, <1>4, <1>5, <1>6, <1>7 DEF KeyStatus, ModelStatus, LimitStatus, OwnStatus, PassingStatus

\* An answer with status 200 is a card, not one, or refused; never a shared trouble.
LEMMA ApiSuccessJudged ==
  ASSUME NEW r, IsHttpReply(r), r.transport = "http", r.status = 200, NEW m
  PROVE  ApiGood(Reply!api_classify_success(r, m), FALSE, r)
<1>1. PICK out : out = Reply!api_classify_success(r, m)
  OBVIOUS
<1>2. PICK u : u = Reply!api_usage_from(r.doc, m)
  OBVIOUS
<1>3. Reply!Charged("api", r, u)
  BY <1>2 DEF Reply!Charged, Reply!api_usage_from
<1>4. ~Reply!Shared("api", r) /\ Reply!api_check(r) # Reply!FATAL_NO_API_KEY
  <2>1. PassingStatus(200)
    BY DEF PassingStatus
  <2> QED
    BY <2>1, ApiShared, ApiCheck
<1>5. r.json \in BOOLEAN /\ Reply!parse_summary(r.doc.text) \in BOOLEAN
  BY DEF IsHttpReply, IsText, Reply!parse_summary
<1>6. CASE ~r.json
  <2>1. out = Reply!Malformed({})
    BY <1>1, <1>6 DEF Reply!api_classify_success
  <2>2. /\ out.kind = "malformed" /\ out.usage = {} /\ out.reason # Reply!FATAL_NO_API_KEY
        /\ ~Reply!stops_pool(out)
    BY <2>1, Outcomes
  <2> QED
    BY <1>1, <1>4, <1>6, <2>2 DEF ApiGood
<1>7. CASE r.json /\ r.doc.stop_reason = "refusal"
  <2>1. out = Refused
    BY <1>1, <1>7 DEF Reply!api_classify_success, Refused
  <2>2. Plain(out) /\ out.reason # Reply!FATAL_NO_API_KEY /\ ~Reply!stops_pool(out)
    BY <2>1, Outcomes, Reasons
  <2> QED
    BY <1>1, <1>4, <2>2, ApiPlain
<1>8. CASE r.json /\ r.doc.stop_reason \notin {"max_tokens", "refusal"} /\ Reply!parse_summary(r.doc.text)
  <2>1. out = Reply!Ok(u)
    BY <1>1, <1>2, <1>8 DEF Reply!api_classify_success
  <2>2. /\ out.kind = "ok" /\ out.usage = {u} /\ out.reason # Reply!FATAL_NO_API_KEY
        /\ ~Reply!stops_pool(out)
    BY <2>1, Outcomes
  <2>3. Reply!Succeeded("api", r)
    BY <1>8 DEF Reply!Succeeded
  <2> QED
    BY <1>1, <1>3, <1>4, <2>2, <2>3 DEF ApiGood
<1>9. CASE r.json /\ \/ r.doc.stop_reason = "max_tokens"
                     \/ r.doc.stop_reason # "refusal" /\ ~Reply!parse_summary(r.doc.text)
  <2>1. out = Reply!Malformed({u})
    BY <1>1, <1>2, <1>9 DEF Reply!api_classify_success
  <2>2. /\ out.kind = "malformed" /\ out.usage = {u} /\ out.reason # Reply!FATAL_NO_API_KEY
        /\ ~Reply!stops_pool(out)
    BY <2>1, Outcomes
  <2> QED
    BY <1>1, <1>3, <1>4, <1>9, <2>2 DEF ApiGood
<1> QED
  BY <1>5, <1>6, <1>7, <1>8, <1>9

\* api.rs run_once: a call of the Messages API is judged as the pool needs it.
LEMMA ApiJudged ==
  ASSUME NEW r, IsHttpReply(r), NEW empty \in BOOLEAN, NEW m
  PROVE  Reply!JudgedAlike("api", empty, r, m)
<1>1. PICK out : out = Reply!api_run_once(empty, r, m)
  OBVIOUS
<1>2. PICK n \in Nat : r.status = n
  BY DEF IsHttpReply
<1>3. CASE empty
  <2>1. out = Refused
    BY <1>1, <1>3 DEF Reply!api_run_once, Refused
  <2>2. Plain(out) /\ ~Reply!stops_pool(out)
    BY <2>1, Outcomes
  <2>3. ApiGood(out, empty, r)
    BY <1>3, <2>2, ApiPlain
  <2> QED
    BY <1>1, <2>3, ApiParts
<1>4. CASE ~empty /\ r.transport # "http"
  <2>1. out = Reply!Retryable
    BY <1>1, <1>4 DEF Reply!api_run_once
  <2>2. Plain(out) /\ out.reason # Reply!FATAL_NO_API_KEY /\ ~Reply!stops_pool(out)
    BY <2>1, Outcomes, Reasons
  <2>3. Reply!api_check(r) # Reply!FATAL_NO_API_KEY
    BY <1>2, <1>4, ApiCheck
  <2>4. ~Reply!Shared("api", r)
    BY <1>4 DEF Reply!Shared
  <2>5. ApiGood(out, empty, r)
    BY <2>2, <2>3, <2>4, ApiPlain
  <2> QED
    BY <1>1, <2>5, ApiParts
<1>5. CASE ~empty /\ r.transport = "http"
  <2>1. out = IF n # 200 THEN Reply!api_classify_error(r) ELSE Reply!api_classify_success(r, m)
    BY <1>1, <1>2, <1>5 DEF Reply!api_run_once
  <2>2. ApiGood(out, FALSE, r)
    <3>1. CASE n # 200
      <4>1. ApiGood(Reply!api_classify_error(r), FALSE, r)
        BY <1>2, <1>5, <3>1, ApiErrorJudged
      <4>2. out = Reply!api_classify_error(r)
        BY <2>1, <3>1
      <4> QED
        BY <4>1, <4>2
    <3>2. CASE n = 200
      BY <1>2, <1>5, <2>1, <3>2, ApiSuccessJudged
    <3> QED
      BY <3>1, <3>2
  <2> QED
    BY <1>1, <1>5, <2>2, ApiParts
<1> QED
  BY <1>3, <1>4, <1>5

------------------------------------------------------------------------------
(* The local server. Only its absence is a trouble of every job. *)

\* What JudgedAlike asks of the local server.
LocalGood(out, empty, r) ==
  /\ Reply!stops_pool(out) <=> ~empty /\ r.transport = "connect"
  /\ out.kind = "ok" => ~empty /\ Reply!Succeeded("local", r)
  /\ out.kind \in {"ok", "malformed"} /\ r.json => \A u \in out.usage : Reply!Charged("local", r, u)
  /\ out.kind = "malformed" => (out.usage = {} <=> ~r.json)

LEMMA LocalParts ==
  ASSUME NEW r, IsHttpReply(r), NEW empty \in BOOLEAN, NEW m,
         LocalGood(Reply!local_run_once(empty, r, m), empty, r)
  PROVE  Reply!JudgedAlike("local", empty, r, m)
<1>1. PICK out : out = Reply!local_run_once(empty, r, m)
  OBVIOUS
<1>2. Reply!OutcomeOf("local", empty, r, m) = out
  BY <1>1 DEF Reply!OutcomeOf
<1>3. Reply!local_check(r) = Reply!FATAL_LOCAL_DOWN <=> r.transport = "connect"
  BY DEF IsHttpReply, Reply!local_check, Reply!FATAL_LOCAL_DOWN
<1>4. Reply!Shared("local", r) <=> r.transport = "connect"
  BY DEF Reply!Shared
<1> QED
  BY <1>1, <1>2, <1>3, <1>4 DEF Reply!JudgedAlike, LocalGood

\* local.rs run_once: a call of the local server is judged as the pool needs it.
LEMMA LocalJudged ==
  ASSUME NEW r, IsHttpReply(r), NEW empty \in BOOLEAN, NEW m
  PROVE  Reply!JudgedAlike("local", empty, r, m)
<1>1. PICK out : out = Reply!local_run_once(empty, r, m)
  OBVIOUS
<1>2. PICK n \in Nat : r.status = n
  BY DEF IsHttpReply
<1>3. PICK u : u = Reply!local_usage_from(r.doc, m)
  OBVIOUS
<1>4. r.json \in BOOLEAN /\ Reply!parse_summary(r.doc.text) \in BOOLEAN
  BY DEF IsHttpReply, IsText, Reply!parse_summary
<1>5. CASE empty
  <2>1. out = Refused
    BY <1>1, <1>5 DEF Reply!local_run_once, Refused
  <2> QED
    BY <1>1, <1>5, <2>1, LocalParts, Outcomes DEF LocalGood, Plain
<1>6. CASE ~empty /\ r.transport = "connect"
  <2>1. out = Reply!Fatal(Reply!FATAL_LOCAL_DOWN)
    BY <1>1, <1>6 DEF Reply!local_run_once, Reply!classify_transport
  <2> QED
    BY <1>1, <1>6, <2>1, LocalParts, Outcomes DEF LocalGood, Plain
<1>7. CASE ~empty /\ r.transport \notin {"connect", "http"}
  <2>1. out = Reply!Retryable
    BY <1>1, <1>7 DEF Reply!local_run_once, Reply!classify_transport
  <2> QED
    BY <1>1, <1>7, <2>1, LocalParts, Outcomes DEF LocalGood, Plain
<1>8. CASE ~empty /\ r.transport = "http" /\ n # 200
  <2>1. out = Reply!local_classify_error(r)
    BY <1>1, <1>2, <1>8 DEF Reply!local_run_once
  <2>2. out \in {Reply!RateLimited, Refused, Reply!Retryable}
    <3>1. Reply!local_classify_error(r) =
            CASE n = 429 -> Reply!RateLimited
              [] n \in (400 .. 499) \ {429} -> Refused
              [] OTHER -> Reply!Retryable
      BY <1>2 DEF Reply!local_classify_error, Refused
    <3> QED
      BY <2>1, <3>1
  <2>3. Plain(out) /\ ~Reply!stops_pool(out)
    BY <2>2, Outcomes
  <2> QED
    BY <1>1, <1>8, <2>3, LocalParts DEF LocalGood, Plain
<1>9. CASE ~empty /\ r.transport = "http" /\ n = 200
  <2>1. out = Reply!local_classify_success(r, m)
    BY <1>1, <1>2, <1>9 DEF Reply!local_run_once
  <2>2. Reply!Charged("local", r, u)
    BY <1>3 DEF Reply!Charged, Reply!local_usage_from
  <2>3. CASE ~r.json
    <3>1. out = Reply!Malformed({})
      BY <2>1, <2>3 DEF Reply!local_classify_success
    <3>2. out.kind = "malformed" /\ out.usage = {} /\ ~Reply!stops_pool(out)
      BY <3>1, Outcomes
    <3> QED
      BY <1>1, <1>9, <2>3, <3>2, LocalParts DEF LocalGood
  <2>4. CASE r.json /\ r.doc.stop_reason # "max_tokens" /\ Reply!parse_summary(r.doc.text)
    <3>1. out = Reply!Ok(u)
      BY <1>3, <2>1, <2>4 DEF Reply!local_classify_success
    <3>2. out.kind = "ok" /\ out.usage = {u} /\ ~Reply!stops_pool(out)
      BY <3>1, Outcomes
    <3>3. Reply!Succeeded("local", r)
      BY <1>2, <1>9, <2>4 DEF Reply!Succeeded
    <3> QED
      BY <1>1, <1>9, <2>2, <3>2, <3>3, LocalParts DEF LocalGood
  <2>5. CASE r.json /\ ~(r.doc.stop_reason # "max_tokens" /\ Reply!parse_summary(r.doc.text))
    <3>1. out = Reply!Malformed({u})
      BY <1>3, <2>1, <2>5 DEF Reply!local_classify_success
    <3>2. out.kind = "malformed" /\ out.usage = {u} /\ ~Reply!stops_pool(out)
      BY <3>1, Outcomes
    <3> QED
      BY <1>1, <1>9, <2>2, <2>5, <3>2, LocalParts DEF LocalGood
  <2> QED
    BY <1>4, <2>3, <2>4, <2>5
<1> QED
  BY <1>5, <1>6, <1>7, <1>8, <1>9

------------------------------------------------------------------------------
(* The claude CLI. Its document carries the status the API gave it.        *)

\* What JudgedAlike asks of the CLI.
CliGood(out, empty, r) ==
  LET read == r.json /\ r.found
  IN  /\ Reply!stops_pool(out) <=> ~empty /\ Reply!Shared("cli", r)
      /\ ~empty /\ r.end # "timeout" /\ read /\ r.doc.api_error_status \in {401, 403, 404, 429, 529} =>
           Reply!Judged(out)
             = Reply!Judged(Reply!api_classify_error([status |-> r.doc.api_error_status, msg |-> "other"]))
      /\ out.kind = "ok" => ~empty /\ Reply!Succeeded("cli", r)
      /\ out.kind \in {"ok", "malformed"} /\ read => \A u \in out.usage : Reply!Charged("cli", r, u)
      /\ out.kind = "malformed" => (out.usage = {} <=> ~read)

LEMMA CliParts ==
  ASSUME NEW r, IsCliReply(r), NEW empty \in BOOLEAN, NEW m,
         CliGood(Reply!cli_run_once(empty, r, m), empty, r)
  PROVE  Reply!JudgedAlike("cli", empty, r, m)
<1>1. PICK out : out = Reply!cli_run_once(empty, r, m)
  OBVIOUS
<1>2. Reply!OutcomeOf("cli", empty, r, m) = out
  BY <1>1 DEF Reply!OutcomeOf
<1> QED
  BY <1>1, <1>2 DEF Reply!JudgedAlike, CliGood

LEMMA CliShared ==
  ASSUME NEW r
  PROVE  Reply!Shared("cli", r) <=> /\ r.end # "timeout"
                                    /\ IF r.found THEN r.json /\ r.doc.api_error_status \in {401, 403, 404}
                                       ELSE r.end \in {"not logged in", "authentication"}
BY DEF Reply!Shared

\* What the CLI's document says, when stdout held one.
Parsed(doc, m) == Reply!parse_result(TRUE, doc, m)

\* What it says when its status says nothing.
Unmarked(doc, m) ==
  IF Reply!budget_exhausted(doc) THEN Refused
  ELSE IF doc.is_error THEN IF Reply!looks_rate_limited(doc) THEN Reply!RateLimited ELSE Reply!Retryable
  ELSE IF doc.structured = "card" THEN Reply!Ok(Reply!cli_usage(doc, m))
  ELSE Reply!summary_from_text(doc, Reply!cli_usage(doc, m))

\* parse.rs parse_result: the first rules go by the status, whatever else the document says.
LEMMA CliStatus ==
  ASSUME NEW doc, NEW n \in Nat, doc.api_error_status = n, NEW m
  PROVE  /\ KeyStatus(n) => Parsed(doc, m) = Reply!Fatal(Reply!FATAL_NOT_LOGGED_IN)
         /\ ModelStatus(n) => Parsed(doc, m) = Reply!Fatal(Reply!FATAL_BAD_MODEL)
         /\ LimitStatus(n) => Parsed(doc, m) = Reply!RateLimited
         /\ ~KeyStatus(n) /\ ~ModelStatus(n) /\ ~LimitStatus(n) => Parsed(doc, m) = Unmarked(doc, m)
<1>0. PICK rest : rest = Unmarked(doc, m)
  OBVIOUS
<1>1. Parsed(doc, m) =
        CASE n \in {401, 403} -> Reply!Fatal(Reply!FATAL_NOT_LOGGED_IN)
          [] n = 404          -> Reply!Fatal(Reply!FATAL_BAD_MODEL)
          [] n \in {429, 529} -> Reply!RateLimited
          [] n \notin {401, 403, 404, 429, 529} -> rest
  <2>1. Parsed(doc, m) =
          CASE doc.api_error_status \in {401, 403} -> Reply!Fatal(Reply!FATAL_NOT_LOGGED_IN)
            [] doc.api_error_status = 404          -> Reply!Fatal(Reply!FATAL_BAD_MODEL)
            [] doc.api_error_status \in {429, 529} -> Reply!RateLimited
            [] doc.api_error_status \notin {401, 403, 404, 429, 529} -> Unmarked(doc, m)
    BY Zenon DEF Parsed, Unmarked, Reply!parse_result, Refused
  <2> QED
    BY <1>0, <2>1
<1>2. KeyStatus(n) => Parsed(doc, m) = Reply!Fatal(Reply!FATAL_NOT_LOGGED_IN)
  BY <1>1 DEF KeyStatus
<1>3. ModelStatus(n) => Parsed(doc, m) = Reply!Fatal(Reply!FATAL_BAD_MODEL)
  BY <1>1 DEF ModelStatus
<1>4. LimitStatus(n) => Parsed(doc, m) = Reply!RateLimited
  BY <1>1 DEF LimitStatus
<1>5. ~KeyStatus(n) /\ ~ModelStatus(n) /\ ~LimitStatus(n) => Parsed(doc, m) = rest
  BY <1>1 DEF KeyStatus, ModelStatus, LimitStatus
<1> QED
  BY <1>0, <1>2, <1>3, <1>4, <1>5

\* A document of the CLI: an error by its status or its text, or a card, or not one.
LEMMA CliDocumentJudged ==
  ASSUME NEW r, IsCliReply(r), NEW m, r.end # "timeout", r.found, r.json
  PROVE  CliGood(Parsed(r.doc, m), FALSE, r)
<1>1. PICK out : out = Parsed(r.doc, m)
  OBVIOUS
<1>2. PICK n \in Nat : r.doc.api_error_status = n
  BY DEF IsCliReply
<1>3. PICK u : u = Reply!cli_usage(r.doc, m)
  OBVIOUS
<1>4. Reply!Charged("cli", r, u)
  BY <1>3 DEF Reply!Charged, Reply!cli_usage
<1>5. Reply!Shared("cli", r) <=> KeyStatus(n) \/ ModelStatus(n)
  <2>1. Reply!Shared("cli", r) <=> /\ r.end # "timeout"
                                   /\ IF r.found THEN r.json /\ r.doc.api_error_status \in {401, 403, 404}
                                      ELSE r.end \in {"not logged in", "authentication"}
    BY ONLY CliShared, Zenon
  <2> QED
    BY <1>2, <2>1 DEF KeyStatus, ModelStatus
<1>6. PICK api : api = Reply!api_classify_error([status |-> n, msg |-> "other"])
  OBVIOUS
<1>7. /\ KeyStatus(n) => api = Reply!Fatal(Reply!FATAL_NO_API_KEY)
      /\ ModelStatus(n) => api = Reply!Fatal(Reply!FATAL_BAD_MODEL)
      /\ LimitStatus(n) => api = Reply!RateLimited
  <2>1. PICK resp : resp = [status |-> n, msg |-> "other"]
    OBVIOUS
  <2>2. resp.status = n
    BY <2>1
  <2> QED
    BY <1>6, <2>1, <2>2, ApiErrors
<1>8. r.doc.api_error_status \in {401, 403, 404, 429, 529} <=> KeyStatus(n) \/ ModelStatus(n) \/ LimitStatus(n)
  BY <1>2 DEF KeyStatus, ModelStatus, LimitStatus
<1>9. ASSUME KeyStatus(n) \/ ModelStatus(n)
      PROVE  CliGood(out, FALSE, r)
  <2>1. out \in {Reply!Fatal(Reply!FATAL_NOT_LOGGED_IN), Reply!Fatal(Reply!FATAL_BAD_MODEL)}
    BY <1>1, <1>2, <1>9, CliStatus
  <2>2. Plain(out) /\ Reply!stops_pool(out) /\ out.kind = "fatal"
    BY <2>1, Outcomes
  <2>3. api \in {Reply!Fatal(Reply!FATAL_NO_API_KEY), Reply!Fatal(Reply!FATAL_BAD_MODEL)}
    BY <1>7, <1>9
  <2>4. Reply!stops_pool(api) /\ api.kind = "fatal"
    BY <2>3, Outcomes
  <2> QED
    BY <1>2, <1>5, <1>6, <1>9, <2>2, <2>4 DEF CliGood, Plain, Reply!Judged
<1>10. ASSUME LimitStatus(n)
       PROVE  CliGood(out, FALSE, r)
  <2>1. out = Reply!RateLimited /\ api = Reply!RateLimited
    BY <1>1, <1>2, <1>7, <1>10, CliStatus
  <2>2. ~KeyStatus(n) /\ ~ModelStatus(n)
    BY <1>10 DEF KeyStatus, ModelStatus, LimitStatus
  <2> QED
    BY <1>2, <1>5, <1>6, <2>1, <2>2, Outcomes DEF CliGood, Plain
<1>11. ASSUME ~KeyStatus(n), ~ModelStatus(n), ~LimitStatus(n)
       PROVE  CliGood(out, FALSE, r)
  <2>1. out = Unmarked(r.doc, m)
    BY <1>1, <1>2, <1>11, CliStatus
  <2>2. CASE Reply!budget_exhausted(r.doc) \/ r.doc.is_error
    <3>1. out \in {Refused, Reply!RateLimited, Reply!Retryable}
      BY <2>1, <2>2 DEF Unmarked
    <3>2. Plain(out) /\ ~Reply!stops_pool(out)
      BY <3>1, Outcomes
    <3> QED
      BY <1>5, <1>8, <1>11, <3>2 DEF CliGood, Plain
  <2>3. CASE /\ ~Reply!budget_exhausted(r.doc) /\ ~r.doc.is_error
             /\ r.doc.structured = "card" \/ Reply!parse_summary(r.doc.text)
    <3>1. out = Reply!Ok(u)
      BY <1>3, <2>1, <2>3 DEF Unmarked, Reply!summary_from_text
    <3>2. out.kind = "ok" /\ out.usage = {u} /\ ~Reply!stops_pool(out)
      BY <3>1, Outcomes
    <3>3. Reply!Succeeded("cli", r)
      BY <2>3 DEF Reply!Succeeded, Reply!budget_exhausted
    <3> QED
      BY <1>4, <1>5, <1>8, <1>11, <3>2, <3>3 DEF CliGood
  <2>4. CASE /\ ~Reply!budget_exhausted(r.doc) /\ ~r.doc.is_error
             /\ r.doc.structured # "card" /\ ~Reply!parse_summary(r.doc.text)
    <3>1. out = Reply!Malformed({u})
      BY <1>3, <2>1, <2>4 DEF Unmarked, Reply!summary_from_text
    <3>2. out.kind = "malformed" /\ out.usage = {u} /\ ~Reply!stops_pool(out)
      BY <3>1, Outcomes
    <3> QED
      BY <1>4, <1>5, <1>8, <1>11, <3>2 DEF CliGood
  <2> QED
    BY <2>2, <2>3, <2>4
<1> QED
  BY <1>1, <1>9, <1>10, <1>11

\* claude_cli.rs run_once: a run of the CLI is judged as the pool needs it.
LEMMA CliJudged ==
  ASSUME NEW r, IsCliReply(r), NEW empty \in BOOLEAN, NEW m
  PROVE  Reply!JudgedAlike("cli", empty, r, m)
<1>1. PICK out : out = Reply!cli_run_once(empty, r, m)
  OBVIOUS
<1>2. r.json \in BOOLEAN /\ r.found \in BOOLEAN
  BY DEF IsCliReply
<1>3. SUFFICES CliGood(out, empty, r)
  BY <1>1, CliParts
<1>4. CASE empty
  <2>1. out = Refused
    BY <1>1, <1>4 DEF Reply!cli_run_once, Refused
  <2> QED
    BY <1>4, <2>1, Outcomes DEF CliGood, Plain
<1>5. CASE ~empty /\ r.end = "timeout"
  <2>1. out = Reply!Retryable
    BY <1>1, <1>5 DEF Reply!cli_run_once
  <2> QED
    BY <1>5, <2>1, CliShared, Outcomes DEF CliGood, Plain
<1>6. CASE ~empty /\ r.end # "timeout" /\ r.found /\ r.json
  <2>1. out = Parsed(r.doc, m)
    BY <1>1, <1>6, r.json = TRUE DEF Reply!cli_run_once, Parsed
  <2>2. CliGood(out, FALSE, r)
    BY <1>6, <2>1, CliDocumentJudged
  <2> QED
    BY <1>6, <2>2
<1>7. CASE ~empty /\ r.end # "timeout" /\ r.found /\ ~r.json
  <2>1. out = Reply!Malformed({})
    BY <1>1, <1>7 DEF Reply!cli_run_once, Reply!parse_result
  <2>2. out.kind = "malformed" /\ out.usage = {} /\ ~Reply!stops_pool(out)
    BY <2>1, Outcomes
  <2> QED
    BY <1>7, <2>2, CliShared DEF CliGood
<1>8. CASE ~empty /\ r.end # "timeout" /\ ~r.found
  <2>1. Reply!Shared("cli", r) <=> r.end \in {"not logged in", "authentication"}
    BY <1>8, CliShared
  <2>2. CASE r.end = "exit 0"
    <3>1. out = Reply!Malformed({})
      BY <1>1, <1>8, <2>2 DEF Reply!cli_run_once
    <3>2. out.kind = "malformed" /\ out.usage = {} /\ ~Reply!stops_pool(out)
      BY <3>1, Outcomes
    <3> QED
      BY <1>8, <2>1, <2>2, <3>2 DEF CliGood
  <2>3. CASE r.end \in {"input must be provided", "exit 1"}
    <3>1. out \in {Refused, Reply!Retryable}
      BY <1>1, <1>8, <2>3 DEF Reply!cli_run_once, Refused
    <3>2. Plain(out) /\ ~Reply!stops_pool(out)
      BY <3>1, Outcomes
    <3> QED
      BY <1>8, <2>1, <2>3, <3>2 DEF CliGood, Plain
  <2>4. CASE r.end \in {"not logged in", "authentication"}
    <3>1. out = Reply!Fatal(Reply!FATAL_NOT_LOGGED_IN)
      BY <1>1, <1>8, <2>4 DEF Reply!cli_run_once
    <3>2. Plain(out) /\ Reply!stops_pool(out)
      BY <3>1, Outcomes
    <3> QED
      BY <1>8, <2>1, <2>4, <3>2 DEF CliGood, Plain
  <2> QED
    BY <1>8, <2>2, <2>3, <2>4 DEF IsCliReply
<1> QED
  BY <1>2, <1>4, <1>5, <1>6, <1>7, <1>8

------------------------------------------------------------------------------
(* What the backends have in common. *)

\* For every reply of every backend, whatever its status, text, usage and model, and for
\* every list of prices: a trouble that every job would have stops the pool and a job's own
\* never does, the API and the CLI agree on a status, and a card is taken only from a whole
\* answer and charged as the answer reports (worker/api.rs, local.rs, claude_cli.rs, parse.rs).
THEOREM EveryReplyIsJudged ==
  ASSUME NEW r, NEW empty \in BOOLEAN, NEW m
  PROVE  /\ IsHttpReply(r) => Reply!JudgedAlike("api", empty, r, m) /\ Reply!JudgedAlike("local", empty, r, m)
         /\ IsCliReply(r) => Reply!JudgedAlike("cli", empty, r, m)
BY ApiJudged, LocalJudged, CliJudged

LEMMA TextsTyped ==
  ASSUME NEW text \in Texts
  PROVE  IsText(text)
<1>1. \/ text = [card |-> TRUE, empty |-> FALSE] \/ text = [card |-> FALSE, empty |-> FALSE]
      \/ text = [card |-> FALSE, empty |-> TRUE]
  BY Zenon DEF Texts
<1>2. CASE text = [card |-> TRUE, empty |-> FALSE]
  BY <1>2 DEF IsText
<1>3. CASE text = [card |-> FALSE, empty |-> FALSE]
  BY <1>3 DEF IsText
<1>4. CASE text = [card |-> FALSE, empty |-> TRUE]
  BY <1>4 DEF IsText
<1> QED
  BY <1>1, <1>2, <1>3, <1>4

LEMMA CliStatusesTyped == CliStatuses \subseteq Nat
BY DEF CliStatuses

\* The inputs of the backends' cases are replies.
RepliesTyped ==
  /\ case.alg \in {"api", "local"} => IsHttpReply(case.reply) /\ case.empty \in BOOLEAN
  /\ case.alg = "cli" => IsCliReply(case.reply) /\ case.empty \in BOOLEAN

LEMMA RepliesTypedInvariant == Spec => []RepliesTyped
<1>1. Init => RepliesTyped
  BY DEF Init, Idle, RepliesTyped
<1>2. RepliesTyped /\ [Next]_case => RepliesTyped'
  <2> SUFFICES ASSUME RepliesTyped, [Next]_case
               PROVE  RepliesTyped'
    OBVIOUS
  <2>1. CASE UNCHANGED case
    BY <2>1 DEF RepliesTyped
  <2>2. CASE HttpCase
    <3>1. PICK backend \in {"api", "local"}, empty \in BOOLEAN, transport \in {"http", "timeout", "connect", "other"},
               status \in {200, 400, 401, 403, 404, 413, 429, 500, 529}, msg \in {"account", "other"}, json \in BOOLEAN,
               stop_reason \in {"end_turn", "max_tokens", "refusal"}, text \in Texts, model \in {NoModel, "m", "n"} :
            case' = [alg |-> backend, empty |-> empty,
                     reply |-> [transport |-> transport, status |-> status, msg |-> msg, json |-> json,
                                doc |-> [stop_reason |-> stop_reason, text |-> text, model |-> model,
                                         input |-> 1, cache_write |-> 2, cache_read |-> 3, output |-> 1]]]
      BY <2>2 DEF HttpCase
    <3>2. IsText(text)
      BY <3>1, TextsTyped
    <3>3. case'.alg = backend /\ case'.empty = empty /\ case'.reply.transport = transport
      BY <3>1
    <3>4. case'.reply.status = status /\ case'.reply.json = json /\ case'.reply.doc.text = text
      BY <3>1
    <3>5. IsHttpReply(case'.reply)
      BY <3>2, <3>3, <3>4 DEF IsHttpReply
    <3>6. case'.alg \in {"api", "local"} /\ case'.empty \in BOOLEAN
      BY <3>1
    <3>7. case'.alg # "cli"
      BY <3>6
    <3> QED
      BY <3>5, <3>6, <3>7 DEF RepliesTyped
  <2>3. CASE CliCase
    <3>1. PICK empty \in BOOLEAN, found \in BOOLEAN, json \in BOOLEAN, text \in Texts, is_error \in BOOLEAN,
               end \in CliEnds, status \in CliStatuses, subtype \in {"success", "error_max_budget_usd"},
               error \in {"overloaded", "other"}, structured \in {"card", "not a card", "null"} :
            case' = [alg |-> "cli", empty |-> empty,
                     reply |-> [end |-> end, found |-> found, json |-> json,
                                doc |-> [api_error_status |-> status, terminal_reason |-> "completed", subtype |-> subtype,
                                         is_error |-> is_error, error |-> error, structured |-> structured, text |-> text,
                                         model |-> NoModel, input |-> 1, output |-> 1, cost |-> 1, turns |-> 2]]]
      BY <2>3 DEF CliCase
    <3>2. IsText(text)
      BY <3>1, TextsTyped
    <3>3. case'.alg = "cli" /\ case'.empty = empty /\ case'.reply.end = end /\ case'.reply.found = found
      BY <3>1
    <3>4. /\ case'.reply.json = json /\ case'.reply.doc.api_error_status = status
          /\ case'.reply.doc.is_error = is_error /\ case'.reply.doc.text = text
      BY <3>1
    <3>5. IsCliReply(case'.reply)
      <4>1. status \in Nat
        BY CliStatusesTyped
      <4> QED
        BY <3>1, <3>2, <3>3, <3>4, <4>1 DEF IsCliReply, CliEnds
    <3> QED
      BY <3>3, <3>5 DEF RepliesTyped
  <2>4. CASE BudgetCase
    <3>1. case'.alg = "budget"
      BY <2>4 DEF BudgetCase
    <3> QED
      BY <3>1 DEF RepliesTyped
  <2>5. CASE LinesCase
    <3>1. case'.alg = "lines"
      BY <2>5 DEF LinesCase
    <3> QED
      BY <3>1 DEF RepliesTyped
  <2>6. CASE CardCase
    <3>1. \E d : case' = [alg |-> "date", date |-> d]
      BY <2>6, Zenon DEF CardCase
    <3> QED
      BY <3>1 DEF RepliesTyped
  <2>7. CASE AnswerCase
    <3>1. \E names, more, tldr : case' = [alg |-> "card", answer |-> Answer(tldr, names, <<case.date>> \o more)]
      BY <2>7, Zenon DEF AnswerCase
    <3> QED
      BY <3>1 DEF RepliesTyped
  <2>8. CASE StoredCase
    <3>1. case'.alg = "stored"
      BY <2>8 DEF StoredCase
    <3> QED
      BY <3>1 DEF RepliesTyped
  <2>9. CASE OpenCase
    <3>1. case'.alg = "open"
      BY <2>9 DEF OpenCase
    <3> QED
      BY <3>1 DEF RepliesTyped
  <2>10. CASE IndexCase
    <3>1. case'.alg = "index"
      BY <2>10 DEF IndexCase
    <3> QED
      BY <3>1 DEF RepliesTyped
  <2>11. CASE SearchCase
    <3>1. case'.alg = "search"
      BY <2>11 DEF SearchCase
    <3> QED
      BY <3>1 DEF RepliesTyped
  <2>12. CASE DatasetCase
    <3>1. case'.alg = "dataset"
      BY <2>12 DEF DatasetCase
    <3> QED
      BY <3>1 DEF RepliesTyped
  <2>13. CASE MdaGradeCase
    <3>1. case'.alg = "mda"
      BY <2>13 DEF MdaGradeCase
    <3> QED
      BY <3>1 DEF RepliesTyped
  <2>14. CASE GradeCase
    <3>1. case'.alg = "grades"
      BY <2>14 DEF GradeCase
    <3> QED
      BY <3>1 DEF RepliesTyped
  <2>15. CASE PairCase
    <3>1. case'.alg = "paired"
      BY <2>15 DEF PairCase
    <3> QED
      BY <3>1 DEF RepliesTyped
  <2> QED
    BY <2>1, <2>2, <2>3, <2>4, <2>5, <2>6, <2>7, <2>8, <2>9, <2>10, <2>11, <2>12, <2>13, <2>14, <2>15 DEF Next
<1> QED
  BY <1>1, <1>2, PTL DEF Spec

\* The property the run checks on its replies, from the theorem about all of them; a backend
\* that is missing stops the pool too (worker/mod.rs Unavailable).
THEOREM TroubleIsJudged == Spec => []TroubleIsJudgedAlike
<1>1. Reply!stops_pool(Reply!unavailable)
  BY Outcomes DEF Reply!unavailable
<1>2. RepliesTyped => TroubleIsJudgedAlike
  BY <1>1, EveryReplyIsJudged DEF RepliesTyped, TroubleIsJudgedAlike
<1> QED
  BY <1>2, RepliesTypedInvariant, PTL

------------------------------------------------------------------------------
(* The generator of the paired comparison. *)

LEMMA Grows ==
  ASSUME NEW n \in Nat \ {0}, NEW d \in Nat \ {0}
  PROVE  n * d >= n
OBVIOUS

LEMMA Division ==
  ASSUME NEW n \in Nat \ {0}, NEW a \in Nat
  PROVE  a = n * (a \div n) + (a % n) /\ a \div n \in Nat /\ a % n \in 0 .. n - 1
OBVIOUS

\* A number has one quotient and one remainder.
LEMMA OneQuotient ==
  ASSUME NEW n \in Nat \ {0}, NEW k \in Nat, NEW q \in Nat, NEW i \in 0 .. n - 1, NEW r \in 0 .. n - 1,
         n * k + i = n * q + r
  PROVE  k = q /\ i = r
<1>1. CASE k > q
  <2>1. PICK d \in Nat \ {0} : k = q + d
    BY <1>1
  <2>2. n * k = n * q + n * d
    BY <2>1
  <2> QED
    BY <2>2, Grows
<1>2. CASE q > k
  <2>1. PICK d \in Nat \ {0} : q = k + d
    BY <1>2
  <2>2. n * q = n * k + n * d
    BY <2>1
  <2> QED
    BY <2>2, Grows
<1> QED
  BY <1>1, <1>2

\* paired.rs below: the rejection zone holds every index of 0 .. n - 1 equally often, for every
\* size of the generator and every n it is asked for, so no question is drawn more often.
THEOREM BelowIsFair ==
  ASSUME U64MAX \in Nat, NEW n \in 1 .. U64MAX, NEW i \in 0 .. n - 1
  PROVE  /\ Cardinality(Stat!Accepted(n, i)) = Stat!zone(n) \div n
         /\ Stat!Accepted(n, i) # {}
<1>0. n \in Nat \ {0}
  OBVIOUS
<1>1. PICK q \in Nat, r \in 0 .. n - 1 : q = U64MAX \div n /\ r = U64MAX % n /\ U64MAX = n * q + r
  BY <1>0, Division
<1>2. Stat!zone(n) = n * q
  BY <1>1 DEF Stat!zone
<1>3. q > 0
  <2>1. CASE q = 0
    <3>1. n * q = 0
      BY <2>1
    <3> QED
      BY <1>1, <3>1
  <2> QED
    BY <2>1
<1>4. PICK f : f = [k \in 0 .. q - 1 |-> n * k + i]
  OBVIOUS
<1>5. ASSUME NEW k \in 0 .. q - 1
      PROVE  f[k] \in Stat!Accepted(n, i)
  <2>1. f[k] = n * k + i /\ f[k] \in Nat
    BY <1>4
  <2>2. f[k] % n = i
    <3>1. PICK v \in Nat : v = f[k]
      BY <2>1
    <3>2. PICK a \in Nat, b \in 0 .. n - 1 : v = n * a + b /\ b = v % n
      BY <1>0, Division
    <3>3. n * a + b = n * k + i
      BY <2>1, <3>1, <3>2
    <3>4. k \in Nat
      BY <1>1
    <3>5. b = i
      BY ONLY <1>0, <3>3, <3>4, a \in Nat, b \in 0 .. n - 1, i \in 0 .. n - 1, OneQuotient
    <3> QED
      BY <3>1, <3>2, <3>5
  <2>3. f[k] < n * q
    <3>1. PICK d \in Nat \ {0} : q = k + d
      BY <1>1
    <3>2. n * q = n * k + n * d
      BY <3>1
    <3> QED
      BY <2>1, <3>2, Grows
  <2>4. f[k] \in 0 .. U64MAX
    BY <1>1, <2>1, <2>3
  <2> QED
    BY <1>2, <2>2, <2>3, <2>4 DEF Stat!Accepted
<1>6. ASSUME NEW v \in Stat!Accepted(n, i)
      PROVE  \E k \in 0 .. q - 1 : f[k] = v
  <2>1. v \in Nat /\ v < n * q /\ v % n = i
    BY <1>2 DEF Stat!Accepted
  <2>2. PICK k \in Nat : k = v \div n /\ v = n * k + i
    BY <2>1, <1>0, Division
  <2>3. k < q
    <3>1. CASE k >= q
      <4>1. PICK d \in Nat : k = q + d
        BY <3>1
      <4>2. n * k = n * q + n * d /\ n * d \in Nat
        BY <4>1
      <4> QED
        BY <2>1, <2>2, <4>2
    <3> QED
      BY <3>1
  <2>4. k \in 0 .. q - 1
    BY <2>2, <2>3
  <2>5. f[k] = n * k + i
    BY <1>4, <2>4
  <2> QED
    BY <2>2, <2>4, <2>5
<1>7. ASSUME NEW k \in 0 .. q - 1, NEW l \in 0 .. q - 1, f[k] = f[l]
      PROVE  k = l
  BY <1>4, <1>7, OneQuotient
<1>8. f \in Bijection(0 .. q - 1, Stat!Accepted(n, i))
  <2>1. f \in [0 .. q - 1 -> Stat!Accepted(n, i)]
    BY <1>4, <1>5
  <2> QED
    BY <1>6, <1>7, <2>1, Fun_IsBij
<1>9. IsFiniteSet(0 .. q - 1) /\ Cardinality(0 .. q - 1) = q
  BY <1>3, FS_Interval
<1>10. Cardinality(Stat!Accepted(n, i)) = q
  BY <1>8, <1>9, FS_Bijection, Fun_ExistsBij
<1>11. (n * q) \div n = q
  BY OneQuotient, <1>0, Division
<1>12. f[0] \in Stat!Accepted(n, i)
  BY <1>3, <1>5
<1> QED
  BY <1>2, <1>10, <1>11, <1>12

------------------------------------------------------------------------------
(* Opening a section of a file that may have changed. *)

\* What SelectInSeq answers, for the set of indices that pass its test.
Earliest(T) == IF T # {} THEN Doc!Min(T) ELSE 0

LEMMA EarliestIsOne ==
  ASSUME NEW n \in Nat, NEW T, T \subseteq 1 .. n
  PROVE  /\ Earliest(T) \in 0 .. n
         /\ T # {} => Earliest(T) \in T
         /\ T = {} => Earliest(T) = 0
<1>1. T # {} => Min(T) \in T
  <2>1. T \subseteq Nat
    OBVIOUS
  <2> QED
    BY <2>1, LeastExists
<1>2. Min(T) = Doc!Min(T)
  BY DEF Min, Doc!Min
<1>3. CASE T = {}
  BY <1>3 DEF Earliest
<1>4. CASE T # {}
  <2>1. Earliest(T) = Min(T)
    BY <1>2, <1>4 DEF Earliest
  <2>2. Earliest(T) \in T
    BY <1>1, <1>4, <2>1
  <2>3. Earliest(T) \in 1 .. n
    BY <2>2
  <2> QED
    BY <1>4, <2>2, <2>3
<1> QED
  BY <1>3, <1>4

\* The section that locate opens is one of the file's; it is one with the wanted text
\* whenever the file still has that text, wherever the section went; and a section is
\* opened in any case while the file has as many sections as before.
\* Documents.tla locate, for pipeline.rs locate.
THEOREM LocateFindsContent ==
  ASSUME NEW S, NEW content \in Seq(S), NEW wanted, NEW index \in Nat \ {0},
         NEW found, found = Doc!locate(content, wanted, index)
  PROVE  /\ found \in 0 .. Len(content)
         /\ index <= Len(content) => found # 0
         /\ (\E i \in 1 .. Len(content) : content[i].hash = wanted.hash)
              => found # 0 /\ content[found].hash = wanted.hash
<1> DEFINE Hashed == {i \in 1 .. Len(content) : content[i].hash = wanted.hash}
           Headed == {i \in 1 .. Len(content) : content[i].heading = wanted.heading}
<1>1. Doc!First(content, LAMBDA s : s.hash = wanted.hash) = Earliest(Hashed)
  BY DEF Doc!First, Doc!SelectInSeq, Earliest
<1>2. Doc!First(content, LAMBDA s : s.heading = wanted.heading) = Earliest(Headed)
  BY DEF Doc!First, Doc!SelectInSeq, Earliest
<1>3. found = IF index <= Len(content) /\ content[index].hash = wanted.hash THEN index
              ELSE IF Earliest(Hashed) # 0 THEN Earliest(Hashed)
              ELSE IF Earliest(Headed) # 0 THEN Earliest(Headed)
              ELSE IF index <= Len(content) THEN index ELSE 0
  BY <1>1, <1>2 DEF Doc!locate
<1>4. Len(content) \in Nat
  OBVIOUS
<1>5. /\ Earliest(Hashed) \in 0 .. Len(content)
      /\ Hashed # {} => Earliest(Hashed) \in Hashed
      /\ Hashed = {} => Earliest(Hashed) = 0
  <2> Hashed \subseteq 1 .. Len(content)
    OBVIOUS
  <2> HIDE DEF Hashed
  <2> QED
    BY <1>4, EarliestIsOne
<1>6. Earliest(Headed) \in 0 .. Len(content)
  <2> Headed \subseteq 1 .. Len(content)
    OBVIOUS
  <2> HIDE DEF Headed
  <2> QED
    BY <1>4, EarliestIsOne
<1>7. Hashed # {} => Earliest(Hashed) # 0 /\ content[Earliest(Hashed)].hash = wanted.hash
  BY <1>5
<1>8. (\E i \in 1 .. Len(content) : content[i].hash = wanted.hash) <=> Hashed # {}
  OBVIOUS
<1> DEFINE h == Earliest(Hashed)
           p == Earliest(Headed)
<1> HIDE DEF Hashed, Headed
<1>9. h \in 0 .. Len(content) /\ p \in 0 .. Len(content)
  BY <1>5, <1>6
<1>10. /\ Hashed # {} => h # 0 /\ content[h].hash = wanted.hash
       /\ found = IF index <= Len(content) /\ content[index].hash = wanted.hash THEN index
                  ELSE IF h # 0 THEN h ELSE IF p # 0 THEN p
                  ELSE IF index <= Len(content) THEN index ELSE 0
  BY <1>3, <1>7
<1> HIDE DEF h, p
<1> QED
  BY <1>4, <1>8, <1>9, <1>10

------------------------------------------------------------------------------
(* The lines of a file, section by section. *)

Cat(p, q) == p \o q

\* t is p with q behind it.
Follows(t, p, q) ==
  /\ Len(t) = Len(p) + Len(q)
  /\ \A k \in 1 .. Len(p) : t[k] = p[k]
  /\ \A k \in 1 .. Len(q) : t[Len(p) + k] = q[k]

LEMMA CatFacts ==
  ASSUME NEW T, NEW p \in Seq(T), NEW q \in Seq(T)
  PROVE  Cat(p, q) \in Seq(T) /\ Follows(Cat(p, q), p, q) /\ Cat(<<>>, q) = q
BY DEF Cat, Follows

\* A set of naturals has a member that follows none of its own.
LEMMA FirstOfThem ==
  ASSUME NEW B, B \subseteq Nat, B # {}
  PROVE  \E m \in B : m - 1 \notin B
<1>1. Min(B) \in B /\ \A y \in B : Min(B) <= y
  BY LeastExists
<1>2. PICK m \in Nat : m = Min(B)
  BY <1>1
<1>3. m - 1 \notin B
  BY <1>1, <1>2
<1> QED
  BY <1>1, <1>2, <1>3

\* g[i] is the first i sequences, one after the other.
Joined(seqs, m, T, g) ==
  /\ g \in [0 .. m -> Seq(T)] /\ g[0] = <<>>
  /\ \A i \in 1 .. m : g[i] = Cat(g[i - 1], seqs[i])

LEMMA JoinedExists ==
  ASSUME NEW T, NEW n \in Nat, NEW seqs \in [1 .. n -> Seq(T)]
  PROVE  \E g : Joined(seqs, n, T, g)
<1> DEFINE Bad == {m \in 0 .. n : ~\E g : Joined(seqs, m, T, g)}
<1>1. SUFFICES ASSUME Bad # {}
               PROVE  FALSE
  <2>1. n \in 0 .. n
    OBVIOUS
  <2>2. Bad = {} => n \notin Bad
    BY Zenon
  <2> QED
    BY <2>1, <2>2
<1>2. PICK m \in Bad : m - 1 \notin Bad
  <2>1. Bad \subseteq Nat
    OBVIOUS
  <2> HIDE DEF Bad
  <2> QED
    BY <1>1, <2>1, FirstOfThem
<1>3. m \in 0 .. n /\ (\A g : ~Joined(seqs, m, T, g))
  OBVIOUS
<1>4. CASE m = 0
  <2>1. PICK g : g = [i \in 0 .. 0 |-> <<>>]
    OBVIOUS
  <2>2. Joined(seqs, 0, T, g)
    BY <2>1 DEF Joined
  <2> QED
    BY <1>3, <1>4, <2>2
<1>5. CASE m # 0
  <2>1. PICK k \in 0 .. n : k = m - 1 /\ k + 1 = m /\ k \notin Bad
    <3>1. m - 1 \in 0 .. n /\ (m - 1) + 1 = m
      BY <1>3, <1>5
    <3> HIDE DEF Bad
    <3> QED
      BY <1>2, <3>1
  <2>2. PICK g : Joined(seqs, k, T, g)
    BY <2>1
  <2>3. /\ g \in [0 .. k -> Seq(T)] /\ g[0] = <<>>
        /\ \A i \in 1 .. k : g[i] = Cat(g[i - 1], seqs[i])
    BY <2>2 DEF Joined
  <2>4. PICK last : last = Cat(g[k], seqs[m])
    OBVIOUS
  <2>5. last \in Seq(T)
    <3>1. g[k] \in Seq(T) /\ seqs[m] \in Seq(T)
      BY <1>3, <1>5, <2>1, <2>3
    <3> QED
      BY <2>4, <3>1, CatFacts
  <2>6. PICK h : h = [i \in 0 .. m |-> IF i = m THEN last ELSE g[i]]
    OBVIOUS
  <2>7. h \in [0 .. m -> Seq(T)] /\ h[0] = <<>> /\ h[m] = last /\ \A i \in 0 .. k : h[i] = g[i]
    <3>1. \A i \in 0 .. m : h[i] = IF i = m THEN last ELSE g[i]
      BY <2>6
    <3>2. m \in 0 .. m /\ 0 \in 0 .. m /\ 0 # m /\ 0 \in 0 .. k
      BY <1>3, <1>5, <2>1
    <3>3. \A i \in 0 .. k : i \in 0 .. m /\ i # m
      BY <1>3, <2>1
    <3>4. \A i \in 0 .. m : i = m \/ i \in 0 .. k
      BY <1>3, <2>1
    <3>5. h[m] = last /\ \A i \in 0 .. k : h[i] = g[i]
      BY <3>1, <3>2, <3>3
    <3>6. \A i \in 0 .. m : h[i] \in Seq(T)
      BY <2>3, <2>5, <3>4, <3>5
    <3>7. h \in [0 .. m -> Seq(T)]
      BY <2>6, <3>6
    <3> QED
      BY <2>3, <3>2, <3>5, <3>7
  <2>8. ASSUME NEW i \in 1 .. m
        PROVE  h[i] = Cat(h[i - 1], seqs[i])
    <3>1. i - 1 \in 0 .. k /\ (i = m \/ i \in 1 .. k)
      BY <1>3, <2>1
    <3>2. CASE i = m
      BY <2>1, <2>4, <2>7, <3>1, <3>2
    <3>3. CASE i \in 1 .. k
      <4>1. i \in 0 .. k
        BY <3>3
      <4>2. h[i - 1] = g[i - 1]
        BY <2>7, <3>1
      <4>3. h[i] = g[i]
        BY <2>7, <4>1
      <4>4. g[i] = Cat(g[i - 1], seqs[i])
        BY <2>3, <3>3
      <4> QED
        BY <4>2, <4>3, <4>4
    <3> QED
      BY <3>1, <3>2, <3>3
  <2>9. Joined(seqs, m, T, h)
    BY <2>7, <2>8 DEF Joined
  <2> QED
    BY <1>3, <2>9
<1> QED
  BY <1>4, <1>5

FirstOf(seqs, m) == [i \in 1 .. m |-> seqs[i]]

\* Doc!FlattenSeq of the first m sequences.
LEMMA FlattenJoins ==
  ASSUME NEW T, NEW n \in Nat, NEW seqs \in [1 .. n -> Seq(T)], NEW g, Joined(seqs, n, T, g), NEW m \in 0 .. n
  PROVE  Doc!FlattenSeq(FirstOf(seqs, m)) = g[m]
<1>1. PICK s : s = FirstOf(seqs, m)
  OBVIOUS
<1>2. /\ g \in [0 .. n -> Seq(T)] /\ g[0] = <<>>
      /\ \A i \in 1 .. n : g[i] = Cat(g[i - 1], seqs[i])
  BY DEF Joined
<1>3. Len(s) = m /\ \A i \in 1 .. m : s[i] = seqs[i] /\ s[i] \in Seq(T) /\ i \in 1 .. n
  <2>1. \A i \in 1 .. m : s[i] = seqs[i] /\ i \in 1 .. n
    BY <1>1 DEF FirstOf
  <2>2. s \in [1 .. m -> Seq(T)] /\ m \in Nat
    BY <1>1, <2>1 DEF FirstOf
  <2>3. Len(s) = m
    BY <2>2
  <2> QED
    BY <2>1, <2>2, <2>3
<1>4. CASE m = 0
  <2>1. s = <<>> /\ Len(s) = 0
    BY <1>1, <1>3, <1>4 DEF FirstOf
  <2>2. Doc!FlattenSeq(s) = s
    BY <2>1 DEF Doc!FlattenSeq
  <2> QED
    BY <1>1, <1>2, <1>4, <2>1, <2>2
<1>5. CASE m # 0
  <2> DEFINE Step(f) == [i \in 1 .. m |-> IF i = 1 THEN s[i] ELSE Cat(f[i - 1], s[i])]
             flatten == CHOOSE f : f = Step(f)
  <2>1. Doc!FlattenSeq(s) = flatten[m]
    BY <1>3, <1>5 DEF Doc!FlattenSeq, Cat
  <2>2. \E f : f = Step(f)
    <3>1. PICK f : f = [i \in 1 .. m |-> g[i]]
      OBVIOUS
    <3>2. ASSUME NEW i \in 1 .. m
          PROVE  f[i] = IF i = 1 THEN s[i] ELSE Cat(f[i - 1], s[i])
      <4>1. g[i] = Cat(g[i - 1], s[i]) /\ s[i] \in Seq(T) /\ f[i] = g[i]
        BY <1>2, <1>3, <3>1
      <4>2. CASE i = 1
        <5>1. Cat(<<>>, s[i]) = s[i]
          BY <4>1, CatFacts
        <5>2. g[i - 1] = <<>>
          BY <1>2, <4>2
        <5> QED
          BY <4>1, <4>2, <5>1, <5>2
      <4>3. CASE i # 1
        <5>1. i - 1 \in 1 .. m
          BY <4>3
        <5>2. f[i - 1] = g[i - 1]
          BY <3>1, <5>1
        <5> QED
          BY <4>1, <4>3, <5>2
      <4> QED
        BY <4>2, <4>3
    <3>3. f = Step(f)
      BY <3>1, <3>2
    <3> QED
      BY <3>3
  <2>3. flatten = Step(flatten)
    BY <2>2, Zenon
  <2> HIDE DEF flatten
  <2>4. PICK f : f = flatten
    OBVIOUS
  <2>5. \A i \in 1 .. m : f[i] = IF i = 1 THEN s[i] ELSE Cat(f[i - 1], s[i])
    BY <2>3, <2>4
  <2> DEFINE Bad == {i \in 1 .. m : f[i] # g[i]}
  <2>6. Bad = {}
    <3>1. SUFFICES ASSUME Bad # {}
                   PROVE  FALSE
      OBVIOUS
    <3>2. PICK i \in Bad : i - 1 \notin Bad
      <4>1. Bad \subseteq Nat
        OBVIOUS
      <4> HIDE DEF Bad
      <4> QED
        BY <3>1, <4>1, FirstOfThem
    <3>3. i \in 1 .. m /\ f[i] # g[i]
      OBVIOUS
    <3>4. g[i] = Cat(g[i - 1], s[i]) /\ s[i] \in Seq(T)
      BY <1>2, <1>3, <3>3
    <3>5. CASE i = 1
      <4>1. Cat(<<>>, s[i]) = s[i]
        BY <3>4, CatFacts
      <4>2. g[i - 1] = <<>>
        BY <1>2, <3>5
      <4>3. f[i] = s[i]
        BY <2>5, <3>3, <3>5
      <4> QED
        BY <3>3, <3>4, <4>1, <4>2, <4>3
    <3>6. CASE i # 1
      <4>1. i - 1 \in 1 .. m
        BY <3>3, <3>6
      <4>2. f[i - 1] = g[i - 1]
        BY <3>2, <4>1
      <4>3. f[i] = Cat(f[i - 1], s[i])
        BY <2>5, <3>3, <3>6
      <4> QED
        BY <3>3, <3>4, <4>2, <4>3
    <3> QED
      BY <3>5, <3>6
  <2>7. f[m] = g[m]
    <3>1. m \in 1 .. m
      BY <1>5
    <3> QED
      BY <2>6, <3>1
  <2> QED
    BY <1>1, <2>1, <2>4, <2>7
<1> QED
  BY <1>4, <1>5

\* The joined sequences only grow.
StartsWith(t, p) == Len(p) <= Len(t) /\ \A k \in 1 .. Len(p) : t[k] = p[k]

LEMMA JoinedGrows ==
  ASSUME NEW T, NEW n \in Nat, NEW seqs \in [1 .. n -> Seq(T)], NEW g, Joined(seqs, n, T, g), NEW i \in 0 .. n
  PROVE  StartsWith(g[n], g[i])
<1>1. /\ g \in [0 .. n -> Seq(T)]
      /\ \A j \in 1 .. n : g[j] = Cat(g[j - 1], seqs[j])
  BY DEF Joined
<1>2. PICK r : r = g[i] /\ r \in Seq(T)
  BY <1>1
<1> DEFINE Bad == {j \in i .. n : ~StartsWith(g[j], r)}
<1>3. SUFFICES ASSUME Bad # {}
               PROVE  FALSE
  <2>1. n \in i .. n
    OBVIOUS
  <2> QED
    BY <1>2, <2>1
<1>4. PICK m \in Bad : m - 1 \notin Bad
  <2>1. Bad \subseteq Nat
    OBVIOUS
  <2> HIDE DEF Bad
  <2> QED
    BY <1>3, <2>1, FirstOfThem
<1>5. m \in i .. n /\ ~StartsWith(g[m], r)
  OBVIOUS
<1>6. m # i
  BY <1>2, <1>5 DEF StartsWith
<1>7. m - 1 \in i .. n /\ m \in 1 .. n
  BY <1>5, <1>6
<1>8. StartsWith(g[m - 1], r)
  BY <1>4, <1>7
<1>9. PICK p, q : p = g[m - 1] /\ q = seqs[m] /\ p \in Seq(T) /\ q \in Seq(T)
  BY <1>1, <1>7
<1>10. g[m] = Cat(p, q)
  BY <1>1, <1>7, <1>9
<1>11. Len(Cat(p, q)) = Len(p) + Len(q) /\ \A k \in 1 .. Len(p) : Cat(p, q)[k] = p[k]
  <2>1. Follows(Cat(p, q), p, q)
    BY <1>9, CatFacts, Zenon
  <2> QED
    BY <2>1 DEF Follows
<1>12. PICK t : t = Cat(p, q)
  OBVIOUS
<1>13. StartsWith(t, r)
  <2>1. PICK a \in Nat, b \in Nat, c \in Nat : a = Len(p) /\ b = Len(q) /\ c = Len(r)
    <3>1. Len(p) \in Nat /\ Len(q) \in Nat /\ Len(r) \in Nat
      BY <1>2, <1>9
    <3> QED
      BY <3>1
  <2>2. c <= a /\ (\A k \in 1 .. c : p[k] = r[k]) /\ Len(t) = a + b /\ \A k \in 1 .. a : t[k] = p[k]
    BY <1>8, <1>9, <1>11, <1>12, <2>1 DEF StartsWith
  <2> QED
    BY <2>1, <2>2 DEF StartsWith
<1> QED
  BY <1>5, <1>10, <1>12, <1>13

\* A section's lines are where line_start and line_end say.
LEMMA SectionLines ==
  ASSUME NEW T, NEW S, NEW content \in Seq(S), \A j \in 1 .. Len(content) : content[j].lines \in Seq(T),
         NEW i \in 1 .. Len(content)
  PROVE  SubSeq(Doc!LinesOf(content), Doc!line_start(content, i), Doc!line_end(content, i)) = content[i].lines
<1>1. PICK n \in Nat : n = Len(content) /\ DOMAIN content = 1 .. n
  OBVIOUS
<1>2. PICK seqs : seqs = [j \in 1 .. n |-> content[j].lines]
  OBVIOUS
<1>3. seqs \in [1 .. n -> Seq(T)]
  BY <1>1, <1>2
<1>4. PICK g : Joined(seqs, n, T, g)
  BY <1>3, JoinedExists
<1>5. ASSUME NEW m \in 0 .. n
      PROVE  Doc!LinesOf(SubSeq(content, 1, m)) = g[m]
  <2>1. PICK c : c = SubSeq(content, 1, m)
    OBVIOUS
  <2>3. DOMAIN c = 1 .. m /\ \A j \in 1 .. m : c[j] = content[j]
    BY <1>1, <2>1
  <2>6. \A j \in 1 .. m : seqs[j] = content[j].lines
    BY <1>2
  <2>7. [j \in DOMAIN c |-> c[j].lines] = FirstOf(seqs, m)
    BY <2>3, <2>6 DEF FirstOf
  <2>8. Doc!FlattenSeq(FirstOf(seqs, m)) = g[m]
    BY <1>3, <1>4, FlattenJoins
  <2> QED
    BY <2>1, <2>7, <2>8 DEF Doc!LinesOf
<1>6. Doc!LinesOf(content) = g[n]
  <2>1. SubSeq(content, 1, n) = content
    BY <1>1
  <2>2. n \in 0 .. n
    OBVIOUS
  <2>3. Doc!LinesOf(SubSeq(content, 1, n)) = g[n]
    BY <1>5, <2>2
  <2> QED
    BY <2>1, <2>3
<1>7. i \in 1 .. n /\ i - 1 \in 0 .. n /\ i \in 0 .. n
  BY <1>1
<1>8. PICK p, q, all : p = g[i - 1] /\ q = seqs[i] /\ all = g[n]
  OBVIOUS
<1>9. g[i] = Cat(p, q) /\ p \in Seq(T) /\ q \in Seq(T) /\ all \in Seq(T)
  <2>1. /\ g \in [0 .. n -> Seq(T)]
        /\ \A j \in 1 .. n : g[j] = Cat(g[j - 1], seqs[j])
    BY <1>4 DEF Joined
  <2>2. n \in 0 .. n
    OBVIOUS
  <2> QED
    BY <1>3, <1>7, <1>8, <2>1, <2>2
<1>10. StartsWith(all, Cat(p, q))
  <2>1. StartsWith(g[n], g[i])
    BY <1>3, <1>4, <1>7, JoinedGrows
  <2> QED
    BY <1>8, <1>9, <2>1
<1>11. SubSeq(all, 1 + Len(p), Len(Cat(p, q))) = q
  <2>1. PICK a \in Nat, b \in Nat, c \in Nat : a = Len(p) /\ b = Len(q) /\ c = Len(all)
    <3>1. Len(p) \in Nat /\ Len(q) \in Nat /\ Len(all) \in Nat
      BY <1>9
    <3> QED
      BY <3>1
  <2>2. PICK r : r = Cat(p, q) /\ Len(r) = a + b /\ \A k \in 1 .. b : r[a + k] = q[k]
    <3>1. Follows(Cat(p, q), p, q)
      BY <1>9, CatFacts, Zenon
    <3> QED
      BY <2>1, <3>1 DEF Follows
  <2>3. a + b <= c /\ \A k \in 1 .. b : all[a + k] = q[k]
    <3>1. a + b <= c /\ \A k \in 1 .. a + b : all[k] = r[k]
      BY <1>10, <2>1, <2>2 DEF StartsWith
    <3>2. \A k \in 1 .. b : a + k \in 1 .. a + b
      OBVIOUS
    <3> QED
      BY <2>2, <3>1, <3>2
  <2>4. PICK t : t = SubSeq(all, 1 + a, a + b)
    OBVIOUS
  <2>5. t = [k \in 1 .. b |-> all[a + k]]
    <3>1. t = [k \in 1 .. ((a + b) - (1 + a) + 1) |-> all[(1 + a) + k - 1]]
      BY <1>9, <2>1, <2>3, <2>4
    <3>2. (a + b) - (1 + a) + 1 = b /\ \A k \in 1 .. b : (1 + a) + k - 1 = a + k
      OBVIOUS
    <3> QED
      BY <3>1, <3>2
  <2>6. q = [k \in 1 .. b |-> q[k]]
    BY <1>9, <2>1
  <2>7. t = q
    BY <2>3, <2>5, <2>6
  <2> QED
    BY <2>1, <2>2, <2>4, <2>7
<1>12. Doc!line_start(content, i) = 1 + Len(p) /\ Doc!line_end(content, i) = Len(Cat(p, q))
  BY <1>5, <1>7, <1>8, <1>9 DEF Doc!line_start, Doc!line_end
<1>13. q = content[i].lines
  BY <1>2, <1>7, <1>8
<1> QED
  BY <1>6, <1>8, <1>11, <1>12, <1>13

------------------------------------------------------------------------------
(* `mda open`: Documents. *)

\* What an open finds in the file, where it finds it, and the documents it leaves.
FileIsThere(docs, disk, path, index) ==
  /\ path \in Doc!Live(docs) /\ index \in DOMAIN docs[path].content
  /\ Doc!safe_join(disk, path) = path
  /\ disk[path].kind = "file" /\ disk[path].readable

PlaceIn(docs, disk, path, index) == Doc!locate(disk[path].content, docs[path].content[index], index)

After(docs, disk, path) ==
  IF disk[path].content # docs[path].content
  THEN Doc!index_parsed(docs, path, disk[path].content, disk[path].mtime) ELSE docs

\* The lines of a section as line_start and line_end cut them out of the file.
TextAt(content, i) == SubSeq(Doc!LinesOf(content), Doc!line_start(content, i), Doc!line_end(content, i))

\* An open either finds no file and leaves the documents, or leaves them as After says.
LEMMA OpenCases ==
  ASSUME NEW docs, NEW disk, NEW path, NEW index, NEW opened,
         opened = Doc!open_section(docs, disk, path, index),
         path \notin {NotFound, Unreadable}
  PROVE  \/ /\ ~FileIsThere(docs, disk, path, index)
            /\ opened.answer \in {NotFound, Unreadable}
            /\ opened.docs = docs
         \/ /\ FileIsThere(docs, disk, path, index)
            /\ opened.docs = After(docs, disk, path)
            /\ \/ PlaceIn(docs, disk, path, index) = 0 /\ opened.answer = NotFound
               \/ /\ PlaceIn(docs, disk, path, index) # 0
                  /\ opened.answer.index = PlaceIn(docs, disk, path, index)
                  /\ opened.answer.heading = disk[path].content[opened.answer.index].heading
                  /\ opened.answer.text = TextAt(disk[path].content, opened.answer.index)
                  /\ opened.answer.stale <=> disk[path].content # docs[path].content
<1> DEFINE known == path \in Doc!Live(docs) /\ index \in DOMAIN docs[path].content
<1>1. CASE ~known
  <2>1. opened = [answer |-> NotFound, docs |-> docs]
    BY <1>1 DEF Doc!open_section
  <2> QED
    BY <1>1, <2>1 DEF FileIsThere
<1>2. CASE known /\ Doc!safe_join(disk, path) # path
  <2>1. opened = [answer |-> Doc!safe_join(disk, path), docs |-> docs]
    BY <1>2 DEF Doc!open_section
  <2>2. Doc!safe_join(disk, path) \in {NotFound, Unreadable}
    BY <1>2 DEF Doc!safe_join
  <2> QED
    BY <1>2, <2>1, <2>2 DEF FileIsThere
<1>3. CASE known /\ Doc!safe_join(disk, path) = path /\ ~(disk[path].kind = "file" /\ disk[path].readable)
  <2>1. opened = [answer |-> Unreadable, docs |-> docs]
    BY <1>3 DEF Doc!open_section
  <2> QED
    BY <1>3, <2>1 DEF FileIsThere
<1>4. CASE known /\ Doc!safe_join(disk, path) = path /\ disk[path].kind = "file" /\ disk[path].readable
  <2>1. FileIsThere(docs, disk, path, index)
    BY <1>4 DEF FileIsThere
  <2>2. CASE PlaceIn(docs, disk, path, index) = 0
    <3>1. opened = [answer |-> NotFound, docs |-> After(docs, disk, path)]
      BY <1>4, <2>2 DEF Doc!open_section, After, PlaceIn
    <3> QED
      BY <2>1, <2>2, <3>1
  <2>3. CASE PlaceIn(docs, disk, path, index) # 0
    <3>1. PICK content, place, text, moved :
             /\ content = disk[path].content /\ place = PlaceIn(docs, disk, path, index)
             /\ text = TextAt(content, place) /\ moved = (content # docs[path].content)
      OBVIOUS
    <3>2. opened = [answer |-> [index |-> place, heading |-> content[place].heading, stale |-> moved, text |-> text],
                    docs |-> After(docs, disk, path)]
      BY <1>4, <2>3, <3>1, Zenon DEF Doc!open_section, After, PlaceIn, TextAt
    <3>3. /\ opened.docs = After(docs, disk, path)
          /\ opened.answer.index = place /\ opened.answer.heading = content[place].heading
          /\ opened.answer.text = text /\ opened.answer.stale = moved
      BY <3>2
    <3> QED
      BY <2>1, <2>3, <3>1, <3>3
  <2> QED
    BY <2>2, <2>3
<1> QED
  BY <1>1, <1>2, <1>3, <1>4

\* An open of a section of a file, whatever the index holds, that answers.
Answered(S, T, docs, disk, path, index, opened) ==
  /\ docs = [p \in DOMAIN docs |-> docs[p]] /\ path \in DOMAIN docs /\ path \notin {NotFound, Unreadable}
  /\ disk[path].content \in Seq(S) /\ \A i \in 1 .. Len(disk[path].content) : disk[path].content[i].lines \in Seq(T)
  /\ index \in Nat \ {0}
  /\ opened = Doc!open_section(docs, disk, path, index) /\ opened.answer \notin {NotFound, Unreadable}

\* It shows a section of the file, the wanted one if it is there, and brings the index up to date.
Shows(docs, disk, path, index, opened) ==
  LET content == disk[path].content
      found == opened.answer.index
      wanted == docs[path].content[index]
  IN  /\ opened.docs[path].content = content /\ Doc!disk_state(disk, path, opened.docs[path]) # "changed"
      /\ \A p \in DOMAIN docs \ {path} : opened.docs[p] = docs[p]
      /\ found \in 1 .. Len(content)
      /\ opened.answer.heading = content[found].heading /\ opened.answer.text = content[found].lines
      /\ (\E i \in 1 .. Len(content) : content[i].hash = wanted.hash) => content[found].hash = wanted.hash

\* pipeline.rs open_section: whatever the index held, an open that answers shows the lines
\* and the heading of one section of the file as it is, of the one that was asked for if the
\* file still has it; it leaves the index with the file's own text, which `mda stale` does not
\* call changed any more, and touches no other document.
THEOREM OpenReadsTheFile ==
  ASSUME NEW S, NEW T, NEW docs, NEW disk, NEW path, NEW index, NEW opened,
         Answered(S, T, docs, disk, path, index, opened)
  PROVE  Shows(docs, disk, path, index, opened)
<1>0. /\ docs = [p \in DOMAIN docs |-> docs[p]] /\ path \in DOMAIN docs /\ path \notin {NotFound, Unreadable}
      /\ disk[path].content \in Seq(S) /\ \A i \in 1 .. Len(disk[path].content) : disk[path].content[i].lines \in Seq(T)
      /\ index \in Nat \ {0}
      /\ opened = Doc!open_section(docs, disk, path, index) /\ opened.answer \notin {NotFound, Unreadable}
  BY Zenon DEF Answered
<1>1. /\ FileIsThere(docs, disk, path, index)
      /\ opened.docs = After(docs, disk, path)
      /\ PlaceIn(docs, disk, path, index) # 0
      /\ opened.answer.index = PlaceIn(docs, disk, path, index)
  BY <1>0, OpenCases
<1>2. /\ opened.docs[path].content = disk[path].content
      /\ \A p \in DOMAIN docs \ {path} : opened.docs[p] = docs[p]
  <2>1. CASE disk[path].content = docs[path].content
    BY <1>1, <2>1 DEF After
  <2>2. CASE disk[path].content # docs[path].content
    <3>1. opened.docs = [docs EXCEPT ![path] = [content |-> disk[path].content, updated_at |-> disk[path].mtime]]
      BY <1>1, <2>2 DEF After, Doc!index_parsed
    <3> QED
      BY <1>0, <3>1
  <2> QED
    BY <2>1, <2>2
<1>3. Doc!disk_state(disk, path, opened.docs[path]) # "changed"
  BY <1>1, <1>2 DEF Doc!disk_state, FileIsThere
<1>4. /\ opened.answer.index \in 0 .. Len(disk[path].content)
      /\ (\E i \in 1 .. Len(disk[path].content) : disk[path].content[i].hash = docs[path].content[index].hash)
           => disk[path].content[opened.answer.index].hash = docs[path].content[index].hash
  <2>1. PICK content, wanted, found : content = disk[path].content /\ wanted = docs[path].content[index] /\ found = opened.answer.index
    OBVIOUS
  <2>2. content \in Seq(S) /\ found = Doc!locate(content, wanted, index)
    BY <1>0, <1>1, <2>1 DEF PlaceIn
  <2>3. /\ found \in 0 .. Len(content)
        /\ (\E i \in 1 .. Len(content) : content[i].hash = wanted.hash) => content[found].hash = wanted.hash
    BY <1>0, <2>2, LocateFindsContent
  <2> QED
    BY <2>1, <2>3
<1>5. PICK content, found : content = disk[path].content /\ found = opened.answer.index
  OBVIOUS
<1>6. content \in Seq(S) /\ found \in 1 .. Len(content) /\ \A i \in 1 .. Len(content) : content[i].lines \in Seq(T)
  BY <1>0, <1>1, <1>4, <1>5
<1>7. /\ opened.answer.heading = content[found].heading
      /\ opened.answer.text = TextAt(content, found)
  BY <1>0, <1>1, <1>5, OpenCases
<1>8. TextAt(content, found) = content[found].lines
  BY <1>6, SectionLines DEF TextAt
<1>9. opened.answer.heading = content[found].heading /\ opened.answer.text = content[found].lines
  BY <1>7, <1>8
<1>10. PICK wanted : wanted = docs[path].content[index]
  OBVIOUS
<1>11. /\ found \in 1 .. Len(content)
       /\ (\E i \in 1 .. Len(content) : content[i].hash = wanted.hash) => content[found].hash = wanted.hash
  BY <1>4, <1>5, <1>6, <1>10
<1> QED
  BY <1>2, <1>3, <1>5, <1>9, <1>10, <1>11, Zenon DEF Shows

\* pipeline.rs open_section: the id in an answer is good for the next open, which finds the
\* index up to date, opens the same section and writes nothing.
THEOREM OpenAgainIsTheSame ==
  ASSUME NEW S, NEW T, NEW docs, NEW disk, NEW path, NEW index, NEW opened,
         Answered(S, T, docs, disk, path, index, opened),
         NoDoc # [content |-> disk[path].content, updated_at |-> disk[path].mtime],
         NEW again, again = Doc!open_section(opened.docs, disk, path, opened.answer.index)
  PROVE  /\ again.docs = opened.docs
         /\ again.answer.index = opened.answer.index
         /\ again.answer.text = opened.answer.text
         /\ ~again.answer.stale
<1>0. /\ docs = [p \in DOMAIN docs |-> docs[p]] /\ path \in DOMAIN docs /\ path \notin {NotFound, Unreadable}
      /\ disk[path].content \in Seq(S) /\ opened = Doc!open_section(docs, disk, path, index)
      /\ opened.answer \notin {NotFound, Unreadable}
  BY Zenon DEF Answered
<1>1. /\ FileIsThere(docs, disk, path, index)
      /\ opened.docs = After(docs, disk, path)
  BY <1>0, OpenCases
<1>2. /\ opened.docs[path].content = disk[path].content
      /\ opened.answer.index \in 1 .. Len(disk[path].content)
  <2>1. Shows(docs, disk, path, index, opened)
    BY OpenReadsTheFile
  <2> QED
    BY <2>1 DEF Shows
<1>3. path \in Doc!Live(opened.docs)
  <2>1. CASE opened.docs = docs
    BY <1>1, <2>1 DEF FileIsThere
  <2>2. CASE opened.docs = [docs EXCEPT ![path] = [content |-> disk[path].content, updated_at |-> disk[path].mtime]]
    <3>1. path \in DOMAIN opened.docs
      BY <1>0, <2>2
    <3>2. opened.docs[path] = [content |-> disk[path].content, updated_at |-> disk[path].mtime]
      BY <1>0, <2>2
    <3> QED
      BY <3>1, <3>2 DEF Doc!Live
  <2> QED
    BY <1>1, <2>1, <2>2 DEF After, Doc!index_parsed
<1>4. FileIsThere(opened.docs, disk, path, opened.answer.index)
  BY <1>0, <1>1, <1>2, <1>3 DEF FileIsThere
<1>5. PlaceIn(opened.docs, disk, path, opened.answer.index) = opened.answer.index
  BY <1>0, <1>2 DEF PlaceIn, Doc!locate
<1>6. opened.answer.index # 0
  BY <1>0, <1>2
<1>7. /\ again.docs = After(opened.docs, disk, path)
      /\ again.answer.index = opened.answer.index
      /\ again.answer.stale <=> disk[path].content # opened.docs[path].content
  BY <1>4, <1>5, <1>6, <1>0, OpenCases
<1>8. again.answer.text = opened.answer.text
  <2>1. again.answer.text = TextAt(disk[path].content, again.answer.index)
    BY <1>4, <1>5, <1>6, <1>0, OpenCases
  <2>2. opened.answer.text = TextAt(disk[path].content, opened.answer.index)
    BY <1>0, OpenCases
  <2> QED
    BY <1>7, <2>1, <2>2
<1> QED
  BY <1>2, <1>7, <1>8 DEF After

------------------------------------------------------------------------------
(* Counts, stale and recent on whether everything has a card. *)

LEMMA SameSize == \A S : Doc!Cardinality(S) = Cardinality(S)
BY DEF Cardinality, Doc!Cardinality

AllCarded(docs, state) == \A r \in Doc!Rows(docs) : state[Doc!HashAt(docs, r)] = "summarized"

\* A store: finitely many documents and sections, each hash with a summaries row.
IsStore(docs, state) ==
  /\ IsFiniteSet(Doc!Live(docs)) /\ IsFiniteSet(Doc!Rows(docs))
  /\ \A p \in Doc!Live(docs) : \E S : docs[p].content \in Seq(S)
  /\ \A r \in Doc!Rows(docs) : state[Doc!HashAt(docs, r)] \in {"summarized", "pending", "failed"}

\* A section, its row and its state are the same thing said three ways.
LEMMA RowsOfDocument ==
  ASSUME NEW docs, NEW state, IsStore(docs, state), NEW p \in Doc!Live(docs)
  PROVE  \E size \in Nat :
           /\ DOMAIN docs[p].content = 1 .. size /\ Len(docs[p].content) = size
           /\ \A i \in 1 .. size : /\ <<p, i>> \in Doc!Rows(docs)
                                   /\ Doc!HashAt(docs, <<p, i>>) = docs[p].content[i].hash
                                   /\ state[docs[p].content[i].hash] \in {"summarized", "pending", "failed"}
<1>1. PICK S : docs[p].content \in Seq(S)
  BY DEF IsStore
<1>2. PICK size \in Nat : DOMAIN docs[p].content = 1 .. size /\ Len(docs[p].content) = size
  <2>1. PICK s : s = docs[p].content
    OBVIOUS
  <2>2. s \in Seq(S)
    BY <1>1, <2>1
  <2>3. PICK size \in Nat : size = Len(s) /\ DOMAIN s = 1 .. size
    BY <2>2
  <2> QED
    BY <2>1, <2>3
<1>3. ASSUME NEW i \in 1 .. size
      PROVE  <<p, i>> \in Doc!Rows(docs) /\ Doc!HashAt(docs, <<p, i>>) = docs[p].content[i].hash
  BY <1>2 DEF Doc!Rows, Doc!HashAt
<1> QED
  BY <1>2, <1>3 DEF IsStore

LEMMA RowsAreSections ==
  ASSUME NEW docs, NEW state, IsStore(docs, state), NEW r \in Doc!Rows(docs)
  PROVE  \E p \in Doc!Live(docs) : \E i \in DOMAIN docs[p].content :
           r = <<p, i>> /\ Doc!HashAt(docs, r) = docs[p].content[i].hash
BY DEF Doc!Rows, Doc!HashAt

LEMMA CardedDocuments ==
  ASSUME NEW docs, NEW state, IsStore(docs, state)
  PROVE  AllCarded(docs, state) <=>
           \A p \in Doc!Live(docs) : \A i \in DOMAIN docs[p].content : state[docs[p].content[i].hash] = "summarized"
<1>1. ASSUME AllCarded(docs, state), NEW p \in Doc!Live(docs), NEW i \in DOMAIN docs[p].content
      PROVE  state[docs[p].content[i].hash] = "summarized"
  <2>1. <<p, i>> \in Doc!Rows(docs) /\ Doc!HashAt(docs, <<p, i>>) = docs[p].content[i].hash
    BY RowsOfDocument
  <2> QED
    BY <1>1, <2>1 DEF AllCarded
<1>2. ASSUME \A p \in Doc!Live(docs) : \A i \in DOMAIN docs[p].content : state[docs[p].content[i].hash] = "summarized",
             NEW r \in Doc!Rows(docs)
      PROVE  state[Doc!HashAt(docs, r)] = "summarized"
  BY <1>2, RowsAreSections
<1> QED
  BY <1>1, <1>2 DEF AllCarded

LEMMA CardedSections ==
  ASSUME NEW docs, NEW state, IsStore(docs, state)
  PROVE  AllCarded(docs, state) <=> Doc!sections_carded(docs, state) = Doc!counts(docs, state).sections
<1> DEFINE all == Doc!Rows(docs)
           carded == {r \in all : state[Doc!HashAt(docs, r)] = "summarized"}
<1>1. Doc!sections_carded(docs, state) = Cardinality(carded)
  BY SameSize DEF Doc!sections_carded
<1>2. Doc!counts(docs, state).sections = Cardinality(all)
  BY SameSize DEF Doc!counts
<1>3. AllCarded(docs, state) <=> carded = all
  BY DEF AllCarded
<1>4. IsFiniteSet(all) /\ carded \in SUBSET all
  BY DEF IsStore
<1> HIDE DEF carded, all
<1>5. Cardinality(all) = Cardinality(carded) => all = carded
  BY <1>4, FS_Subset
<1> QED
  BY <1>1, <1>2, <1>3, <1>5

LEMMA CardedHashes ==
  ASSUME NEW docs, NEW state, IsStore(docs, state)
  PROVE  AllCarded(docs, state) <=>
           Doc!counts(docs, state).hashes["pending"] + Doc!counts(docs, state).hashes["failed"] = 0
<1> DEFINE carried == {Doc!HashAt(docs, r) : r \in Doc!Rows(docs)}
           In(s) == {h \in carried : state[h] = s}
<1>1. /\ Doc!counts(docs, state).hashes["pending"] = Cardinality(In("pending"))
      /\ Doc!counts(docs, state).hashes["failed"] = Cardinality(In("failed"))
  BY SameSize DEF Doc!counts
<1>2. IsFiniteSet(carried)
  <2> DEFINE f == [r \in Doc!Rows(docs) |-> Doc!HashAt(docs, r)]
  <2>1. f \in Surjection(Doc!Rows(docs), carried)
    <3>1. f \in [Doc!Rows(docs) -> carried]
      OBVIOUS
    <3>2. \A h \in carried : \E r \in Doc!Rows(docs) : f[r] = h
      OBVIOUS
    <3> HIDE DEF f, carried
    <3> QED
      BY <3>1, <3>2, Fun_IsSurj
  <2>2. IsFiniteSet(Doc!Rows(docs))
    BY DEF IsStore
  <2> HIDE DEF f, carried
  <2> QED
    BY <2>1, <2>2, FS_Surjection
<1>3. AllCarded(docs, state) <=> In("pending") = {} /\ In("failed") = {}
  <2>1. AllCarded(docs, state) <=> \A h \in carried : state[h] = "summarized"
    BY DEF AllCarded
  <2>2. \A h \in carried : state[h] \in {"summarized", "pending", "failed"}
    BY DEF IsStore
  <2> HIDE DEF carried
  <2> QED
    BY <2>1, <2>2
<1> HIDE DEF carried
<1>4. /\ IsFiniteSet(In("pending")) /\ IsFiniteSet(In("failed"))
      /\ Cardinality(In("pending")) \in Nat /\ Cardinality(In("failed")) \in Nat
  <2>1. In("pending") \in SUBSET carried /\ In("failed") \in SUBSET carried
    OBVIOUS
  <2> HIDE DEF In
  <2> QED
    BY <1>2, <2>1, FS_Subset, FS_CardinalityType
<1> HIDE DEF In
<1>5. /\ Cardinality(In("pending")) = 0 <=> In("pending") = {}
      /\ Cardinality(In("failed")) = 0 <=> In("failed") = {}
  BY <1>4, FS_EmptySet
<1> QED
  BY <1>1, <1>3, <1>4, <1>5

\* What InState counts, of a document.
LEMMA OpenCounts ==
  ASSUME NEW docs, NEW state, IsStore(docs, state), NEW p \in Doc!Live(docs), NEW s
  PROVE  /\ Doc!InState(docs[p], state, s) \in Nat
         /\ Doc!InState(docs[p], state, s) = 0 <=> \A i \in DOMAIN docs[p].content : state[docs[p].content[i].hash] # s
         /\ Len(docs[p].content) \in Nat
         /\ Doc!InState(docs[p], state, s) = Len(docs[p].content)
              <=> \A i \in DOMAIN docs[p].content : state[docs[p].content[i].hash] = s
<1>1. PICK size \in Nat : DOMAIN docs[p].content = 1 .. size /\ Len(docs[p].content) = size
  BY RowsOfDocument
<1> DEFINE In == {i \in 1 .. size : state[docs[p].content[i].hash] = s}
<1>2. Doc!InState(docs[p], state, s) = Cardinality(In)
  BY <1>1, SameSize DEF Doc!InState
<1>3. IsFiniteSet(1 .. size) /\ Cardinality(1 .. size) = size
  BY UpTo
<1>4. In \in SUBSET (1 .. size)
  OBVIOUS
<1>5. /\ In = {} <=> \A i \in 1 .. size : state[docs[p].content[i].hash] # s
      /\ In = 1 .. size <=> \A i \in 1 .. size : state[docs[p].content[i].hash] = s
  BY Zenon
<1> HIDE DEF In
<1>6. IsFiniteSet(In) /\ (size = Cardinality(In) => 1 .. size = In)
  BY <1>3, <1>4, FS_Subset
<1>7. Cardinality(In) \in Nat /\ (Cardinality(In) = 0 <=> In = {})
  BY <1>6, FS_EmptySet, FS_CardinalityType
<1>8. In = 1 .. size => Cardinality(In) = size
  BY <1>3
<1> QED
  BY <1>1, <1>2, <1>5, <1>6, <1>7, <1>8

NoneIn(doc, state, s) == \A i \in DOMAIN doc.content : state[doc.content[i].hash] # s

LEMMA NoneCounted ==
  ASSUME NEW docs, NEW state, IsStore(docs, state), NEW p \in Doc!Live(docs)
  PROVE  \A s : Doc!InState(docs[p], state, s) \in Nat
               /\ (Doc!InState(docs[p], state, s) = 0 <=> NoneIn(docs[p], state, s))
<1> SUFFICES ASSUME NEW s
             PROVE  Doc!InState(docs[p], state, s) \in Nat
                    /\ (Doc!InState(docs[p], state, s) = 0 <=> NoneIn(docs[p], state, s))
  OBVIOUS
<1> QED
  BY OpenCounts DEF NoneIn

AllIn(doc, state, s) == \A i \in DOMAIN doc.content : state[doc.content[i].hash] = s

LEMMA AllCounted ==
  ASSUME NEW docs, NEW state, IsStore(docs, state), NEW p \in Doc!Live(docs), NEW s
  PROVE  /\ Doc!InState(docs[p], state, s) \in Nat /\ Len(docs[p].content) \in Nat
         /\ Doc!InState(docs[p], state, s) = Len(docs[p].content) <=> AllIn(docs[p], state, s)
BY OpenCounts, ZenonT(60) DEF AllIn

LEMMA CardedStale ==
  ASSUME NEW docs, NEW state, IsStore(docs, state), NEW disk
  PROVE  AllCarded(docs, state) <=>
           \A p \in DOMAIN Doc!stale(docs, state, disk) :
             Doc!stale(docs, state, disk)[p].pending + Doc!stale(docs, state, disk)[p].failed = 0
<1> DEFINE lines == Doc!stale(docs, state, disk)
           Open(p) == \E i \in DOMAIN docs[p].content : state[docs[p].content[i].hash] # "summarized"
<1>1. /\ DOMAIN lines \subseteq Doc!Live(docs)
      /\ \A p \in Doc!Live(docs) : Open(p) => p \in DOMAIN lines
      /\ \A p \in DOMAIN lines : /\ lines[p].pending = Doc!InState(docs[p], state, "pending")
                                 /\ lines[p].failed = Doc!InState(docs[p], state, "failed")
  BY DEF Doc!stale, Doc!documents_with_open_sections
<1>2. ASSUME NEW p \in Doc!Live(docs)
      PROVE  Doc!InState(docs[p], state, "pending") + Doc!InState(docs[p], state, "failed") = 0 <=> ~Open(p)
  <2>1. PICK a \in Nat, b \in Nat : a = Doc!InState(docs[p], state, "pending") /\ b = Doc!InState(docs[p], state, "failed")
    BY NoneCounted
  <2>2. (a = 0 <=> NoneIn(docs[p], state, "pending")) /\ (b = 0 <=> NoneIn(docs[p], state, "failed"))
    BY <2>1, NoneCounted
  <2>3. \A i \in DOMAIN docs[p].content : state[docs[p].content[i].hash] \in {"summarized", "pending", "failed"}
    BY RowsOfDocument
  <2>4. a + b = 0 <=> a = 0 /\ b = 0
    OBVIOUS
  <2> QED
    BY <2>1, <2>2, <2>3, <2>4 DEF NoneIn
<1>3. AllCarded(docs, state) <=> \A p \in Doc!Live(docs) : ~Open(p)
  BY CardedDocuments
<1> HIDE DEF lines, Open
<1>4. AllCarded(docs, state) <=> \A p \in DOMAIN lines : lines[p].pending + lines[p].failed = 0
  BY <1>1, <1>2, <1>3
<1> QED
  BY <1>4 DEF lines

\* Latest first; paths in a fixed order among documents of one time.
Newer(docs, order) ==
  {x \in Doc!Live(docs) \X Doc!Live(docs) :
     \/ docs[x[1]].updated_at > docs[x[2]].updated_at
     \/ docs[x[1]].updated_at = docs[x[2]].updated_at /\ order[x[1]] < order[x[2]]}

IsDated(docs, order) ==
  /\ \A p \in Doc!Live(docs) : docs[p].updated_at \in Int /\ order[p] \in Int
  /\ \A p, q \in Doc!Live(docs) : order[p] = order[q] => p = q

LEMMA NewerIsOrder ==
  ASSUME NEW docs, NEW order, IsDated(docs, order)
  PROVE  IsOrder(Doc!Live(docs), Newer(docs, order))
<1> DEFINE live == Doc!Live(docs)
           at(p) == docs[p].updated_at
<1>1. \A p, q \in live : <<p, q>> \in Newer(docs, order) <=> at(p) > at(q) \/ (at(p) = at(q) /\ order[p] < order[q])
  BY DEF Newer
<1>2. /\ \A p \in live : at(p) \in Int /\ order[p] \in Int
      /\ \A p, q \in live : order[p] = order[q] => p = q
  BY DEF IsDated
<1> HIDE DEF live, at
<1>3. \A p \in live : <<p, p>> \notin Newer(docs, order)
  BY <1>1, <1>2
<1>4. ASSUME NEW p \in live, NEW q \in live, NEW r \in live,
             <<p, q>> \in Newer(docs, order), <<q, r>> \in Newer(docs, order)
      PROVE  <<p, r>> \in Newer(docs, order)
  BY <1>1, <1>2, <1>4
<1>5. ASSUME NEW p \in live, NEW q \in live, p # q
      PROVE  <<p, q>> \in Newer(docs, order) \/ <<q, p>> \in Newer(docs, order)
  <2>1. at(p) \in Int /\ at(q) \in Int /\ order[p] \in Int /\ order[q] \in Int /\ order[p] # order[q]
    BY <1>2, <1>5
  <2>2. at(p) > at(q) \/ at(q) > at(p) \/ (at(p) = at(q) /\ (order[p] < order[q] \/ order[q] < order[p]))
    BY <2>1
  <2> QED
    BY <1>1, <2>2
<1> QED
  BY <1>3, <1>4, <1>5 DEF IsOrder, live

LEMMA RecentInOrder ==
  ASSUME NEW docs, NEW n, NEW order
  PROVE  Doc!recent_documents(docs, n, order) = Take(InOrder(Doc!Live(docs), Newer(docs, order)), n)
<1>1. Doc!recent_documents(docs, n, order) = Doc!Take(Doc!InOrder(Doc!Live(docs), Newer(docs, order)), n)
  BY Zenon DEF Doc!recent_documents, Doc!Pairs, Newer
<1>2. \A S, before : Doc!InOrder(S, before) = InOrder(S, before)
  BY Zenon DEF Doc!InOrder, InOrder, Doc!Cardinality, Cardinality
<1>3. \A s, k : Doc!Take(s, k) = Take(s, k)
  BY Zenon DEF Doc!Take, Take
<1> QED
  BY <1>1, <1>2, <1>3

\* With room for every document, recent lists every document.
LEMMA RecentListsAll ==
  ASSUME NEW docs, IsFiniteSet(Doc!Live(docs)), NEW order, IsDated(docs, order),
         NEW n \in Nat, Cardinality(Doc!Live(docs)) <= n, NEW s, s = Doc!recent_documents(docs, n, order)
  PROVE  \E size \in Nat : DOMAIN s = 1 .. size /\ {s[i] : i \in 1 .. size} = Doc!Live(docs)
<1> DEFINE live == Doc!Live(docs)
<1>1. PICK t : t = InOrder(live, Newer(docs, order))
  OBVIOUS
<1>2. PICK size \in Nat : size = Cardinality(live)
  BY FS_CardinalityType
<1>3. t \in [1 .. size -> live] /\ \A p \in live : \E i \in 1 .. size : t[i] = p
  <2>1. PICK before : before = Newer(docs, order) /\ IsOrder(live, before)
    BY NewerIsOrder
  <2>2. IsFiniteSet(live) /\ t = InOrder(live, before)
    BY <1>1, <2>1
  <2> HIDE DEF live
  <2>3. /\ t \in [1 .. Cardinality(live) -> live]
        /\ \A p \in live : \E i \in 1 .. Cardinality(live) : t[i] = p
    BY <2>1, <2>2, InOrderIsSorted
  <2> QED
    BY <1>2, <2>3
<1>4. t \in Seq(live) /\ Len(t) = size
  BY <1>3
<1>5. s = Take(t, n)
  BY <1>1, RecentInOrder
<1> HIDE DEF live
<1>6. s = t
  BY <1>2, <1>4, <1>5, TakePrefix DEF live
<1>7. {t[i] : i \in 1 .. size} = live /\ DOMAIN t = 1 .. size
  BY <1>3
<1> QED
  BY <1>6, <1>7 DEF live

LEMMA CardedRecent ==
  ASSUME NEW docs, NEW state, IsStore(docs, state), NEW order, IsDated(docs, order),
         NEW n \in Nat, Cardinality(Doc!Live(docs)) <= n
  PROVE  AllCarded(docs, state) <=>
           \A i \in DOMAIN Doc!recent(docs, state, n, order) : Doc!recent(docs, state, n, order)[i].pending = 0
<1>1. PICK paths : paths = Doc!recent_documents(docs, n, order)
  OBVIOUS
<1>2. PICK size \in Nat : DOMAIN paths = 1 .. size /\ {paths[i] : i \in 1 .. size} = Doc!Live(docs)
  <2>1. IsFiniteSet(Doc!Live(docs))
    BY DEF IsStore
  <2> QED
    BY <1>1, <2>1, RecentListsAll
<1> DEFINE Waiting(p) == Len(docs[p].content) - Doc!InState(docs[p], state, "summarized")
<1>3. /\ DOMAIN Doc!recent(docs, state, n, order) = 1 .. size
      /\ \A i \in 1 .. size : Doc!recent(docs, state, n, order)[i].pending = Waiting(paths[i])
  BY <1>1, <1>2 DEF Doc!recent
<1>4. ASSUME NEW p \in Doc!Live(docs)
      PROVE  Waiting(p) = 0 <=> \A i \in DOMAIN docs[p].content : state[docs[p].content[i].hash] = "summarized"
  <2>1. PICK a \in Nat, b \in Nat : a = Len(docs[p].content) /\ b = Doc!InState(docs[p], state, "summarized")
    BY AllCounted
  <2>2. b = a <=> AllIn(docs[p], state, "summarized")
    BY <2>1, AllCounted
  <2>3. Waiting(p) = a - b
    BY <2>1
  <2> HIDE DEF Waiting
  <2> QED
    BY <2>2, <2>3 DEF AllIn
<1> HIDE DEF Waiting
<1>5. AllCarded(docs, state) <=> \A p \in Doc!Live(docs) : Waiting(p) = 0
  BY <1>4, CardedDocuments
<1> QED
  BY <1>2, <1>3, <1>5

\* pipeline.rs and store/mod.rs: status, stale and recent count sections, hashes and lines
\* of documents, and yet agree, whatever the store holds, on whether anything waits for a card.
THEOREM CountsAgree ==
  ASSUME NEW docs, NEW state, IsStore(docs, state), NEW disk, NEW order, IsDated(docs, order),
         NEW n \in Nat, Cardinality(Doc!Live(docs)) <= n
  PROVE  LET c == Doc!counts(docs, state)
             lines == Doc!stale(docs, state, disk)
             latest == Doc!recent(docs, state, n, order)
             carded == Doc!sections_carded(docs, state) = c.sections
         IN  /\ carded <=> c.hashes["pending"] + c.hashes["failed"] = 0
             /\ carded <=> \A p \in DOMAIN lines : lines[p].pending + lines[p].failed = 0
             /\ carded <=> \A i \in DOMAIN latest : latest[i].pending = 0
BY CardedSections, CardedHashes, CardedStale, CardedRecent

\* stale says of a document that it changed: it is in the index, and its file differs.
ChangeListed(lines, path) == path \in DOMAIN lines /\ lines[path].changed_on_disk

LEMMA ListedAsChanged ==
  ASSUME NEW docs, NEW state, NEW disk, NEW path
  PROVE  ChangeListed(Doc!stale(docs, state, disk), path)
           <=> path \in Doc!Live(docs) /\ Doc!disk_state(disk, path, docs[path]) = "changed"
<1>1. PICK lines : lines = Doc!stale(docs, state, disk)
  OBVIOUS
<1>2. /\ DOMAIN lines \subseteq Doc!Live(docs)
      /\ path \in Doc!Live(docs) /\ Doc!disk_state(disk, path, docs[path]) # "fresh" => path \in DOMAIN lines
      /\ path \in DOMAIN lines => (lines[path].changed_on_disk <=> Doc!disk_state(disk, path, docs[path]) = "changed")
  BY <1>1 DEF Doc!stale, Doc!documents_with_open_sections
<1> QED
  BY <1>1, <1>2 DEF ChangeListed

\* The file of a listed document is newer than the index and holds something else.
LEMMA ChangedFiles ==
  ASSUME NEW disk, NEW path, path \notin {NotFound, Unreadable}, NEW doc
  PROVE  /\ Doc!disk_state(disk, path, doc) = "changed" => disk[path].content # doc.content
         /\ disk[path].kind = "file" /\ disk[path].readable /\ ~disk[path].big /\ disk[path].mtime \in Int /\ doc.updated_at \in Int
              => (Doc!disk_state(disk, path, doc) = "changed"
                    <=> disk[path].mtime > doc.updated_at /\ disk[path].content # doc.content)
<1>1. Doc!disk_state(disk, path, doc) = "changed" => disk[path].content # doc.content
  <2>1. CASE Doc!safe_join(disk, path) # path
    BY <2>1 DEF Doc!disk_state
  <2>2. CASE Doc!safe_join(disk, path) = path
    BY <2>2 DEF Doc!disk_state
  <2> QED
    BY <2>1, <2>2
<1>2. ASSUME disk[path].kind = "file", disk[path].readable, ~disk[path].big, disk[path].mtime \in Int, doc.updated_at \in Int
      PROVE  Doc!disk_state(disk, path, doc) = "changed" <=> disk[path].mtime > doc.updated_at /\ disk[path].content # doc.content
  <2>1. Doc!safe_join(disk, path) = path
    BY <1>2 DEF Doc!safe_join
  <2>2. disk[path].mtime > doc.updated_at <=> ~(disk[path].mtime <= doc.updated_at)
    BY <1>2
  <2> QED
    BY <1>2, <2>1, <2>2 DEF Doc!disk_state
<1> QED
  BY <1>1, <1>2

------------------------------------------------------------------------------
(* The reads of the run. *)

Lines == {"A", "B", "one", "two", "three"}

LEMMA KindsTyped ==
  /\ \A s \in SectionKinds : s.lines \in Seq(Lines) /\ s.hash \in {"h1", "h2", "h3"}
  /\ \A s, t \in SectionKinds : s.hash = t.hash => s = t
<1>5. PICK x, y, z : x = <<"A", "one">> /\ y = <<"A">> /\ z = <<"B", "two", "three">>
  OBVIOUS
<1>6. x \in Seq(Lines) /\ y \in Seq(Lines) /\ z \in Seq(Lines)
  <2>1. <<"A", "one">> \in Seq(Lines)
    BY DEF Lines
  <2>2. <<"A">> \in Seq(Lines)
    BY DEF Lines
  <2>3. <<"B", "two", "three">> \in Seq(Lines)
    BY DEF Lines
  <2> QED
    BY <1>5, <2>1, <2>2, <2>3
<1>1. PICK a, b, c : /\ a = [hash |-> "h1", heading |-> "A", lines |-> x]
                     /\ b = [hash |-> "h2", heading |-> "A", lines |-> y]
                     /\ c = [hash |-> "h3", heading |-> "B", lines |-> z]
  OBVIOUS
<1>2. SectionKinds = {a, b, c}
  BY <1>1, <1>5, Zenon DEF SectionKinds
<1>3. a.hash = "h1" /\ b.hash = "h2" /\ c.hash = "h3"
  BY <1>1
<1>4. a.lines \in Seq(Lines) /\ b.lines \in Seq(Lines) /\ c.lines \in Seq(Lines)
  BY <1>1, <1>6
<1> QED
  BY <1>2, <1>3, <1>4

LEMMA ContentsTyped ==
  ASSUME NEW content \in Contents
  PROVE  content \in Seq(SectionKinds) /\ \A i \in 1 .. Len(content) : content[i].lines \in Seq(Lines)
<1>1. PICK m \in 0 .. 3 : content \in [1 .. m -> SectionKinds]
  BY DEF Contents, BoundedSeq, SeqOf
<1> QED
  BY <1>1, KindsTyped

LEMMA EntriesTyped ==
  ASSUME NEW content, NEW entry \in Entries(content)
  PROVE  entry.content = content /\ entry.mtime \in 1 .. 2
BY DEF Entries

LEMMA StatesTyped ==
  ASSUME NEW states \in StateCases
  PROVE  \A h \in {"h1", "h2", "h3"} : states[h] \in {"summarized", "pending", "failed"}
BY DEF StateCases

\* One document in the index, of age 1, and its file.
OpenInput(docs, disk, index, state) ==
  \E stored \in Contents, file \in Contents :
    /\ docs = [p |-> [content |-> stored, updated_at |-> 1], q |-> NoDoc]
    /\ disk.p \in Entries(file)
    /\ index \in 1 .. 3 /\ index <= Len(stored)
    /\ state \in StateCases

LEMMA OpenInputStore ==
  ASSUME NEW docs, NEW disk, NEW index, NEW state, OpenInput(docs, disk, index, state)
  PROVE  /\ docs = [p \in DOMAIN docs |-> docs[p]] /\ DOMAIN docs = {"p", "q"} /\ Doc!Live(docs) = {"p"}
         /\ docs["p"].updated_at = 1
         /\ docs["p"].content \in Contents /\ index \in 1 .. Len(docs["p"].content)
         /\ disk["p"].content \in Contents /\ disk["p"].mtime \in 1 .. 2
         /\ state \in StateCases
<1>1. PICK stored \in Contents, file \in Contents :
         /\ docs = [p |-> [content |-> stored, updated_at |-> 1], q |-> NoDoc]
         /\ disk.p \in Entries(file)
         /\ index \in 1 .. 3 /\ index <= Len(stored)
         /\ state \in StateCases
  BY DEF OpenInput
<1>2. PICK doc : doc = [content |-> stored, updated_at |-> 1]
  OBVIOUS
<1>3. doc.content = stored /\ doc.updated_at = 1
  BY <1>2
<1>4. doc # NoDoc
  BY <1>2, DocumentAssumption
<1>5. docs = [p |-> doc, q |-> NoDoc]
  BY <1>1, <1>2
<1>6. DOMAIN docs = {"p", "q"} /\ docs["p"] = doc /\ docs["q"] = NoDoc
  BY <1>5
<1>7. Doc!Live(docs) = {"p"}
  BY <1>4, <1>6 DEF Doc!Live
<1>8. disk["p"].content = file /\ disk["p"].mtime \in 1 .. 2
  BY <1>1, EntriesTyped
<1>9. index \in 1 .. Len(stored)
  BY <1>1, ContentsTyped
<1> QED
  BY <1>1, <1>3, <1>5, <1>6, <1>7, <1>8, <1>9

LEMMA RunStore ==
  ASSUME NEW docs, NEW disk, NEW index, NEW state, OpenInput(docs, disk, index, state)
  PROVE  IsStore(docs, state) /\ IsDated(docs, [p |-> 1]) /\ Cardinality(Doc!Live(docs)) <= 1
<1>1. /\ Doc!Live(docs) = {"p"} /\ docs["p"].updated_at = 1 /\ state \in StateCases
      /\ docs["p"].content \in Contents
  BY OpenInputStore
<1>2. PICK content : content = docs["p"].content
  OBVIOUS
<1>3. content \in Seq(SectionKinds)
  BY <1>1, <1>2, ContentsTyped
<1>4. PICK n \in Nat : n = Len(content) /\ DOMAIN content = 1 .. n
  BY <1>3
<1>5. Doc!Rows(docs) = {<<"p", i>> : i \in 1 .. n}
  BY <1>1, <1>2, <1>4 DEF Doc!Rows
<1>6. IsFiniteSet(Doc!Rows(docs))
  <2> DEFINE f == [i \in 1 .. n |-> <<"p", i>>]
  <2>1. f \in Surjection(1 .. n, Doc!Rows(docs))
    <3>1. f \in [1 .. n -> Doc!Rows(docs)] /\ \A r \in Doc!Rows(docs) : \E i \in 1 .. n : f[i] = r
      BY <1>5
    <3> HIDE DEF f
    <3> QED
      BY <3>1, Fun_IsSurj
  <2>2. IsFiniteSet(1 .. n)
    BY UpTo
  <2> HIDE DEF f
  <2> QED
    BY <2>1, <2>2, FS_Surjection
<1>7. \A r \in Doc!Rows(docs) : state[Doc!HashAt(docs, r)] \in {"summarized", "pending", "failed"}
  <2>1. ASSUME NEW i \in 1 .. n
        PROVE  state[Doc!HashAt(docs, <<"p", i>>)] \in {"summarized", "pending", "failed"}
    <3>1. Doc!HashAt(docs, <<"p", i>>) = content[i].hash
      BY <1>2 DEF Doc!HashAt
    <3>2. content[i] \in SectionKinds
      BY <1>3, <1>4
    <3> QED
      BY <1>1, <3>1, <3>2, KindsTyped, StatesTyped
  <2> QED
    BY <1>5, <2>1
<1>8. IsFiniteSet(Doc!Live(docs)) /\ Cardinality(Doc!Live(docs)) = 1
  BY <1>1, FS_Singleton
<1>9. IsDated(docs, [p |-> 1])
  BY <1>1 DEF IsDated
<1> QED
  BY <1>1, <1>2, <1>3, <1>6, <1>7, <1>8, <1>9 DEF IsStore

\* What an answered open says, and what stale says before and after it.
OpenAgrees(docs, disk, index, listed, later, opened, again) ==
  LET entry == disk["p"]
      wanted == docs["p"].content[index]
      a == opened.answer
  IN  /\ a.text = entry.content[a.index].lines /\ a.heading = entry.content[a.index].heading
      /\ opened.docs["p"].content = entry.content
      /\ wanted \in ToSet(entry.content) => entry.content[a.index] = wanted
      /\ ~ChangeListed(later, "p") /\ (ChangeListed(listed, "p") => a.stale)
      /\ again.text = a.text /\ again.index = a.index /\ ~again.stale

LEMMA RunOpens ==
  ASSUME NEW docs, NEW disk, NEW index, NEW state, OpenInput(docs, disk, index, state),
         NEW opened, opened = Doc!open_section(docs, disk, "p", index), opened.answer \notin {NotFound, Unreadable},
         NEW again, again = Doc!open_section(opened.docs, disk, "p", opened.answer.index)
  PROVE  OpenAgrees(docs, disk, index, Doc!stale(docs, state, disk), Doc!stale(opened.docs, state, disk), opened, again.answer)
<1>1. /\ docs = [p \in DOMAIN docs |-> docs[p]] /\ "p" \in DOMAIN docs /\ Doc!Live(docs) = {"p"}
      /\ docs["p"].content \in Contents /\ index \in 1 .. Len(docs["p"].content)
      /\ disk["p"].content \in Contents /\ disk["p"].mtime \in 1 .. 2
  BY OpenInputStore
<1>2. "p" \notin {NotFound, Unreadable} /\ NoDoc # [content |-> disk["p"].content, updated_at |-> disk["p"].mtime]
  BY <1>1, DocumentAssumption
<1>3. PICK content, stored : content = disk["p"].content /\ stored = docs["p"].content
  OBVIOUS
<1>4. /\ content \in Seq(SectionKinds) /\ \A i \in 1 .. Len(content) : content[i].lines \in Seq(Lines)
      /\ stored \in Seq(SectionKinds)
  BY <1>1, <1>3, ContentsTyped
<1>5. index \in Nat \ {0} /\ index \in 1 .. Len(stored)
  BY <1>1, <1>3, <1>4
<1>6. PICK found, wanted : found = opened.answer.index /\ wanted = stored[index]
  OBVIOUS
<1>12. Answered(SectionKinds, Lines, docs, disk, "p", index, opened)
  BY <1>1, <1>2, <1>3, <1>4, <1>5 DEF Answered
<1>7. /\ opened.docs["p"].content = content
      /\ Doc!disk_state(disk, "p", opened.docs["p"]) # "changed"
      /\ found \in 1 .. Len(content)
      /\ opened.answer.heading = content[found].heading
      /\ opened.answer.text = content[found].lines
      /\ (\E i \in 1 .. Len(content) : content[i].hash = wanted.hash) => content[found].hash = wanted.hash
  <2>1. Shows(docs, disk, "p", index, opened)
    BY <1>12, OpenReadsTheFile
  <2> QED
    BY <1>3, <1>6, <2>1 DEF Shows
<1>8. again.answer.index = found /\ again.answer.text = opened.answer.text /\ ~again.answer.stale
  BY <1>2, <1>6, <1>12, OpenAgainIsTheSame
<1>9. wanted \in ToSet(content) => content[found] = wanted
  <2>1. wanted \in SectionKinds /\ content[found] \in SectionKinds
    BY <1>4, <1>5, <1>6, <1>7
  <2>2. wanted \in ToSet(content) => \E i \in 1 .. Len(content) : content[i] = wanted
    BY <1>4 DEF ToSet
  <2> QED
    BY <1>7, <2>1, <2>2, KindsTyped
<1>10. ~ChangeListed(Doc!stale(opened.docs, state, disk), "p")
  BY <1>7, ListedAsChanged
<1>11. ChangeListed(Doc!stale(docs, state, disk), "p") => opened.answer.stale
  <2>1. opened.answer.stale <=> content # stored
    BY <1>2, <1>3, OpenCases
  <2>2. ChangeListed(Doc!stale(docs, state, disk), "p") => Doc!disk_state(disk, "p", docs["p"]) = "changed"
    BY ListedAsChanged
  <2>3. Doc!disk_state(disk, "p", docs["p"]) = "changed" => content # stored
    BY <1>2, <1>3, ChangedFiles
  <2> QED
    BY <2>1, <2>2, <2>3
<1> QED
  BY <1>3, <1>6, <1>7, <1>8, <1>9, <1>10, <1>11 DEF OpenAgrees

\* What ReadsAgree says of one input.
ReadsOf(docs, disk, index, state) ==
  LET path    == "p"
      entry   == disk[path]
      wanted  == docs[path].content[index]
      opened  == Doc!open_section(docs, disk, path, index)
      a       == opened.answer
      answers == a \notin {NotFound, Unreadable}
      listed  == Doc!stale(docs, state, disk)
      later   == Doc!stale(opened.docs, state, disk)
      c       == Doc!counts(docs, state)
      carded  == Doc!sections_carded(docs, state) = c.sections
      again   == Doc!open_section(opened.docs, disk, path, a.index).answer
      latest  == Doc!recent(docs, state, 1, [p |-> 1])
  IN  /\ answers => OpenAgrees(docs, disk, index, listed, later, opened, again)
      /\ entry.kind = "file" /\ entry.readable /\ ~entry.big
           => (ChangeListed(listed, path) <=> entry.mtime > 1 /\ entry.content # docs[path].content)
      /\ carded <=> c.hashes["pending"] + c.hashes["failed"] = 0
      /\ carded <=> \A p \in DOMAIN listed : listed[p].pending + listed[p].failed = 0
      /\ carded <=> \A i \in DOMAIN latest : latest[i].pending = 0

LEMMA RunReads ==
  ASSUME NEW docs, NEW disk, NEW index, NEW state, OpenInput(docs, disk, index, state)
  PROVE  ReadsOf(docs, disk, index, state)
<1>1. PICK opened, again, listed :
        /\ opened = Doc!open_section(docs, disk, "p", index)
        /\ again = Doc!open_section(opened.docs, disk, "p", opened.answer.index)
        /\ listed = Doc!stale(docs, state, disk)
  OBVIOUS
<1>2. opened.answer \notin {NotFound, Unreadable}
        => OpenAgrees(docs, disk, index, listed, Doc!stale(opened.docs, state, disk), opened, again.answer)
  BY <1>1, RunOpens
<1>3. disk["p"].kind = "file" /\ disk["p"].readable /\ ~disk["p"].big
        => (ChangeListed(listed, "p") <=> disk["p"].mtime > 1 /\ disk["p"].content # docs["p"].content)
  <2>1. "p" \notin {NotFound, Unreadable} /\ "p" \in Doc!Live(docs) /\ docs["p"].updated_at = 1 /\ disk["p"].mtime \in Int
    BY OpenInputStore, DocumentAssumption
  <2> QED
    BY <1>1, <2>1, ListedAsChanged, ChangedFiles
<1>4. LET c == Doc!counts(docs, state)
          latest == Doc!recent(docs, state, 1, [p |-> 1])
          carded == Doc!sections_carded(docs, state) = c.sections
      IN  /\ carded <=> c.hashes["pending"] + c.hashes["failed"] = 0
          /\ carded <=> \A p \in DOMAIN listed : listed[p].pending + listed[p].failed = 0
          /\ carded <=> \A i \in DOMAIN latest : latest[i].pending = 0
  <2>1. PICK order, n : order = [p |-> 1] /\ n = 1
    OBVIOUS
  <2>2. IsStore(docs, state) /\ IsDated(docs, order) /\ n \in Nat /\ Cardinality(Doc!Live(docs)) <= n
    BY <2>1, RunStore
  <2> QED
    BY <1>1, <2>1, <2>2, CountsAgree
<1> QED
  BY <1>1, <1>2, <1>3, <1>4, Zenon DEF ReadsOf

\* The inputs of the run's opens.
OpensTyped ==
  /\ case.alg = "stored" => case.content \in Contents /\ case.states \in StateCases
  /\ case.alg = "open" => OpenInput(case.docs, case.disk, case.index, case.state)

LEMMA OpensTypedInvariant == Spec => []OpensTyped
<1>1. Init => OpensTyped
  BY DEF Init, Idle, OpensTyped
<1>2. OpensTyped /\ [Next]_case => OpensTyped'
  <2> SUFFICES ASSUME OpensTyped, [Next]_case
               PROVE  OpensTyped'
    OBVIOUS
  <2>1. CASE UNCHANGED case
    BY <2>1 DEF OpensTyped
  <2>2. CASE StoredCase
    <3>1. PICK content \in Contents, states \in StateCases : case' = [alg |-> "stored", content |-> content, states |-> states]
      BY <2>2 DEF StoredCase
    <3>2. case'.alg = "stored" /\ case'.content = content /\ case'.states = states
      BY <3>1
    <3> QED
      BY <3>2 DEF OpensTyped
  <2>3. CASE OpenCase
    <3>0. PICK file \in Contents : \E entry \in Entries(file), index \in 1 .. 3 :
            /\ index <= Len(case.content)
            /\ case' = [alg |-> "open", disk |-> [p |-> entry], index |-> index, state |-> case.states,
                        docs |-> [p |-> [content |-> case.content, updated_at |-> 1], q |-> NoDoc]]
      BY <2>3, Zenon DEF OpenCase
    <3>1. PICK entry \in Entries(file), index \in 1 .. 3 :
            /\ index <= Len(case.content)
            /\ case' = [alg |-> "open", disk |-> [p |-> entry], index |-> index, state |-> case.states,
                        docs |-> [p |-> [content |-> case.content, updated_at |-> 1], q |-> NoDoc]]
      BY <3>0, Zenon
    <3>2. case.content \in Contents /\ case.states \in StateCases
      BY <2>3 DEF OpenCase, OpensTyped
    <3>3. PICK disk, docs : disk = [p |-> entry] /\ docs = [p |-> [content |-> case.content, updated_at |-> 1], q |-> NoDoc]
      OBVIOUS
    <3>4. OpenInput(docs, disk, index, case.states)
      <4>1. disk.p = entry
        BY <3>3
      <4> QED
        BY <3>1, <3>2, <3>3, <4>1 DEF OpenInput
    <3>5. case' = [alg |-> "open", disk |-> disk, index |-> index, state |-> case.states, docs |-> docs]
      BY <3>1, <3>3
    <3>6. case'.alg = "open" /\ case'.disk = disk /\ case'.index = index /\ case'.state = case.states /\ case'.docs = docs
      BY <3>5
    <3> QED
      BY <3>4, <3>6 DEF OpensTyped
  <2>4. CASE Next /\ ~StoredCase /\ ~OpenCase
    BY <2>4, StepsNameTheirAlgorithm DEF Next, OpensTyped
  <2> QED
    BY <2>1, <2>2, <2>3, <2>4
<1> QED
  BY <1>1, <1>2, PTL DEF Spec

\* The property the run checks on its reads, from the theorems about all of them.
THEOREM ReadsAgreed == Spec => []ReadsAgree
<1>1. OpensTyped => ReadsAgree
  <2> SUFFICES ASSUME OpensTyped, case.alg = "open", ReadsOf(case.docs, case.disk, case.index, case.state)
               PROVE  ReadsAgree
    BY RunReads DEF OpensTyped, ReadsAgree
  <2> QED
    BY Zenon DEF ReadsAgree, ReadsOf, OpenAgrees, ChangeListed
<1> QED
  BY <1>1, OpensTypedInvariant, PTL

------------------------------------------------------------------------------
(* What a section is cut to: Requests. *)

IsLines(lines) == (\E S : lines \in Seq(S)) /\ \A i \in 1 .. Len(lines) : lines[i].chars \in Nat

\* g[i] is the characters of the first i lines, each with its newline.
Counted(lines, n, g) ==
  /\ g \in [0 .. n -> Nat] /\ g[0] = 0
  /\ \A i \in 1 .. n : g[i] = g[i - 1] + lines[i].chars + 1

LEMMA CountExists ==
  ASSUME NEW lines, NEW n \in Nat, \A i \in 1 .. n : lines[i].chars \in Nat
  PROVE  \E g : Counted(lines, n, g)
<1> DEFINE Bad == {m \in 0 .. n : ~\E g : Counted(lines, m, g)}
<1>1. SUFFICES ASSUME Bad # {}
               PROVE  FALSE
  <2>1. n \in 0 .. n
    OBVIOUS
  <2>2. Bad = {} => n \notin Bad
    BY Zenon
  <2> QED
    BY <2>1, <2>2
<1>2. PICK m \in Bad : m - 1 \notin Bad
  <2>1. Bad \subseteq Nat
    OBVIOUS
  <2> HIDE DEF Bad
  <2> QED
    BY <1>1, <2>1, FirstOfThem
<1>3. m \in 0 .. n /\ (\A g : ~Counted(lines, m, g))
  OBVIOUS
<1>4. CASE m = 0
  <2>1. PICK g : g = [i \in 0 .. 0 |-> 0]
    OBVIOUS
  <2>2. Counted(lines, 0, g)
    BY <2>1 DEF Counted
  <2> QED
    BY <1>3, <1>4, <2>2
<1>5. CASE m # 0
  <2>1. PICK k \in 0 .. n : k = m - 1 /\ k + 1 = m /\ k \notin Bad
    <3>1. m - 1 \in 0 .. n /\ (m - 1) + 1 = m
      BY <1>3, <1>5
    <3> HIDE DEF Bad
    <3> QED
      BY <1>2, <3>1
  <2>2. PICK g : Counted(lines, k, g)
    BY <2>1
  <2>3. /\ g \in [0 .. k -> Nat] /\ g[0] = 0
        /\ \A i \in 1 .. k : g[i] = g[i - 1] + lines[i].chars + 1
    BY <2>2 DEF Counted
  <2>4. PICK last \in Nat : last = g[k] + lines[m].chars + 1
    <3>1. g[k] \in Nat /\ lines[m].chars \in Nat
      BY <1>3, <1>5, <2>1, <2>3
    <3> QED
      BY <3>1
  <2>5. PICK h : h = [i \in 0 .. m |-> IF i = m THEN last ELSE g[i]]
    OBVIOUS
  <2>6. h \in [0 .. m -> Nat] /\ h[0] = 0 /\ h[m] = last /\ \A i \in 0 .. k : h[i] = g[i]
    BY <1>3, <1>5, <2>1, <2>3, <2>4, <2>5
  <2>7. ASSUME NEW i \in 1 .. m
        PROVE  h[i] = h[i - 1] + lines[i].chars + 1
    <3>1. i - 1 \in 0 .. k /\ (i = m \/ i \in 1 .. k)
      BY <1>3, <2>1
    <3>2. CASE i = m
      BY <2>1, <2>4, <2>6, <3>1, <3>2
    <3>3. CASE i \in 1 .. k
      <4>1. i \in 0 .. k
        BY <3>3
      <4>2. h[i - 1] = g[i - 1] /\ h[i] = g[i]
        BY <2>6, <3>1, <4>1
      <4> QED
        BY <2>3, <3>3, <4>2
    <3> QED
      BY <3>1, <3>2, <3>3
  <2>8. Counted(lines, m, h)
    BY <2>6, <2>7 DEF Counted
  <2> QED
    BY <1>3, <2>8
<1> QED
  BY <1>4, <1>5

\* Whatever function has these values is the one that Chars means.
LEMMA CharsCounted ==
  ASSUME NEW lines, NEW n \in Nat, Len(lines) = n, NEW g, Counted(lines, n, g)
  PROVE  Ask!Chars(lines) = g[n]
<1>1. /\ g \in [0 .. n -> Nat] /\ g[0] = 0
      /\ \A i \in 1 .. n : g[i] = g[i - 1] + lines[i].chars + 1
  BY DEF Counted
<1> DEFINE Step(f) == [i \in 0 .. n |-> IF i = 0 THEN 0 ELSE f[i - 1] + lines[i].chars + 1]
           upTo == CHOOSE f : f = Step(f)
<1>2. Ask!Chars(lines) = upTo[n]
  BY DEF Ask!Chars
<1>3. \E f : f = Step(f)
  <2>1. ASSUME NEW i \in 0 .. n
        PROVE  g[i] = IF i = 0 THEN 0 ELSE g[i - 1] + lines[i].chars + 1
    <3>1. i = 0 \/ i \in 1 .. n
      OBVIOUS
    <3> QED
      BY <1>1, <3>1
  <2>2. g = Step(g)
    BY <1>1, <2>1
  <2> QED
    BY <2>2
<1>4. upTo = Step(upTo)
  BY <1>3, Zenon
<1> HIDE DEF upTo
<1>5. PICK f : f = upTo
  OBVIOUS
<1>6. \A i \in 0 .. n : f[i] = IF i = 0 THEN 0 ELSE f[i - 1] + lines[i].chars + 1
  BY <1>4, <1>5
<1> DEFINE Bad == {i \in 0 .. n : f[i] # g[i]}
<1>7. Bad = {}
  <2>1. SUFFICES ASSUME Bad # {}
                 PROVE  FALSE
    OBVIOUS
  <2>2. PICK i \in Bad : i - 1 \notin Bad
    <3>1. Bad \subseteq Nat
      OBVIOUS
    <3> HIDE DEF Bad
    <3> QED
      BY <2>1, <3>1, FirstOfThem
  <2>3. i \in 0 .. n /\ f[i] # g[i]
    OBVIOUS
  <2>4. i # 0
    BY <1>1, <1>6, <2>3
  <2>5. i - 1 \in 0 .. n /\ i \in 1 .. n
    BY <2>3, <2>4
  <2>6. f[i - 1] = g[i - 1]
    BY <2>2, <2>5
  <2>7. f[i] = f[i - 1] + lines[i].chars + 1 /\ g[i] = g[i - 1] + lines[i].chars + 1
    BY <1>1, <1>6, <2>4, <2>5
  <2> QED
    BY <2>3, <2>6, <2>7
<1>8. f[n] = g[n]
  <2>1. n \in 0 .. n
    OBVIOUS
  <2> QED
    BY <1>7, <2>1
<1> QED
  BY <1>2, <1>5, <1>8

\* The first n lines are counted by the same function, which grows.
LEMMA CharsOfPrefix ==
  ASSUME NEW lines, IsLines(lines)
  PROVE  \E g : /\ g \in [0 .. Len(lines) -> Nat] /\ g[0] = 0
                /\ \A n \in 0 .. Len(lines) : Ask!Chars(SubSeq(lines, 1, n)) = g[n]
                /\ \A m, n \in 0 .. Len(lines) : m <= n => g[m] <= g[n]
<1>1. PICK S : lines \in Seq(S)
  BY DEF IsLines
<1>2. PICK size \in Nat : size = Len(lines)
  BY <1>1
<1>3. PICK g : Counted(lines, size, g)
  BY <1>2, CountExists DEF IsLines
<1>4. /\ g \in [0 .. size -> Nat] /\ g[0] = 0
      /\ \A i \in 1 .. size : g[i] = g[i - 1] + lines[i].chars + 1
  BY <1>3 DEF Counted
<1>5. ASSUME NEW n \in 0 .. size
      PROVE  Ask!Chars(SubSeq(lines, 1, n)) = g[n]
  <2>1. PICK t : t = SubSeq(lines, 1, n)
    OBVIOUS
  <2>2. Len(t) = n /\ \A i \in 1 .. n : t[i] = lines[i]
    BY <1>1, <1>2, <2>1
  <2>3. PICK h : h = [i \in 0 .. n |-> g[i]]
    OBVIOUS
  <2>4. /\ h \in [0 .. n -> Nat] /\ h[0] = 0 /\ h[n] = g[n]
        /\ \A i \in 1 .. n : h[i] = h[i - 1] + t[i].chars + 1
    <3>1. ASSUME NEW i \in 1 .. n
          PROVE  h[i] = h[i - 1] + t[i].chars + 1
      <4>1. i \in 0 .. n /\ i - 1 \in 0 .. n /\ i \in 1 .. size
        OBVIOUS
      <4>2. h[i] = g[i] /\ h[i - 1] = g[i - 1]
        BY <2>3, <4>1
      <4> QED
        BY <1>4, <2>2, <4>1, <4>2
    <3>2. \A i \in 0 .. n : i \in 0 .. size /\ h[i] = g[i]
      BY <2>3
    <3>3. h \in [0 .. n -> Nat]
      BY <1>4, <2>3, <3>2
    <3>4. 0 \in 0 .. n /\ n \in 0 .. n
      OBVIOUS
    <3> QED
      BY <1>4, <3>1, <3>2, <3>3, <3>4
  <2>5. Counted(t, n, h)
    BY <2>4 DEF Counted
  <2>6. Ask!Chars(t) = h[n]
    BY <2>2, <2>5, CharsCounted
  <2> QED
    BY <2>1, <2>4, <2>6
<1>6. ASSUME NEW m \in 0 .. size, NEW n \in 0 .. size, m <= n
      PROVE  g[m] <= g[n]
  <2> DEFINE Bad == {k \in m .. n : ~(g[m] <= g[k])}
  <2>1. SUFFICES ASSUME Bad # {}
                 PROVE  FALSE
    <3>1. n \in m .. n
      BY <1>6
    <3> QED
      BY <3>1
  <2>2. PICK k \in Bad : k - 1 \notin Bad
    <3>1. Bad \subseteq Nat
      OBVIOUS
    <3> HIDE DEF Bad
    <3> QED
      BY <2>1, <3>1, FirstOfThem
  <2>3. k \in m .. n /\ ~(g[m] <= g[k])
    OBVIOUS
  <2>4. k # m /\ g[m] \in Nat
    BY <1>4, <2>3
  <2>5. k - 1 \in m .. n /\ k - 1 \in 0 .. size /\ k \in 1 .. size
    BY <2>3, <2>4
  <2>6. g[m] <= g[k - 1]
    BY <2>2, <2>5
  <2>7. g[k] = g[k - 1] + lines[k].chars + 1 /\ g[k - 1] \in Nat /\ lines[k].chars \in Nat
    BY <1>2, <1>4, <2>5 DEF IsLines
  <2> QED
    BY <2>3, <2>4, <2>6, <2>7
<1> QED
  BY <1>2, <1>4, <1>5, <1>6

LEMMA LargestExists ==
  ASSUME NEW n \in Nat, NEW T, T \subseteq 0 .. n, T # {}
  PROVE  Ask!Max(T) \in T /\ \A y \in T : y <= Ask!Max(T)
<1> DEFINE Gaps == {n - x : x \in T}
<1>1. Gaps \subseteq Nat /\ Gaps # {}
  <2>1. \A x \in T : n - x \in Nat
    OBVIOUS
  <2>2. PICK x : x \in T
    OBVIOUS
  <2>3. n - x \in Gaps
    BY <2>2
  <2> QED
    BY <2>1, <2>3
<1> HIDE DEF Gaps
<1>2. Min(Gaps) \in Gaps /\ \A y \in Gaps : Min(Gaps) <= y
  BY <1>1, LeastExists
<1>3. PICK x \in T : Min(Gaps) = n - x
  BY <1>2 DEF Gaps
<1>4. \A y \in T : y <= x
  <2>1. ASSUME NEW y \in T
        PROVE  y <= x
    <3>1. n - y \in Gaps
      BY DEF Gaps
    <3>2. n - x <= n - y
      BY <1>2, <1>3, <3>1
    <3> QED
      BY <3>2
  <2> QED
    BY <2>1
<1>5. \E z \in T : \A y \in T : z >= y
  BY <1>4
<1> DEFINE most == CHOOSE z \in T : \A y \in T : z >= y
<1>6. most \in T /\ \A y \in T : most >= y
  BY <1>5
<1>7. most = Ask!Max(T)
  BY DEF Ask!Max
<1> QED
  BY <1>6, <1>7

\* The smaller of two.
LEMMA AskSmaller ==
  ASSUME NEW a \in Int, NEW b \in Int
  PROVE  Ask!Min({a, b}) = IF a <= b THEN a ELSE b
BY DEF Ask!Min

LEMMA AskLarger ==
  ASSUME NEW a \in Int, NEW b \in Int
  PROVE  Ask!Max({a, b}) = IF a >= b THEN a ELSE b
BY DEF Ask!Max

\* The fence lines among the first n.
FencesAt(lines, n) == {i \in 1 .. n : lines[i].kind \in {"ticks", "tildes"}}

FencesIn(lines, n) == Cardinality(FencesAt(lines, n))

LEMMA FencesCounted ==
  ASSUME NEW lines, NEW n \in Nat
  PROVE  IsFiniteSet(FencesAt(lines, n)) /\ FencesIn(lines, n) \in Nat
<1>1. IsFiniteSet(1 .. n) /\ FencesAt(lines, n) \in SUBSET (1 .. n)
  BY UpTo DEF FencesAt
<1>2. IsFiniteSet(FencesAt(lines, n))
  BY <1>1, FS_Subset
<1> QED
  BY <1>2, FS_CardinalityType DEF FencesIn

LEMMA OpenAtPrefix ==
  ASSUME NEW S, NEW lines \in Seq(S), NEW n \in 0 .. Len(lines)
  PROVE  Ask!InFence(SubSeq(lines, 1, n)) <=> FencesIn(lines, n) % 2 = 1
<1>1. PICK t : t = SubSeq(lines, 1, n)
  OBVIOUS
<1>2. DOMAIN t = 1 .. n /\ \A i \in 1 .. n : t[i] = lines[i]
  BY <1>1
<1>3. {i \in DOMAIN t : Ask!is_fence(t[i])} = FencesAt(lines, n)
  BY <1>2 DEF Ask!is_fence, FencesAt
<1>4. \A A : Ask!Cardinality(A) = Cardinality(A)
  BY DEF Ask!Cardinality, Cardinality
<1> QED
  BY <1>1, <1>3, <1>4 DEF Ask!InFence, FencesIn

\* Without a fence in between, the fences before two places are the same.
LEMMA SameFences ==
  ASSUME NEW lines, NEW m \in Nat, NEW n \in Nat, m <= n,
         \A i \in 1 .. n : i > m => lines[i].kind \notin {"ticks", "tildes"}
  PROVE  FencesIn(lines, m) = FencesIn(lines, n)
<1>1. FencesAt(lines, m) = FencesAt(lines, n)
  BY DEF FencesAt
<1> QED
  BY <1>1 DEF FencesIn

LEMMA NoFences ==
  ASSUME NEW lines, NEW n \in Nat, FencesAt(lines, n) = {}
  PROVE  FencesIn(lines, n) = 0
BY FS_EmptySet DEF FencesIn

LEMMA OneMoreLine ==
  ASSUME NEW lines, NEW m \in Nat, NEW n \in Nat, n = m + 1, lines[n].kind \in {"ticks", "tildes"}
  PROVE  FencesIn(lines, n) = FencesIn(lines, m) + 1
<1>1. FencesAt(lines, n) = FencesAt(lines, m) \cup {n} /\ n \notin FencesAt(lines, m)
  BY DEF FencesAt
<1>2. IsFiniteSet(FencesAt(lines, m))
  BY FencesCounted
<1> QED
  BY <1>1, <1>2, FS_AddElement DEF FencesIn

\* g tells the fence that is open after each of the first n lines.
FencesRead(lines, n, g) ==
  /\ g = [i \in 0 .. n |-> g[i]] /\ g[0] = "none"
  /\ \A i \in 1 .. n : g[i] = FenceAfter(g[i - 1], lines[i].kind)

LEMMA ReadingExists ==
  ASSUME NEW lines, NEW n \in Nat
  PROVE  \E g : FencesRead(lines, n, g)
<1> DEFINE Bad == {m \in 0 .. n : \A g : ~FencesRead(lines, m, g)}
<1>1. SUFFICES ASSUME Bad # {}
               PROVE  FALSE
  <2>1. n \in 0 .. n
    OBVIOUS
  <2>2. Bad = {} => n \notin Bad
    BY Zenon
  <2> QED
    BY <2>1, <2>2
<1>2. PICK m \in Bad : m - 1 \notin Bad
  <2>1. Bad \subseteq Nat
    OBVIOUS
  <2> HIDE DEF Bad
  <2> QED
    BY <1>1, <2>1, FirstOfThem
<1>3. m \in 0 .. n /\ (\A g : ~FencesRead(lines, m, g))
  OBVIOUS
<1>4. CASE m = 0
  <2>1. PICK g : g = [i \in 0 .. 0 |-> "none"]
    OBVIOUS
  <2>2. FencesRead(lines, 0, g)
    BY <2>1 DEF FencesRead
  <2> QED
    BY <1>3, <1>4, <2>2
<1>5. CASE m # 0
  <2>1. PICK k \in 0 .. n : k = m - 1 /\ k + 1 = m /\ k \notin Bad
    <3>1. m - 1 \in 0 .. n /\ (m - 1) + 1 = m
      BY <1>3, <1>5
    <3> HIDE DEF Bad
    <3> QED
      BY <1>2, <3>1
  <2>2. PICK g : FencesRead(lines, k, g)
    BY <2>1
  <2>3. g[0] = "none" /\ \A i \in 1 .. k : g[i] = FenceAfter(g[i - 1], lines[i].kind)
    BY <2>2 DEF FencesRead
  <2>4. PICK last : last = FenceAfter(g[k], lines[m].kind)
    OBVIOUS
  <2>5. PICK h : h = [i \in 0 .. m |-> IF i = m THEN last ELSE g[i]]
    OBVIOUS
  <2>6. h = [i \in 0 .. m |-> h[i]] /\ h[0] = "none" /\ h[m] = last /\ \A i \in 0 .. k : h[i] = g[i]
    BY <1>3, <1>5, <2>1, <2>3, <2>5
  <2>7. ASSUME NEW i \in 1 .. m
        PROVE  h[i] = FenceAfter(h[i - 1], lines[i].kind)
    <3>1. i - 1 \in 0 .. k /\ (i = m \/ i \in 1 .. k)
      BY <1>3, <2>1
    <3>2. CASE i = m
      <4>1. i - 1 = k /\ h[i - 1] = g[k]
        BY <2>1, <2>6, <3>1, <3>2
      <4> QED
        BY <2>4, <2>6, <3>2, <4>1
    <3>3. CASE i \in 1 .. k
      <4>1. i \in 0 .. k
        BY <3>3
      <4>2. h[i - 1] = g[i - 1] /\ h[i] = g[i]
        BY <2>6, <3>1, <4>1
      <4> QED
        BY <2>3, <3>3, <4>2
    <3> QED
      BY <3>1, <3>2, <3>3
  <2>8. FencesRead(lines, m, h)
    BY <2>6, <2>7 DEF FencesRead
  <2> QED
    BY <1>3, <2>8
<1> QED
  BY <1>4, <1>5

\* OpenFence reads the fences line by line.
LEMMA OpenFenceReads ==
  ASSUME NEW lines, NEW n \in Nat, Len(lines) = n, NEW open, open = OpenFence(lines)
  PROVE  open[0] = "none" /\ \A i \in 1 .. n : open[i] = FenceAfter(open[i - 1], lines[i].kind)
<1>1. PICK g : FencesRead(lines, n, g)
  BY ReadingExists
<1>2. /\ g = [i \in 0 .. n |-> g[i]] /\ g[0] = "none"
      /\ \A i \in 1 .. n : g[i] = FenceAfter(g[i - 1], lines[i].kind)
  BY <1>1 DEF FencesRead
<1> DEFINE Step(f) == [i \in 0 .. n |-> IF i = 0 THEN "none" ELSE FenceAfter(f[i - 1], lines[i].kind)]
           read == CHOOSE f : f = Step(f)
<1>3. open = read
  BY DEF OpenFence
<1>4. \E f : f = Step(f)
  <2>1. ASSUME NEW i \in 0 .. n
        PROVE  g[i] = IF i = 0 THEN "none" ELSE FenceAfter(g[i - 1], lines[i].kind)
    <3>1. i = 0 \/ i \in 1 .. n
      OBVIOUS
    <3> QED
      BY <1>2, <3>1
  <2>2. g = Step(g)
    BY <1>2, <2>1
  <2> QED
    BY <2>2
<1>5. read = Step(read)
  BY <1>4, Zenon
<1> HIDE DEF read
<1>6. \A i \in 0 .. n : open[i] = IF i = 0 THEN "none" ELSE FenceAfter(open[i - 1], lines[i].kind)
  BY <1>3, <1>5
<1>7. 0 \in 0 .. n /\ \A i \in 1 .. n : i \in 0 .. n /\ i # 0
  OBVIOUS
<1> QED
  BY <1>6, <1>7

\* Where no fence line of one kind stands in a fence of the other, a fence is open after an odd
\* number of fence lines: the planner's toggle.
LEMMA TogglesAgree ==
  ASSUME NEW lines, NEW size \in Nat, Len(lines) = size, DOMAIN lines = 1 .. size, FencesApart(lines),
         NEW n \in 0 .. size
  PROVE  OpenFence(lines)[n] = "none" <=> FencesIn(lines, n) % 2 = 0
<1>1. PICK open : open = OpenFence(lines)
  OBVIOUS
<1>2. open[0] = "none" /\ \A i \in 1 .. size : open[i] = FenceAfter(open[i - 1], lines[i].kind)
  BY <1>1, OpenFenceReads
<1>3. \A i \in 1 .. size : lines[i].kind \in {"ticks", "tildes"} => open[i - 1] \in {"none", lines[i].kind}
  BY <1>1 DEF FencesApart
<1> DEFINE Bad == {i \in 0 .. size : ~(open[i] = "none" <=> FencesIn(lines, i) % 2 = 0)}
<1>4. SUFFICES ASSUME Bad # {}
               PROVE  FALSE
  BY <1>1
<1>5. PICK i \in Bad : i - 1 \notin Bad
  <2>1. Bad \subseteq Nat
    OBVIOUS
  <2> HIDE DEF Bad
  <2> QED
    BY <1>4, <2>1, FirstOfThem
<1>6. i \in 0 .. size /\ ~(open[i] = "none" <=> FencesIn(lines, i) % 2 = 0)
  OBVIOUS
<1>7. i # 0
  <2>1. FencesAt(lines, 0) = {}
    BY DEF FencesAt
  <2>2. FencesIn(lines, 0) = 0
    BY <2>1, NoFences
  <2> QED
    BY <1>2, <1>6, <2>2
<1>8. PICK k \in 0 .. size : k = i - 1 /\ i = k + 1 /\ i \in 1 .. size /\ k \in Nat /\ i \in Nat
  BY <1>6, <1>7
<1>9. open[k] = "none" <=> FencesIn(lines, k) % 2 = 0
  BY <1>5, <1>8
<1>10. open[i] = FenceAfter(open[k], lines[i].kind)
  BY <1>2, <1>8
<1> HIDE DEF Bad
<1>11. CASE lines[i].kind \notin {"ticks", "tildes"}
  <2>1. open[i] = open[k]
    BY <1>10, <1>11 DEF FenceAfter
  <2>2. FencesIn(lines, k) = FencesIn(lines, i)
    <3>1. \A j \in 1 .. i : j > k => j = i
      BY <1>8
    <3>2. \A j \in 1 .. i : j > k => lines[j].kind \notin {"ticks", "tildes"}
      BY <1>11, <3>1
    <3> QED
      BY <1>8, <3>2, SameFences
  <2> QED
    BY <1>6, <1>9, <2>1, <2>2
<1>12. CASE lines[i].kind \in {"ticks", "tildes"}
  <2>1. FencesIn(lines, i) = FencesIn(lines, k) + 1
    BY <1>8, <1>12, OneMoreLine
  <2>2. PICK count \in Nat : count = FencesIn(lines, k)
    BY <1>8, FencesCounted
  <2>3. (count + 1) % 2 = 0 <=> count % 2 # 0
    BY <2>2
  <2>4. open[k] \in {"none", lines[i].kind}
    BY <1>3, <1>8, <1>12
  <2>5. open[i] = "none" <=> open[k] # "none"
    BY <1>10, <1>12, <2>4 DEF FenceAfter
  <2> QED
    BY <1>6, <1>9, <2>1, <2>2, <2>3, <2>5
<1> QED
  BY <1>11, <1>12

\* The cut falls right before the last blank line that is in no fence, or keeps nothing.
LEMMA BoundaryIsClean ==
  ASSUME NEW S, NEW lines \in Seq(S), NEW fits \in 0 .. Len(lines), NEW keep, keep = Ask!Boundary(lines, fits)
  PROVE  /\ keep \in 0 .. fits
         /\ keep # 0 => keep < fits /\ lines[keep + 1].kind = "blank" /\ FencesIn(lines, keep) % 2 = 0
         /\ \A n \in Nat : n < fits /\ lines[n + 1].kind = "blank" /\ FencesIn(lines, n) % 2 = 0 => n <= keep
<1> DEFINE blanks == {i \in 1 .. fits : lines[i].kind = "blank" /\ ~Ask!InFence(SubSeq(lines, 1, i))}
           last == IF blanks = {} THEN 0 ELSE Ask!Max(blanks) - 1
           opens == {i \in 1 .. fits : Ask!is_fence(lines[i])}
<1>1. keep = IF Ask!InFence(SubSeq(lines, 1, fits)) THEN Ask!Min({last, Ask!Max(opens) - 1}) ELSE last
  BY Zenon DEF Ask!Boundary
<1>2. PICK size \in Nat : size = Len(lines)
  OBVIOUS
<1>3. blanks \subseteq 0 .. fits /\ opens \subseteq 0 .. fits /\ fits \in Nat
  BY <1>2
<1>4. \A i \in blanks : i \in 1 .. fits /\ lines[i].kind = "blank" /\ FencesIn(lines, i) % 2 # 1
  <2>1. ASSUME NEW i \in blanks
        PROVE  i \in 1 .. fits /\ lines[i].kind = "blank" /\ FencesIn(lines, i) % 2 # 1
    <3>1. i \in 1 .. fits /\ lines[i].kind = "blank" /\ ~Ask!InFence(SubSeq(lines, 1, i)) /\ i \in 0 .. Len(lines)
      BY <1>2
    <3> QED
      BY <3>1, OpenAtPrefix
  <2> QED
    BY <2>1
<1>5. opens = FencesAt(lines, fits)
  BY DEF FencesAt, Ask!is_fence
<1>11. ASSUME NEW n \in Nat, n < fits, lines[n + 1].kind = "blank", FencesIn(lines, n) % 2 = 0
       PROVE  n + 1 \in blanks
  <2>1. n + 1 \in 1 .. fits /\ n + 1 \in 0 .. Len(lines) /\ n + 1 \in Nat /\ n <= n + 1
    BY <1>2, <1>3, <1>11
  <2>2. FencesIn(lines, n) = FencesIn(lines, n + 1)
    <3>1. \A i \in 1 .. n + 1 : i > n => i = n + 1
      BY <1>11
    <3>2. \A i \in 1 .. n + 1 : i > n => lines[i].kind \notin {"ticks", "tildes"}
      BY <1>11, <3>1
    <3> QED
      BY <2>1, <3>2, SameFences
  <2>3. ~Ask!InFence(SubSeq(lines, 1, n + 1))
    <3>1. Ask!InFence(SubSeq(lines, 1, n + 1)) <=> FencesIn(lines, n + 1) % 2 = 1
      BY <2>1, OpenAtPrefix
    <3> QED
      BY <1>11, <2>2, <3>1
  <2> QED
    BY <1>11, <2>1, <2>3
<1> HIDE DEF blanks, opens
<1>6. /\ last \in 0 .. fits /\ (last # 0 => last + 1 \in blanks)
      /\ \A i \in blanks : i - 1 <= last
  <2>1. CASE blanks = {}
    BY <1>3, <2>1
  <2>2. CASE blanks # {}
    <3>1. PICK top : top = Ask!Max(blanks) /\ top \in blanks /\ \A i \in blanks : i <= top
      BY <1>3, <2>2, LargestExists
    <3>2. top \in 1 .. fits /\ last = top - 1
      BY <1>4, <2>2, <3>1
    <3>3. \A i \in blanks : i \in 1 .. fits /\ i <= top
      BY <1>4, <3>1
    <3> HIDE DEF last
    <3> QED
      BY <3>1, <3>2, <3>3
  <2> QED
    BY <2>1, <2>2
<1>7. Ask!InFence(SubSeq(lines, 1, fits)) => Ask!Min({last, Ask!Max(opens) - 1}) = last
  <2> SUFFICES ASSUME Ask!InFence(SubSeq(lines, 1, fits))
               PROVE  Ask!Min({last, Ask!Max(opens) - 1}) = last
    OBVIOUS
  <2>1. FencesIn(lines, fits) % 2 = 1
    BY OpenAtPrefix
  <2>2. opens # {}
    <3>1. opens = {} => FencesIn(lines, fits) = 0
      BY <1>3, <1>5, NoFences
    <3> QED
      BY <2>1, <3>1
  <2>3. PICK o : o = Ask!Max(opens) /\ o \in opens /\ \A i \in opens : i <= o
    BY <1>3, <2>2, LargestExists
  <2>4. o \in 1 .. fits
    BY <1>5, <2>3 DEF FencesAt
  <2>5. ASSUME NEW i \in blanks
        PROVE  i < o
    <3>1. i \in 1 .. fits /\ FencesIn(lines, i) % 2 # 1
      BY <1>4
    <3>2. SUFFICES ASSUME i >= o
                   PROVE  FencesIn(lines, i) = FencesIn(lines, fits)
      BY <2>1, <2>4, <3>1
    <3>3. \A j \in 1 .. fits : j > i => lines[j].kind \notin {"ticks", "tildes"}
      <4>1. ASSUME NEW j \in 1 .. fits, j > i, lines[j].kind \in {"ticks", "tildes"}
            PROVE  FALSE
        <5>1. j \in opens
          BY <1>5, <4>1 DEF FencesAt
        <5> QED
          BY <2>3, <2>4, <3>1, <3>2, <4>1, <5>1
      <4> QED
        BY <4>1
    <3> QED
      BY <1>3, <3>1, <3>3, SameFences
  <2>6. last <= o - 1
    <3>1. last # 0 => last + 1 < o
      BY <1>6, <2>5
    <3> HIDE DEF last
    <3> QED
      BY <1>6, <2>4, <3>1
  <2> HIDE DEF last
  <2> QED
    BY <1>6, <2>3, <2>4, <2>6, AskSmaller
<1>8. keep = last
  BY <1>1, <1>7
<1> HIDE DEF last
<1>9. ASSUME keep # 0
      PROVE  keep < fits /\ lines[keep + 1].kind = "blank" /\ FencesIn(lines, keep) % 2 = 0
  <2>1. keep + 1 \in blanks /\ keep \in 0 .. fits
    BY <1>6, <1>8, <1>9
  <2>2. keep + 1 \in 1 .. fits /\ lines[keep + 1].kind = "blank" /\ FencesIn(lines, keep + 1) % 2 # 1
    BY <1>4, <2>1
  <2>3. FencesIn(lines, keep) = FencesIn(lines, keep + 1)
    <3>1. keep \in Nat /\ keep + 1 \in Nat /\ keep <= keep + 1
      BY <2>1
    <3>2. \A i \in 1 .. keep + 1 : i > keep => lines[i].kind \notin {"ticks", "tildes"}
      <4>1. \A i \in 1 .. keep + 1 : i > keep => i = keep + 1
        BY <3>1
      <4> QED
        BY <2>2, <4>1
    <3> QED
      BY <3>1, <3>2, SameFences
  <2>4. PICK count \in Nat : count = FencesIn(lines, keep)
    BY <2>1, FencesCounted
  <2>5. count % 2 # 1 => count % 2 = 0
    OBVIOUS
  <2> QED
    BY <2>1, <2>2, <2>3, <2>4, <2>5
<1>12. ASSUME NEW n \in Nat, n < fits, lines[n + 1].kind = "blank", FencesIn(lines, n) % 2 = 0
       PROVE  n <= keep
  <2>1. (n + 1) - 1 <= last
    BY <1>6, <1>11, <1>12
  <2> QED
    BY <1>6, <1>8, <2>1
<1>13. keep \in 0 .. fits
  BY <1>6, <1>8
<1> QED
  BY <1>9, <1>12, <1>13

\* The lines that fit do fit.
LEMMA FittingFits ==
  ASSUME NEW lines, IsLines(lines), NEW max_chars \in Nat, NEW fits, fits = Ask!Fitting(lines, max_chars)
  PROVE  /\ fits \in 0 .. Len(lines) /\ (fits # 0 => Ask!Chars(SubSeq(lines, 1, fits)) <= max_chars)
         /\ \A n \in 1 .. Len(lines) : Ask!Chars(SubSeq(lines, 1, n)) <= max_chars => n <= fits
<1>1. PICK size \in Nat : size = Len(lines)
  BY DEF IsLines
<1> DEFINE places == {0} \cup {n \in 1 .. size : Ask!Chars(SubSeq(lines, 1, n)) <= max_chars}
<1>2. fits = Ask!Max(places)
  BY <1>1 DEF Ask!Fitting
<1>3. places \subseteq 0 .. size /\ places # {}
  OBVIOUS
<1>4. \A n \in places : n = 0 \/ Ask!Chars(SubSeq(lines, 1, n)) <= max_chars
  OBVIOUS
<1> HIDE DEF places
<1>5. fits \in places /\ \A n \in places : n <= fits
  BY <1>2, <1>3, LargestExists
<1>6. \A n \in 1 .. size : Ask!Chars(SubSeq(lines, 1, n)) <= max_chars => n \in places
  BY DEF places
<1> QED
  BY <1>1, <1>3, <1>4, <1>5, <1>6

\* What is asked of a request r for the lines of a section.
CutIsClean(lines, max_tokens, r) ==
  LET budget == 2 * max_tokens
      total  == Ask!Chars(lines)
      kept   == r.chunk.lines
      open   == OpenFence(lines)
      clean  == {n \in 1 .. Len(lines) - 1 :
                   lines[n + 1].kind = "blank" /\ open[n] = "none" /\ Ask!Chars(SubSeq(lines, 1, n + 1)) <= budget}
      body   == \E i \in DOMAIN lines : lines[i].kind # "blank" /\ (i = 1 => lines[i].kind # "heading")
  IN  /\ body => r.call
      /\ r.call => /\ IsPrefix(kept, lines)
                   /\ r.chunk.truncated <=> total > budget
                   /\ ~r.chunk.truncated => kept = lines
                   /\ r.chunk.truncated =>
                        /\ Ask!Chars(kept) + r.chunk.prefix <= Max({budget, 2})
                        /\ Len(kept) + r.chunk.dropped + (IF kept = <<>> THEN 1 ELSE 0) = Len(lines)
                        /\ FencesApart(lines) => /\ kept # <<>> => Len(kept) \in clean
                                                 /\ \A n \in clean : n <= Len(kept)

LEMMA PrefixOfLines ==
  ASSUME NEW S, NEW lines \in Seq(S), NEW n \in 0 .. Len(lines)
  PROVE  /\ IsPrefix(SubSeq(lines, 1, n), lines) /\ Len(SubSeq(lines, 1, n)) = n
         /\ SubSeq(lines, 1, n) = <<>> <=> n = 0
<1>1. PICK t : t = SubSeq(lines, 1, n)
  OBVIOUS
<1>2. t \in Seq(S) /\ Len(t) = n /\ n <= Len(lines)
  BY <1>1
<1>3. SubSeq(t, 1, n) = t
  BY <1>2
<1>4. t = <<>> <=> n = 0
  BY <1>2
<1> QED
  BY <1>1, <1>2, <1>3, <1>4 DEF IsPrefix

\* A chunk that is a clean cut of the lines, by the planner's own reading of the fences.
CleanChunk(lines, max_tokens, chunk) ==
  /\ chunk.truncated /\ IsPrefix(chunk.lines, lines)
  /\ Ask!Chars(chunk.lines) + chunk.prefix <= Max({2 * max_tokens, 2})
  /\ Len(chunk.lines) + chunk.dropped + (IF chunk.lines = <<>> THEN 1 ELSE 0) = Len(lines)
  /\ chunk.lines # <<>> =>
       /\ Len(chunk.lines) \in 1 .. Len(lines) - 1 /\ FencesIn(lines, Len(chunk.lines)) % 2 = 0
       /\ lines[Len(chunk.lines) + 1].kind = "blank"
       /\ Ask!Chars(SubSeq(lines, 1, Len(chunk.lines) + 1)) <= 2 * max_tokens
  /\ \A n \in 1 .. Len(lines) - 1 :
       lines[n + 1].kind = "blank" /\ FencesIn(lines, n) % 2 = 0 /\ Ask!Chars(SubSeq(lines, 1, n + 1)) <= 2 * max_tokens
         => n <= Len(chunk.lines)

LEMMA LargerOf ==
  ASSUME NEW a \in Int, NEW b \in Int
  PROVE  \E m \in Int : m = Max({a, b}) /\ a <= m /\ b <= m
<1>1. PICK m : m = Max({a, b})
  OBVIOUS
<1>2. m = IF a >= b THEN a ELSE b
  BY <1>1 DEF Max
<1> QED
  BY <1>1, <1>2

\* What truncate_at_paragraph keeps.
LEMMA TruncationIsClean ==
  ASSUME NEW lines, IsLines(lines), lines # <<>>, NEW max_tokens \in Nat,
         NEW chunk, chunk = Ask!truncate_at_paragraph(lines, max_tokens)
  PROVE  CleanChunk(lines, max_tokens, chunk)
<1>1. PICK S : lines \in Seq(S)
  BY DEF IsLines
<1>2. PICK size \in Nat : size = Len(lines) /\ size # 0
  BY <1>1
<1>3. PICK max_chars \in Nat : max_chars = max_tokens * 2
  OBVIOUS
<1>4. PICK fits : fits = Ask!Fitting(lines, max_chars)
  OBVIOUS
<1>5. /\ fits \in 0 .. size /\ (fits # 0 => Ask!Chars(SubSeq(lines, 1, fits)) <= max_chars)
      /\ \A n \in 1 .. size : Ask!Chars(SubSeq(lines, 1, n)) <= max_chars => n <= fits
  BY <1>2, <1>4, FittingFits
<1>6. PICK keep : keep = Ask!Boundary(lines, fits)
  OBVIOUS
<1>7. /\ keep \in 0 .. fits
      /\ keep # 0 => keep < fits /\ lines[keep + 1].kind = "blank" /\ FencesIn(lines, keep) % 2 = 0
      /\ \A n \in Nat : n < fits /\ lines[n + 1].kind = "blank" /\ FencesIn(lines, n) % 2 = 0 => n <= keep
  BY <1>1, <1>2, <1>5, <1>6, BoundaryIsClean
<1>11. max_chars = 2 * max_tokens
  BY <1>3
<1>12. \A n \in 1 .. size - 1 :
         lines[n + 1].kind = "blank" /\ FencesIn(lines, n) % 2 = 0 /\ Ask!Chars(SubSeq(lines, 1, n + 1)) <= max_chars
           => n <= keep
  <2>1. ASSUME NEW n \in 1 .. size - 1, lines[n + 1].kind = "blank", FencesIn(lines, n) % 2 = 0,
               Ask!Chars(SubSeq(lines, 1, n + 1)) <= max_chars
        PROVE  n <= keep
    <3>1. n + 1 \in 1 .. size /\ n \in Nat
      BY <1>2
    <3>2. n + 1 <= fits
      BY <1>5, <2>1, <3>1
    <3>3. n < fits
      BY <1>5, <3>1, <3>2
    <3> QED
      BY <1>7, <2>1, <3>1, <3>3
  <2> QED
    BY <2>1
<1>. PICK cap \in Int : cap = Max({2 * max_tokens, 2}) /\ max_chars <= cap /\ 2 <= cap
  <2>1. PICK twice \in Int : twice = 2 * max_tokens /\ twice = max_chars
    BY <1>3
  <2>3. PICK larger \in Int : larger = Max({twice, 2}) /\ twice <= larger /\ 2 <= larger
    BY LargerOf
  <2>4. larger \in Int /\ max_chars <= larger /\ 2 <= larger
    BY <2>1, <2>3
  <2>5. larger = Max({2 * max_tokens, 2})
    BY <2>1, <2>3, Zenon
  <2> QED
    BY <2>4, <2>5, Zenon
<1>8. PICK budget \in Int : budget = Ask!Max({max_chars - 3, 2}) /\ budget <= cap
  <2>1. Ask!Max({max_chars - 3, 2}) = IF max_chars - 3 >= 2 THEN max_chars - 3 ELSE 2
    BY AskLarger
  <2> QED
    BY <2>1
<1>9. CASE keep = 0
  <2>1. PICK first \in Nat : first = lines[1].chars
    BY <1>2 DEF IsLines
  <2>2. PICK prefix \in Int : prefix = Ask!Min({first, budget}) /\ prefix <= budget
    <3>1. Ask!Min({first, budget}) = IF first <= budget THEN first ELSE budget
      BY AskSmaller
    <3> QED
      BY <3>1
  <2>3. chunk = [lines |-> <<>>, prefix |-> prefix, dropped |-> size - 1, truncated |-> TRUE]
    BY <1>2, <1>3, <1>4, <1>6, <1>8, <1>9, <2>1, <2>2 DEF Ask!truncate_at_paragraph
  <2>4. chunk.lines = <<>> /\ chunk.prefix = prefix /\ chunk.dropped = size - 1 /\ chunk.truncated
    BY <2>3
  <2>5. Ask!Chars(<<>>) = 0
    <3>1. PICK g : g = [i \in 0 .. 0 |-> 0]
      OBVIOUS
    <3>2. Counted(<<>>, 0, g)
      BY <3>1 DEF Counted
    <3>3. Ask!Chars(<<>>) = g[0]
      BY <3>2, CharsCounted
    <3> QED
      BY <3>1, <3>3
  <2>6. IsPrefix(<<>>, lines)
    <3>1. SubSeq(lines, 1, 0) = <<>> /\ 0 \in 0 .. Len(lines)
      BY <1>1, <1>2
    <3> QED
      BY <1>1, <3>1, PrefixOfLines
  <2>7. Ask!Chars(chunk.lines) + chunk.prefix <= cap
    BY <1>8, <2>2, <2>4, <2>5
  <2>8. Len(chunk.lines) + chunk.dropped + 1 = size
    BY <1>2, <2>4
  <2>9. Len(chunk.lines) = keep
    BY <1>9, <2>4
  <2> QED
    BY <1>2, <1>11, <1>12, <2>4, <2>6, <2>7, <2>8, <2>9, Zenon DEF CleanChunk
<1>10. CASE keep # 0
  <2>1. PICK kept : kept = SubSeq(lines, 1, keep)
    OBVIOUS
  <2>2. chunk = [lines |-> kept, prefix |-> 0, dropped |-> size - keep, truncated |-> TRUE]
    BY <1>2, <1>3, <1>4, <1>6, <1>10, <2>1 DEF Ask!truncate_at_paragraph
  <2>3. chunk.lines = kept /\ chunk.prefix = 0 /\ chunk.dropped = size - keep /\ chunk.truncated
    BY <2>2
  <2>4. IsPrefix(kept, lines) /\ Len(kept) = keep /\ kept # <<>>
    BY <1>1, <1>2, <1>5, <1>7, <1>10, <2>1, PrefixOfLines
  <2>5. Ask!Chars(kept) \in Nat /\ Ask!Chars(kept) <= max_chars
    <3>1. PICK g : /\ g \in [0 .. size -> Nat]
                   /\ \A n \in 0 .. size : Ask!Chars(SubSeq(lines, 1, n)) = g[n]
                   /\ \A m, n \in 0 .. size : m <= n => g[m] <= g[n]
      BY <1>2, CharsOfPrefix
    <3>2. keep \in 0 .. size /\ fits \in 0 .. size /\ keep <= fits /\ fits # 0
      BY <1>5, <1>7, <1>10
    <3>3. g[keep] <= g[fits] /\ g[fits] <= max_chars /\ g[keep] \in Nat /\ g[fits] \in Nat
      BY <1>5, <3>1, <3>2
    <3> QED
      BY <2>1, <3>1, <3>2, <3>3
  <2>6. Ask!Chars(chunk.lines) + chunk.prefix <= cap
    <3>1. PICK count \in Nat : count = Ask!Chars(kept) /\ count <= max_chars
      BY <2>5
    <3>2. count + 0 <= cap
      BY <3>1
    <3>3. Ask!Chars(chunk.lines) + chunk.prefix = count + 0
      BY <2>3, <3>1
    <3> QED
      BY <3>2, <3>3
  <2>7. Len(chunk.lines) + chunk.dropped + 0 = size
    BY <1>2, <1>5, <1>7, <2>3, <2>4
  <2>8. keep \in 1 .. size - 1 /\ Ask!Chars(SubSeq(lines, 1, keep + 1)) <= max_chars
    <3>1. PICK g : /\ g \in [0 .. size -> Nat]
                   /\ \A n \in 0 .. size : Ask!Chars(SubSeq(lines, 1, n)) = g[n]
                   /\ \A m, n \in 0 .. size : m <= n => g[m] <= g[n]
      BY <1>2, CharsOfPrefix
    <3>2. keep + 1 \in 0 .. size /\ fits \in 0 .. size /\ keep + 1 <= fits /\ fits # 0 /\ keep \in 1 .. size - 1
      BY <1>5, <1>7, <1>10
    <3>3. g[keep + 1] <= g[fits] /\ g[fits] <= max_chars /\ g[keep + 1] \in Nat /\ g[fits] \in Nat
      BY <1>5, <3>1, <3>2
    <3>4. Ask!Chars(SubSeq(lines, 1, keep + 1)) = g[keep + 1]
      BY <3>1, <3>2
    <3> QED
      BY <3>2, <3>3, <3>4
  <2> QED
    BY <1>2, <1>7, <1>10, <1>11, <1>12, <2>3, <2>4, <2>6, <2>7, <2>8, Zenon DEF CleanChunk
<1> QED
  BY <1>9, <1>10

\* planner.rs: a section of any length is sent whole when it fits the budget. One that does not
\* is cut within the budget, with every line that is missing counted; when none of its fences
\* shows a fence line of the other kind, it is cut at the last blank line outside every fence
\* that fits, and where there is none such only a prefix of the first line is kept, which may
\* be the opening line of a fence. A section with a body is always sent.
THEOREM CutsStayClean ==
  ASSUME NEW lines, IsLines(lines), lines # <<>>, NEW max_tokens \in Nat, NEW hash,
         NEW r, r = Ask!request_for([hash |-> hash, lines |-> lines, chars |-> Ask!Chars(lines)], max_tokens)
  PROVE  CutIsClean(lines, max_tokens, r)
<1>1. PICK S : lines \in Seq(S)
  BY DEF IsLines
<1>2. PICK size \in Nat : size = Len(lines) /\ size # 0 /\ DOMAIN lines = 1 .. size
  BY <1>1
<1>3. PICK total \in Nat : total = Ask!Chars(lines)
  <2>1. PICK g : /\ g \in [0 .. size -> Nat]
                 /\ \A n \in 0 .. size : Ask!Chars(SubSeq(lines, 1, n)) = g[n]
    BY <1>2, CharsOfPrefix
  <2>2. SubSeq(lines, 1, size) = lines /\ size \in 0 .. size
    BY <1>1, <1>2
  <2>3. Ask!Chars(lines) = g[size] /\ g[size] \in Nat
    BY <2>1, <2>2
  <2> QED
    BY <2>3
<1>4. PICK pending : pending = [hash |-> hash, lines |-> lines, chars |-> total]
  OBVIOUS
<1>5. pending.hash = hash /\ pending.lines = lines /\ pending.chars = total
  BY <1>4
<1>6. (\E i \in DOMAIN lines : lines[i].kind # "blank" /\ (i = 1 => lines[i].kind # "heading"))
        => ~Ask!is_heading_only(lines)
  BY <1>2 DEF Ask!is_heading_only
<1>7. r.call <=> ~Ask!is_heading_only(lines)
  <2>1. r = IF Ask!is_heading_only(lines) THEN [call |-> FALSE, id |-> hash]
            ELSE [call |-> TRUE, id |-> hash, chunk |-> Ask!chunk_text(lines, total, max_tokens)]
    BY <1>3, <1>4, <1>5 DEF Ask!request_for
  <2> QED
    BY <2>1
<1>8. ASSUME ~Ask!is_heading_only(lines)
      PROVE  r.chunk = Ask!chunk_text(lines, total, max_tokens)
  <2>1. r = [call |-> TRUE, id |-> hash, chunk |-> Ask!chunk_text(lines, total, max_tokens)]
    BY <1>3, <1>4, <1>5, <1>8 DEF Ask!request_for
  <2> QED
    BY <2>1
<1>9. Ask!token_estimate(total) <= max_tokens <=> ~(total > 2 * max_tokens)
  <2>1. Ask!token_estimate(total) = (total + 1) \div 2
    BY DEF Ask!token_estimate
  <2>2. PICK q \in Int : q = (total + 1) \div 2 /\ 2 * q <= total + 1 /\ total + 1 < 2 * q + 2
    OBVIOUS
  <2> QED
    BY <2>1, <2>2
<1>10. ASSUME ~Ask!is_heading_only(lines), ~(total > 2 * max_tokens)
       PROVE  IsPrefix(r.chunk.lines, lines) /\ r.chunk.lines = lines /\ ~r.chunk.truncated
  <2>1. r.chunk = [lines |-> lines, prefix |-> 0, dropped |-> 0, truncated |-> FALSE]
    BY <1>8, <1>9, <1>10 DEF Ask!chunk_text
  <2>2. r.chunk.lines = lines /\ ~r.chunk.truncated
    BY <2>1
  <2>3. IsPrefix(lines, lines)
    BY <1>1 DEF IsPrefix
  <2> QED
    BY <2>2, <2>3
<1>11. ASSUME ~Ask!is_heading_only(lines), total > 2 * max_tokens
       PROVE  r.chunk = Ask!truncate_at_paragraph(lines, max_tokens)
  BY <1>8, <1>9, <1>11 DEF Ask!chunk_text
<1>12. CASE Ask!is_heading_only(lines)
  BY <1>6, <1>7, <1>12 DEF CutIsClean
<1>13. CASE ~Ask!is_heading_only(lines) /\ ~(total > 2 * max_tokens)
  BY <1>3, <1>7, <1>10, <1>13, Zenon DEF CutIsClean
<1>14. CASE ~Ask!is_heading_only(lines) /\ total > 2 * max_tokens
  <2>1. PICK chunk : chunk = r.chunk
    OBVIOUS
  <2>2. chunk = Ask!truncate_at_paragraph(lines, max_tokens)
    BY <1>11, <1>14, <2>1
  <2>3. CleanChunk(lines, max_tokens, chunk)
    BY <2>2, TruncationIsClean
  <2> DEFINE clean == {n \in 1 .. Len(lines) - 1 :
                         /\ lines[n + 1].kind = "blank" /\ OpenFence(lines)[n] = "none"
                         /\ Ask!Chars(SubSeq(lines, 1, n + 1)) <= 2 * max_tokens}
  <2>4. ASSUME FencesApart(lines)
        PROVE  (chunk.lines # <<>> => Len(chunk.lines) \in clean) /\ \A n \in clean : n <= Len(chunk.lines)
    <3>1. \A n \in 1 .. Len(lines) - 1 : OpenFence(lines)[n] = "none" <=> FencesIn(lines, n) % 2 = 0
      <4>1. \A n \in 1 .. Len(lines) - 1 : n \in 0 .. size
        BY <1>2
      <4> QED
        BY <1>2, <2>4, <4>1, TogglesAgree
    <3> QED
      BY <2>3, <3>1, Zenon DEF CleanChunk
  <2> QED
    BY <1>3, <1>7, <1>14, <2>1, <2>3, <2>4, Zenon DEF CutIsClean, CleanChunk
<1> QED
  BY <1>12, <1>13, <1>14

\* The sections the run cuts.
LinesTyped ==
  /\ case.alg = "budget" => case.max_tokens \in Nat
  /\ case.alg = "lines" => case.max_tokens \in Nat /\ IsLines(case.lines) /\ case.lines # <<>>

LEMMA KindsHaveLines ==
  ASSUME NEW kinds, NEW A, A \subseteq {"heading", "blank", "para", "ticks", "tildes"},
         kinds \in BoundedSeq(A, 6), kinds # <<>>, NEW lines, lines = [i \in DOMAIN kinds |-> LineOf(kinds[i])]
  PROVE  IsLines(lines) /\ lines # <<>>
<1>1. PICK size \in Nat : kinds \in [1 .. size -> A]
  <2>1. kinds \in UNION {[1 .. m -> A] : m \in 0 .. 6}
    BY Zenon DEF BoundedSeq, SeqOf
  <2>2. PICK m \in 0 .. 6 : kinds \in [1 .. m -> A]
    BY <2>1, Zenon
  <2> QED
    BY <2>2
<1>2. size # 0
  <2>1. size = 0 => kinds = <<>>
    BY <1>1
  <2> QED
    BY <2>1
<1>3. ASSUME NEW kind \in A
      PROVE  LineOf(kind).chars \in Nat
  <2>1. PICK chars \in Nat : LineOf(kind) = [kind |-> kind, chars |-> chars]
    BY DEF LineOf
  <2> QED
    BY <2>1
<1>4. ASSUME NEW i \in 1 .. size
      PROVE  lines[i].chars \in Nat /\ lines[i] \in {LineOf(kind) : kind \in A}
  <2>1. lines[i] = LineOf(kinds[i]) /\ kinds[i] \in A
    BY <1>1
  <2> QED
    BY <1>3, <2>1
<1>5. lines \in [1 .. size -> {LineOf(kind) : kind \in A}]
  BY <1>1, <1>4
<1>6. PICK S : S = {LineOf(kind) : kind \in A}
  OBVIOUS
<1>7. lines \in Seq(S) /\ Len(lines) = size
  BY <1>5, <1>6
<1>8. lines # <<>>
  BY <1>2, <1>7
<1> QED
  BY <1>4, <1>7, <1>8 DEF IsLines

LEMMA LinesTypedInvariant == Spec => []LinesTyped
<1>1. Init => LinesTyped
  BY DEF Init, Idle, LinesTyped
<1>2. LinesTyped /\ [Next]_case => LinesTyped'
  <2> SUFFICES ASSUME LinesTyped, [Next]_case
               PROVE  LinesTyped'
    OBVIOUS
  <2>1. CASE UNCHANGED case
    BY <2>1 DEF LinesTyped
  <2>2. CASE BudgetCase
    BY <2>2 DEF BudgetCase, LinesTyped
  <2>3. CASE LinesCase
    <3>1. PICK kinds \in BoundedSeq({"heading", "blank", "para", "ticks", "tildes"}, 6) :
            /\ kinds # <<>>
            /\ case' = [alg |-> "lines", max_tokens |-> case.max_tokens,
                        lines |-> [i \in DOMAIN kinds |-> LineOf(kinds[i])]]
      BY <2>3, Zenon DEF LinesCase
    <3>2. case.max_tokens \in Nat
      BY <2>3 DEF LinesCase, LinesTyped
    <3>3. PICK lines : lines = [i \in DOMAIN kinds |-> LineOf(kinds[i])]
      OBVIOUS
    <3>4. PICK A : A = {"heading", "blank", "para", "ticks", "tildes"}
      OBVIOUS
    <3>5. IsLines(lines) /\ lines # <<>>
      BY <3>1, <3>3, <3>4, KindsHaveLines
    <3>6. case' = [alg |-> "lines", max_tokens |-> case.max_tokens, lines |-> lines]
      BY <3>1, <3>3
    <3>7. case'.alg = "lines" /\ case'.max_tokens = case.max_tokens /\ case'.lines = lines
      BY <3>6
    <3> QED
      BY <3>2, <3>5, <3>7 DEF LinesTyped
  <2>4. CASE Next /\ ~BudgetCase /\ ~LinesCase
    BY <2>4, StepsNameTheirAlgorithm DEF Next, LinesTyped
  <2> QED
    BY <2>1, <2>2, <2>3, <2>4
<1> QED
  BY <1>1, <1>2, PTL DEF Spec

\* The property the run checks on its cuts, from the theorem about all of them.
THEOREM CutsClean == Spec => []CutsAreClean
<1>1. LinesTyped => CutsAreClean
  <2> SUFFICES ASSUME case.alg = "lines", LinesTyped
               PROVE  CutsAreClean
    BY DEF CutsAreClean
  <2> DEFINE r == Ask!request_for([hash |-> "h1", lines |-> case.lines, chars |-> Ask!Chars(case.lines)], case.max_tokens)
  <2>1. IsLines(case.lines) /\ case.lines # <<>> /\ case.max_tokens \in Nat
    BY DEF LinesTyped
  <2>2. CutIsClean(case.lines, case.max_tokens, r)
    BY ONLY <2>1, CutsStayClean
  <2> QED
    BY <2>2, Zenon DEF CutsAreClean, CutIsClean
<1> QED
  BY <1>1, LinesTypedInvariant, PTL

------------------------------------------------------------------------------
(* Validating an answer: Cards. *)

\* Cards sorts and filters as the other modules do.
LEMMA CardOrders ==
  /\ \A s, P : Card!Kept(s, P) = Kept(s, P)
  /\ \A s : Card!Distinct(s) = Distinct(s)
<1>1. \A S : Card!Cardinality(S) = Cardinality(S)
  BY Zenon DEF Cardinality, Card!Cardinality
<1>2. \A S, before : Card!InOrder(S, before) = InOrder(S, before)
  BY Zenon DEF Card!InOrder, InOrder, Card!Cardinality, Cardinality
<1>3. ASSUME NEW s, NEW P
      PROVE  Card!Kept(s, P) = Kept(s, P)
  <2>1. Card!Pairs(P, LAMBDA i, j : i < j) = Pairs(P, LAMBDA i, j : i < j)
    BY DEF Card!Pairs, Pairs
  <2>2. Card!InOrder(P, Card!Pairs(P, LAMBDA i, j : i < j)) = InOrder(P, Pairs(P, LAMBDA i, j : i < j))
    BY <1>2, <2>1, Zenon
  <2> QED
    BY <1>1, <2>2, Zenon DEF Card!Kept, Kept
<1>4. ASSUME NEW s
      PROVE  Card!Distinct(s) = Distinct(s)
  BY <1>3, Zenon DEF Card!Distinct, Distinct
<1> QED
  BY <1>3, <1>4

\* All positions kept is nothing changed.
LEMMA KeptAll ==
  ASSUME NEW T, NEW s \in Seq(T), NEW P, P = 1 .. Len(s)
  PROVE  Kept(s, P) = s
<1>1. PICK size \in Nat : size = Len(s) /\ DOMAIN s = 1 .. size
  OBVIOUS
<1>2. IsFiniteSet(P) /\ P \subseteq Int /\ Cardinality(P) = size
  BY <1>1, UpTo
<1>3. PICK t : t = Kept(s, P)
  OBVIOUS
<1>4. PICK places : Runs(places, t, s, P)
  BY <1>2, <1>3, KeptRuns
<1>5. /\ places \in [1 .. size -> 1 .. size]
      /\ t = [n \in 1 .. size |-> s[places[n]]]
      /\ \A i \in 1 .. size : \E n \in 1 .. size : places[n] = i
      /\ \A m, n \in 1 .. size : m < n <=> places[m] < places[n]
  BY <1>1, <1>2, <1>4 DEF Runs
<1> DEFINE Bad == {n \in 1 .. size : places[n] # n}
<1>6. Bad = {}
  <2>1. SUFFICES ASSUME Bad # {}
                 PROVE  FALSE
    OBVIOUS
  <2>2. PICK n \in Bad : n - 1 \notin Bad
    <3>1. Bad \subseteq Nat
      OBVIOUS
    <3> HIDE DEF Bad
    <3> QED
      BY <2>1, <3>1, FirstOfThem
  <2>3. n \in 1 .. size /\ places[n] # n /\ places[n] \in 1 .. size
    BY <1>5
  <2>4. n # 1 => n - 1 \in 1 .. size /\ places[n - 1] = n - 1
    BY <2>2, <2>3
  <2>5. places[n] > n
    <3>1. n # 1 => places[n] > n - 1
      <4>1. n # 1 => n - 1 \in 1 .. size /\ n - 1 < n
        BY <2>3
      <4> QED
        BY <1>5, <2>3, <2>4, <4>1
    <3> QED
      BY <2>3, <3>1
  <2>6. PICK m \in 1 .. size : places[m] = n
    BY <1>5, <2>3
  <2>7. m < n
    BY <1>5, <2>3, <2>5, <2>6
  <2>8. n # 1 /\ m <= n - 1
    BY <2>3, <2>7
  <2>9. places[m] <= n - 1
    <3>1. m = n - 1 \/ m < n - 1
      BY <2>3, <2>8
    <3>2. m < n - 1 => places[m] < places[n - 1]
      BY <1>5, <2>4, <2>8
    <3> QED
      BY <2>4, <2>6, <2>8, <3>1, <3>2
  <2> QED
    BY <2>3, <2>6, <2>9
<1>7. \A n \in 1 .. size : t[n] = s[n]
  BY <1>5, <1>6
<1>8. DOMAIN t = 1 .. size /\ t = [n \in 1 .. size |-> t[n]]
  BY <1>5
<1>9. s = [n \in 1 .. size |-> s[n]]
  BY <1>1
<1> QED
  BY <1>3, <1>7, <1>8, <1>9

\* Without repetitions, the first of each group is each.
LEMMA DistinctAlready ==
  ASSUME NEW T, NEW s \in Seq(T), NoRepeats(s)
  PROVE  Distinct(s) = s
<1> DEFINE P == {i \in DOMAIN s : \A j \in 1 .. i - 1 : s[j] # s[i]}
<1>1. P = 1 .. Len(s)
  BY DEF NoRepeats
<1>2. Distinct(s) = Kept(s, P)
  BY DEF Distinct
<1> HIDE DEF P
<1> QED
  BY <1>1, <1>2, KeptAll

IsTrimmed(s) == s # <<>> => s[1] \notin Blank /\ s[Len(s)] \notin Blank

\* The ends of a set of positions.
LEMMA Ends ==
  ASSUME NEW size \in Nat, NEW T, T \subseteq 1 .. size, T # {}
  PROVE  /\ Card!Min(T) \in T /\ \A y \in T : Card!Min(T) <= y
         /\ Card!Max(T) \in T /\ \A y \in T : y <= Card!Max(T)
<1>1. T \subseteq Nat /\ T \subseteq 0 .. size
  OBVIOUS
<1>2. Min(T) \in T /\ \A y \in T : Min(T) <= y
  BY <1>1, LeastExists
<1>3. Card!Min(T) = Min(T)
  BY Zenon DEF Card!Min, Min
<1>4. Ask!Max(T) \in T /\ \A y \in T : y <= Ask!Max(T)
  BY <1>1, LargestExists
<1>5. Card!Max(T) = Ask!Max(T)
  BY Zenon DEF Card!Max, Ask!Max
<1> QED
  BY <1>2, <1>3, <1>4, <1>5

\* Trimming leaves no blank at the ends, and is done once.
LEMMA TrimTrims ==
  ASSUME NEW T, NEW s \in Seq(T), NEW t, t = Card!trim(s)
  PROVE  t \in Seq(T) /\ IsTrimmed(t) /\ Len(t) <= Len(s)
<1>1. PICK size \in Nat : size = Len(s) /\ DOMAIN s = 1 .. size
  OBVIOUS
<1>2. PICK ink : ink = {i \in 1 .. size : s[i] \notin Blank}
  OBVIOUS
<1>3. t = IF ink = {} THEN <<>> ELSE SubSeq(s, Card!Min(ink), Card!Max(ink))
  BY <1>1, <1>2 DEF Card!trim
<1>4. CASE ink = {}
  <2>1. t = <<>>
    BY <1>3, <1>4
  <2> QED
    BY <2>1 DEF IsTrimmed
<1>5. CASE ink # {}
  <2>1. Card!Min(ink) \in ink /\ \A y \in ink : Card!Min(ink) <= y
    BY <1>2, <1>5, Ends
  <2>2. Card!Max(ink) \in ink /\ \A y \in ink : y <= Card!Max(ink)
    BY <1>2, <1>5, Ends
  <2>3. PICK m, n : m = Card!Min(ink) /\ n = Card!Max(ink)
    OBVIOUS
  <2>4. m \in 1 .. size /\ n \in 1 .. size /\ m <= n /\ s[m] \notin Blank /\ s[n] \notin Blank
    BY <1>2, <2>1, <2>2, <2>3
  <2>5. t = SubSeq(s, m, n)
    BY <1>3, <1>5, <2>3
  <2>6. t \in Seq(T) /\ Len(t) = n - m + 1 /\ t[1] = s[m] /\ t[n - m + 1] = s[n]
    BY <1>1, <2>4, <2>5
  <2> QED
    BY <1>1, <2>4, <2>6 DEF IsTrimmed
<1> QED
  BY <1>4, <1>5

\* What has no blank at its ends is not trimmed.
LEMMA TrimmedStays ==
  ASSUME NEW T, NEW s \in Seq(T), IsTrimmed(s)
  PROVE  Card!trim(s) = s
<1>1. PICK size \in Nat : size = Len(s) /\ DOMAIN s = 1 .. size
  OBVIOUS
<1>2. PICK ink : ink = {i \in 1 .. size : s[i] \notin Blank}
  OBVIOUS
<1>3. Card!trim(s) = IF ink = {} THEN <<>> ELSE SubSeq(s, Card!Min(ink), Card!Max(ink))
  BY <1>1, <1>2 DEF Card!trim
<1>4. CASE size = 0
  <2>1. s = <<>> /\ ink = {}
    BY <1>1, <1>2, <1>4
  <2> QED
    BY <1>3, <2>1
<1>5. CASE size # 0
  <2>1. 1 \in ink /\ size \in ink /\ \A y \in ink : 1 <= y /\ y <= size
    BY <1>1, <1>2, <1>5 DEF IsTrimmed
  <2>2. Card!Min(ink) \in ink /\ Card!Max(ink) \in ink
        /\ \A y \in ink : Card!Min(ink) <= y /\ y <= Card!Max(ink)
    BY <1>2, <2>1, Ends
  <2>3. Card!Min(ink) = 1
    BY <2>1, <2>2, <1>2
  <2>4. Card!Max(ink) = size
    BY <1>1, <2>1, <2>2, <1>2
  <2>5. SubSeq(s, 1, size) = s
    BY <1>1
  <2> QED
    BY <1>3, <2>1, <2>3, <2>4, <2>5
<1> QED
  BY <1>4, <1>5

\* Trimming before normalising changes nothing.
LEMMA NormalizeTrims ==
  ASSUME NEW T, NEW s \in Seq(T)
  PROVE  Card!normalize(Card!trim(s)) = Card!normalize(s)
<1>1. Card!trim(Card!trim(s)) = Card!trim(s)
  <2>1. Card!trim(s) \in Seq(T) /\ IsTrimmed(Card!trim(s))
    BY TrimTrims
  <2> QED
    BY <2>1, TrimmedStays
<1> QED
  BY <1>1, Zenon DEF Card!normalize

\* A trimmed text in lower case is trimmed and in lower case.
LEMMA LowerTrimmed ==
  ASSUME NEW s \in Seq(DOMAIN Lower)
  PROVE  LET t == Card!lowercase(Card!trim(s))
         IN  /\ t \in Seq(DOMAIN Lower) /\ IsTrimmed(t) /\ Len(t) <= Len(s)
             /\ Card!lowercase(Card!trim(t)) = t
<1>1. PICK u : u = Card!trim(s)
  OBVIOUS
<1>2. u \in Seq(DOMAIN Lower) /\ IsTrimmed(u) /\ Len(u) <= Len(s)
  BY <1>1, TrimTrims
<1>3. PICK t : t = Card!lowercase(u)
  OBVIOUS
<1>4. t = [i \in 1 .. Len(u) |-> Lower[u[i]]]
  BY <1>2, <1>3 DEF Card!lowercase
<1>5. \A i \in 1 .. Len(u) : u[i] \in DOMAIN Lower
  BY <1>2
<1>6. \A c \in DOMAIN Lower : Lower[c] \in DOMAIN Lower /\ Lower[Lower[c]] = Lower[c] /\ (Lower[c] \in Blank <=> c \in Blank)
  BY TextAssumption
<1>7. t \in Seq(DOMAIN Lower) /\ Len(t) = Len(u)
  <2>1. \A i \in 1 .. Len(u) : t[i] \in DOMAIN Lower
    BY <1>4, <1>5, <1>6
  <2>2. Len(u) \in Nat
    BY <1>2
  <2> QED
    BY <1>4, <2>1, <2>2
<1>8. IsTrimmed(t)
  <2>1. CASE Len(u) = 0
    BY <1>4, <1>7, <2>1 DEF IsTrimmed
  <2>2. CASE Len(u) # 0
    <3>1. 1 \in 1 .. Len(u) /\ Len(u) \in 1 .. Len(u)
      BY <1>2, <2>2
    <3>2. t[1] = Lower[u[1]] /\ t[Len(t)] = Lower[u[Len(u)]]
      BY <1>4, <1>7, <3>1
    <3>3. u[1] \notin Blank /\ u[Len(u)] \notin Blank
      BY <1>2, <2>2 DEF IsTrimmed
    <3> QED
      BY <1>5, <1>6, <3>1, <3>2, <3>3 DEF IsTrimmed
  <2> QED
    BY <2>1, <2>2
<1>9. Card!lowercase(t) = t
  <2>1. Card!lowercase(t) = [i \in 1 .. Len(u) |-> Lower[t[i]]]
    BY <1>7 DEF Card!lowercase
  <2>2. \A i \in 1 .. Len(u) : Lower[t[i]] = t[i]
    BY <1>4, <1>5, <1>6
  <2> QED
    BY <1>4, <2>1, <2>2
<1>10. Card!trim(t) = t
  BY <1>7, <1>8, TrimmedStays
<1> QED
  BY <1>1, <1>2, <1>3, <1>7, <1>8, <1>9, <1>10

\* What trim cuts away is blank.
LEMMA TrimCuts ==
  ASSUME NEW T, NEW s \in Seq(T), NEW size \in Nat, size = Len(s)
  PROVE  \E m \in 1 .. size + 1, n \in 0 .. size :
           /\ Card!trim(s) = SubSeq(s, m, n) /\ m <= n + 1
           /\ \A i \in 1 .. size : i < m \/ i > n => s[i] \in Blank
<1>1. PICK ink : ink = {i \in 1 .. size : s[i] \notin Blank}
  OBVIOUS
<1>2. Card!trim(s) = IF ink = {} THEN <<>> ELSE SubSeq(s, Card!Min(ink), Card!Max(ink))
  <2>1. DOMAIN s = 1 .. size
    OBVIOUS
  <2>2. {i \in DOMAIN s : s[i] \notin Blank} = ink
    BY <1>1, <2>1
  <2> QED
    BY <2>2, Zenon DEF Card!trim
<1>3. CASE ink = {}
  <2>1. Card!trim(s) = SubSeq(s, 1, 0)
    BY <1>2, <1>3
  <2>2. \A i \in 1 .. size : s[i] \in Blank
    BY <1>1, <1>3
  <2>3. 1 \in 1 .. size + 1 /\ 0 \in 0 .. size /\ 1 <= 0 + 1
    OBVIOUS
  <2> QED
    BY <2>1, <2>2, <2>3
<1>4. CASE ink # {}
  <2>1. PICK m, n : m = Card!Min(ink) /\ n = Card!Max(ink)
    OBVIOUS
  <2>2. m \in ink /\ n \in ink /\ \A y \in ink : m <= y /\ y <= n
    BY <1>1, <1>4, <2>1, Ends
  <2>3. m \in 1 .. size /\ n \in 1 .. size /\ m <= n
    BY <1>1, <2>2
  <2>4. \A i \in 1 .. size : i < m \/ i > n => s[i] \in Blank
    BY <1>1, <2>2, <2>3
  <2>5. Card!trim(s) = SubSeq(s, m, n)
    BY <1>2, <1>4, <2>1
  <2>6. m \in 1 .. size + 1 /\ n \in 0 .. size /\ m <= n + 1
    BY <2>3
  <2> QED
    BY <2>4, <2>5, <2>6
<1> QED
  BY <1>3, <1>4

\* The run of four digits at j is as long as the digits go.
YearRun(s, j) ==
  /\ j = 1 \/ s[j - 1] \notin DOMAIN Digits
  /\ j + 3 = Len(s) \/ s[j + 4] \notin DOMAIN Digits

\* years_in, by the places where years are.
LEMMA YearsAre ==
  ASSUME NEW s
  PROVE  Card!years_in(s) = {y \in {SubSeq(s, j, j + 3) : j \in {i \in 1 .. Len(s) - 3 : YearRun(s, i)}} : Card!is_year(y)}
BY Zenon DEF Card!years_in, YearRun

\* What is assumed of the characters, as the proofs use it.
LEMMA DigitsSolid ==
  /\ \A c \in DOMAIN Digits : c \in DOMAIN Lower /\ c \notin Blank /\ c \notin Card!TimeMarks /\ Width[c] = 1
  /\ "-" \notin Blank /\ Panic # TRUE /\ Panic # FALSE
<1>1. Panic # TRUE /\ Panic # FALSE
  BY TextAssumption, Zenon
<1>2. \A c \in DOMAIN Digits : c \in DOMAIN Lower /\ c \notin Blank /\ c \notin Card!TimeMarks /\ Width[c] = 1
  BY TextAssumption
<1>3. "-" \notin Blank
  BY TextAssumption
<1> QED
  BY <1>1, <1>2, <1>3, Zenon

\* Trimming loses no year: a year has no blank in it.
LEMMA YearsTrim ==
  ASSUME NEW T, NEW s \in Seq(T)
  PROVE  Card!years_in(Card!trim(s)) = Card!years_in(s)
<1>1. PICK size \in Nat : size = Len(s)
  OBVIOUS
<1>2. PICK m \in 1 .. size + 1, n \in 0 .. size :
           /\ Card!trim(s) = SubSeq(s, m, n) /\ m <= n + 1
           /\ \A i \in 1 .. size : i < m \/ i > n => s[i] \in Blank
  BY <1>1, TrimCuts
<1>3. PICK t : t = SubSeq(s, m, n)
  OBVIOUS
<1>4. /\ t \in Seq(T) /\ Len(t) = n - m + 1
      /\ \A i \in 1 .. n - m + 1 : t[i] = s[i + m - 1]
  BY <1>1, <1>2, <1>3
<1>5. ASSUME NEW j \in 1 .. n - m + 1, j <= n - m - 2
      PROVE  /\ SubSeq(t, j, j + 3) = SubSeq(s, j + m - 1, j + m + 2)
             /\ j + m - 1 \in 1 .. size - 3
             /\ YearRun(t, j) <=> YearRun(s, j + m - 1)
  <2>1. j + m - 1 \in 1 .. size - 3
    BY <1>1, <1>2, <1>5
  <2>2. SubSeq(t, j, j + 3) = SubSeq(s, j + m - 1, j + m + 2)
    <3>1. SubSeq(t, j, j + 3) = [k \in 1 .. 4 |-> t[j + k - 1]]
      BY <1>4, <1>5
    <3>2. SubSeq(s, j + m - 1, j + m + 2) = [k \in 1 .. 4 |-> s[j + m - 1 + k - 1]]
      BY <1>1, <2>1
    <3>3. \A k \in 1 .. 4 : t[j + k - 1] = s[j + m - 1 + k - 1]
      <4>1. ASSUME NEW k \in 1 .. 4
            PROVE  t[j + k - 1] = s[j + m - 1 + k - 1]
        <5>1. j + k - 1 \in 1 .. n - m + 1 /\ j + k - 1 + m - 1 = j + m - 1 + k - 1
          BY <1>2, <1>5
        <5> QED
          BY <1>4, <5>1
      <4> QED
        BY <4>1
    <3> QED
      BY <3>1, <3>2, <3>3
  <2>3. (j = 1 \/ t[j - 1] \notin DOMAIN Digits) <=> (j + m - 1 = 1 \/ s[j + m - 1 - 1] \notin DOMAIN Digits)
    <3>1. CASE j = 1
      <4>1. m # 1 => m - 1 \in 1 .. size /\ m - 1 < m
        BY <1>2
      <4>2. m # 1 => s[m - 1] \in Blank
        BY <1>2, <4>1
      <4>3. j + m - 1 = m /\ j + m - 1 - 1 = m - 1
        BY <1>2, <3>1
      <4> QED
        BY <3>1, <4>2, <4>3, DigitsSolid
    <3>2. CASE j # 1
      <4>1. j - 1 \in 1 .. n - m + 1 /\ j - 1 + m - 1 = j + m - 1 - 1 /\ j + m - 1 # 1
        BY <1>2, <1>5, <3>2
      <4>2. t[j - 1] = s[j + m - 1 - 1]
        BY <1>4, <4>1
      <4> QED
        BY <3>2, <4>1, <4>2
    <3> QED
      BY <3>1, <3>2
  <2>4. (j + 3 = Len(t) \/ t[j + 4] \notin DOMAIN Digits) <=> (j + m - 1 + 3 = Len(s) \/ s[j + m - 1 + 4] \notin DOMAIN Digits)
    <3>1. CASE j + 3 = n - m + 1
      <4>1. j + m - 1 + 3 = n /\ j + m - 1 + 4 = n + 1
        BY <1>2, <1>5, <3>1
      <4>2. n # size => n + 1 \in 1 .. size /\ n + 1 > n
        BY <1>2
      <4>3. n # size => s[n + 1] \in Blank
        BY <1>2, <4>2
      <4> QED
        BY <1>1, <1>4, <3>1, <4>1, <4>3, DigitsSolid
    <3>2. CASE j + 3 # n - m + 1
      <4>1. j + 4 \in 1 .. n - m + 1 /\ j + 4 + m - 1 = j + m - 1 + 4 /\ j + m - 1 + 3 # size
        BY <1>2, <1>5, <3>2
      <4>2. t[j + 4] = s[j + m - 1 + 4]
        BY <1>4, <4>1
      <4> QED
        BY <1>1, <1>4, <3>2, <4>1, <4>2
    <3> QED
      BY <3>1, <3>2
  <2> QED
    BY <2>1, <2>2, <2>3, <2>4 DEF YearRun
<1>6. ASSUME NEW y \in Card!years_in(t)
      PROVE  y \in Card!years_in(s)
  <2>1. PICK j \in 1 .. Len(t) - 3 : YearRun(t, j) /\ y = SubSeq(t, j, j + 3) /\ Card!is_year(y)
    BY YearsAre
  <2>2. j \in 1 .. n - m + 1 /\ j <= n - m - 2
    BY <1>2, <1>4, <2>1
  <2>3. PICK k \in 1 .. size - 3 : k = j + m - 1
    BY <1>5, <2>2
  <2>4. y = SubSeq(s, k, k + 3) /\ YearRun(s, k)
    <3>1. k + 3 = j + m + 2
      BY <1>2, <2>2, <2>3
    <3> QED
      BY <1>5, <2>1, <2>2, <2>3, <3>1
  <2> QED
    BY <1>1, <2>1, <2>3, <2>4, YearsAre
<1>7. ASSUME NEW y \in Card!years_in(s)
      PROVE  y \in Card!years_in(t)
  <2>1. PICK k \in 1 .. size - 3 : YearRun(s, k) /\ y = SubSeq(s, k, k + 3) /\ Card!is_year(y)
    BY <1>1, YearsAre
  <2>2. \A i \in 1 .. 4 : y[i] \in DOMAIN Digits
    <3>1. y = [i \in 1 .. 4 |-> s[k + i - 1]]
      BY <1>1, <2>1
    <3>2. \A i \in DOMAIN y : y[i] \in DOMAIN Digits
      BY <2>1, Zenon DEF Card!is_year, Card!AllDigits
    <3> QED
      BY <3>1, <3>2
  <2>3. s[k] \in DOMAIN Digits /\ s[k + 3] \in DOMAIN Digits
    <3>1. y[1] = s[k] /\ y[4] = s[k + 3]
      BY <1>1, <2>1
    <3> QED
      BY <2>2, <3>1
  <2>4. m <= k /\ k + 3 <= n
    <3>1. s[k] \notin Blank /\ s[k + 3] \notin Blank
      BY <2>3, DigitsSolid
    <3>2. k \in 1 .. size /\ k + 3 \in 1 .. size
      BY <2>1
    <3> QED
      BY <1>2, <3>1, <3>2
  <2>5. PICK j \in 1 .. n - m + 1 : j = k - m + 1
    BY <1>2, <2>1, <2>4
  <2>6. j <= n - m - 2 /\ k = j + m - 1 /\ k + 3 = j + m + 2 /\ j \in 1 .. Len(t) - 3
    BY <1>2, <1>4, <2>1, <2>4, <2>5
  <2>7. y = SubSeq(t, j, j + 3) /\ YearRun(t, j)
    BY <1>5, <2>1, <2>6
  <2> QED
    BY <2>1, <2>6, <2>7, YearsAre
<1> QED
  BY <1>2, <1>3, <1>6, <1>7

\* Whatever function has these values is the one that Bytes means.
Widths(s, n, g) ==
  /\ g \in [0 .. n -> Nat] /\ g[0] = 0
  /\ \A i \in 1 .. n : g[i] = g[i - 1] + Width[s[i]]

\* Any running sum of the widths ends in the bytes.
LEMMA BytesCounted ==
  ASSUME NEW s, NEW n \in Nat, Len(s) = n, NEW g, Widths(s, n, g)
  PROVE  Card!Bytes(s) = g[n]
<1>1. /\ g \in [0 .. n -> Nat] /\ g[0] = 0
      /\ \A i \in 1 .. n : g[i] = g[i - 1] + Width[s[i]]
  BY DEF Widths
<1> DEFINE Step(f) == [i \in 0 .. n |-> IF i = 0 THEN 0 ELSE f[i - 1] + Width[s[i]]]
           upTo == CHOOSE f : f = Step(f)
<1>2. Card!Bytes(s) = upTo[n]
  BY DEF Card!Bytes
<1>3. \E f : f = Step(f)
  <2>1. ASSUME NEW i \in 0 .. n
        PROVE  g[i] = IF i = 0 THEN 0 ELSE g[i - 1] + Width[s[i]]
    <3>1. i = 0 \/ i \in 1 .. n
      OBVIOUS
    <3> QED
      BY <1>1, <3>1
  <2>2. g = Step(g)
    BY <1>1, <2>1
  <2> QED
    BY <2>2
<1>4. upTo = Step(upTo)
  BY <1>3, Zenon
<1> HIDE DEF upTo
<1>5. PICK f : f = upTo
  OBVIOUS
<1>6. \A i \in 0 .. n : f[i] = IF i = 0 THEN 0 ELSE f[i - 1] + Width[s[i]]
  BY <1>4, <1>5
<1> DEFINE Bad == {i \in 0 .. n : f[i] # g[i]}
<1>7. Bad = {}
  <2>1. SUFFICES ASSUME Bad # {}
                 PROVE  FALSE
    OBVIOUS
  <2>2. PICK i \in Bad : i - 1 \notin Bad
    <3>1. Bad \subseteq Nat
      OBVIOUS
    <3> HIDE DEF Bad
    <3> QED
      BY <2>1, <3>1, FirstOfThem
  <2>3. i \in 0 .. n /\ f[i] # g[i]
    OBVIOUS
  <2>4. i # 0
    BY <1>1, <1>6, <2>3
  <2>5. i - 1 \in 0 .. n /\ i \in 1 .. n
    BY <2>3, <2>4
  <2>6. f[i - 1] = g[i - 1]
    BY <2>2, <2>5
  <2>7. f[i] = f[i - 1] + Width[s[i]]
    BY <1>6, <2>3, <2>4
  <2> QED
    BY <1>1, <2>3, <2>5, <2>6, <2>7
<1> QED
  BY <1>2, <1>5, <1>7

\* Characters of one byte each are as many as their bytes.
LEMMA NarrowBytes ==
  ASSUME NEW s, NEW n \in Nat, Len(s) = n, \A i \in 1 .. n : Width[s[i]] = 1
  PROVE  Card!Bytes(s) = n
<1>1. PICK g : g = [i \in 0 .. n |-> i]
  OBVIOUS
<1>2. g \in [0 .. n -> Nat] /\ g[0] = 0 /\ g[n] = n
  BY <1>1
<1>3. \A i \in 1 .. n : g[i] = g[i - 1] + Width[s[i]]
  <2>1. \A i \in 1 .. n : g[i] = i /\ g[i - 1] = i - 1
    BY <1>1
  <2> QED
    BY <2>1
<1>4. Widths(s, n, g)
  BY <1>2, <1>3 DEF Widths
<1> QED
  BY <1>2, <1>4, BytesCounted

DigitsAt(s, places) == \A i \in places : s[i] \in DOMAIN Digits

\* A year is four digits.
LEMMA YearDigits ==
  ASSUME NEW T, NEW s \in Seq(T), Card!is_year(s)
  PROVE  Len(s) = 4 /\ DigitsAt(s, 1 .. 4)
<1>1. Card!Bytes(s) = 4 /\ \A i \in DOMAIN s : s[i] \in DOMAIN Digits
  <2>1. Card!Bytes(s) = 4 /\ Card!AllDigits(s)
    BY DEF Card!is_year
  <2> QED
    BY <2>1 DEF Card!AllDigits
<1>2. PICK n \in Nat : n = Len(s) /\ DOMAIN s = 1 .. n
  OBVIOUS
<1>3. Card!Bytes(s) = n
  <2>1. \A i \in 1 .. n : Width[s[i]] = 1
    BY <1>1, <1>2, DigitsSolid
  <2> QED
    BY <1>2, <2>1, NarrowBytes
<1> QED
  BY <1>1, <1>2, <1>3 DEF DigitsAt

\* What follows a year that a date begins with.
LEMMA YearFirst ==
  ASSUME NEW T, NEW s \in Seq(T), Card!IsBoundary(s, 4), Card!is_year(Card!CutAtYear(s).year)
  PROVE  /\ Len(s) \in Nat /\ Len(s) >= 4 /\ DigitsAt(s, 1 .. 4)
         /\ Card!CutAtYear(s).rest = SubSeq(s, 5, Len(s))
<1>1. PICK n : n = CHOOSE m \in 0 .. Len(s) : Card!Bytes(SubSeq(s, 1, m)) = 4
  OBVIOUS
<1>2. n \in 0 .. Len(s)
  <2>1. \E m \in 0 .. Len(s) : Card!Bytes(SubSeq(s, 1, m)) = 4
    BY Zenon DEF Card!IsBoundary
  <2> QED
    BY <1>1, <2>1
<1>3. Card!CutAtYear(s) = [year |-> SubSeq(s, 1, n), rest |-> SubSeq(s, n + 1, Len(s))]
  BY <1>1, Zenon DEF Card!CutAtYear
<1>4. PICK y : y = SubSeq(s, 1, n)
  OBVIOUS
<1>5. y \in Seq(T) /\ Len(y) = n /\ \A i \in 1 .. n : y[i] = s[i]
  BY <1>2, <1>4
<1>6. Len(y) = 4 /\ DigitsAt(y, 1 .. 4)
  <2>1. Card!CutAtYear(s).year = y
    <3>1. PICK rest : rest = SubSeq(s, n + 1, Len(s))
      OBVIOUS
    <3>2. Card!CutAtYear(s) = [year |-> y, rest |-> rest]
      BY <1>3, <1>4, <3>1, Zenon
    <3> QED
      BY <3>2
  <2>2. Card!is_year(y)
    BY <2>1, Zenon
  <2>3. y \in Seq(T)
    BY <1>5
  <2> QED
    BY ONLY <2>2, <2>3, YearDigits
<1>7. n = 4
  BY <1>5, <1>6
<1> QED
  BY <1>2, <1>3, <1>5, <1>6, <1>7 DEF DigitsAt

\* Where the digits of a year and month are.
LEMMA YearMonthDigits ==
  ASSUME NEW T, NEW s \in Seq(T), Card!is_year_month(s) = TRUE
  PROVE  Len(s) = 7 /\ Card!Bytes(s) = 7 /\ s[5] = "-" /\ DigitsAt(s, (1 .. 4) \cup {6, 7})
<1>1. Card!Bytes(s) = 7
  BY Zenon DEF Card!is_year_month
<1>2. Card!IsBoundary(s, 4)
  BY <1>1, DigitsSolid DEF Card!is_year_month
<1>3. PICK c : c = Card!CutAtYear(s)
  OBVIOUS
<1>4. Card!is_year(c.year) /\ c.rest[1] = "-" /\ Card!IsMonth(Tail(c.rest))
  BY <1>1, <1>2, <1>3, Zenon DEF Card!is_year_month
<1>5. PICK n \in Nat : n = Len(s)
  OBVIOUS
<1>6. n >= 4 /\ DigitsAt(s, 1 .. 4) /\ c.rest = SubSeq(s, 5, n)
  BY <1>2, <1>3, <1>4, <1>5, YearFirst
<1>7. PICK r : r = c.rest
  OBVIOUS
<1>8. r \in Seq(T) /\ Len(r) = n - 4 /\ \A i \in 1 .. n - 4 : r[i] = s[i + 4]
  BY <1>5, <1>6, <1>7
<1>9. PICK t : t = Tail(r)
  OBVIOUS
<1>10. Len(t) = 2 /\ \A i \in DOMAIN t : t[i] \in DOMAIN Digits
  BY <1>4, <1>7, <1>9, Zenon DEF Card!IsMonth, Card!AllDigits
<1>11. n = 7 /\ t[1] = s[6] /\ t[2] = s[7] /\ DOMAIN t = 1 .. 2
  <2>1. r # <<>>
    <3>1. CASE n = 4
      <4>1. r = <<>>
        BY <1>8, <3>1
      <4>2. Tail(r) = <<>>
        BY <4>1
      <4> QED
        BY <1>9, <1>10, <4>2
    <3> QED
      BY <1>6, <1>8, <3>1
  <2>2. t \in Seq(T) /\ Len(t) = n - 4 - 1 /\ \A i \in 1 .. n - 5 : t[i] = r[i + 1]
    BY <1>8, <1>9, <2>1
  <2>3. n = 7 /\ DOMAIN t = 1 .. 2
    <3>1. Len(t) = 2
      BY <1>10
    <3>2. DOMAIN t = 1 .. 2
      BY <2>2, <3>1
    <3>3. n - 4 - 1 = 2
      BY <2>2, <3>1, Zenon
    <3>4. n = 7
      BY ONLY <3>3, n \in Nat
    <3> QED
      BY <3>2, <3>4
  <2> QED
    BY <1>8, <2>2, <2>3
<1> QED
  BY <1>1, <1>4, <1>5, <1>6, <1>7, <1>8, <1>10, <1>11 DEF DigitsAt

\* Where the digits of a calendar day are.
LEMMA CalendarDigits ==
  ASSUME NEW T, NEW s \in Seq(T), Card!is_calendar_day(s) = TRUE
  PROVE  /\ Len(s) = 10 /\ Card!Bytes(s) = 10 /\ s[5] = "-" /\ s[8] = "-"
         /\ DigitsAt(s, (1 .. 4) \cup {6, 7, 9, 10})
<1>1. Card!Bytes(s) = 10
  BY Zenon DEF Card!is_calendar_day
<1>2. Card!IsBoundary(s, 4)
  BY <1>1, DigitsSolid DEF Card!is_calendar_day
<1>3. PICK c : c = Card!CutAtYear(s)
  OBVIOUS
<1>4. Card!is_year(c.year) /\ Card!IsMonthAndDay(Card!Value(c.year), c.rest)
  BY <1>1, <1>2, <1>3, Zenon DEF Card!is_calendar_day
<1>5. PICK n \in Nat : n = Len(s)
  OBVIOUS
<1>6. n >= 4 /\ DigitsAt(s, 1 .. 4) /\ c.rest = SubSeq(s, 5, n)
  BY <1>2, <1>3, <1>4, <1>5, YearFirst
<1>7. PICK r : r = c.rest
  OBVIOUS
<1>8. r \in Seq(T) /\ Len(r) = n - 4 /\ \A i \in 1 .. n - 4 : r[i] = s[i + 4]
  BY <1>5, <1>6, <1>7
<1>9. /\ Len(r) = 6 /\ r[1] = "-" /\ r[4] = "-"
      /\ Card!IsMonth(SubSeq(r, 2, 3)) /\ Card!AllDigits(SubSeq(r, 5, 6))
  BY <1>4, <1>7, Zenon DEF Card!IsMonthAndDay
<1>10. n = 10
  <2>1. n - 4 = 6
    BY <1>8, <1>9, Zenon
  <2> QED
    BY ONLY <2>1, n \in Nat
<1>11. \A i \in 1 .. 6 : r[i] = s[i + 4]
  BY <1>8, <1>10
<1>12. PICK month, day : month = SubSeq(r, 2, 3) /\ day = SubSeq(r, 5, 6)
  OBVIOUS
<1>13. /\ DOMAIN month = 1 .. 2 /\ month[1] = r[2] /\ month[2] = r[3]
       /\ DOMAIN day = 1 .. 2 /\ day[1] = r[5] /\ day[2] = r[6]
  BY <1>8, <1>9, <1>12
<1>14. (\A i \in DOMAIN month : month[i] \in DOMAIN Digits) /\ \A i \in DOMAIN day : day[i] \in DOMAIN Digits
  BY <1>9, <1>12 DEF Card!IsMonth, Card!AllDigits
<1>15. s[6] \in DOMAIN Digits /\ s[7] \in DOMAIN Digits /\ s[9] \in DOMAIN Digits /\ s[10] \in DOMAIN Digits
  BY <1>11, <1>13, <1>14
<1>16. s[5] = "-" /\ s[8] = "-"
  BY <1>9, <1>11
<1> QED
  BY <1>1, <1>5, <1>6, <1>10, <1>15, <1>16 DEF DigitsAt

\* As many characters as bytes, none of them blank or where a time begins.
Solid(s, n) ==
  /\ Len(s) = n /\ Card!Bytes(s) = n
  /\ \A i \in 1 .. n : s[i] \notin Blank /\ s[i] \notin Card!TimeMarks

\* An accepted date has neither a blank nor a time in it.
LEMMA DatesAreSolid ==
  ASSUME NEW T, NEW s \in Seq(T)
  PROVE  /\ Card!is_year(s) => Solid(s, 4)
         /\ Card!is_year_month(s) = TRUE => Solid(s, 7)
         /\ Card!is_calendar_day(s) = TRUE => Solid(s, 10)
<1>1. \A c : c \in DOMAIN Digits \/ c = "-" => c \notin Blank /\ c \notin Card!TimeMarks
  <2>1. "-" \notin Card!TimeMarks
    BY Zenon DEF Card!TimeMarks
  <2>2. ASSUME NEW c, c \in DOMAIN Digits
        PROVE  c \notin Blank /\ c \notin Card!TimeMarks
    BY <2>2, DigitsSolid
  <2>3. "-" \notin Blank
    BY DigitsSolid
  <2> QED
    BY <2>1, <2>2, <2>3
<1>2. ASSUME Card!is_year(s)
      PROVE  Solid(s, 4)
  <2>1. Len(s) = 4 /\ DigitsAt(s, 1 .. 4)
    BY <1>2, YearDigits
  <2>2. Card!Bytes(s) = 4
    BY <1>2 DEF Card!is_year
  <2> QED
    BY <1>1, <2>1, <2>2, Zenon DEF Solid, DigitsAt
<1>3. ASSUME Card!is_year_month(s) = TRUE
      PROVE  Solid(s, 7)
  <2>1. Len(s) = 7 /\ Card!Bytes(s) = 7 /\ s[5] = "-" /\ DigitsAt(s, (1 .. 4) \cup {6, 7})
    BY <1>3, YearMonthDigits
  <2>2. \A i \in 1 .. 7 : i \in (1 .. 4) \cup {6, 7} \/ i = 5
    OBVIOUS
  <2> QED
    BY <1>1, <2>1, <2>2, Zenon DEF Solid, DigitsAt
<1>4. ASSUME Card!is_calendar_day(s) = TRUE
      PROVE  Solid(s, 10)
  <2>1. /\ Len(s) = 10 /\ Card!Bytes(s) = 10 /\ s[5] = "-" /\ s[8] = "-"
        /\ DigitsAt(s, (1 .. 4) \cup {6, 7, 9, 10})
    BY <1>4, CalendarDigits
  <2>2. \A i \in 1 .. 10 : i \in (1 .. 4) \cup {6, 7, 9, 10} \/ i = 5 \/ i = 8
    OBVIOUS
  <2> QED
    BY <1>1, <2>1, <2>2, Zenon DEF Solid, DigitsAt
<1> QED
  BY <1>2, <1>3, <1>4

\* Such a text is neither trimmed nor cut at a time, and neither are its beginnings.
LEMMA SolidStays ==
  ASSUME NEW T, NEW s \in Seq(T), NEW n \in Nat, Solid(s, n)
  PROVE  /\ Card!trim(s) = s /\ Card!date_part(s) = s /\ SubSeq(s, 1, n) = s
         /\ \A m \in 1 .. n : SubSeq(s, 1, m) \in Seq(T) /\ IsTrimmed(SubSeq(s, 1, m))
<1>1. Len(s) = n /\ DOMAIN s = 1 .. n /\ \A i \in 1 .. n : s[i] \notin Blank /\ s[i] \notin Card!TimeMarks
  BY DEF Solid
<1>2. IsTrimmed(s)
  <2>1. s # <<>> => 1 \in 1 .. n /\ n \in 1 .. n
    BY <1>1
  <2> QED
    BY <1>1, <2>1 DEF IsTrimmed
<1>3. Card!trim(s) = s
  BY <1>2, TrimmedStays
<1>4. Card!date_part(s) = s
  <2>1. {i \in DOMAIN s : s[i] \in Card!TimeMarks} = {}
    BY <1>1
  <2> QED
    BY <2>1, Zenon DEF Card!date_part
<1>5. SubSeq(s, 1, n) = s
  BY <1>1
<1>6. ASSUME NEW m \in 1 .. n
      PROVE  SubSeq(s, 1, m) \in Seq(T) /\ IsTrimmed(SubSeq(s, 1, m))
  <2>1. PICK t : t = SubSeq(s, 1, m)
    OBVIOUS
  <2>2. t \in Seq(T) /\ Len(t) = m /\ t[1] = s[1] /\ t[m] = s[m]
    BY <1>1, <2>1
  <2>3. s[1] \notin Blank /\ s[m] \notin Blank
    BY <1>1
  <2> QED
    BY <2>1, <2>2, <2>3 DEF IsTrimmed
<1> QED
  BY <1>3, <1>4, <1>5, <1>6

Precisions == {"day", "month", "quarter", "year", "relative"}

\* An iso that fits its raw date is normalised already.
LEMMA FittingIsoStays ==
  ASSUME NEW T, NEW s \in Seq(T), IsTrimmed(s), NEW precision \in Precisions, NEW raw,
         Card!iso_matches(s, precision, raw) = TRUE
  PROVE  Card!normalize_iso(s, precision) = s
<1>1. Card!trim(s) = s
  BY TrimmedStays
<1>2. PICK day, month, year : day = Card!is_calendar_day(s) /\ month = Card!is_year_month(s) /\ year = Card!is_year(s)
  OBVIOUS
<1>3. PICK shape : shape = CASE precision = "day"   -> day
                             [] precision = "month" -> month
                             [] precision \in {"quarter", "year"} -> year
                             [] precision = "relative" -> Card!OrElse(Card!OrElse(day, month), year)
  OBVIOUS
<1>4. PICK fits : fits = (Card!years_in(raw) = {} \/ SubSeq(s, 1, 4) \in Card!years_in(raw))
  OBVIOUS
<1>5. Card!iso_matches(s, precision, raw) = Card!AndThen(shape, fits)
  BY <1>1, <1>2, <1>3, <1>4, Zenon DEF Card!iso_matches
<1>6. shape = TRUE
  BY <1>5, Zenon DEF Card!AndThen
<1>7. PICK size, target : size = Card!Bytes(s) /\ target = Card!TargetLen(precision)
  OBVIOUS
<1>8. PICK known : known = IF size < target THEN FALSE ELSE Card!OrElse(Card!OrElse(day, month), year)
  OBVIOUS
<1>9. Card!date_part(s) = s =>
        Card!normalize_iso(s, precision) = IF known = Panic THEN Panic ELSE IF known THEN SubSeq(s, 1, target) ELSE s
  BY <1>1, <1>2, <1>7, <1>8, Zenon DEF Card!normalize_iso
<1>10. /\ year = TRUE => Solid(s, 4) /\ month = FALSE /\ day = FALSE
       /\ month = TRUE => Solid(s, 7) /\ day = FALSE
       /\ day = TRUE => Solid(s, 10)
  <2>1. /\ year = TRUE => Solid(s, 4)
        /\ month = TRUE => Solid(s, 7)
        /\ day = TRUE => Solid(s, 10)
    BY <1>2, DatesAreSolid
  <2>2. size # 7 => month = FALSE
    BY <1>2, <1>7, Zenon DEF Card!is_year_month
  <2>3. size # 10 => day = FALSE
    BY <1>2, <1>7, Zenon DEF Card!is_calendar_day
  <2>4. Solid(s, 4) => size = 4
    BY <1>7 DEF Solid
  <2>5. Solid(s, 7) => size = 7
    BY <1>7 DEF Solid
  <2> QED
    BY <2>1, <2>2, <2>3, <2>4, <2>5
<1>11. \A n \in Nat : Solid(s, n) => Card!date_part(s) = s /\ SubSeq(s, 1, n) = s /\ size = n
  BY <1>7, SolidStays DEF Solid
<1>12. ASSUME NEW n \in Nat, Solid(s, n), n < target \/ (n = target /\ Card!OrElse(Card!OrElse(day, month), year) = TRUE)
       PROVE  Card!normalize_iso(s, precision) = s
  <2>1. Card!date_part(s) = s /\ SubSeq(s, 1, n) = s /\ size = n
    BY <1>11, <1>12
  <2>2. CASE n < target
    <3>1. known = FALSE
      BY <1>8, <2>1, <2>2
    <3> QED
      BY <1>9, <2>1, <3>1, DigitsSolid, Zenon
  <2>3. CASE n = target /\ Card!OrElse(Card!OrElse(day, month), year) = TRUE
    <3>1. ~(size < target)
      BY <2>1, <2>3
    <3>2. known = TRUE
      BY <1>8, <2>3, <3>1, Zenon
    <3>3. Card!normalize_iso(s, precision) = SubSeq(s, 1, n)
      BY <1>9, <2>1, <2>3, <3>2, DigitsSolid, Zenon
    <3> QED
      BY <2>1, <3>3
  <2> QED
    BY <1>12, <2>2, <2>3
<1>13. /\ precision \in {"day", "relative"} => target = 10
       /\ precision = "month" => target = 7
       /\ precision \in {"quarter", "year"} => target = 4
  BY <1>7 DEF Card!TargetLen
<1>14. /\ day = TRUE => Card!OrElse(Card!OrElse(day, month), year) = TRUE
       /\ day = FALSE /\ month = TRUE => Card!OrElse(Card!OrElse(day, month), year) = TRUE
       /\ day = FALSE /\ month = FALSE /\ year = TRUE => Card!OrElse(Card!OrElse(day, month), year) = TRUE
  BY Zenon DEF Card!OrElse
<1>15. /\ Card!OrElse(Card!OrElse(day, month), year) = TRUE => day = TRUE \/ month = TRUE \/ year = TRUE
  BY Zenon DEF Card!OrElse
<1>16. CASE precision = "day"
  <2>1. day = TRUE
    BY <1>3, <1>6, <1>16
  <2> QED
    BY <1>10, <1>12, <1>13, <1>14, <1>16, <2>1
<1>17. CASE precision = "month"
  <2>1. month = TRUE
    BY <1>3, <1>6, <1>17
  <2> QED
    BY <1>10, <1>12, <1>13, <1>14, <1>17, <2>1
<1>18. CASE precision \in {"quarter", "year"}
  <2>1. year = TRUE
    BY <1>3, <1>6, <1>18
  <2> QED
    BY <1>10, <1>12, <1>13, <1>14, <1>18, <2>1
<1>19. CASE precision = "relative"
  <2>1. day = TRUE \/ month = TRUE \/ year = TRUE
    BY <1>3, <1>6, <1>15, <1>19
  <2>2. target = 10
    BY <1>13, <1>19
  <2>3. 4 < target /\ 7 < target
    BY <2>2
  <2> QED
    BY <1>10, <1>12, <1>14, <2>1, <2>2, <2>3
<1> QED
  BY <1>16, <1>17, <1>18, <1>19 DEF Precisions

\* A check says yes or no, or dies.
LEMMA ChecksEnd ==
  ASSUME NEW s
  PROVE  /\ Card!is_calendar_day(s) = TRUE \/ Card!is_calendar_day(s) = FALSE \/ Card!is_calendar_day(s) = Panic
         /\ Card!is_year_month(s) = TRUE \/ Card!is_year_month(s) = FALSE \/ Card!is_year_month(s) = Panic
         /\ Card!is_year(s) = TRUE \/ Card!is_year(s) = FALSE
<1>1. Card!is_year(s) = TRUE \/ Card!is_year(s) = FALSE
  BY DEF Card!is_year
<1>2. Card!is_year_month(s) = TRUE \/ Card!is_year_month(s) = FALSE \/ Card!is_year_month(s) = Panic
  <2> DEFINE c == Card!CutAtYear(s)
             Rest == Card!is_year(c.year) /\ c.rest[1] = "-" /\ Card!IsMonth(Tail(c.rest))
  <2>1. Card!is_year_month(s) = IF Card!Bytes(s) # 7 THEN FALSE ELSE IF ~Card!IsBoundary(s, 4) THEN Panic ELSE Rest
    BY Zenon DEF Card!is_year_month
  <2>2. Rest = TRUE \/ Rest = FALSE
    OBVIOUS
  <2> HIDE DEF Rest
  <2> QED
    BY <2>1, <2>2, Zenon
<1>3. Card!is_calendar_day(s) = TRUE \/ Card!is_calendar_day(s) = FALSE \/ Card!is_calendar_day(s) = Panic
  <2> DEFINE c == Card!CutAtYear(s)
             Rest == Card!is_year(c.year) /\ Card!IsMonthAndDay(Card!Value(c.year), c.rest)
  <2>1. Card!is_calendar_day(s) = IF Card!Bytes(s) # 10 THEN FALSE ELSE IF ~Card!IsBoundary(s, 4) THEN Panic ELSE Rest
    BY Zenon DEF Card!is_calendar_day
  <2>2. Rest = TRUE \/ Rest = FALSE
    OBVIOUS
  <2> HIDE DEF Rest
  <2> QED
    BY <2>1, <2>2, Zenon
<1> QED
  BY <1>1, <1>2, <1>3, Zenon

\* normalize_iso answers with a trimmed text.
LEMMA NormalIso ==
  ASSUME NEW T, NEW s \in Seq(T), NEW precision \in Precisions, NEW t, t = Card!normalize_iso(s, precision), t # Panic
  PROVE  t \in Seq(T) /\ IsTrimmed(t)
<1>1. PICK u, part : u = Card!trim(s) /\ part = Card!date_part(u)
  OBVIOUS
<1>2. u \in Seq(T) /\ IsTrimmed(u)
  BY <1>1, TrimTrims
<1>3. part \in Seq(T)
  <2>1. PICK ends : ends = {i \in DOMAIN u : u[i] \in Card!TimeMarks}
    OBVIOUS
  <2>2. part = IF ends = {} THEN u ELSE SubSeq(u, 1, Card!Min(ends) - 1)
    BY <1>1, <2>1, Zenon DEF Card!date_part
  <2>3. CASE ends = {}
    BY <1>2, <2>2, <2>3
  <2>4. CASE ends # {}
    <3>1. PICK n \in Nat : n = Len(u) /\ ends \subseteq 1 .. n
      BY <1>2, <2>1
    <3>2. Card!Min(ends) \in 1 .. n
      BY <2>4, <3>1, Ends
    <3>3. PICK m \in 1 .. n : m = Card!Min(ends)
      BY <3>2
    <3>4. SubSeq(u, 1, m - 1) \in Seq(T)
      BY <1>2, <3>1
    <3> QED
      BY <2>2, <2>4, <3>3, <3>4
  <2> QED
    BY <2>3, <2>4
<1>4. PICK day, month, year : day = Card!is_calendar_day(part) /\ month = Card!is_year_month(part) /\ year = Card!is_year(part)
  OBVIOUS
<1>5. PICK size, target : size = Card!Bytes(part) /\ target = Card!TargetLen(precision)
  OBVIOUS
<1>6. PICK known : known = IF size < target THEN FALSE ELSE Card!OrElse(Card!OrElse(day, month), year)
  OBVIOUS
<1>7. t = IF known = Panic THEN Panic ELSE IF known THEN SubSeq(part, 1, target) ELSE u
  BY <1>1, <1>4, <1>5, <1>6, Zenon DEF Card!normalize_iso
<1>8. CASE known = TRUE
  <2>1. ~(size < target) /\ Card!OrElse(Card!OrElse(day, month), year) = TRUE
    BY <1>6, <1>8, Zenon
  <2>2. day = TRUE \/ month = TRUE \/ year = TRUE
    BY <2>1, Zenon DEF Card!OrElse
  <2>3. PICK n \in {4, 7, 10} : Solid(part, n)
    BY <1>3, <1>4, <2>2, DatesAreSolid
  <2>4. target \in {4, 7, 10}
    BY <1>5 DEF Card!TargetLen, Precisions
  <2>5. size = n
    BY <1>5, <2>3 DEF Solid
  <2>6. target \in 1 .. n /\ n \in Nat
    BY <2>1, <2>4, <2>5
  <2>7. t = SubSeq(part, 1, target)
    BY <1>7, <1>8, DigitsSolid, Zenon
  <2> QED
    BY <1>3, <2>3, <2>6, <2>7, SolidStays
<1>9. CASE known # TRUE
  <2>1. /\ day = TRUE \/ day = FALSE \/ day = Panic
        /\ month = TRUE \/ month = FALSE \/ month = Panic
        /\ year = TRUE \/ year = FALSE
    BY <1>4, ChecksEnd, Zenon
  <2>2. known = FALSE \/ known = Panic
    BY <1>6, <1>9, <2>1, Zenon DEF Card!OrElse
  <2>3. t = u
    BY <1>7, <2>2, DigitsSolid, Zenon
  <2> QED
    BY <1>2, <2>3
<1> QED
  BY <1>8, <1>9

------------------------------------------------------------------------------
(* Lists of a card. *)

Chars == DOMAIN Lower

\* The first of each group: no value twice.
LEMMA DistinctOnce ==
  ASSUME NEW T, NEW s \in Seq(T), NEW t, t = Distinct(s)
  PROVE  NoRepeats(t)
<1> DEFINE P == {i \in DOMAIN s : \A j \in 1 .. i - 1 : s[j] # s[i]}
<1>1. PICK size \in Nat : size = Len(s) /\ DOMAIN s = 1 .. size
  OBVIOUS
<1>2. P \subseteq 1 .. size
  BY <1>1
<1>3. t = Kept(s, P)
  BY DEF Distinct
<1>4. \A i, j \in P : s[i] = s[j] => i = j
  <2>1. SUFFICES ASSUME NEW i \in P, NEW j \in P, s[i] = s[j], i < j
                 PROVE  FALSE
    <3>1. \A i, j \in P : i < j \/ j < i \/ i = j
      BY <1>2
    <3> QED
      BY <2>1, <3>1
  <2>2. i \in 1 .. j - 1
    BY <1>2, <2>1
  <2> QED
    BY <2>1, <2>2
<1> HIDE DEF P
<1>5. IsFiniteSet(P) /\ P \subseteq Int
  <2>1. IsFiniteSet(1 .. size)
    BY FS_Interval
  <2>2. IsFiniteSet(P)
    BY <1>2, <2>1, FS_Subset
  <2>3. P \subseteq Int
    BY <1>2
  <2> QED
    BY <2>2, <2>3
<1>6. PICK places : Runs(places, t, s, P)
  BY <1>3, <1>5, KeptRuns
<1>7. PICK n \in Nat : n = Cardinality(P)
  BY <1>5, FS_CardinalityType
<1>8. /\ places \in [1 .. n -> P] /\ t = [k \in 1 .. n |-> s[places[k]]]
      /\ \A k, m \in 1 .. n : k < m <=> places[k] < places[m]
  BY <1>6, <1>7, Zenon DEF Runs
<1>9. ASSUME NEW k \in 1 .. n, NEW m \in 1 .. n, t[k] = t[m]
      PROVE  k = m
  <2>0. /\ places[k] \in P /\ places[m] \in P
        /\ t[k] = s[places[k]] /\ t[m] = s[places[m]]
    BY ONLY <1>8, k \in 1 .. n, m \in 1 .. n
  <2>1. places[k] = places[m] /\ places[k] \in Int
    BY ONLY <1>4, <1>5, <1>9, <2>0
  <2>2. ~(places[k] < places[m]) /\ ~(places[m] < places[k])
    BY <2>1
  <2> QED
    BY <1>8, <2>2
<1>10. Len(t) = n
  BY <1>8
<1> QED
  BY <1>9, <1>10 DEF NoRepeats

\* dedupe in the terms of Orders.
LEMMA DedupeIs ==
  ASSUME NEW values
  PROVE  Card!dedupe(values) = Distinct(Kept(values, {i \in DOMAIN values : values[i] # <<>>}))
<1>1. Card!dedupe(values) = Card!Distinct(Card!Kept(values, {i \in DOMAIN values : values[i] # <<>>}))
  BY Zenon DEF Card!dedupe, Card!Filter
<1> QED
  BY <1>1, CardOrders

\* dedupe loses no value but the empty one, and repeats none.
LEMMA DedupeKeeps ==
  ASSUME NEW T, NEW values \in Seq(T), NEW t, t = Card!dedupe(values)
  PROVE  /\ t \in Seq(T) /\ NoRepeats(t)
         /\ ToSet(t) = ToSet(values) \ {<<>>}
<1> DEFINE P == {i \in DOMAIN values : values[i] # <<>>}
<1>1. P \subseteq 1 .. Len(values) /\ DOMAIN values = 1 .. Len(values)
  OBVIOUS
<1>2. {values[i] : i \in P} = ToSet(values) \ {<<>>}
  BY DEF ToSet
<1>3. t = Distinct(Kept(values, P))
  BY DedupeIs
<1> HIDE DEF P
<1>4. PICK u : u = Kept(values, P)
  OBVIOUS
<1>5. u \in Seq(T) /\ ToSet(u) = {values[i] : i \in P}
  BY <1>1, <1>4, KeptElements
<1>6. t \in Seq(T) /\ ToSet(t) = ToSet(u)
  BY <1>3, <1>4, <1>5, DistinctElements
<1>7. NoRepeats(t)
  BY <1>3, <1>4, <1>5, DistinctOnce
<1> QED
  BY <1>2, <1>5, <1>6, <1>7

\* It changes nothing where there is nothing to drop.
LEMMA DedupeStays ==
  ASSUME NEW T, NEW values \in Seq(T), NoRepeats(values), \A i \in 1 .. Len(values) : values[i] # <<>>
  PROVE  Card!dedupe(values) = values
<1>1. {i \in DOMAIN values : values[i] # <<>>} = 1 .. Len(values)
  OBVIOUS
<1>2. Kept(values, 1 .. Len(values)) = values
  BY KeptAll
<1>3. Distinct(values) = values
  BY DistinctAlready
<1> QED
  BY <1>1, <1>2, <1>3, DedupeIs

\* clip on a list is truncate.
LEMMA ClipTakes ==
  ASSUME NEW T, NEW s \in Seq(T), NEW max \in Nat
  PROVE  Card!clip(s, max) = Take(s, max)
<1>1. PICK n \in Nat : n = Len(s)
  OBVIOUS
<1>2. CASE n <= max
  <2>1. Card!clip(s, max) = s
    BY <1>1, <1>2 DEF Card!clip
  <2>2. Take(s, max) = s
    BY <1>1, <1>2, TakePrefix
  <2> QED
    BY <2>1, <2>2
<1>3. CASE ~(n <= max)
  <2>1. max < n
    BY <1>3
  <2> QED
    BY <1>1, <1>3, <2>1 DEF Card!clip, Take
<1> QED
  BY <1>2, <1>3

\* What a list is capped to would be kept again as it is.
Capped(kept, list, cap, max) ==
  /\ NoRepeats(kept) /\ ToSet(kept) \subseteq ToSet(list)
  /\ Len(kept) \in Nat /\ Len(kept) <= cap
  /\ Len(list) <= cap => kept = list
  /\ Len(list) > cap => Len(kept) = cap
  /\ Card!dedupe(kept) = kept /\ Card!cap_list(kept, cap, max) = kept

IsClean(list, max) ==
  /\ NoRepeats(list)
  /\ \A i \in 1 .. Len(list) : list[i] # <<>> /\ Len(list[i]) <= max

\* No string of a list of short ones is cut.
LEMMA ClipShort ==
  ASSUME NEW T, NEW list \in Seq(T), NEW max, \A i \in 1 .. Len(list) : Len(list[i]) <= max
  PROVE  [i \in DOMAIN list |-> Card!clip(list[i], max)] = list
<1>1. \A i \in 1 .. Len(list) : Card!clip(list[i], max) = list[i]
  BY DEF Card!clip
<1>2. list = [i \in 1 .. Len(list) |-> list[i]] /\ DOMAIN list = 1 .. Len(list)
  OBVIOUS
<1> QED
  BY <1>1, <1>2

\* What cap_list makes of a clean list.
LEMMA CapList ==
  ASSUME NEW T, NEW list \in Seq(T), NEW cap \in Nat, NEW max \in Nat, IsClean(list, max),
         NEW kept, kept = Card!cap_list(list, cap, max)
  PROVE  kept \in Seq(T) /\ Capped(kept, list, cap, max)
<1>1. PICK short : short = Take(list, cap)
  OBVIOUS
<1>2. /\ short \in Seq(T) /\ Len(short) = (IF cap < Len(list) THEN cap ELSE Len(list)) /\ Len(short) \in 0 .. Len(list)
      /\ \A n \in 1 .. Len(short) : short[n] = list[n]
      /\ Len(list) <= cap => short = list
      /\ NoRepeats(short)
  BY <1>1, TakePrefix DEF IsClean
<1>3. PICK n \in Nat, m \in Nat : n = Len(list) /\ m = Len(short)
  BY <1>2
<1>4. m = (IF cap < n THEN cap ELSE n) /\ m <= n /\ m <= cap
  BY <1>2, <1>3
<1>5. \A i \in 1 .. m : short[i] = list[i] /\ short[i] # <<>> /\ Len(short[i]) <= max
  BY <1>2, <1>3, <1>4 DEF IsClean
<1>6. kept = short
  <2>1. kept = [i \in DOMAIN short |-> Card!clip(short[i], max)]
    BY <1>1, ClipTakes, Zenon DEF Card!cap_list
  <2> QED
    BY <1>2, <1>3, <1>5, <2>1, ClipShort
<1>7. Card!cap_list(kept, cap, max) = kept
  <2>1. PICK again : again = Card!clip(short, cap)
    OBVIOUS
  <2>2. again = short
    BY <1>3, <1>4, <2>1 DEF Card!clip
  <2>3. Card!cap_list(kept, cap, max) = [i \in DOMAIN short |-> Card!clip(short[i], max)]
    BY <1>6, <2>1, <2>2, Zenon DEF Card!cap_list
  <2> QED
    BY <1>2, <1>3, <1>5, <1>6, <2>3, ClipShort
<1>8. Card!dedupe(kept) = kept
  BY <1>2, <1>3, <1>5, <1>6, DedupeStays
<1>9. ToSet(kept) \subseteq ToSet(list)
  <2>1. \A i \in 1 .. m : i \in 1 .. n /\ kept[i] = list[i]
    BY <1>3, <1>4, <1>5, <1>6
  <2>2. DOMAIN kept = 1 .. m /\ DOMAIN list = 1 .. n
    BY <1>2, <1>3, <1>6
  <2> QED
    BY <2>1, <2>2 DEF ToSet
<1>10. Len(kept) = m
  BY <1>3, <1>6
<1>11. n <= cap => kept = list
  BY <1>2, <1>3, <1>6
<1>12. n > cap => m = cap
  BY <1>4
<1>13. NoRepeats(kept)
  BY <1>2, <1>6
<1> QED
  BY <1>2, <1>3, <1>4, <1>6, <1>7, <1>8, <1>9, <1>10, <1>11, <1>12, <1>13 DEF Capped

\* A value as it is written to the field f, and the list of those.
Written(f, v) == IF f = "keywords" THEN Card!lowercase(Card!trim(v)) ELSE Card!trim(v)

WrittenAll(values, f) == [i \in DOMAIN values |-> Written(f, values[i])]

Listed(values, f) == Card!dedupe(WrittenAll(values, f))

\* Writing a value twice is writing it once.
LEMMA WrittenOnce ==
  ASSUME NEW v \in Seq(Chars), NEW f
  PROVE  Written(f, v) \in Seq(Chars) /\ Len(Written(f, v)) <= Len(v) /\ Written(f, Written(f, v)) = Written(f, v)
<1>1. PICK t : t = Card!trim(v)
  OBVIOUS
<1>2. t \in Seq(Chars) /\ Len(t) <= Len(v) /\ Card!trim(t) = t
  BY <1>1, TrimTrims, TrimmedStays
<1>3. PICK l : l = Card!lowercase(t)
  OBVIOUS
<1>4. l \in Seq(Chars) /\ Len(l) <= Len(v) /\ Card!lowercase(Card!trim(l)) = l
  BY <1>1, <1>3, LowerTrimmed DEF Chars
<1> QED
  BY <1>1, <1>2, <1>3, <1>4 DEF Written

\* A list of texts as they are written to f stays as it is.
LEMMA WrittenStay ==
  ASSUME NEW s \in Seq(Seq(Chars)), NEW f, \A i \in 1 .. Len(s) : Written(f, s[i]) = s[i]
  PROVE  WrittenAll(s, f) = s
<1>1. s = [i \in 1 .. Len(s) |-> s[i]] /\ DOMAIN s = 1 .. Len(s)
  OBVIOUS
<1> QED
  BY <1>1 DEF WrittenAll

\* A list of written values is clean, and has each of them.
LEMMA ListIsClean ==
  ASSUME NEW values \in Seq(Seq(Chars)), NEW f, NEW max \in Nat, \A i \in 1 .. Len(values) : Len(values[i]) <= max,
         NEW list, list = Listed(values, f)
  PROVE  /\ list \in Seq(Seq(Chars)) /\ IsClean(list, max)
         /\ \A v \in ToSet(list) : Written(f, v) = v
         /\ ToSet(list) = {Written(f, values[i]) : i \in 1 .. Len(values)} \ {<<>>}
<1>1. PICK written : written = WrittenAll(values, f)
  OBVIOUS
<1>2. PICK n \in Nat : n = Len(values) /\ DOMAIN values = 1 .. n
  OBVIOUS
<1>3. written = [i \in 1 .. n |-> Written(f, values[i])]
  BY <1>1, <1>2 DEF WrittenAll
<1>4. ASSUME NEW i \in 1 .. n
      PROVE  /\ Written(f, values[i]) \in Seq(Chars) /\ Written(f, Written(f, values[i])) = Written(f, values[i])
             /\ Len(Written(f, values[i])) <= max
  <2>1. PICK v \in Seq(Chars) : v = values[i] /\ Len(v) <= max
    BY <1>2
  <2>2. PICK w \in Seq(Chars) : w = Written(f, v) /\ Len(w) <= Len(v) /\ Written(f, w) = w
    BY WrittenOnce
  <2> QED
    BY <2>1, <2>2
<1>5. written \in Seq(Seq(Chars))
  BY <1>3, <1>4
<1>6. ToSet(written) = {Written(f, values[i]) : i \in 1 .. n}
  BY <1>3 DEF ToSet
<1>7. list \in Seq(Seq(Chars)) /\ NoRepeats(list) /\ ToSet(list) = ToSet(written) \ {<<>>}
  BY <1>1, <1>5, DedupeKeeps DEF Listed
<1>8. \A v \in ToSet(list) : v # <<>> /\ Len(v) <= max /\ Written(f, v) = v
  BY <1>4, <1>6, <1>7
<1>9. \A i \in 1 .. Len(list) : list[i] \in ToSet(list)
  BY <1>7 DEF ToSet
<1> QED
  BY <1>2, <1>6, <1>7, <1>8, <1>9 DEF IsClean

ShortTexts(values, max) == values \in Seq(Seq(Chars)) /\ \A i \in 1 .. Len(values) : Len(values[i]) <= max

\* A list that would be written again as it is.
ListStays(kept, f, cap, max) ==
  Listed(kept, f) = kept /\ Card!cap_list(kept, cap, max) = kept /\ ~(Len(kept) > cap)

\* A list as a card keeps it would be kept again.
LEMMA ListAgain ==
  ASSUME NEW values, NEW f, NEW max \in Nat, ShortTexts(values, max), NEW cap \in Nat
  PROVE  ListStays(Card!cap_list(Listed(values, f), cap, max), f, cap, max)
<1>1. PICK list, kept : list = Listed(values, f) /\ kept = Card!cap_list(list, cap, max)
  OBVIOUS
<1>2. /\ list \in Seq(Seq(Chars)) /\ IsClean(list, max)
      /\ \A v \in ToSet(list) : Written(f, v) = v
  <2>1. values \in Seq(Seq(Chars)) /\ \A i \in 1 .. Len(values) : Len(values[i]) <= max
    BY DEF ShortTexts
  <2> QED
    BY <1>1, <2>1, ListIsClean
<1>3. kept \in Seq(Seq(Chars)) /\ Capped(kept, list, cap, max)
  BY <1>1, <1>2, CapList
<1>4. ToSet(kept) \subseteq ToSet(list) /\ Len(kept) <= cap /\ Card!dedupe(kept) = kept /\ Card!cap_list(kept, cap, max) = kept
  BY <1>3 DEF Capped
<1>5. \A i \in 1 .. Len(kept) : kept[i] \in ToSet(kept)
  BY <1>3 DEF ToSet
<1>6. \A i \in 1 .. Len(kept) : Written(f, kept[i]) = kept[i]
  BY <1>2, <1>4, <1>5
<1>7. WrittenAll(kept, f) = kept
  BY <1>3, <1>6, WrittenStay
<1>8. Listed(kept, f) = kept
  BY <1>4, <1>7, Zenon DEF Listed
<1>9. ~(Len(kept) > cap)
  BY <1>3 DEF Capped
<1> QED
  BY <1>1, <1>4, <1>8, <1>9, Zenon DEF ListStays

------------------------------------------------------------------------------
(* Entities of a card. *)

Fits(v, hay) == Card!normalize(v) # <<>> /\ Card!Occurs(Card!lowercase(Card!normalize(v)), hay)

\* What is made of a category's names, given the list of them.
FittingIn(all, hay) == Kept(all, {i \in DOMAIN all : Fits(all[i], hay)})

EntitiesOf(all, hay, caps) ==
  [kept    |-> Card!cap_list(FittingIn(all, hay), caps.entities_per_category, caps.max_chars),
   dropped |-> {v \in ToSet(all) : ~Fits(v, hay)},
   trimmed |-> Len(FittingIn(all, hay)) > caps.entities_per_category]

\* ground_entities in the terms of Orders.
LEMMA EntitiesAre ==
  ASSUME NEW values, NEW hay, NEW caps
  PROVE  Card!ground_entities(values, hay, caps) = EntitiesOf(Listed(values, "people"), hay, caps)
<1>1. PICK all : all = Listed(values, "people")
  OBVIOUS
<1>2. all = Card!dedupe([i \in DOMAIN values |-> Card!trim(values[i])])
  BY <1>1 DEF Listed, WrittenAll, Written
<1>3. FittingIn(all, hay) = Card!Kept(all, {i \in DOMAIN all : Fits(all[i], hay)})
  BY CardOrders DEF FittingIn
<1>4. ToSet(all) = Card!ToSet(all)
  BY Zenon DEF ToSet, Card!ToSet
<1>5. PICK found : found = FittingIn(all, hay)
  OBVIOUS
<1>6. Card!ground_entities(values, hay, caps) =
        [kept    |-> [i \in DOMAIN Card!clip(found, caps.entities_per_category) |->
                        Card!clip(Card!clip(found, caps.entities_per_category)[i], caps.max_chars)],
         dropped |-> {v \in Card!ToSet(all) : ~Fits(v, hay)},
         trimmed |-> Card!Over(found, caps.entities_per_category)]
  BY <1>2, <1>3, <1>5, Zenon DEF Card!ground_entities, Card!Filter, Fits
<1> QED
  BY <1>1, <1>4, <1>5, <1>6, Zenon DEF Card!cap_list, Card!Over, EntitiesOf

IsCaps(caps) ==
  /\ caps.entities_per_category \in Nat /\ caps.max_chars \in Nat /\ caps.dates \in Nat
  /\ \A f \in Card!ListFields : caps.lists[f] \in Nat

\* Each proposed name is kept, or reported as dropped, or gave way to enough others.
NamesAccounted(values, e, cap) ==
  \A i \in 1 .. Len(values) :
    Card!trim(values[i]) # <<>> =>
      \/ Contains(e.kept, Card!trim(values[i])) \/ Card!trim(values[i]) \in e.dropped
      \/ e.trimmed /\ Len(e.kept) = cap

KeptEntities(e) == [kept |-> e.kept, dropped |-> {}, trimmed |-> FALSE]

\* The names kept of a category would be kept again; none is lost without a word.
LEMMA EntitiesAgain ==
  ASSUME NEW values, NEW hay, NEW caps, IsCaps(caps), ShortTexts(values, caps.max_chars),
         NEW e, e = Card!ground_entities(values, hay, caps)
  PROVE  /\ e.kept \in Seq(Seq(Chars)) /\ Card!ground_entities(e.kept, hay, caps) = KeptEntities(e)
         /\ NamesAccounted(values, e, caps.entities_per_category)
<1>1. PICK cap \in Nat, max \in Nat : cap = caps.entities_per_category /\ max = caps.max_chars
  BY DEF IsCaps
<1>2. values \in Seq(Seq(Chars)) /\ \A i \in 1 .. Len(values) : Len(values[i]) <= max
  BY <1>1 DEF ShortTexts
<1>3. PICK all : all = Listed(values, "people")
  OBVIOUS
<1>4. /\ all \in Seq(Seq(Chars)) /\ IsClean(all, max)
      /\ \A v \in ToSet(all) : Written("people", v) = v
      /\ ToSet(all) = {Written("people", values[i]) : i \in 1 .. Len(values)} \ {<<>>}
  BY <1>2, <1>3, ListIsClean
<1>5. PICK P : P = {i \in 1 .. Len(all) : Fits(all[i], hay)}
  OBVIOUS
<1>6. P \subseteq 1 .. Len(all) /\ P = {i \in DOMAIN all : Fits(all[i], hay)}
  BY <1>4, <1>5
<1>7. PICK found : found = Kept(all, P)
  OBVIOUS
<1>8. /\ found \in Seq(Seq(Chars)) /\ ToSet(found) = {all[i] : i \in P} /\ NoRepeats(found)
  BY <1>4, <1>6, <1>7, KeptElements DEF IsClean
<1>9. \A i \in 1 .. Len(found) : found[i] \in ToSet(found)
  BY <1>8 DEF ToSet
<1>10. ASSUME NEW v \in ToSet(found)
       PROVE  v \in ToSet(all) /\ Fits(v, hay)
  <2>1. PICK i \in P : v = all[i]
    BY <1>8
  <2>2. i \in 1 .. Len(all) /\ Fits(all[i], hay)
    BY <1>5
  <2>3. all[i] \in ToSet(all)
    BY <1>4, <2>2 DEF ToSet
  <2> QED
    BY <2>1, <2>2, <2>3
<1>11. /\ \A v \in ToSet(all) : \E i \in 1 .. Len(all) : v = all[i]
       /\ \A v \in ToSet(all) : v # <<>> /\ Len(v) <= max
  <2>1. ToSet(all) = {all[i] : i \in 1 .. Len(all)}
    BY <1>4 DEF ToSet
  <2>2. \A i \in 1 .. Len(all) : all[i] # <<>> /\ Len(all[i]) <= max
    BY <1>4 DEF IsClean
  <2> QED
    BY <2>1, <2>2
<1>12. IsClean(found, max)
  BY <1>8, <1>9, <1>10, <1>11 DEF IsClean
<1>13. e = [kept    |-> Card!cap_list(found, cap, max),
            dropped |-> {v \in ToSet(all) : ~Fits(v, hay)},
            trimmed |-> Len(found) > cap]
  <2>1. found = FittingIn(all, hay)
    BY <1>6, <1>7 DEF FittingIn
  <2>2. e = EntitiesOf(all, hay, caps)
    BY <1>3, EntitiesAre
  <2> QED
    BY <1>1, <2>1, <2>2, Zenon DEF EntitiesOf
<1>14. PICK kept : kept = Card!cap_list(found, cap, max)
  OBVIOUS
<1>15. e.kept = kept /\ e.dropped = {v \in ToSet(all) : ~Fits(v, hay)} /\ e.trimmed = (Len(found) > cap)
  BY <1>13, <1>14
<1>16. kept \in Seq(Seq(Chars)) /\ Capped(kept, found, cap, max)
  BY <1>8, <1>12, <1>14, CapList
<1>17. /\ NoRepeats(kept) /\ ToSet(kept) \subseteq ToSet(found)
       /\ Len(kept) \in Nat /\ Len(kept) <= cap
       /\ Len(found) <= cap => kept = found
       /\ Len(found) > cap => Len(kept) = cap
       /\ Card!dedupe(kept) = kept /\ Card!cap_list(kept, cap, max) = kept
  BY <1>16, Zenon DEF Capped
<1>18. \A i \in 1 .. Len(kept) : kept[i] \in ToSet(kept)
  BY <1>16 DEF ToSet
<1>19. Listed(kept, "people") = kept
  <2>1. \A i \in 1 .. Len(kept) : Written("people", kept[i]) = kept[i]
    BY <1>4, <1>10, <1>17, <1>18
  <2>2. WrittenAll(kept, "people") = kept
    BY <1>16, <2>1, WrittenStay
  <2> QED
    BY <1>17, <2>2 DEF Listed
<1>20. FittingIn(kept, hay) = kept
  <2>1. {i \in DOMAIN kept : Fits(kept[i], hay)} = 1 .. Len(kept)
    BY <1>10, <1>16, <1>17, <1>18
  <2> QED
    BY <1>16, <2>1, KeptAll DEF FittingIn
<1>21. Card!ground_entities(kept, hay, caps) = KeptEntities(e)
  <2>1. Card!ground_entities(kept, hay, caps) =
          [kept |-> Card!cap_list(kept, cap, max), dropped |-> {v \in ToSet(kept) : ~Fits(v, hay)}, trimmed |-> Len(kept) > cap]
    <3>1. Card!ground_entities(kept, hay, caps) = EntitiesOf(kept, hay, caps)
      BY <1>19, EntitiesAre
    <3> QED
      BY <1>1, <1>20, <3>1, Zenon DEF EntitiesOf
  <2>2. {v \in ToSet(kept) : ~Fits(v, hay)} = {}
    BY <1>10, <1>17
  <2>3. (Len(kept) > cap) = FALSE
    BY <1>17
  <2> QED
    BY <1>15, <1>17, <2>1, <2>2, <2>3, Zenon DEF KeptEntities
<1>22. NamesAccounted(values, e, cap)
  <2>1. SUFFICES ASSUME NEW i \in 1 .. Len(values), Card!trim(values[i]) # <<>>
                 PROVE  \/ Contains(kept, Card!trim(values[i])) \/ Card!trim(values[i]) \in e.dropped
                        \/ e.trimmed /\ Len(kept) = cap
    BY <1>15 DEF NamesAccounted
  <2>2. PICK v : v = Card!trim(values[i])
    OBVIOUS
  <2>3. v \in ToSet(all)
    BY <1>4, <2>1, <2>2 DEF Written
  <2>4. CASE ~Fits(v, hay)
    BY <1>15, <2>2, <2>3, <2>4
  <2>5. CASE Fits(v, hay)
    <3>1. v \in ToSet(found)
      <4>1. PICK j \in 1 .. Len(all) : v = all[j]
        BY <1>11, <2>3
      <4>2. j \in P
        BY <1>5, <2>5, <4>1
      <4> QED
        BY <1>8, <4>1, <4>2
    <3>2. PICK n \in Nat : n = Len(found)
      BY <1>8
    <3>3. n <= cap \/ n > cap
      OBVIOUS
    <3>4. v \in ToSet(kept) => Contains(kept, v)
      BY <1>16 DEF ToSet, Contains
    <3> QED
      BY <1>15, <1>17, <2>2, <3>1, <3>2, <3>3, <3>4
  <2> QED
    BY <2>4, <2>5
<1> QED
  BY <1>1, <1>15, <1>16, <1>21, <1>22

------------------------------------------------------------------------------
(* Dates of a card. *)

IsDate(d, max) ==
  /\ d = DateFor(d.raw, d.iso, d.precision, d.evidence) /\ d.precision \in Precisions
  /\ d.raw \in Seq(Chars) /\ d.iso \in Seq(Chars) /\ d.evidence \in Seq(Chars)
  /\ Len(d.raw) <= max /\ Len(d.evidence) <= max

\* A date before it is grounded, and as it is stored.
Dated(d) == [d EXCEPT !.iso = Card!normalize_iso(@, d.precision)]

Stored(d, max) == [d EXCEPT !.raw = Card!clip(Card!trim(@), max), !.evidence = Card!clip(Card!trim(@), max)]

\* A date with its iso normalised.
LEMMA DateDated ==
  ASSUME NEW raw, NEW iso, NEW precision, NEW evidence
  PROVE  Dated(DateFor(raw, iso, precision, evidence)) = DateFor(raw, Card!normalize_iso(iso, precision), precision, evidence)
BY DEF Dated, DateFor

\* A date with its texts trimmed and cut.
LEMMA DateStored ==
  ASSUME NEW raw, NEW iso, NEW precision, NEW evidence, NEW max
  PROVE  Stored(DateFor(raw, iso, precision, evidence), max)
           = DateFor(Card!clip(Card!trim(raw), max), iso, precision, Card!clip(Card!trim(evidence), max))
<1>1. PICK d : d = DateFor(raw, iso, precision, evidence)
  OBVIOUS
<1>2. PICK r, e : r = Card!clip(Card!trim(raw), max) /\ e = Card!clip(Card!trim(evidence), max)
  OBVIOUS
<1> DEFINE half == [d EXCEPT !.raw = Card!clip(Card!trim(@), max)]
<1>3. Stored(d, max) = [half EXCEPT !.evidence = Card!clip(Card!trim(@), max)]
  BY DEF Stored
<1>4. half = DateFor(r, iso, precision, evidence)
  BY <1>1, <1>2 DEF DateFor
<1> HIDE DEF half
<1>5. half.evidence = evidence
  BY <1>4 DEF DateFor
<1>6. [half EXCEPT !.evidence = Card!clip(Card!trim(@), max)] = [half EXCEPT !.evidence = e]
  BY <1>2, <1>5
<1>7. [half EXCEPT !.evidence = e] = DateFor(r, iso, precision, e)
  BY <1>4 DEF DateFor
<1> QED
  BY <1>1, <1>2, <1>3, <1>6, <1>7

\* A check of a date says yes or no, or dies.
LEMMA GroundEnds ==
  ASSUME NEW d, d.precision \in Precisions, NEW hay
  PROVE  Card!Ground(d, hay) = TRUE \/ Card!Ground(d, hay) = FALSE \/ Card!Ground(d, hay) = Panic
<1>1. PICK s : s = Card!trim(d.iso)
  OBVIOUS
<1>2. PICK day, month, year : day = Card!is_calendar_day(s) /\ month = Card!is_year_month(s) /\ year = Card!is_year(s)
  OBVIOUS
<1>3. /\ day = TRUE \/ day = FALSE \/ day = Panic
      /\ month = TRUE \/ month = FALSE \/ month = Panic
      /\ year = TRUE \/ year = FALSE
  BY <1>2, ChecksEnd, Zenon
<1>4. PICK any : any = Card!OrElse(Card!OrElse(day, month), year)
  OBVIOUS
<1>5. any = TRUE \/ any = FALSE \/ any = Panic
  BY <1>3, <1>4, Zenon DEF Card!OrElse
<1>6. PICK shape : shape = CASE d.precision = "day"   -> day
                             [] d.precision = "month" -> month
                             [] d.precision \in {"quarter", "year"} -> year
                             [] d.precision = "relative" -> any
  OBVIOUS
<1>7. shape = TRUE \/ shape = FALSE \/ shape = Panic
  BY <1>3, <1>5, <1>6 DEF Precisions
<1>8. PICK fits \in BOOLEAN : fits = (Card!years_in(d.raw) = {} \/ SubSeq(s, 1, 4) \in Card!years_in(d.raw))
  OBVIOUS
<1>9. PICK m : m = Card!iso_matches(d.iso, d.precision, d.raw)
  OBVIOUS
<1>10. m = Card!AndThen(shape, fits)
  BY <1>1, <1>2, <1>4, <1>6, <1>8, <1>9, Zenon DEF Card!iso_matches
<1>11. m = TRUE \/ m = FALSE \/ m = Panic
  BY <1>7, <1>8, <1>10, Zenon DEF Card!AndThen
<1>12. PICK g : g = Card!is_grounded_date(d, hay)
  OBVIOUS
<1>13. g = FALSE \/ g = m
  BY <1>9, <1>12, Zenon DEF Card!is_grounded_date
<1> QED
  BY <1>11, <1>12, <1>13, Zenon DEF Card!Ground

\* A date that would be stored again as it is.
StaysAsItIs(d, hay, max) ==
  IsDate(d, max) /\ Dated(d) = d /\ Stored(d, max) = d /\ Card!Ground(d, hay) = TRUE

\* A grounded date is stored as it would be stored again.
LEMMA DateAgain ==
  ASSUME NEW max \in Nat, NEW d, IsDate(d, max), NEW hay, Card!Ground(Dated(d), hay) = TRUE
  PROVE  StaysAsItIs(Stored(Dated(d), max), hay, max)
<1>0. PICK k, c : k = Dated(d) /\ c = Stored(k, max)
  OBVIOUS
<1>1. PICK raw \in Seq(Chars), iso \in Seq(Chars), precision \in Precisions, evidence \in Seq(Chars) :
        d = DateFor(raw, iso, precision, evidence) /\ Len(raw) <= max /\ Len(evidence) <= max
  BY DEF IsDate
<1>2. PICK t : t = Card!normalize_iso(iso, precision)
  OBVIOUS
<1>3. k = DateFor(raw, t, precision, evidence)
  BY <1>0, <1>1, <1>2, DateDated
<1>4. k.raw = raw /\ k.iso = t /\ k.precision = precision /\ k.evidence = evidence
  BY <1>3 DEF DateFor
<1>5. PICK r, e : r = Card!trim(raw) /\ e = Card!trim(evidence)
  OBVIOUS
<1>6. /\ r \in Seq(Chars) /\ Card!trim(r) = r /\ Len(r) <= Len(raw) /\ Card!normalize(r) = Card!normalize(raw)
      /\ Card!years_in(r) = Card!years_in(raw)
  BY <1>1, <1>5, TrimTrims, TrimmedStays, NormalizeTrims, YearsTrim
<1>7. e \in Seq(Chars) /\ Card!trim(e) = e /\ Len(e) <= Len(evidence) /\ Card!normalize(e) = Card!normalize(evidence)
  BY <1>1, <1>5, TrimTrims, TrimmedStays, NormalizeTrims
<1>8. Len(r) <= max /\ Len(e) <= max
  BY <1>1, <1>6, <1>7
<1>9. Card!clip(r, max) = r /\ Card!clip(e, max) = e
  BY <1>8 DEF Card!clip
<1>10. c = DateFor(r, t, precision, e)
  <2>1. Stored(k, max) = DateFor(Card!clip(Card!trim(raw), max), t, precision, Card!clip(Card!trim(evidence), max))
    BY <1>3, DateStored
  <2> QED
    BY <1>0, <1>5, <1>9, <2>1
<1>11. c.raw = r /\ c.iso = t /\ c.precision = precision /\ c.evidence = e
  BY <1>10 DEF DateFor
<1>12. t # Panic /\ Card!is_grounded_date(k, hay) = TRUE
  BY <1>0, <1>4, DigitsSolid, Zenon DEF Card!Ground
<1>13. t \in Seq(Chars) /\ IsTrimmed(t)
  BY <1>1, <1>2, <1>12, NormalIso
<1>14. Card!iso_matches(t, precision, raw) = TRUE
  BY <1>4, <1>12, Zenon DEF Card!is_grounded_date
<1>15. Card!normalize_iso(t, precision) = t
  BY <1>1, <1>13, <1>14, FittingIsoStays
<1>16. Dated(c) = c
  BY <1>10, <1>15, DateDated
<1>17. Stored(c, max) = c
  <2>1. Stored(c, max) = DateFor(Card!clip(Card!trim(r), max), t, precision, Card!clip(Card!trim(e), max))
    BY <1>10, DateStored
  <2> QED
    BY <1>6, <1>7, <1>9, <1>10, <2>1
<1>18. Card!iso_matches(t, precision, r) = Card!iso_matches(t, precision, raw)
  BY <1>6, Zenon DEF Card!iso_matches
<1>19. Card!is_grounded_date(c, hay) = Card!is_grounded_date(k, hay)
  BY <1>4, <1>6, <1>7, <1>11, <1>18, Zenon DEF Card!is_grounded_date
<1>20. Card!Ground(c, hay) = TRUE
  BY <1>11, <1>12, <1>19, Zenon DEF Card!Ground
<1>21. IsDate(c, max)
  BY <1>6, <1>7, <1>8, <1>10, <1>11, <1>13 DEF IsDate
<1> QED
  BY <1>0, <1>16, <1>17, <1>20, <1>21 DEF StaysAsItIs

DatedAll(ds) == [i \in DOMAIN ds |-> Dated(ds[i])]

StoredAll(ds, max) == [i \in DOMAIN ds |-> Stored(ds[i], max)]

\* The dates whose check says b.
Judged(ds, hay, b) == Kept(ds, {i \in DOMAIN ds : Card!Ground(ds[i], hay) = b})

AreDates(ds, max) == (\E T : ds \in Seq(T)) /\ \A i \in 1 .. Len(ds) : IsDate(ds[i], max)

\* Dates that are stored as they are, each grounded.
AreKept(D, hay, cap, max) ==
  /\ AreDates(D, max) /\ ~(Len(D) > cap)
  /\ DatedAll(D) = D /\ StoredAll(D, max) = D /\ Card!clip(D, cap) = D
  /\ \A i \in DOMAIN D : Card!Ground(D[i], hay) = TRUE
  /\ Judged(D, hay, TRUE) = D /\ Judged(D, hay, FALSE) = <<>>

\* No position kept is nothing kept.
LEMMA KeptNone == \A s : Kept(s, {}) = <<>>
<1>1. Cardinality({}) = 0
  BY FS_EmptySet
<1>2. \A s : Kept(s, {}) = [n \in 1 .. 0 |-> s[InOrder({}, Pairs({}, LAMBDA i, j : i < j))[n]]]
  BY <1>1, Zenon DEF Kept
<1>3. 1 .. 0 = {}
  OBVIOUS
<1> QED
  BY <1>2, <1>3

\* Dates each stored as it is are together.
LEMMA StoredDates ==
  ASSUME NEW max \in Nat, NEW cap \in Nat, NEW hay, NEW D, NEW T, D \in Seq(T), Len(D) <= cap,
         \A i \in 1 .. Len(D) : StaysAsItIs(D[i], hay, max)
  PROVE  AreKept(D, hay, cap, max)
<1>1. D = [i \in 1 .. Len(D) |-> D[i]] /\ DOMAIN D = 1 .. Len(D)
  OBVIOUS
<1>0. \A i \in 1 .. Len(D) : IsDate(D[i], max) /\ Dated(D[i]) = D[i] /\ Stored(D[i], max) = D[i]
                            /\ Card!Ground(D[i], hay) = TRUE
  BY DEF StaysAsItIs
<1>2. DatedAll(D) = D
  BY <1>0, <1>1 DEF DatedAll
<1>3. StoredAll(D, max) = D
  BY <1>0, <1>1 DEF StoredAll
<1>4. Card!clip(D, cap) = D
  BY DEF Card!clip
<1>5. Judged(D, hay, TRUE) = D
  <2>1. {i \in DOMAIN D : Card!Ground(D[i], hay) = TRUE} = 1 .. Len(D)
    BY <1>0, <1>1
  <2> QED
    BY <2>1, KeptAll DEF Judged
<1>6. Judged(D, hay, FALSE) = <<>>
  <2>1. {i \in DOMAIN D : Card!Ground(D[i], hay) = FALSE} = {}
    BY <1>0, <1>1
  <2> QED
    BY <2>1, KeptNone DEF Judged
<1>7. AreDates(D, max)
  BY <1>0 DEF AreDates
<1>8. ~(Len(D) > cap)
  OBVIOUS
<1> QED
  BY <1>0, <1>1, <1>2, <1>3, <1>4, <1>5, <1>6, <1>7, <1>8, Zenon DEF AreKept

Panics(ds, hay) == \E i \in DOMAIN ds : Card!Ground(ds[i], hay) = Panic

\* The grounded dates are stored as they would be stored again; with the failing ones they are
\* all the dates, but where more are grounded than the card may hold.
DatesStay(ds, hay, cap, max) ==
  LET grounded == Judged(DatedAll(ds), hay, TRUE)
      failing  == Judged(DatedAll(ds), hay, FALSE)
      D        == StoredAll(Card!clip(grounded, cap), max)
  IN  /\ AreKept(D, hay, cap, max)
      /\ Len(grounded) > cap => Len(D) = cap
      /\ ~(Len(grounded) > cap) => Len(D) + Len(failing) = Len(ds)

\* The dates of a card: kept again, and counted.
LEMMA DatesAgain ==
  ASSUME NEW max \in Nat, NEW cap \in Nat, NEW hay, NEW ds, AreDates(ds, max), ~Panics(DatedAll(ds), hay)
  PROVE  DatesStay(ds, hay, cap, max)
<1>0. PICK grounded, failing, D :
        /\ grounded = Judged(DatedAll(ds), hay, TRUE) /\ failing = Judged(DatedAll(ds), hay, FALSE)
        /\ D = StoredAll(Card!clip(grounded, cap), max)
  OBVIOUS
<1>1. PICK n \in Nat : n = Len(ds) /\ DOMAIN ds = 1 .. n
  BY DEF AreDates
<1>2. PICK all : all = DatedAll(ds)
  OBVIOUS
<1>3. all = [i \in 1 .. n |-> Dated(ds[i])]
  BY <1>1, <1>2 DEF DatedAll
<1>4. PICK S : S = {all[i] : i \in 1 .. n}
  OBVIOUS
<1>5. all \in Seq(S) /\ Len(all) = n /\ DOMAIN all = 1 .. n
  BY <1>3, <1>4
<1>6. PICK P, Q : /\ P = {i \in 1 .. n : Card!Ground(all[i], hay) = TRUE}
                  /\ Q = {i \in 1 .. n : Card!Ground(all[i], hay) = FALSE}
  OBVIOUS
<1>7. grounded = Kept(all, P) /\ failing = Kept(all, Q)
  BY <1>0, <1>2, <1>5, <1>6 DEF Judged
<1>8. \A i \in 1 .. n : IsDate(ds[i], max)
  BY <1>1 DEF AreDates
<1>9. \A i \in 1 .. n : Card!Ground(all[i], hay) # Panic
  BY <1>2, <1>5 DEF Panics
<1>10. ASSUME NEW i \in 1 .. n
       PROVE  i \in P \/ i \in Q
  <2>1. PICK d : d = ds[i] /\ IsDate(d, max)
    BY <1>8
  <2>2. PICK raw, iso, precision, evidence :
          precision \in Precisions /\ d = DateFor(raw, iso, precision, evidence)
    BY <2>1 DEF IsDate
  <2>3. PICK k : k = Dated(d)
    OBVIOUS
  <2>4. k = DateFor(raw, Card!normalize_iso(iso, precision), precision, evidence)
    BY <2>2, <2>3, DateDated
  <2>5. k.precision \in Precisions
    BY <2>2, <2>4 DEF DateFor
  <2>6. all[i] = k
    BY <1>3, <2>1, <2>3
  <2> QED
    BY <1>6, <1>9, <2>5, <2>6, GroundEnds
<1>11. P \subseteq 1 .. n /\ Q = (1 .. n) \ P
  BY <1>6, <1>10
<1>12. PICK U : U = {all[i] : i \in P}
  OBVIOUS
<1>13. /\ grounded \in Seq(S) /\ Len(grounded) = Cardinality(P) /\ ToSet(grounded) = {all[i] : i \in P}
       /\ Cardinality(P) \in 0 .. n
  BY <1>5, <1>7, <1>11, KeptElements
<1>14. Len(failing) = Cardinality(Q)
  BY <1>5, <1>7, <1>11, KeptElements
<1>15. Cardinality(P) + Cardinality(Q) = n
  <2>1. IsFiniteSet(1 .. n) /\ Cardinality(1 .. n) = n
    BY UpTo
  <2>2. Cardinality(Q) = Cardinality(1 .. n) - Cardinality((1 .. n) \cap P)
    BY <1>11, <2>1, FS_Difference
  <2>3. (1 .. n) \cap P = P
    BY <1>11
  <2>4. PICK p, q : p \in Nat /\ p = Cardinality(P) /\ q = Cardinality(Q)
    BY <1>13
  <2>5. q = n - p
    BY <2>1, <2>2, <2>3, <2>4
  <2> QED
    BY <1>1, <2>4, <2>5
<1>16. PICK short : short = Card!clip(grounded, cap)
  OBVIOUS
<1>30. grounded \in Seq(S)
  BY <1>13
<1>17. short = Take(grounded, cap)
  BY ONLY <1>30, cap \in Nat, <1>16, ClipTakes
<1>18. /\ short \in Seq(S) /\ Len(short) = (IF cap < Len(grounded) THEN cap ELSE Len(grounded))
       /\ \A i \in 1 .. Len(short) : short[i] = grounded[i]
  BY ONLY <1>30, cap \in Nat, <1>17, TakePrefix
<1>19. PICK g \in Nat, m \in Nat : g = Len(grounded) /\ m = Len(short)
  BY ONLY <1>13, <1>18
<1>20. /\ short \in Seq(S) /\ m = (IF cap < g THEN cap ELSE g)
       /\ \A i \in 1 .. m : short[i] = grounded[i]
       /\ m <= g /\ m <= cap
  BY ONLY <1>18, <1>19, cap \in Nat
<1>21. D = [i \in 1 .. m |-> Stored(short[i], max)]
  <2>1. DOMAIN short = 1 .. m
    BY ONLY <1>18, <1>19
  <2> QED
    BY ONLY <1>0, <1>16, <2>1 DEF StoredAll
<1>22. ASSUME NEW i \in 1 .. m
       PROVE  StaysAsItIs(D[i], hay, max)
  <2>1. i \in 1 .. g
    BY ONLY i \in 1 .. m, <1>19, <1>20
  <2>2. grounded[i] \in ToSet(grounded)
    BY ONLY <1>30, <1>19, <2>1 DEF ToSet
  <2>3. PICK j \in P : short[i] = all[j]
    BY <1>13, <1>20, <2>2
  <2>4. PICK d : d = ds[j] /\ IsDate(d, max)
    BY <1>8, <1>11
  <2>5. Dated(d) = all[j] /\ Card!Ground(Dated(d), hay) = TRUE
    BY <1>3, <1>6, <1>11, <2>4
  <2>6. D[i] = Stored(Dated(d), max)
    BY <1>21, <2>3, <2>5
  <2>7. StaysAsItIs(Stored(Dated(d), max), hay, max)
    BY ONLY max \in Nat, <2>4, <2>5, DateAgain
  <2> QED
    BY ONLY <2>6, <2>7
<1>23. PICK W : W = {D[i] : i \in 1 .. m}
  OBVIOUS
<1>24. D \in Seq(W) /\ Len(D) = m
  BY ONLY <1>19, <1>21, <1>23
<1>25. AreKept(D, hay, cap, max)
  BY ONLY max \in Nat, cap \in Nat, <1>19, <1>20, <1>22, <1>24, StoredDates
<1>26. g + Len(failing) = n
  BY <1>13, <1>14, <1>15, <1>19
<1>27. /\ Len(grounded) > cap => Len(D) = cap
       /\ ~(Len(grounded) > cap) => Len(D) + Len(failing) = Len(ds)
  BY <1>1, <1>19, <1>20, <1>24, <1>26
<1> QED
  BY <1>0, <1>25, <1>27, Zenon DEF DatesStay

------------------------------------------------------------------------------
(* A whole card. *)

Brief(text, max) == Card!clip(Card!trim(text), max)

FieldsOf(answer) == [f \in Card!ListFields |-> Listed(answer.lists[f], f)]

NamesOf(answer, hay, caps) ==
  [c \in Card!Categories |-> Card!ground_entities(answer.entities[c], Card!lowercase(hay), caps)]

\* validate, by the parts of its answer.
LEMMA ValidateIs ==
  ASSUME NEW section, NEW answer, NEW caps
  PROVE  Card!validate(section, answer, caps) =
           Card!Judge(Brief(answer.tldr, caps.max_chars), Brief(answer.summary, caps.max_chars * 2), FieldsOf(answer),
                      NamesOf(answer, Card!normalize(section), caps), DatedAll(answer.mentioned_dates),
                      Card!normalize(section), caps)
BY Zenon DEF Card!validate, Brief, FieldsOf, Listed, WrittenAll, Written, NamesOf, DatedAll, Dated

\* Judge in the terms of Orders.
LEMMA JudgeIs ==
  ASSUME NEW tldr, NEW body, NEW list, NEW names, NEW ds, NEW hay, NEW caps
  PROVE  Card!Judge(tldr, body, list, names, ds, hay, caps) =
           IF tldr = <<>> \/ body = <<>> THEN Card!Rejected
           ELSE IF Panics(ds, hay) THEN Card!Died
           ELSE Card!Verdict(tldr, body, list, names, Judged(ds, hay, TRUE), Judged(ds, hay, FALSE), caps)
<1>1. /\ Card!Filter(ds, LAMBDA d : Card!Ground(d, hay) = TRUE) = Judged(ds, hay, TRUE)
      /\ Card!Filter(ds, LAMBDA d : Card!Ground(d, hay) = FALSE) = Judged(ds, hay, FALSE)
  BY CardOrders, Zenon DEF Card!Filter, Judged
<1> QED
  BY <1>1, Zenon DEF Card!Judge, Panics

CardOf(tldr, body, lists, names, ds) ==
  [tldr |-> tldr, summary |-> body, lists |-> lists, entities |-> names, mentioned_dates |-> ds]

CappedLists(list, caps) == [f \in Card!ListFields |-> Card!cap_list(list[f], caps.lists[f], caps.max_chars)]

KeptNames(names) == [c \in Card!Categories |-> names[c].kept]

\* What was trimmed of lists, names, and as many dates as `grounded` has.
TrimmedOf(list, names, grounded, caps) ==
  {f \in Card!ListFields : Card!Over(list[f], caps.lists[f])}
    \cup {c \in Card!Categories : names[c].trimmed}
    \cup (IF Card!Over(grounded, caps.dates) THEN {"mentioned_dates"} ELSE {})

\* What a valid answer leaves.
LEMMA VerdictIs ==
  ASSUME NEW tldr, NEW body, NEW list, NEW names, NEW grounded, NEW failing, NEW caps
  PROVE  Card!Verdict(tldr, body, list, names, grounded, failing, caps) =
           [verdict |-> "valid",
            card    |-> CardOf(tldr, body, CappedLists(list, caps), KeptNames(names),
                               StoredAll(Card!clip(grounded, caps.dates), caps.max_chars)),
            dropped_dates    |-> failing,
            dropped_entities |-> UNION {{c} \X names[c].dropped : c \in Card!Categories},
            trimmed |-> TrimmedOf(list, names, grounded, caps)]
BY Zenon DEF Card!Verdict, CardOf, CappedLists, KeptNames, StoredAll, Stored, TrimmedOf

\* An answer none of whose strings is longer than a card may hold.
IsProposal(answer, caps) ==
  /\ answer.tldr \in Seq(Chars) /\ Len(answer.tldr) <= caps.max_chars
  /\ answer.summary \in Seq(Chars) /\ Len(answer.summary) <= caps.max_chars * 2
  /\ \A f \in Card!ListFields : ShortTexts(answer.lists[f], caps.max_chars)
  /\ \A c \in Card!Categories : ShortTexts(answer.entities[c], caps.max_chars)
  /\ AreDates(answer.mentioned_dates, caps.max_chars)

\* A summary as it is stored.
LEMMA BriefAgain ==
  ASSUME NEW text \in Seq(Chars), NEW max \in Nat, Len(text) <= max
  PROVE  Brief(Brief(text, max), max) = Brief(text, max)
<1>1. PICK t : t = Card!trim(text)
  OBVIOUS
<1>2. t \in Seq(Chars) /\ Len(t) <= Len(text) /\ Card!trim(t) = t
  BY <1>1, TrimTrims, TrimmedStays
<1>3. Len(t) <= max
  BY <1>2
<1>4. Brief(text, max) = t
  BY <1>1, <1>3 DEF Brief, Card!clip
<1>5. Brief(t, max) = t
  BY <1>2, <1>3 DEF Brief, Card!clip
<1> QED
  BY <1>4, <1>5

\* The lists of a card.
LEMMA FieldsAgain ==
  ASSUME NEW answer, NEW caps, IsCaps(caps), IsProposal(answer, caps),
         NEW card, card.lists = CappedLists(FieldsOf(answer), caps)
  PROVE  /\ CappedLists(FieldsOf(card), caps) = card.lists
         /\ \A f \in Card!ListFields : ~Card!Over(FieldsOf(card)[f], caps.lists[f])
<1>1. ASSUME NEW f \in Card!ListFields
      PROVE  /\ Listed(card.lists[f], f) = card.lists[f]
             /\ Card!cap_list(card.lists[f], caps.lists[f], caps.max_chars) = card.lists[f]
             /\ ~(Len(card.lists[f]) > caps.lists[f])
  <2>1. caps.lists[f] \in Nat /\ caps.max_chars \in Nat
    BY Zenon DEF IsCaps
  <2>2. ShortTexts(answer.lists[f], caps.max_chars)
    BY Zenon DEF IsProposal
  <2>3. card.lists[f] = Card!cap_list(Listed(answer.lists[f], f), caps.lists[f], caps.max_chars)
    BY Zenon DEF CappedLists, FieldsOf
  <2>4. ListStays(card.lists[f], f, caps.lists[f], caps.max_chars)
    BY ONLY <2>1, <2>2, <2>3, ListAgain
  <2> QED
    BY <2>4, Zenon DEF ListStays
<1>2. \A f \in Card!ListFields : FieldsOf(card)[f] = card.lists[f]
  BY <1>1, Zenon DEF FieldsOf
<1>3. CappedLists(FieldsOf(card), caps) = [f \in Card!ListFields |-> card.lists[f]]
  BY <1>1, <1>2, Zenon DEF CappedLists
<1>4. card.lists = [f \in Card!ListFields |-> card.lists[f]]
  BY Zenon DEF CappedLists
<1> QED
  BY <1>1, <1>2, <1>3, <1>4, Zenon DEF Card!Over

\* The names of a card.
LEMMA NamesAgain ==
  ASSUME NEW answer, NEW caps, IsCaps(caps), IsProposal(answer, caps), NEW hay,
         NEW card, card.entities = KeptNames(NamesOf(answer, hay, caps))
  PROVE  /\ \A c \in Card!Categories :
              /\ NamesOf(card, hay, caps)[c] = KeptEntities(NamesOf(answer, hay, caps)[c])
              /\ NamesAccounted(answer.entities[c], NamesOf(answer, hay, caps)[c], caps.entities_per_category)
         /\ KeptNames(NamesOf(card, hay, caps)) = card.entities
<1>1. ASSUME NEW c \in Card!Categories
      PROVE  /\ NamesOf(card, hay, caps)[c] = KeptEntities(NamesOf(answer, hay, caps)[c])
             /\ NamesAccounted(answer.entities[c], NamesOf(answer, hay, caps)[c], caps.entities_per_category)
             /\ NamesOf(card, hay, caps)[c].kept = card.entities[c]
  <2>1. PICK e, low : low = Card!lowercase(hay) /\ e = Card!ground_entities(answer.entities[c], low, caps)
    OBVIOUS
  <2>2. NamesOf(answer, hay, caps)[c] = e
    BY <2>1, Zenon DEF NamesOf
  <2>3. ShortTexts(answer.entities[c], caps.max_chars)
    BY Zenon DEF IsProposal
  <2>4. /\ Card!ground_entities(e.kept, low, caps) = KeptEntities(e)
        /\ NamesAccounted(answer.entities[c], e, caps.entities_per_category)
    BY <2>1, <2>3, EntitiesAgain
  <2>5. card.entities[c] = e.kept
    BY <2>2, Zenon DEF KeptNames
  <2>6. NamesOf(card, hay, caps)[c] = KeptEntities(e)
    BY <2>1, <2>4, <2>5, Zenon DEF NamesOf
  <2>7. KeptEntities(e).kept = e.kept
    BY DEF KeptEntities
  <2> QED
    BY <2>2, <2>4, <2>5, <2>6, <2>7
<1>2. KeptNames(NamesOf(card, hay, caps)) = [c \in Card!Categories |-> card.entities[c]]
  BY <1>1, Zenon DEF KeptNames
<1>3. card.entities = [c \in Card!Categories |-> card.entities[c]]
  BY Zenon DEF KeptNames
<1> QED
  BY <1>1, <1>2, <1>3

\* Each name proposed in a category is kept, or reported as dropped, or gave way to enough
\* others.
NamesAreAccounted(answer, v, caps) ==
  \A c \in Card!Categories : \A i \in 1 .. Len(answer.entities[c]) :
    LET name == Card!trim(answer.entities[c][i])
    IN  \/ name = <<>> \/ Contains(v.card.entities[c], name) \/ <<c, name>> \in v.dropped_entities
        \/ c \in v.trimmed /\ Len(v.card.entities[c]) = caps.entities_per_category

\* So is each date.
DatesAreAccounted(answer, v, caps) ==
  /\ "mentioned_dates" \in v.trimmed => Len(v.card.mentioned_dates) = caps.dates
  /\ "mentioned_dates" \notin v.trimmed =>
       Len(v.card.mentioned_dates) + Len(v.dropped_dates) = Len(answer.mentioned_dates)

\* validate.rs: a card is stored as validating it again would store it, with nothing dropped
\* and nothing trimmed; and each name and date of the answer is kept, or reported as dropped,
\* or gave way to as many as the card may hold.
THEOREM KeptCardsStay ==
  ASSUME NEW section, NEW caps, IsCaps(caps), NEW answer, IsProposal(answer, caps),
         Card!validate(section, answer, caps).verdict = "valid"
  PROVE  LET v == Card!validate(section, answer, caps)
             again == Card!validate(section, v.card, caps)
         IN  /\ again.verdict = "valid" /\ again.card = v.card /\ Card!is_clean(again)
             /\ NamesAreAccounted(answer, v, caps) /\ DatesAreAccounted(answer, v, caps)
<1>1. PICK hay, max, tldr, body, list, names, ds :
        /\ hay = Card!normalize(section) /\ max = caps.max_chars
        /\ tldr = Brief(answer.tldr, max) /\ body = Brief(answer.summary, max * 2)
        /\ list = FieldsOf(answer) /\ names = NamesOf(answer, hay, caps) /\ ds = DatedAll(answer.mentioned_dates)
  OBVIOUS
<1>2. PICK v : v = Card!validate(section, answer, caps)
  OBVIOUS
<1>3. v = Card!Judge(tldr, body, list, names, ds, hay, caps)
  BY <1>1, <1>2, ValidateIs, Zenon
<1>4. PICK grounded, failing, D :
        /\ grounded = Judged(ds, hay, TRUE) /\ failing = Judged(ds, hay, FALSE)
        /\ D = StoredAll(Card!clip(grounded, caps.dates), max)
  OBVIOUS
<1>5. /\ ~(tldr = <<>> \/ body = <<>>) /\ ~Panics(ds, hay)
      /\ v = Card!Verdict(tldr, body, list, names, grounded, failing, caps)
  <2>1. v # Card!Rejected /\ v # Card!Died
    BY <1>2 DEF Card!Rejected, Card!Died
  <2> QED
    BY <1>3, <1>4, <2>1, JudgeIs, Zenon
<1>6. v = [verdict |-> "valid",
           card    |-> CardOf(tldr, body, CappedLists(list, caps), KeptNames(names), D),
           dropped_dates    |-> failing,
           dropped_entities |-> UNION {{c} \X names[c].dropped : c \in Card!Categories},
           trimmed |-> TrimmedOf(list, names, grounded, caps)]
  BY <1>1, <1>4, <1>5, VerdictIs, Zenon
<1>7. PICK card : card = CardOf(tldr, body, CappedLists(list, caps), KeptNames(names), D)
  OBVIOUS
<1>8. /\ v.card = card /\ v.dropped_dates = failing
      /\ v.dropped_entities = UNION {{c} \X names[c].dropped : c \in Card!Categories}
      /\ v.trimmed = TrimmedOf(list, names, grounded, caps)
  BY <1>6, <1>7
<1>9. /\ card.tldr = tldr /\ card.summary = body /\ card.lists = CappedLists(list, caps)
      /\ card.entities = KeptNames(names) /\ card.mentioned_dates = D
  BY <1>7 DEF CardOf
<1>10. max \in Nat /\ max * 2 \in Nat /\ caps.dates \in Nat
  <2>1. max \in Nat /\ caps.dates \in Nat
    BY <1>1, Zenon DEF IsCaps
  <2> QED
    BY <2>1
<1>11. Brief(tldr, max) = tldr /\ Brief(body, max * 2) = body
  <2>1. /\ answer.tldr \in Seq(Chars) /\ Len(answer.tldr) <= max
        /\ answer.summary \in Seq(Chars) /\ Len(answer.summary) <= max * 2
    BY <1>1, Zenon DEF IsProposal
  <2> QED
    BY <1>1, <1>10, <2>1, BriefAgain
<1>12. /\ CappedLists(FieldsOf(card), caps) = card.lists
       /\ \A f \in Card!ListFields : ~Card!Over(FieldsOf(card)[f], caps.lists[f])
  BY <1>1, <1>9, FieldsAgain
<1>13. /\ \A c \in Card!Categories :
             /\ NamesOf(card, hay, caps)[c] = KeptEntities(names[c])
             /\ NamesAccounted(answer.entities[c], names[c], caps.entities_per_category)
       /\ KeptNames(NamesOf(card, hay, caps)) = card.entities
  BY <1>1, <1>9, NamesAgain
<1>14. /\ AreKept(D, hay, caps.dates, max)
       /\ Len(grounded) > caps.dates => Len(D) = caps.dates
       /\ ~(Len(grounded) > caps.dates) => Len(D) + Len(failing) = Len(answer.mentioned_dates)
  <2>1. AreDates(answer.mentioned_dates, max)
    BY <1>1, Zenon DEF IsProposal
  <2>2. ~Panics(DatedAll(answer.mentioned_dates), hay)
    BY <1>1, <1>5
  <2>3. DatesStay(answer.mentioned_dates, hay, caps.dates, max)
    BY <1>10, <2>1, <2>2, DatesAgain
  <2> QED
    BY <1>1, <1>4, <2>3, Zenon DEF DatesStay
<1>15. /\ DatedAll(D) = D /\ StoredAll(Card!clip(D, caps.dates), max) = D
       /\ Judged(D, hay, TRUE) = D /\ Judged(D, hay, FALSE) = <<>> /\ ~Panics(D, hay)
       /\ ~Card!Over(D, caps.dates)
  <2>1. ~Panics(D, hay)
    BY <1>14, DigitsSolid, Zenon DEF AreKept, Panics
  <2>2. ~(Len(D) > caps.dates)
    BY <1>14, Zenon DEF AreKept
  <2> QED
    BY <1>14, <2>1, <2>2, Zenon DEF AreKept, Card!Over
<1>16. PICK again : again = Card!validate(section, card, caps)
  OBVIOUS
<1>17. PICK list2, names2 : list2 = FieldsOf(card) /\ names2 = NamesOf(card, hay, caps)
  OBVIOUS
<1>18. again = Card!Judge(tldr, body, list2, names2, D, hay, caps)
  BY <1>1, <1>9, <1>11, <1>15, <1>16, <1>17, ValidateIs, Zenon
<1>19. again = Card!Verdict(tldr, body, list2, names2, D, <<>>, caps)
  BY <1>5, <1>15, <1>18, JudgeIs, Zenon
<1>20. again = [verdict |-> "valid",
                card    |-> CardOf(tldr, body, CappedLists(list2, caps), KeptNames(names2), D),
                dropped_dates    |-> <<>>,
                dropped_entities |-> UNION {{c} \X names2[c].dropped : c \in Card!Categories},
                trimmed |-> TrimmedOf(list2, names2, D, caps)]
  BY <1>1, <1>15, <1>19, VerdictIs, Zenon
<1>21. CardOf(tldr, body, CappedLists(list2, caps), KeptNames(names2), D) = card
  BY <1>7, <1>9, <1>12, <1>13, <1>17
<1>22. \A c \in Card!Categories : names2[c].dropped = {} /\ names2[c].trimmed = FALSE
  <2>1. \A e : KeptEntities(e).dropped = {} /\ KeptEntities(e).trimmed = FALSE
    BY DEF KeptEntities
  <2> QED
    BY <1>13, <1>17, <2>1, Zenon
<1>23. UNION {{c} \X names2[c].dropped : c \in Card!Categories} = {}
  BY <1>22
<1>24. TrimmedOf(list2, names2, D, caps) = {}
  BY <1>12, <1>15, <1>17, <1>22 DEF TrimmedOf
<1>25. again.verdict = "valid" /\ again.card = card /\ Card!is_clean(again)
  BY <1>20, <1>21, <1>23, <1>24 DEF Card!is_clean
<1>26. NamesAreAccounted(answer, v, caps)
  <2>1. SUFFICES ASSUME NEW c \in Card!Categories, NEW i \in 1 .. Len(answer.entities[c]),
                        NEW name, name = Card!trim(answer.entities[c][i]), name # <<>>
                 PROVE  \/ Contains(card.entities[c], name) \/ <<c, name>> \in v.dropped_entities
                        \/ c \in v.trimmed /\ Len(card.entities[c]) = caps.entities_per_category
    BY <1>8 DEF NamesAreAccounted
  <2>2. NamesAccounted(answer.entities[c], names[c], caps.entities_per_category)
    BY <1>13
  <2>3. \/ Contains(names[c].kept, name) \/ name \in names[c].dropped
        \/ names[c].trimmed /\ Len(names[c].kept) = caps.entities_per_category
    BY <2>1, <2>2 DEF NamesAccounted
  <2>4. card.entities[c] = names[c].kept
    BY <1>9 DEF KeptNames
  <2>5. name \in names[c].dropped => <<c, name>> \in v.dropped_entities
    BY <1>8
  <2>6. names[c].trimmed => c \in v.trimmed
    BY <1>8 DEF TrimmedOf
  <2> QED
    BY <2>3, <2>4, <2>5, <2>6
<1>27. DatesAreAccounted(answer, v, caps)
  <2>1. "mentioned_dates" \notin Card!ListFields \cup Card!Categories
    BY DEF Card!ListFields, Card!Categories
  <2>2. "mentioned_dates" \in v.trimmed <=> Len(grounded) > caps.dates
    BY <1>8, <2>1 DEF TrimmedOf, Card!Over
  <2> QED
    BY <1>8, <1>9, <1>14, <2>2 DEF DatesAreAccounted
<1> QED
  BY <1>2, <1>8, <1>16, <1>25, <1>26, <1>27

\* The answers the runs try are answers.
AnswersTyped ==
  /\ case.alg = "date" => IsDate(case.date, 12)
  /\ case.alg = "card" => IsProposal(case.answer, Caps)

IsShort(text) == text \in Seq(Chars) /\ Len(text) <= 12

\* Two half-length texts are together short enough.
LEMMA ShortJoined ==
  ASSUME NEW s \in Seq(Chars), NEW t \in Seq(Chars), Len(s) <= 6, Len(t) <= 6
  PROVE  IsShort(s \o t)
<1>1. s \o t \in Seq(Chars) /\ Len(s \o t) = Len(s) + Len(t)
  OBVIOUS
<1>2. PICK m \in Nat, n \in Nat : m = Len(s) /\ n = Len(t)
  OBVIOUS
<1>3. m + n <= 12
  BY <1>2
<1> QED
  BY <1>1, <1>2, <1>3 DEF IsShort

\* The texts the runs try.
LEMMA TextsAreShort ==
  /\ \A text \in Raws \cup Evidences \cup Names : IsShort(text)
  /\ \A text \in {<<"a">>, <<Space>>, <<"b">>} : IsShort(text)
  /\ \A text \in Isos : text \in Seq(Chars)
<1>1. Alphabet \subseteq Chars
  BY TextAssumption DEF Chars
<1>2. /\ Space \in Chars /\ "nbsp" \in Chars /\ "a" \in Chars /\ "A" \in Chars /\ "b" \in Chars /\ "T" \in Chars
      /\ "-" \in Chars /\ "0" \in Chars /\ "1" \in Chars /\ "2" \in Chars /\ "6" \in Chars /\ "7" \in Chars
      /\ "'" \in Chars /\ "two" \in Chars /\ "three" \in Chars
  BY <1>1 DEF Alphabet, Spaces, Letters, Numerals, Quotes, Wide
<1>3. Y \in Seq(Chars) /\ Len(Y) = 4
  BY <1>2 DEF Y
<1>4. YM \in Seq(Chars)
  BY <1>2, <1>3 DEF YM
<1>5. YMD \in Seq(Chars)
  BY <1>2, <1>4 DEF YMD
<1>6. \A text \in Raws : IsShort(text)
  <2>1. <<"a", Space>> \in Seq(Chars) /\ Len(<<"a", Space>>) <= 6 /\ Len(Y) <= 6
    BY <1>2, <1>3
  <2>2. IsShort(<<"a", Space>> \o Y)
    BY <1>3, <2>1, ShortJoined
  <2>3. IsShort(<<"A", Space, "b">>) /\ IsShort(Y)
    BY <1>2, <1>3 DEF IsShort
  <2> QED
    BY <2>2, <2>3, Zenon DEF Raws
<1>7. \A text \in Evidences : IsShort(text)
  <2>1. <<"a", "nbsp">> \in Seq(Chars) /\ Len(<<"a", "nbsp">>) <= 6 /\ Len(Y) <= 6
    BY <1>2, <1>3
  <2>2. IsShort(<<"a", "nbsp">> \o Y)
    BY <1>3, <2>1, ShortJoined
  <2>3. IsShort(<<"A", Space, "b", "'", "a">>) /\ IsShort(<<"T">>) /\ IsShort(<<>>)
    BY <1>2 DEF IsShort
  <2> QED
    BY <2>2, <2>3, Zenon DEF Evidences
<1>8. \A text \in Names : IsShort(text)
  <2>1. /\ IsShort(<<"A", Space, "b">>) /\ IsShort(<<"a">>) /\ IsShort(<<"b", "'", "a">>)
        /\ IsShort(<<"T">>) /\ IsShort(<<Space, "A">>)
    BY <1>2 DEF IsShort
  <2> QED
    BY <2>1, Zenon DEF Names
<1>9. \A text \in {<<"a">>, <<Space>>, <<"b">>} : IsShort(text)
  <2>1. IsShort(<<"a">>) /\ IsShort(<<Space>>) /\ IsShort(<<"b">>)
    BY <1>2 DEF IsShort
  <2> QED
    BY <2>1, Zenon
<1>10. \A text \in Isos : text \in Seq(Chars)
  <2>1. YMD \o <<"T", "0">> \in Seq(Chars)
    BY <1>2, <1>5
  <2>2. Y \o <<"-", "0", "2", "-", "7", "1">> \in Seq(Chars)
    BY <1>2, <1>3
  <2>3. <<"two", "a", "two", "-">> \o Y \in Seq(Chars)
    BY <1>2, <1>3
  <2>4. <<"2", "0", "2", "7">> \in Seq(Chars) /\ <<"a">> \in Seq(Chars) /\ <<"three", "three", "2">> \in Seq(Chars)
    BY <1>2
  <2> QED
    BY <1>3, <1>4, <1>5, <2>1, <2>2, <2>3, <2>4 DEF Isos
<1> QED
  BY <1>6, <1>7, <1>8, <1>9, <1>10

\* The dates the runs try.
LEMMA DatesTyped ==
  ASSUME NEW raw, IsShort(raw), NEW iso \in Seq(Chars), NEW precision \in Precisions, NEW evidence, IsShort(evidence)
  PROVE  IsDate(DateFor(raw, iso, precision, evidence), 12)
BY DEF IsDate, DateFor, IsShort

\* The caps of the runs.
LEMMA CapsTyped == IsCaps(Caps) /\ Caps.max_chars = 12
BY DEF IsCaps, Caps

\* Joining sequences.
LEMMA Joins ==
  ASSUME NEW T, NEW s \in Seq(T), NEW t \in Seq(T)
  PROVE  /\ s \o t \in Seq(T) /\ Len(s \o t) = Len(s) + Len(t)
         /\ \A i \in 1 .. Len(s) + Len(t) : (s \o t)[i] = IF i <= Len(s) THEN s[i] ELSE t[i - Len(s)]
OBVIOUS

\* Joining two values.
LEMMA TwoJoined ==
  ASSUME NEW T, NEW a \in T, NEW b \in T
  PROVE  \E j \in Seq(T) : j = <<a>> \o <<b>> /\ Len(j) = 2 /\ j[1] = a /\ j[2] = b
<1>1. PICK s, t : s = <<a>> /\ t = <<b>>
  OBVIOUS
<1>2. s \in Seq(T) /\ Len(s) = 1 /\ s[1] = a /\ t \in Seq(T) /\ Len(t) = 1 /\ t[1] = b
  BY <1>1
<1>3. PICK j : j = s \o t
  OBVIOUS
<1>4. /\ j \in Seq(T) /\ Len(j) = Len(s) + Len(t)
      /\ \A i \in 1 .. Len(s) + Len(t) : j[i] = IF i <= Len(s) THEN s[i] ELSE t[i - Len(s)]
  BY ONLY <1>2, <1>3, Joins
<1>5. Len(j) = 2 /\ j[1] = a /\ j[2] = b
  BY ONLY <1>2, <1>4
<1> QED
  BY ONLY <1>1, <1>3, <1>4, <1>5

\* The answers the runs try.
LEMMA AnswersOfDates ==
  ASSUME NEW date, IsDate(date, 12), NEW names \in NameLists, NEW more \in {<<>>, <<GoodDate>>},
         NEW tldr \in {<<"a">>, <<Space>>}
  PROVE  IsProposal(Answer(tldr, names, <<date>> \o more), Caps)
<1>1. IsDate(GoodDate, 12)
  BY TextsAreShort, DatesTyped DEF GoodDate, Raws, Isos, Evidences, Precisions
<1>2. AreDates(<<date>> \o more, 12)
  <2>1. PICK g : g = GoodDate
    OBVIOUS
  <2>2. PICK T : T = {date, g}
    OBVIOUS
  <2>3. CASE more = <<>>
    <3>1. <<date>> \o more = <<date>> /\ <<date>> \in Seq(T)
      BY <2>2, <2>3
    <3>2. \A i \in 1 .. Len(<<date>>) : IsDate(<<date>>[i], 12)
      OBVIOUS
    <3> QED
      BY <3>1, <3>2 DEF AreDates
  <2>4. CASE more = <<GoodDate>>
    <3>1. PICK dates \in Seq(T) : dates = <<date>> \o more /\ Len(dates) = 2 /\ dates[1] = date /\ dates[2] = g
      BY <2>1, <2>2, <2>4, TwoJoined
    <3>2. \A i \in 1 .. Len(dates) : IsDate(dates[i], 12)
      BY <1>1, <2>1, <3>1
    <3> QED
      BY <3>1, <3>2 DEF AreDates
  <2> QED
    BY <2>3, <2>4
<1>3. ShortTexts(names, 12)
  <2>1. \A n \in Names : n \in Seq(Chars) /\ Len(n) <= 12
    BY TextsAreShort DEF IsShort
  <2>2. ShortTexts(<<>>, 12)
    BY DEF ShortTexts
  <2>3. ASSUME NEW n \in Names
        PROVE  ShortTexts(<<n>>, 12)
    BY <2>1 DEF ShortTexts
  <2>4. ASSUME NEW m \in Names, NEW n \in Names
        PROVE  ShortTexts(<<m, n>>, 12)
    BY <2>1 DEF ShortTexts
  <2>5. \/ names = <<>> \/ \E n \in Names : names = <<n>>
        \/ \E m, n \in Names : names = <<m, n>>
    BY DEF NameLists
  <2> QED
    BY <2>2, <2>3, <2>4, <2>5, Zenon
<1>4. ShortTexts(<<>>, 12)
  BY DEF ShortTexts
<1>5. IsShort(tldr) /\ IsShort(<<"b">>)
  BY TextsAreShort
<1>6. PICK dates : dates = <<date>> \o more
  OBVIOUS
<1>7. PICK answer : answer = Answer(tldr, names, dates)
  OBVIOUS
<1>8. /\ answer.tldr = tldr /\ answer.summary = <<"b">> /\ answer.mentioned_dates = dates
      /\ \A f \in Card!ListFields : answer.lists[f] = names
      /\ \A c \in Card!Categories : answer.entities[c] = names \/ answer.entities[c] = <<>>
  BY <1>7 DEF Answer
<1>9. Len(<<"b">>) <= 12 * 2
  OBVIOUS
<1> QED
  BY <1>2, <1>3, <1>4, <1>5, <1>6, <1>7, <1>8, <1>9, CapsTyped DEF IsProposal, IsShort

LEMMA AnswersTypedInvariant == Spec => []AnswersTyped
<1>1. Init => AnswersTyped
  BY DEF Init, Idle, AnswersTyped
<1>2. AnswersTyped /\ [Next]_case => AnswersTyped'
  <2> SUFFICES ASSUME AnswersTyped, [Next]_case
               PROVE  AnswersTyped'
    OBVIOUS
  <2>1. CASE UNCHANGED case
    BY <2>1 DEF AnswersTyped
  <2>2. CASE CardCase
    <3>1. PICK raw \in Raws, iso \in Isos, evidence \in Evidences, precision \in Precisions :
            case' = [alg |-> "date", date |-> DateFor(raw, iso, precision, evidence)]
      BY <2>2, Zenon DEF CardCase, Precisions
    <3>2. PICK date : date = DateFor(raw, iso, precision, evidence)
      OBVIOUS
    <3>3. IsDate(date, 12)
      BY <3>1, <3>2, TextsAreShort, DatesTyped
    <3>4. case'.alg = "date" /\ case'.date = date
      BY <3>1, <3>2
    <3> QED
      BY <3>3, <3>4 DEF AnswersTyped
  <2>3. CASE AnswerCase
    <3>1. PICK names \in NameLists, more \in {<<>>, <<GoodDate>>}, tldr \in {<<"a">>, <<Space>>} :
            case' = [alg |-> "card", answer |-> Answer(tldr, names, <<case.date>> \o more)]
      BY <2>3, Zenon DEF AnswerCase
    <3>2. PICK answer : answer = Answer(tldr, names, <<case.date>> \o more)
      OBVIOUS
    <3>3. IsDate(case.date, 12)
      BY <2>3 DEF AnswerCase, AnswersTyped
    <3>4. IsProposal(answer, Caps)
      BY <3>1, <3>2, <3>3, AnswersOfDates
    <3>5. case'.alg = "card" /\ case'.answer = answer
      BY <3>1, <3>2
    <3> QED
      BY <3>4, <3>5 DEF AnswersTyped
  <2>4. CASE Next /\ ~CardCase /\ ~AnswerCase
    BY <2>4, StepsNameTheirAlgorithm DEF Next, AnswersTyped
  <2> QED
    BY <2>1, <2>2, <2>3, <2>4
<1> QED
  BY <1>1, <1>2, PTL DEF Spec

\* The property the run checks on its answers, from the theorem about all of them.
THEOREM KeptGrounded == Spec => []KeptIsGrounded
<1>1. AnswersTyped => KeptIsGrounded
  <2>1. SUFFICES ASSUME AnswersTyped, case.alg = "card", NEW answer, answer = case.answer,
                        NEW v, v = Card!validate(Section, answer, Caps), v.verdict = "valid"
                 PROVE  Accounted(answer, v, Card!validate(Section, v.card, Caps))
    BY Zenon DEF KeptIsGrounded, Revalidated
  <2>2. IsProposal(answer, Caps)
    BY <2>1 DEF AnswersTyped
  <2>3. PICK again : again = Card!validate(Section, v.card, Caps)
    OBVIOUS
  <2>4. /\ again.verdict = "valid" /\ again.card = v.card /\ Card!is_clean(again)
        /\ NamesAreAccounted(answer, v, Caps) /\ DatesAreAccounted(answer, v, Caps)
    BY <2>1, <2>2, <2>3, CapsTyped, KeptCardsStay, Zenon
  <2>5. PICK proposed, people : /\ proposed = [i \in DOMAIN answer.entities["people"] |-> Card!trim(answer.entities["people"][i])]
                                /\ people = v.card.entities["people"]
    OBVIOUS
  <2>6. ASSUME NEW i \in DOMAIN proposed
        PROVE  \/ proposed[i] = <<>> \/ Contains(people, proposed[i]) \/ <<"people", proposed[i]>> \in v.dropped_entities
               \/ "people" \in v.trimmed /\ Len(people) = Caps.entities_per_category
    <3>1. "people" \in Card!Categories
      BY DEF Card!Categories
    <3>2. PICK values, name : values = answer.entities["people"] /\ name = Card!trim(values[i]) /\ name = proposed[i]
      BY <2>5
    <3>3. i \in 1 .. Len(values)
      BY <2>2, <2>5, <2>6, <3>1, <3>2 DEF IsProposal, ShortTexts
    <3>4. \/ name = <<>> \/ Contains(people, name) \/ <<"people", name>> \in v.dropped_entities
          \/ "people" \in v.trimmed /\ Len(people) = Caps.entities_per_category
      BY <2>4, <2>5, <3>1, <3>2, <3>3, Zenon DEF NamesAreAccounted
    <3> QED
      BY <3>2, <3>4
  <2> QED
    BY <2>3, <2>4, <2>5, <2>6, Zenon DEF Accounted, DatesAreAccounted
<1> QED
  BY <1>1, AnswersTypedInvariant, PTL

===============================================================================
