# django-modern-rest in TLA+

TLA+ models, TLC runs and TLAPS proofs for `django-modern-rest` (the package
`dmr`). All paths below are paths of the repository.

## The system and its parts

An application declares controllers; at import time `dmr` turns each HTTP method
of a controller into an `Endpoint` object. A request then runs, inside one thread
(WSGI) or one task (ASGI), through that object:

    throttles before auth -> negotiation -> auth -> throttles after auth
      -> parsing -> the user's method -> response validation -> rendering

with three layers of error handlers around it (endpoint, controller, settings).
Several requests run at the same time and share the endpoint's locks, the cache that
counts requests, and the database rows of tokens. A streaming response lives on after the pipeline: the
server pulls bytes out of it while an iterator of the application produces events.

| component | state it keeps | operations | hard behaviour | what makes it correct |
|---|---|---|---|---|
| throttling algorithms (`dmr/throttling/algorithms.py`) | none (a counter or level in the cache object) | `access`, `report_usage` | integer arithmetic at boundaries | the documented quota over any interval; honest headers |
| throttling on a Django cache (`throttling/base.py`, `backends/django_cache.py`, `cache_keys.py`) | the cache, one sync and one async lock per endpoint | `__call__`, `incr`, `get`, `_set` | read and write are two calls; cancellation; expiry in between | no lost update; the lock is always released; endpoints do not share quota |
| throttling on Redis (`backends/redis.py`, `lua.py`) | Redis keys | two Lua scripts, `incr`, `get` | two clocks, rounding to seconds, lost replies, view-only calls | the same quotas; headers right up to the rounding |
| streaming (`streaming/stream.py`, `streaming/controller.py`, `internal/io.py`) | event task, ping timer, iterator | `_produce_events*`, `_next_event`, `close` | event against ping; disconnects; errors inside the iterator | each event once and in order; keep-alive; nothing left behind |
| opaque tokens (`security/token/`) | a database row per token | `authenticate`, `mark_used`, `issue`, `revoke`, the admin | check then use without a transaction; stale forms | a revocation counts at once and is kept |
| endpoint pipeline (`endpoint.py`, `errors.py`, `controller.py`, `validation/response.py`) | the request's attributes | the checks, error handling, validation | errors while handling errors; errors before a renderer is known | a documented response on every path; nothing runs before its checks |
| negotiation (`negotiation.py`, `_compiled/negotiation.py`) | `request.__dmr_renderer__`, `__dmr_parser__` | `ContentNegotiator.__call__` | q values, wildcards | the best acceptable media type |
| JWT and blocklist (`security/jwt/`) | blocklist table; a token is its claims | obtain, decode, refresh, verify, `check_auth`, `blocklist` | a check in several steps; leeway and skew; racing logouts | a dead token stays out; a logout holds; logouts do not make each other fail |
| cookie auth and API docs pages (`security/django_session/`, the cookie auths, `internal/csrf.py`, `openapi/views/`, `static/dmr/*/init.js`) | the browser's cookies, the token in each open page | render a page, log in, call | several tabs that share cookies | a page works until the next login; 401 and 403 have a reason |
| scripts of the documentation site (`docs/_static/js/`) | the page in the browser | toggle, copy, theme, `DOMContentLoaded` | events in any order, timeouts, promises | a copy is the whole file; a page shows its state |
| metadata, settings, routing (`validation/endpoint_metadata.py`, `settings.py`, `routing.py`) | built once at import; a settings cache | merging of levels, `resolve_setting` | stale cache in tests | every level's rules are joined |
| HTTP basic, allauth, OpenAPI, plugins, test helpers | none of their own | | conversions and calls into other packages | not modelled, see below |

`PROJECT.json` lists the components with their status, and every hazard of the
code at its line.

## Modules

| module | models | instance for TLC |
|---|---|---|
| `ThrottleAlgorithms` | the two algorithms as operators on the cached object | |
| `AtomicThrottle` | what a throttle promises to its requests (abstract) | |
| `DjangoCacheThrottle` | workers, endpoint locks, cache, clock; implements `AtomicThrottle` | `MCThrottle` |
| `DjangoCacheThrottle_proofs` | theorems about it | |
| `RedisThrottle` | workers, the Redis key and its clock, the clocks of the hosts | `MCRedisThrottle` |
| `RedisThrottle_proofs` | theorems about it | |
| `EventStream` | what a stream promises to its client (abstract) | |
| `Streaming` | the tasks of one `StreamingResponse`; implements `EventStream` | `MCStreaming` |
| `Streaming_proofs` | theorems about it, and the refinement | |
| `TokenAuth` | token rows, requests being authenticated, the admin | `MCTokenAuth` |
| `TokenAuth_proofs` | theorems about it | |
| `JwtAuth` | requests with JWTs, users, the blocklist | `MCJwtAuth` |
| `JwtAuth_proofs` | theorems about it | |
| `CookieAuth` | the tabs of a browser, cookies, CSRF tokens, the cookie auths | `MCCookieAuth` |
| `CookieAuth_proofs` | theorems about it | |
| `ResponseValidation` | what an endpoint documents, and the validator of responses | |
| `EndpointPipeline` | requests in the pipeline of one endpoint | `MCEndpoint` |
| `EndpointPipeline_proofs` | theorems about it | |
| `DocsPage` | a page of the documentation in a browser | `MCDocsPage` |
| `DocsPage_proofs` | theorems about it | |

An operator marked `fault:` is a plausible bug. It is not part of any
specification; substituted for the definition after it, it breaks the property
`PROJECT.json` names ("mutants"), which shows that the property does depend on
that piece of code.

### Throttling

`ThrottleAlgorithms` splits `access()` into what it computes (`Prepared`), what it
checks (`Admits`) and what it returns for storage (`Charged`). A throttle is a
record `[algorithm, max, duration]`.

In `DjangoCacheThrottle` a worker is a thread or a task. `pc[w]` follows
`SyncThrottle.__call__` / `AsyncThrottle.__call__`:

| action | code |
|---|---|
| `Arrive`, `Pass`, `Respond` | the loops over throttles in `Endpoint._run_checks`, and the answer |
| `Skip` | `full_cache_key` returns `None` |
| `Acquire` | `with lock` / `async with lock` (the lock of that Endpoint object) |
| `Get` | `_DjangoCache.get`; an expired entry is `None` |
| `Grant`, `Reject` | `algorithm.access` returns or raises; it reads the clock itself |
| `Store` | `_DjangoCache._set`, with `timeout=duration`, and the release of the lock |
| `FailWaiting`, `FailGet`, `FailStore` | a cache error or a cancellation at each await |

Time may pass (`Tick`) between any two of them. The history variables `admitted`
(per key, the requests admitted at or after each second) and `charged` (per
endpoint, the charges it has stored) are read by properties only.

`incr` says of itself "It is not atomic, but this is fine". `AtomicThrottle` is what
it is worth under the lock: a request is admitted and charged, or rejected, in one
step, on one object per key that never expires. A rejection looks at the object as of
now; an admission as of a second which may be past (the algorithm reads the time
before the write), but not before any admission or charge that it counts. A request
that fails may have been charged. `DjangoCacheThrottle` instantiates it as `ABS`: the
object is the stored entry, expired or not, and a request waits from its arrival until
its write (`Atomic == ABS!ThrottleSpec`). This holds with `UniqueKeys` only.

### Throttling on Redis

A script is one action (Redis runs it at once), so the lock of the endpoint, which
orders what Redis orders anyway, is left out, and one key is enough: keys do not
touch each other. Time counts ticks, `PerSecond` of them to a second, because the
scripts read `TIME` and `TTL` in whole seconds while a key expires at an instant.
`SimpleWrite` and `LeakyWrite` are the two scripts with `view_only` 0. `Lose` is a
connection that breaks before or after the script has run. The worker computes the
headers later, with `int(time.time())` of its own host (`HostSecond`, `Skew`),
although the scripts are commented "no Python <-> Redis skew": what they keep free
of skew is the stored state, not the headers.

What the model shows, beyond its properties:

* `Retry-After` may be up to one and a half seconds too short, and by the lead of
  the host's clock. Over a Django cache it is exact (`RetryAfterSuffices`).
* A request rejected near the end of its window may be told `Remaining` = max and
  `Retry-After` = duration, because its host sees the window as over.
* `ThrottlingReport` on a window that has ended calls the script on an absent key:
  `current` is nil, comparing it fails, and the request ends with an error after
  its method has run (`broken`).

### Streaming

One response. `fetch` is the `_next_event()` in progress: a task of its own with
pings, the handler's own await without. `timer` is `ping_task`, `server` the ASGI
handler, `source` the application's iterator. `conf.script` says what the iterator
does each time it is resumed: an event, an event the validator refuses
(`invalid`), one that cannot be rendered (`unserializable`), an exception
(`error`) or `StreamingCloseError` (`close`); after its last element it is
exhausted. A disconnect is possible before the first pull, while the handler waits
and while it sends; what it does to the iterator differs with and without pings
(`CancelSource`, `CloseGenerator`).

`EventStream` is the abstract promise: items in order, each once, an error event
where the controller has a handler, an end that is final. `Streaming` instantiates
it as `ABS`, with a crash in `aclose()` seen as one more disconnect, and checks
`Delivers == ABS!StreamSpec`.

### Opaque tokens

`row[t]` is the database row, `seen[w]` the instance `get_token` returned to
request `w` (with `user.is_active`, joined by `select_related`). `GetToken`,
`Check`, `UpdateUsed` and `MarkUsed` are the steps of `authenticate`: the query, the
checks of the token (against the clock) and of its user, `_update_used`, which reads
the clock again, and the UPDATE of the columns in `update_fields`. Time may pass and
rows may change between any two of them, so that `last_used_at` may be a second at
which the token was no longer accepted, even at or after `expires_at`:
`LastUsedReal` asks that some use had been accepted by then. `OpenForm`, `PostForm` and
`SaveForm` are a change form of `TokenAdmin`: the fields as they were shown, the
instance read when the form is posted, and a `save()` of every column.

### JWT

A token is a record of its claims; `issued` holds those that somebody has: the ones
of `create_jwt_token`, from hosts whose clock may be ahead (`Skews`), and `Foreign`
ones that another program signed with the same secret (or not). `req[r]` follows a
request:

| action | code |
|---|---|
| `Receive` | `prepare_token`, or the body of the refresh and verify controllers |
| `Login` | `ObtainTokensSyncController.login` |
| `Decode` | `jwt.decode` and the required claims: 401 |
| `Construct` | `JWToken.__post_init__`, which reads the clock again: `ValueError`; then the type that refresh and verify ask for |
| `GetUser`, `Check` | the user's row; `is_active` of that instance, and the query of the blocklist |
| `Owner`, `GetEntry`, `CreateEntry`, `GetAgain` | `blocklist()`: the user again, and the steps of `get_or_create` |
| `IssuePair` | the response of a login or refresh |
| `SetStatus`, `Unblock` | the admin |

Dead is what should keep a token out at its arrival (`late`): the properties ask
that it still does at the end, although every step looks at another piece of state
at another time. Modelling it showed:

* The refresh and verify controllers never consult the blocklist: a refresh token
  goes on working there after a logout, even if it was blocklisted itself. The auth
  does not look at a token's type, so that a refresh token opens endpoints as well.
* Not every token that should not be accepted is answered with 401. The docs
  say of the verification "On any validation failure it returns `401
  Unauthorized`" (`docs/pages/auth/jwt.rst:262`), and the docstring of `decode` that it
  raises `NotAuthenticatedError` "If the token is invalid"
  (`dmr/security/jwt/token.py:215-216`). The code disagrees: `__post_init__`
  (`token.py:77-103`) raises a `ValueError` that neither the auth nor the controllers
  catch (`Crashes`), so that the request ends with an error of the server
    * for an empty `sub`,
    * for an `iat` in the future, which `jwt.decode` lets pass within the leeway or
      with `verify_issued_at=False`: the leeway is not applied to `iat` there,
    * for an `exp` in the past (beyond the leeway) with `verify_expiry=False`,
    * for an `exp` that passes between the check of `jwt.decode` and its own.

  No property excuses these cases, and none calls them right: `DeadStaysOut` covers
  them as far as it goes (such a request does not get through either), and
  `LogoutsDoNotCollide` is about requests that have been let in.
* A token without `jti` cannot be blocklisted: `blocklist()` ends with an
  `IntegrityError`.

### Cookie auth and the API pages

`jar` is the browser's cookies, `page[t]` what a tab shows, `exchange[t]` the
request it has sent and the answer that is made for it. `Render` is a page of the
OpenAPI views (`ensure_csrf_cookie`); `Mounted` is its `init.js`; `Call` is a request
of the page, with the token that was rendered into it if the tool is Swagger UI;
`LookUp`, `EnsureCsrf` and `Serve` are the auth: a session asks for the user first, a
cookie with a token checks CSRF first. `CallsExplained` does not depend on that order. `quiet` is the history that
`QuietPageWorks` needs: pages that arrived while nothing else that sets a cookie
was under way, and no login has been answered since.

* Swagger UI sends the token of its page. A login, also one tried out from that very
  page, replaces the secret and makes every open page stale until it is loaded
  again; of two first visits at the same time one page is stale from the start.
* Scalar and Stoplight are not given an interceptor: their unsafe calls with a
  cookie always end with 403.
* The order of the two checks is not the documented one.
  `docs/pages/auth/django-session.rst:46` says "We automatically enforce CSRF checks
  before any other actions are taken". The code asks for the user first
  (`dmr/security/django_session/auth.py:128-137`), so that the next auth gets its
  turn when there is none ("It is important that we first can skip auth with no
  `user`, see #1289"): a request without a live session and without a token is answered
  401, or by another auth, where the documentation leads to expect 403. The
  model follows the code; the properties hold for either order.

### Documentation pages

An action is one task of the browser's event loop; `mutated` makes the observer of
the theme run before the next one. A text is the sequence of its lines. The page
(`Pages`) is what the Sphinx extensions generate. `overlapped` is history.

* A button that is copied again within the 1.8 seconds of its status keeps the
  status for ever: `old` is then the status. `TooltipsReturn` excepts just these
  blocks.
* Two charts with the same content get the same id (a hash of the content), so that
  the second one stays empty; `ChartsFollow` says so.

### Endpoint pipeline

`ResponseValidation` builds the responses an endpoint documents from its metadata
(`Responses`: what is declared, and what components, renderers, auth and throttles
offer, the first offer for a status winning) and gives the exception class that
`validate_response` and `validate_modification` raise (`ResponseFault`,
`ModificationFault`). Headers and cookies are one set of parts. A body is the
model it conforms to. What reading it back raises is `ParseFault`: the parser of
another type cannot read it, the one of a `FileRenderer` is not implemented, and the
one of a form reads the form of the *request* (which may be unreadable) and returns
nothing (`Parsed`). A status that is none of `HTTPStatus` and a response without a
`Content-Type` are among the inputs.

In `EndpointPipeline`, `ep` is the endpoint's metadata, chosen initially, and
`pc[r]` is where a request is:

| action | code |
|---|---|
| `MethodNotAllowed`, `ShortCircuit`, `CallEndpoint` | `Controller.dispatch` and the wrapper around it, a middleware that answers by itself |
| `PassThrottle`, `RejectThrottle`, `FinishThrottles` | one turn of a loop over throttles, before or after auth; the budget is atomic here, `DjangoCacheThrottle` has its steps |
| `NegotiateResponse` | `ResponseNegotiator.__call__`: `__dmr_renderer__`, and for streams the plain renderer of their errors |
| `RunAuth`, `FinishAuth` | one turn of the loop over auths, and its end |
| `ParseRequest`, `CallMethod` | `SerializerContext`, and the user's method |
| `AnswerAPIError`, `EndpointHandler`, `ControllerHandler`, `GlobalHandler` | the two `except` clauses and `handle_error`; `raised` is what a bare `raise` re-raises; `AnswerError` is `to_error`, whose renderer may fail |
| `MakeHttpResponse` | `_make_http_response`: validation, and the answer if it fails |
| `ApplyConverter` | the converter of `wrap_middleware` |
| `Cancel` | `CancelledError` at an await of an async endpoint |

What the method and the handlers return or raise are constants
(`MethodOutcomes`, `HandlerOutcomes`). `passed`, `checked`, `called` and `asked`
are history.

Modelling it showed several places where the code does something other than its
documentation says, or that a reader would not expect. The first is a run
(`pipeline_rejection`); the others follow from the definitions:

* A 429 or 406 raised before a renderer is negotiated is rendered as the first
  type of the settings and then validated. An endpoint that does not list this
  type, whose first parser is the one of a form, or whose second throttle has
  other headers than the first one, answers 422 without `Retry-After`.
* `_make_http_response` catches four classes (`Caught`). Anything else that the
  validator or the renderer of the fallback raises leaves the endpoint past all handlers.
  `EscapesExplained` lists what that can be:
    * `DataParsingError`: the error of a request rejected before negotiation is in a type
      that the endpoint's parsers do not have; or the user's `HttpResponse` has a body
      that cannot be parsed;
    * `RequestSerializationError`: such a body is read back by the parser of a form, and
      the request's own form is unreadable (`dmr/parsers.py:267-268` and `321-322`);
    * `ValueError`: the user's response has a status that is no `HTTPStatus`
      (`dmr/validation/response.py:123`);
    * `KeyError`: it has no `Content-Type` (`response.py:322`), like Django's
      `HttpResponseNotModified`;
    * `NotImplementedError`: a `FileRenderer` has been negotiated. It can render no error
      body and its parser reads none, so that every error after negotiation
      escapes, in `docs/examples/using_controller/file_response.py` as well;
    * what no default handler knows, and the data of an `APIError` that cannot be
      rendered.
* With the parser of a form first, bodies of unlisted types are never validated:
  nothing is read back (`ReadsBack` excludes these endpoints).
* `global_error_handler` says "Or raise *exc* back": its bare `raise` re-raises
  what the controller's handler raised, when that is another exception.
* The data of an `APIError` is rendered inside an `except` clause: if it cannot be
  rendered, no handler is asked.

## Runs and bounds

| run | shows | bounds |
|---|---|---|
| `throttle_quota` | refinement of the atomic throttle, quotas and honest headers under interleaving, errors, cancellation; no path keeps the lock | 2 workers (the third adds no new conflict on one lock), an endpoint with a `SimpleRate` (2 per 2 s) and a `LeakyBucket` (3 per 2 s) throttle, 2 clients of which one is exempt from the second throttle, clock up to 2 s: a window can fill, end and be opened again, an entry of either throttle can expire, and the bucket's level is not divisible by its rate |
| `redis` | quotas and headers of both scripts | 2 workers of which one has a clock two thirds of a second ahead, thirds of a second, 2 per 3 s, nearly 5 s: a window ends and another one follows, a bucket leaks and fills |
| `throttle_shared_key` | finding: default operation ids make endpoints share a key | 2 endpoints |
| `streaming` | refinement, clean-up, keep-alive, termination | every script of up to 3 items, 4 handlers, pings on and off |
| `stream_disconnect` | finding: `RuntimeError` on disconnect | scripts of up to 2 items |
| `token_auth` | revocation, expiry, deletion, deactivation against two requests and an open form | 1 token, 1 user, 2 requests, 1 form, clock up to 1 s: both orders of any two of these events |
| `token_lifecycle` | finding: a stale form revives a revoked token | as `token_auth` |
| `jwt` | dead tokens stay out, logouts hold and do not make each other fail | 2 requests of every kind, 1 user, 4 foreign tokens (another issuer's, one without `jti` from the future, an empty subject, a forged one), 1 pair issued 1 s ahead, leeway and lifetimes 1 s, clock up to 2 s: both expire, within the leeway and beyond it |
| `session` | CSRF tokens of pages, reasons of 401, 403 and 200 | 2 tabs with any tool, a session or a JWT cookie, 3 secrets, 2 logins: both first visits at once, a login from either tab, a dead cookie |
| `docs` | whole copies, labels, tooltips, charts | 2 blocks, with and without line elements, 3 figures of which 2 are equal, 4 copies: a button is copied again while its status is shown |
| `pipeline` | the checks guard the method and the credentials, validated responses are as documented, handlers are asked in order, rejections keep their status where they can, negotiated types, what may escape, every request ends | 12 endpoints that differ in throttles, auth, renderers (one has a `FileRenderer` only), parsers, handlers, streaming, validation, middleware; 5 `Accept` headers; 21 outcomes of a method, among them a status that is no `HTTPStatus` and a missing type, 5 of a handler. 2 requests where the endpoint has throttles (the only thing requests share; limits are 1 and 2), else one |
| `pipeline_rejection` | finding: 429 and 406 are lost to 422 | the endpoints of two examples of the documentation |

Symmetry is used over requests and tabs, and only in runs without liveness. A streaming
response really ends, and so does a request of the pipeline: their runs do not check for
deadlock; every other run does. `MCEndpoint` keeps the second request of an
endpoint without throttles out of `MCNext`; the proofs are about `Next`.

## Fairness

* Throttling (`Answered`): weak fairness of each step of a worker that has
  something to do (threads and tasks are scheduled, and the cache answers with a
  result or an error), strong fairness of `Acquire`. `asyncio.Lock` wakes waiters
  in order; for `threading.Lock` it is the assumption that no thread is passed
  over for ever. Neither arrivals nor time need happen.
* Streaming (`KeepAlive`, `Finishes`): weak fairness of what the event loop does by
  itself: start a task, fire a timer, return from `asyncio.wait`. Nothing is
  assumed about the application or the client; `Finishes` takes their fairness as
  a hypothesis.
* Pipeline (`Answered`): weak fairness of the steps of each request. Django runs
  every view that it has started, and no step waits for another request.

## What is proved

For every value of the constants that satisfies the named assumptions.

`DjangoCacheThrottle_proofs` (from `ConstantsAssumption` and `KeyAssumption`: rules
have positive `max` and `duration`, `None` is none of the other values; the theorems
but the first one take `UniqueKeys`, distinct operation ids per method, as
hypothesis, which `throttle_shared_key` shows to be necessary):

* `TypeCorrect`.
* `WindowQuotaHolds`, `BurstBoundHolds`, `LeakyBoundHolds`: none is inductive. The
  strengthening says who holds a lock (mutual exclusion: a worker past `Acquire`
  is the owner), that what such a worker has seen is still what the cache holds or
  has expired since, that what it is about to store is what the algorithm returns
  for it, and, per key, how `admitted` is bounded by the object in the cache at the
  time it describes, whether or not the entry is still live.
* `ExpiryUnobservableHolds`: from the relation between the time in an object and
  the expiry of its entry.
* `AtomicHolds`: the refinement of `AtomicThrottle`. To the quota's invariant it adds
  that nothing is admitted later than now, and that a worker about to write holds
  what the stored entry, as it still is, becomes by an admission as of its second
  (`CommitInv`). Then a write is `Admit`, a rejection `Refuse`, any failure
  `Abandon`, and taking the lock, reading and deciding are stutters.
* `RetryAfterSufficesHolds`, `RemainingHonestHolds`: both are about the arithmetic of
  the algorithms on objects that the type invariant allows; the leaky bucket needs
  the bounds of `CeilDiv` and integer division.
* `RejectedByOwnTrafficHolds`: by an invariant that bounds what the object of a key
  holds, and what a worker is about to store, by the charges of the endpoint.

`RedisThrottle_proofs` (from `ConstantsAssumption`: positive rules, at least one tick
a second, any skew):

* `TypeCorrect`.
* `QuotaKeptHolds`: the strengthening says that the deadline of a window is one
  duration after its first request, that the counter never rests above max, and
  that an expired bucket would be empty by now; and bounds `granted` for each
  interval that began in this window or before it, or by the level and its leak.
* `HeadersTruthfulHolds`: what a worker waiting to build its headers knows about the
  state its script met; the rest is rounding (`Rounding`, `CeilingFacts`).

`JwtAuth_proofs` (from `ConstantsAssumption`):

* `TypeCorrect`.
* `DeadStaysOutHolds`: a reason in `late` is still true of the state (`Standing`), and
  each step that has been taken would have seen it (`Passed`).
* `LogoutHoldsAlways`: inductive with the types; it rests on `jti` being unique.
* `LogoutsDoNotCollideHolds`: a request that fails while its token is constructed has
  not been let in (`Reached`); for the others, by what a failed insert implies for the
  second look of `get_or_create`.

`CookieAuth_proofs` (from `ConstantsAssumption`), one invariant for all three:
`TypeCorrect`; `CallsExplainedHolds`, from what is known of a call at each step of
its auth; `QuietPageWorksHolds`, from the fact that, while a page is quiet, every
page that is under way sends the same secret back.

`DocsPage_proofs` (from `ConstantsAssumption`), one invariant for all three:
`TypeCorrect`; `CopiesWholeHolds`, since what is written is fixed at the click;
`PageSettlesHolds`, which needs that a block which is not overlapped has at most one
timeout, with the tooltip of the page, and that the charts drawn are those of the
figures parsed.

`TokenAuth_proofs` (from `ConstantsAssumption`, `RowAssumption`):

* `TypeCorrect`.
* `RevocationKeptHolds`: by an invariant over rows alone, since no write of a
  request touches `revoked_at`.
* `InstantRevocationHolds`: what a late request has seen stays unacceptable; an
  expiry date stays in the past because the clock does not go back.
* `LastUsedRealHolds`: a request past its checks has a use on record that is not later
  than the clock, hence not later than the second that `UpdateUsed` reads; the date
  a request is going to write, and the one an open form is going to write back, have
  such a use.
* `DeletedStaysDeletedHolds`: an action property. Of the steps that write rows only
  the `save()` of a change form can give a deleted token a row again (`RowReturns`):
  it writes every column, while the writes of requests are updates.

`Streaming_proofs` (from `ScriptAssumption`: an exception is the last item of an
iterator):

* `TypeCorrect`, `OneAheadHolds`, `SettledHolds`: one invariant. Its first half
  (`InOrder`) relates the position of the iterator, the fetch in progress and what was
  delivered: the iterator is one item ahead exactly while a finished task holds that
  item's answer. Its second half (`Phased`) says which of task, timer and iterator
  can be at work while the handler is where.
* `DeliversHolds`: the initial states are the same, and each step is one of
  `EventStream` or a stutter: `TakeEvent` with pings, and `Produce` without, hands over
  or ends the stream (`HandOverDelivers`), a disconnect aborts it, and every other
  step, pings included, leaves the mapped variables alone.
* `ExactHolds`: what the promise of `EventStream` comes to, from its steps alone: what
  was delivered are the first items with their answers, and the stream ended or
  failed at the item that does so.

`EndpointPipeline_proofs` (from `StatusAssumption` in `ResponseValidation`: the statuses of
the framework's errors are members of `HTTPStatus`; and from the assumptions on
endpoints, the default renderer, `Accept` headers and outcomes in
`EndpointPipeline`), for any number of requests:

* `HandlersInOrderHolds`: by an invariant that says, at each step of error
  handling, which handlers have been asked so far.
* `SoundResponseHolds`: the strengthening follows a response to its maker. Past
  negotiation the renderer is one of the endpoint's (`NegotiatedListed`); what is
  about to be validated was made by the user or by `to_error` and is rendered
  already unless it is raw; and what waits for the converter or is sent has been
  let through by the validator, whose two lemmas (`ValidatedIsSound`,
  `BuiltIsSound`) say that this makes it sound, or is the fallback.
* `GuardedHolds`: the invariant says what being at a step means: inside a loop over
  throttles the ones before `index` have let the request through, after it all of
  them, past negotiation there is a renderer, past auth a user.
* `BruteForceBoundHolds`: that invariant, and that the requests which a throttle
  has let through are no more than it has counted, and that no more than its limit.
  `AtomicHolds` is what justifies that a throttle is one step here, and
  `WindowQuotaHolds` that it is a budget, for a `SimpleRate` on the Django cache.
* `TypeCorrect`: most of it says that every response and exception is made of parts
  that exist, whatever the user's code returns.
* `StatusKeptHolds`, `NegotiatedTypeHolds`, `EscapesExplainedHolds`: by `OriginInv`,
  which follows a result to its maker: what is about to be validated is a response of
  the user, or was made from an `APIError`, or by the global handler from an exception
  that it formats (`MadeBy`); and it says which renderers the request has by then.
  For `StatusKept` the declared statuses have to be unique, so that the specification
  the property names is the one the validator looks up. For `EscapesExplained` each class
  that `_make_http_response` does not catch is traced to its cause (`FaultExplained`):
  a body that cannot be read back to the user's own response or to a content type that no
  parser of the endpoint reads (`UnparsableExplained`), an error that cannot be
  rendered to the `FileRenderer` that was negotiated (`FileErrorExplained`).

Of the assumptions of `EndpointPipeline` the code enforces some when it is imported: a
status is declared once (`_validate_unique_responses`,
`dmr/validation/endpoint_metadata.py:79-95`), one renderer at least does not stream
(`dmr/negotiation.py:154-164`), the modification is declared. What Python's types
say of an exception is `ExceptionType`. Others describe how the package is used and are
not enforced: only streaming controllers have renderers that stream, no renderer
writes the type of a form, the first renderer of the settings renders errors
(`RendererAssumption`), and renderers and parsers raise only what `ResponseValidation`
says. What may well differ between applications is a condition of `PassesValidation`
instead, such as that the default renderer of the settings is one of the endpoint's.

Only model-checked: `Answered` (of the throttle and of the pipeline), `KeepAlive` and
`Finishes`. They are liveness under fairness, out of the prover's reach. Every other
property of a passing run is a theorem. `RejectedByOwnTraffic`, which
`throttle_shared_key` shows to fail for shared keys, is a theorem for unique ones.

## Simplifications

* Throttling: the history list of a cached object has one element; the names of
  backend and key classes in the key are fixed; eviction from a full cache, a write
  that lands after its request was cancelled, a clock set back and several event
  loops are not modelled (see the hazards). One clock serves all processes.
* Redis: `redis-py` may send a script again after a timeout; that request is then
  counted twice, which is stricter than the quota. `Lose` covers a script that ran
  without its reply.
* JWT: one secret, audience and issuer (`signed` stands for all three, and for a
  signature); `nbf` is left out; `fromtimestamp` of a huge number raises an
  `OverflowError` that is not caught; a database that is down is not modelled.
* Cookie auth: `CSRF_USE_SESSIONS`, the checks of `Origin` and `Referer`, and
  controllers with `csrf_exempt=False` are left out. The cookies of tokens are set
  by a login of the application, which `dmr` does not have. The schemes "jwt" and
  "token" take the same path.
* Documentation pages: `syncToggleBackground` is layout (it runs only once, so that
  a toggle keeps its background when the theme changes); so is the case that the
  scripts run after the page has loaded, which their `<script>` tags exclude. The
  script of Chart.js runs before `DOMContentLoaded`, or is blocked.
* Streaming: the clean-up code of an iterator, the awaits of `handle_event_error`
  and sending are single steps; iterators without `aclose` and the WSGI iterator of
  development mode are left out.
* Pipeline: the requests are those of one client within one window, so a throttle
  has one budget; the settings' global error handler is the default one; a
  streaming response counts as sent when it is returned (`Streaming` has the rest);
  conditional types of one body and cookies' attributes are left out.
* Tokens: `updated_at`, names and hashes are left out; a hash identifies its token.
  The staff leave the other fields of a form as shown.

## Not modelled

* Formatting and parsing by `pydantic` and `msgspec`, SSE and JSON lines, problem
  details, OpenAPI generation, translations: conversions without state. Where their
  failure matters (a body that does not parse, an event that does not render) it is
  an input of a model.
* The parsing of `Accept`: one function of a header and a list, whose result
  `EndpointPipeline` takes as given. Types with wildcards, such as the default `*/*` of
  a `FileRenderer`, are left out with it: a renderer's type is the one it negotiates.
* Merging of metadata over the levels, settings and routing: done once at import.
  The endpoints of `MCEndpoint` are what it results in.
* HTTP basic auth is stateless. The session auth of allauth calls another package,
  and adds no CSRF check of its own.
* The bundles of Swagger UI and ReDoc under `dmr/static/` are minified third party
  code.
* Test helpers and management commands.

## What is next

1. The choice of a media type as an operator, compared with a reference definition
   over bounded `Accept` headers.
2. Merging of metadata over the levels.
