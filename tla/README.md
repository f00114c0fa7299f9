# A TLA+ verification project for go-actions

go-actions (package `actions`) turns typed Go handlers into an HTTP API: an
*action* is a method, a path, a request type and a handler. A *registry*
collects actions, checks them when it is frozen, generates an OpenAPI document
from their types, and serves them behind a chain of middleware, one of which
makes retries safe with an `Idempotency-Key` header.

This directory holds TLA+ modules translated from that code, the TLC
configurations that check them on small instances, and theorems with proofs
checked by TLAPS. Source references are to the Go files of the repository.

## 1. The system

| Component (files) | State it keeps | Operations | Interacts with |
|---|---|---|---|
| **Idempotency-Key step** (`idempotency.go`) | none of its own: per request, where it is in `ServeHTTP`, its token, the captured response | parse the key, fingerprint the request, look up, claim, look up again, run the handler, save, release | every request goroutine of the action, in any number of processes, through the store |
| **Store contract** (`idempotency.go:22-68`) | claims and saved responses per key | `Lookup`, `Claim`, `Save`, `Release` | the key step calls it; an application may supply its own |
| **In-memory store** (`idempotency_memory.go`) | two maps of entries with expiries, a mutex | the same four, each sweeping or reading by the clock | implements the contract for one process |
| **Declaration check** (`declare.go`, `fields.go`) | visited types, enclosing inlined structs, problems found | walk a request and a response type when the registry freezes | runs before schema generation and must protect it |
| **Schema generation** (`schema.go`, `fields.go`) | interned components of two modes | recurse over a type, intern components, merge request and response schemas | called by Freeze for every action |
| **Registry life cycle** (`action.go`, `options.go`, `openapi.go`, `index.go`) | actions, the frozen flag, the generated documents, a `sync.Once` | `Register`, `Freeze`, `Handler`, `OpenAPIYAML`, `OpenAPIJSON` | called from start-up code and from requests, on any goroutine |
| **Request pipeline** (`middleware.go`, `action.go`, `errors.go`, `encode.go`) | per request: status recorded, observed error, context and deadline | observe, recover, time out, cap the body, run own middleware, key step, typed handler, write the answer or the error | wraps every handler |
| **Validation engine** (`validate.go`) | a compiled plan per type, cached; per request a stack of path segments and the failures so far | compile, mark what leads to a rule, prune the rest, walk a value | compiled at Freeze, used by each request after it is bound |
| **Request fields** (`fields.go`) | none | which fields a client can set, from the body and as parameters | read by the check, the builder, the validator and the binder, which must agree |
| **Decoding and binding** (`decode.go`) | none | body, path, query and headers into the request struct | called by the typed handler |
| **Standalone schemas** (`standalone.go`) | the types given a name | check a type, find the types that hold themselves, build | uses the check and the builder |
| **Enums, annotations, pagination, raw bodies, security, index** | data only | carried into the document | no behaviour over time |
| **actionstest, foundationx, examples** | none | helpers, an error adapter, programs | outside the library's core |

What makes each correct, and what is hard about it:

* **Key step.** One handler at a time per key; a finished request is never run
  again; a replay is only ever the response of the same request; a key is
  freed whatever the handler does. Hard because four store calls and a handler
  of unbounded length interleave with other requests, claims run out under
  their holder, clients leave, calls fail after taking effect, and processes
  die with a key in hand.
* **Store.** A claim or a response ends only by its own release, replacement or
  expiry, for every order in which calls get the mutex. Hard because `Claim`
  and `Save` read the clock *before* they wait, so sweeps use stale readings.
* **Declaration check and schema generation.** What the check lets through, the
  builder can finish; what it refuses is really endless, or would be but for an
  `openapi` tag. Hard because a visited set and a set of enclosing structs interact on a graph with cycles, and the
  recursion that breaks when they disagree is in another file.
* **Registry.** The documents describe the actions served; callers on other
  goroutines see all of a freeze or none of it; a freeze that panics leaves
  something sensible. Hard because of the panics in the middle, and because
  some readers skip the mutex.
* **Pipeline.** One status per request, the one the observer reports; a timeout
  is a 504 only when it is. Hard because a panic, a deadline and a response
  half written may coincide.
* **Component split.** Exactly the components whose two schemas differ, or lead
  to one that does, are emitted twice, and every reference leads to the schema
  of its own mode. Hard because the marking is a fixpoint over references with
  cycles, scanned in map order.
* **Validation.** Every rule of a request is checked, at every depth, and each
  failure names its own value's path. Hard because the plan is a graph with
  cycles that is pruned by a fixpoint, and because the walk shares one stack of
  path segments.
* **Request fields and binding.** The fields are the ones `encoding/json`
  honours, each checked once, under the name the client used; a request is
  bound as it was sent, or answered for the first thing wrong with it. Hard
  because promotion through embedded structs has its own rules of dominance,
  and a field may come from the body and from a parameter.

`PROJECT.json` lists every hazard found, at its line, with the properties that
cover it.

## 2. The modules

| Module | Models | Composes |
|---|---|---|
| `IdempotencyStore` | the contract: what a key step may rely on from any store | - |
| `MemoryIdempotencyStore` | `idempotency_memory.go` | refines `IdempotencyStore` |
| `KeyStep` | `keyStep.ServeHTTP` and what it calls | runs on the actions of `IdempotencyStore`; refines `OncePerKey` |
| `OncePerKey` | what `WithIdempotency` promises a client | - |
| `TypeWalk` | the declaration check's walk and the schema builder's recursion (of a document, or of `SchemaFor`), one after the other, over one type graph | - |
| `ComponentMerge` | the split of components between requests and responses, and the retargeting of references | - |
| `Validation` | the plan of a request type, its pruning, and the walk of a request along it | - |
| `EveryRule` | which failures a request has, read off its type alone | extends `Validation` |
| `KeyHeader` | the parser of an `Idempotency-Key` value and the store key's hash input | - |
| `RequestFields` | the fields of a request type, the ones the validator checks, and the binder | - |
| `Reading` | reads one header, type or request, and compares with a reference | extends `KeyHeader`, `RequestFields` |
| `Registry` | `Register`, `Freeze`, `Handler`, `OpenAPIYAML`, `OpenAPIJSON` and what they call, from several goroutines | - |
| `Pipeline` | one request through the chain `wrapAction` builds and the router's backstop | - |
| `MemoryIdempotencyStore_proofs`, `KeyStep_proofs`, `TypeWalk_proofs`, `ComponentMerge_proofs`, `Validation_proofs`, `Registry_proofs`, `Pipeline_proofs`, `Reading_proofs` | theorems | extend their module (`Validation_proofs` extends `EveryRule`) and `TLAPS` |
| `MC*` | symmetry sets and instances for TLC | extend one module each |

Because `KeyStep` only uses the actions of `IdempotencyStore`, and
`MemoryIdempotencyStore` implements that module, what is shown of the key step
holds over the in-memory store and over any other that keeps the contract.

### IdempotencyStore

State: the token that holds each key, the response saved under it, and two
history sets, the tokens and the responses that ended because their TTL ran
out. Time itself is left out: `Expire` may happen at any moment. The history
sets are what gives the contract its teeth, since an implementation can only
end a claim by `Release` with its token or by recording that it ran out.

`LateClaim` and `LateSave` exist because of one thing the implementation does:
the TTL counts from the clock reading a call *started* with. A call that waits
for the mutex longer than its TTL is told it holds the key, and does not. They
take effect and run out in one step.

### MemoryIdempotencyStore

A call is made (`Invoke`: its arguments are fixed, and `Claim` and `Save` read
the clock, `idempotency_memory.go:57,71`), and later gets the mutex and takes
effect in one step (`Lookup`, `Claim`, `Save`, `Release`), sweeping both maps
where the code does. `Tick` is time; entries past their end stay in the maps
until a sweep, as in the code. A call doubles as the token it returns and as
the response it saves: tokens are random, and the store never looks inside a
response. Cloning of saved responses is left out, the state being immutable
here. The clock never goes back (Go's `Time` carries a monotonic reading).

The refinement maps each key to the entry in force *now*, so a sweep is a
stutter exactly when it drops nothing in force.

### KeyStep

One action per store call, per handler start and end, and per fault. `pc`
follows `ServeHTTP`:

| `pc` | Where | Leaves by |
|---|---|---|
| `new` | before the key is parsed | `Refuse`, `RunKeyless`, `Accept` |
| `lookup` | first `answer` | `Lookup` |
| `claim` | `store.Claim` | `Claim` |
| `recheck` | second `answer`, the release deferred | `Recheck` |
| `ready`, `running` | the handler | `Start`, `Finish` |
| `save` | `save`, after the answer went out | `Save` |
| `release` | the deferred `release` | `Release` |

`Faults` says what may go wrong in an instance: a claim's TTL runs out
(`lapse`), a kept response's does (`forget`), a store call fails with or
without having taken effect (`store`), a request's context is cancelled because
the client left or the action timed out (`leave`), the process dies (`crash`).
`Lookup` and `Claim` fail once the context is cancelled; `Save` and `Release`
run detached from it (`context.WithoutCancel`), and the model keeps that
difference. Key and fingerprint are opaque: two requests have the same ones or
not. Which header is well formed is one nondeterministic choice (`KeyHeader`
models the parser by itself), and so are the handler's outcomes: a 2xx that fits, a
2xx too large to keep, an error, a panic.

Handler start is a step of its own so that a claim may lapse between the second
lookup and the first statement of the handler.

### OncePerKey

The promise with no store in it: per key the requests whose handlers run and
the response it replays, and per request the response it was replayed. `Begin`
needs nothing running and nothing kept; `Complete` and `GiveUp` end a run;
`Replay` answers a retry of the same request; `Forget` is the response's TTL.
`Void` is the one way out: once a claim on a key has run out, nothing is
promised for it, since a handler that outlives `InFlightTTL` may be joined by a
retry. The refinement hides what happens under a void key and nothing else, so
failing calls, crashes and clients that leave are all within the promise.

### TypeWalk

Types are nodes of three kinds. A *component* is an exported, named struct and
is referred to by `$ref`; an *inlined* struct is any other and its schema is
written where it is used; a *container* is a slice, an array or a map. The
initial states are all graphs within the bounds. The checker's recursion
(`declare.go`: `value`, `structFields`, and their `seen` and `inlining` sets)
and the builder's (`schema.go`: `schemaFor`, `structOrRef`, and its placeholder
components) are explicit stacks; each frame carries the `inlining` set its
deferred restore puts back. `overridden` marks fields whose schema is given by
an `openapi` tag, which the builder does not descend into and the check does;
so a struct may refer to itself through such a field only and be refused though
its schema ends. `RefersToItself` counts what is written, `TaggedOnCycle` the
fields that are not, and `RefusalJustified` says that there is no third reason.
`Overflow` is where the builder would exhaust its goroutine's stack: a depth
at which some type must have repeated with no component between.

`checkAction` walks the request struct and then the response body, if there is
one (`CheckResponse`): `seen` goes on, `inlining` starts empty, because the two
schemas are built apart. A response the request leads to is not walked again.

An accepted declaration is built in one of three ways: the request's schema, the
response's, or a standalone one (`schema`). The two of a document refer to every
component by name; only the response's own may be one of them. `SchemaFor` (`standalone.go`) refers only to the types that
hold themselves, which it finds with walks of its own (`reachableTypes`,
`holdsItself`) before the builder runs: `named` is that set, empty of all other
components, and the root is among `built` from the start if it is in it.

### ComponentMerge

A name has a schema in each mode that interned it: its keywords, opaque, and
the names it refers to, which are the same in both modes because both see the
same fields. `Look` is one iteration of `modesDiffer`'s loop over a map, in any
order, `ScanEnds` the decision to go round again, and `Emit` builds the
document. `<Name>Input` may be a component of the application's own, in which
case `Panics`.

### Validation and EveryRule

One behaviour compiles a type, then checks one value. Compilation is
`nodeFor`'s recursion with its placeholders (`NodeFor`, `Reuse`, `Built`),
`resolveLiveness` (`Mark`, `PassEnds`) and its pruning (`Prune`). `Decode`
chooses any value of the type within the bounds, and the walk is an explicit
stack of `check` calls (`CheckField`, `CheckElem`, `CheckReturns`) with
`walker.segs` beside it: a segment knows its parent's index, and a return pops
what its caller pushed. `Hook` is the request's own `Validate`.

A scalar is zero, or keeps the rules on it (good), or breaks them (bad). All
rules but `required` are one rule `check`; an enum's is `enum`. `EveryRule`
reads the failures off the type and the value by recursion and knows nothing
of plans, segments or pruning: `Places` are the values within a request, each
with its path and the rules on it, and `Broken` joins what fails at each,
parts in order and each before what is within it.

### KeyHeader, RequestFields and Reading

Pure functions, translated as operators. `KeyHeader` tells apart the six kinds
of character the parser does. `RequestFields` has `jsonFields`' breadth-first
rounds with the count of each struct at a depth, the copies that make an
ambiguous name conflict, and the order in which one field beats another;
`paramFields`; the union of both that `compileValidator` checks; and the
binder: the body, in strict mode or not, then each parameter in turn up to the
first failure. `Reading` compares each with a definition of another shape: the
headers a key may be sent in, all the ways through embedded structs without a
repetition, and what a client sent.

### Registry

The variables are the fields of `Registry` that a call may change. A call is
made (`Call`), waits for `r.mu`, and takes effect; a panic is a return, since
the deferred `Unlock` runs and the caller may recover and go on. `Freeze` is
several steps, with the mutex held from one to the next, because `OpenAPIJSON`
reads `r.openapiJSON` without it: `FreezeSorts` (checks passed, actions
sorted), `BuildOpenAPI` and `Seal`, or one of `FreezeRefuses` and
`BuildRefuses`, where it panics before or after it sorted. While the slice
header is written its value is `Torn`, and a read that races with the write
may see the old header, the new one or a mix. `sync.Once` is its three states.

A document is the sequence of the actions it describes, and a handler is its
routing table: actions in order, then the three self-documentation routes.
What one declaration may be refused for is the bit `sound`; the checks that
compare two declarations (same ID, same mounted route, two types under one
component name) are modelled. `Pattern` and `Serves` are chi: parameters match
whatever their names are, and the last handler added for a method on a node of
its tree stays.

### Pipeline

Control is in a layer (`at`) and on its way in, on its way out, or unwinding
(`going`); meanwhile the context may end, by a deadline or because the client
left, and stays what ended it first. The deadline (`setup.timed`) is that of the
action's `Timeout` or one that a middleware around the handler has set: the code
looks only at the context the handler was given, once it has returned an error. A response is a status and a body that
pass through the key step's `replayRecorder` (`Keep`), the observer's
`statusRecorder` (`Record`) and `net/http` (`Send`), each of which keeps what
it keeps: `Record` and `Keep` take the first status before the layer below has
accepted it, `net/http` sends interim statuses at once, ignores all but one
final status, and panics on a code of other than three digits. What the client
gets is `first`, `final` and the number of bodies.

The handler's return and the look at the context after it are two steps, so
that the deadline may pass in between. The action's own middleware is the
application's: it calls the next layer once, perhaps after an interim status,
or answers itself, and may panic or abort on either way; one that writes a
final status and calls the next layer all the same is left out. Errors go
through the default `ErrorMapper`: the framework's keep their status, and a
handler's may ask for any, which is also all a custom mapper could do to it.

## 3. What is checked with TLC

| Run | Bounds | Shows |
|---|---|---|
| `memory_store` | 4 calls, 2 keys, TTLs 2, clock to 4 | claims and responses last as promised for every interleaving of calls, mutex and time; a lookup never returns a stale or a foreign response, nor misses one; each step is a step of the contract |
| `keystep` | 3 requests, 1 key, 2 fingerprints, every fault | one handler per key unless a claim ran out; nothing runs over a kept response; replays and 422s are justified; the whole step implements `OncePerKey` |
| `keystep_live` | 2 requests, 1 key, no store failures | a served request holds nothing; every request is served, and gives up its claim without waiting for the TTL |
| `typewalk` | 3 types, one of them or none a response body, 2 fields each, 1 tagged field | nothing is refused but what holds itself, a tagged field counted in; the walk skips no type, an accepted type's schema is built to its end whenever it has one, no `$ref` dangles, and `$defs` holds exactly the named types that hold themselves |
| `typewalk_escape` | the same, no tagged field | finding 1 |
| `component_merge` | 3 names, one of them another's `Input`, 2 schemas each, any references | exactly the names that have to are split, and a reader of either mode comes to its own schemas |
| `validation` | 2 composite types, 1 scalar, 1 enum; 2 fields in the request, 1 elsewhere; values of depth 2 with 2 elements, at most 7 types deep | liveness is exact on every graph, and a request is answered with every rule it breaks |
| `reading` | headers of 6 characters, keys of 2; 4 structs, 2 fields in the request and 1 elsewhere; 2 parameters with 2 values each | a header is read as the one key it sends; a type has the fields `encoding/json` gives it, each checked once; a request is bound as sent |
| `registry` | 2 goroutines, 3 registrations out of 7 declarations, any number of other calls | the contract is sealed as one, a refused registry stays refused, handlers serve what is documented but for a later twin or an endpoint of the registry's own, the once settles on the frozen document, unlocked reads agree, every call returns |
| `registry_drift` | 2 goroutines, 2 declarations that differ in a parameter's name | finding 2 |
| `pipeline` | every set of layers, 5 statuses of the handler's and 2 of the middleware's: successes with and without a body, errors, interim, refused | one answer, observed as it was sent and once; a 504 only for a late error; what is saved was sent |
| `pipeline_panic` | 3 statuses of the handler's and 1 of the middleware's, none interim | finding 3 |

*Why the bounds are enough.* Keys never interact in the key step (no store
operation touches two), so one key is the general case; three requests are a
holder, a rival, and one that arrives after either, and two fingerprints are
"the same request" and "another". In the store keys interact through the
sweeps, so there are two; four calls are a claim, its release, and two more
that overtake or replace it, and with TTL 2 the clock to 4 lets an entry be
made, end, and be remade and end again. Three types are the smallest graph with
a component or a container between two others on a cycle, which is where the
two sets of the walk may disagree.

Two goroutines are a freeze and a rival; registrations are the only calls that
need a bound, three of them being two that clash and one to sort around them.
The seven declarations clash in every way `Freeze` looks for and in two it does
not (a path that differs in a parameter's name, one of the registry's own), and
one is refused for itself.

The pipeline's statuses are one of each kind the code or `net/http` treats
differently; no other number in it grows.

In `component_merge` three names are a chain or a cycle of references with a
name that differs at its end, one that has to wait for a second scan, and one
that collides with another's `Input`. In `validation` two composite types,
either of them a struct, a slice or a map, may hold themselves and each other,
so that a rule lies behind a cycle, behind a node still under construction, or
nowhere; values of depth 2 reach a second level of segments, and two elements
tell a path from its sibling's. `MaxNest` of 7 cuts no value off: two composite
types, with two pointers or containers in all, nest no deeper. In `reading` a header of six characters is a
quoted key of the greatest length with both characters escaped; of four
structs, two can embed a third at the same depth; a field's name or tag is one
of two; and each parameter may have an empty value before one that fails.

No run checks only what its bounds make easy: each property of a passing run
was seen to fail when a definition of the model was changed the way a bug in
that code would (the operators marked `mutant`).

*Fairness.* In `KeyStep`, `FairSpec` assumes that each request that has begun
keeps moving: goroutines are scheduled, store calls return, handlers end. Nothing forces a
request to arrive, nor a fault to happen, nor a TTL to run out: no request waits
for another one's claim (`ServedEventually`), and a claim whose holder lives is
given up without its TTL (`ReleasedEventually`). The key of a request whose
process died is freed by its TTL and by nothing else; that it is freed then is
the store's to do and would be assumed, not shown, here.

In `Registry` it is strong fairness of each goroutine's own steps, since a
`sync.Mutex` hands itself to a waiter that has starved. No call has to be made.

*Deadlock* is checked in the registry, in the pipeline (`Over` is a request that
has ended) and in the key step (`Idle` is a served system at rest).
The store's instance stops when its calls are used up, and the walks, the
merge, the validation and the readings when they are over, so those runs do not
check it.

### Findings

1. **The self-reference check can be passed by an endless type**
   (`typewalk_escape`). The comment on `structOrRef` says Freeze refuses an
   inlined struct that refers to itself. The walk marks a container as seen
   before it enters what the container holds; met container first
   (`F []node`, with `type node struct { Children []node }`), the struct's own
   reference to `[]node` is skipped as seen and the cycle is not noticed.
   The same happens when a component stands between: entering it empties
   `inlining`, yet what it walks stays in `seen` afterwards, so that
   `s{A C; B t}`, `C{X t}`, `t{Back *s}` passes too. The builder then recurses
   without end. `StructCyclesRefused` shows that without any slice, array, map
   or component the check does what it says.
2. **Two actions may be mounted on one route** (`registry_drift`). The comment
   on `Freeze` says it panics on "two actions routing the same Method and
   path". It compares the mounted paths as strings, so `GET /x/{p}` and
   `GET /x/{q}` pass; chi mounts both on one node and keeps the second. The
   same property fails for an action mounted on `/openapi.json`,
   `/openapi.yaml` or `/_actions`, which the registry's own route replaces.
3. **A recovered panic may be observed as something else than a 500**
   (`pipeline_panic`). The comment on `Observation` says a recovered panic is
   reported as status 500. The recorder keeps the first status, so a panic of
   the action's own middleware after the response is observed with the
   response's status, and the client gets the error's body after the first.
   A response or an error with a status `net/http` refuses (`Response{Status:
   42}`) is observed as 42 while the client gets a 500. `OneAnswer` and
   `ObservedWhatWasSent` say what holds instead.

   An interim status the action's own middleware sends (103 Early Hints) is
   also the one observed, which fits the README ("the first status written")
   and not the comment on `observeMiddleware` ("captures its final status").

One disagreement is kept as an exception in a property instead of a run. The
comments on `Freeze` (`action.go:363-365`) and on `structFields`
(`declare.go:228-230`) say that a self-reference is refused because its schema
would never end. The walk goes into every JSON field, those with an
`openapi:"type=object"` tag too (`declare.go:134`), while the builder takes such
a field's schema from the tag and never looks at its type (`schema.go:309-313`).
So `type node struct { Parent *node }` with that tag on `Parent` is refused,
though its schema ends at once. (The repository README's rule, that a type which
refers to itself has to be named, covers the case; the reason it gives, "instead
of building a schema that never ends", does not.) `RefusalJustified` names this
exception, `TaggedOnCycle`, and shows that there is no other.

Two limits of `WithIdempotency` are not findings, and the models say where they
are. A handler that outlives `InFlightTTL` loses its claim, which nothing
renews, and a retry may run beside it and save over its response: every
property of the key step that needs an undisturbed key says so, and
`OncePerKey` has `Void`. And a `Claim` that fails after the store took it (a
network, or a context cancelled on the way) is answered 503 with no token to
release, so the key stays in use until the claim's TTL ends:
`KeyFreedWhenServed` and `ReleasedEventually` are of requests that got their
token. The in-memory store never does this, since it ignores the context.

## 4. What is proved with TLAPS

For every value of the constants, under the named assumptions of each module
only (`None` is not a request or a call; TTLs are positive; the root is a type,
and there are finitely many; so are a request's structs; parameters' values are
sequences of strings; no two names have one `Input`; no parameter's
segment is the name of one of the registry's own endpoints; bounds are
natural numbers).

* `MemoryIdempotencyStore_proofs`. `TypeCorrect` and `ClaimIsHeld`: the
  invariant is `IInv == TypeOK /\ ReadingsPast /\ HeldUntilReleasedOrExpired`.
  `ReadingsPast` (the reading a waiting call carries is not after the clock) is
  what makes a stale sweep harmless: an entry in force now was in force at any
  earlier reading too, so the sweep keeps it (`SweepKeepsRunning`).
  `ResponseIsKept` is the same argument for responses, with `SavedBySave`
  (what lies under a key was put there by a save on it), and `LooksUpCurrent`
  the action property that follows. `StoreImplements` is the refinement of
  `IdempotencyStore`: `SweepUnseen` says a sweep changes nothing in force,
  `TickExpires` that a tick of the clock is one `Expire` of exactly the entries
  that end with it, and `HistoryPast` that the tokens and responses recorded as
  run out are of calls that are over, so that the contract's fresh-token guards
  hold.
* `KeyStep_proofs`. `TypeCorrect`, `RunsExclude`, `RunsSeeNothingSaved`,
  `NeverRunsAgain`: the invariant is
  `IInv == TypeOK /\ HolderHolds /\ RunsOnlyUnsaved /\ KeptStays`.
  `HolderHolds` says a request between claim and release holds its key or is
  among the lapsed; two holders of one key are then the same request
  (`HoldersDiffer`), which gives `OneRunPerKey`. Nobody else may save on the
  holder's key, so what its second lookup found stays true
  (`RunsOnlyUnsaved`); and a kept response stays where it is until its TTL ends
  or another run saves over it, which `RunsOnlyUnsaved` excludes (`KeptStays`).
  `FinishedNeverRunsAgain` is the action property that follows.
  `AnswersAreJustified` is by
  `JInv == TypeOK /\ KeptIsOwn /\ AnswersJustified`: whatever the store holds
  under a key was kept by a run on that key that wrote its own 2xx.
  `ServedFreesKey` (for instances without store failures) is by
  `ClaimsAreHeld`: a claim's token is a request between claim and release, one
  that died there, or one whose `Claim` failed.
  `Implements` is the refinement of `OncePerKey`, from
  `PInv == IInv /\ KeptIsOwn /\ AnswersOnce`, for any number of requests and
  keys and every fault. One lemma per kind of step says what the promise sees:
  `StartBegins` (nothing runs by `HoldersDiffer`, nothing is kept by
  `RunsOnlyUnsaved`), `GivesUp` and `SaveCompletes` (the run that ends was
  alone, `RunsAlone`), `AnswerReplays` (the request was not answered before),
  `ForgetForgets` (a response lies under its own key only) and `LapseVoids`;
  everything else stutters (`Stutters`).
* `TypeWalk_proofs`: `WalksAllTypes` and `RefusesJustly`, for graphs of any
  size. `Walked` says that a type in `seen` that is not walked to the end has a
  call under way that has walked the fields before the one it is at; when the
  first call is over there is none left, so `seen` is closed; and so it is again
  when the response's walk, which starts from there, is over. `Encloses` says
  that, in every call under way, each struct of `inlining` leads to the call's
  type through inlined types only, tagged fields included; so a refused struct
  leads back to itself, and either its schema holds its own or a tagged field
  leads back too (`CycleOrTag`).
  `TypeCorrect` is by `TInv`, whose point is the bound on the stack: while the
  check lasts there are no more calls under way than types in `seen`.
  `RefusesStructCycles` is by `SInv`: if all types are inlined, what encloses a
  call is the calls before it (`Nested`), so the types seen and not enclosing are
  walked to the end, their fields' types with them (`FinishedClosed`), and hold
  no cycle (`Acyclic`); a call that returns adds a type all of whose fields'
  types are among these (`TopFinished`, `AcyclicMore`). When the walk is over,
  nothing reachable is in a cycle.
  `BuildsEnd` and `ComponentsClose` are by `BInv`: each call is for the type of a
  field of the one before (`Calls`), a type with a name is interned when it is
  called for and has no second call (`Interned`), only what is documented is
  interned (`Needed`), and the types called for so far have all their fields
  settled or a call under way that has settled those it passed (`Covers`).
  When the build is done the latter are closed, hence all that is documented.
  On a stack of the depth where the model gives up, two calls have the same
  type and the same number of named types below them (`DeepRepeats`, by the
  pigeonhole principle; `FewNamed` bounds the number), so there is no named type
  between them, and what is between holds itself inline for ever
  (`DeepIsEndless`). For a standalone schema the named types are those that
  `reachableTypes` and `holdsItself` find, and `WalkIsClosure` says that their
  walks find all: until a round changes nothing, each adds a type
  (`RoundsGrow`).
* `ComponentMerge_proofs`: `MarkingExact` and `DocumentReadsAsBuilt`. The marked
  names are within every closed set (`Least`), and a scan that has marked
  nothing so far has passed only names that are marked or refer to none
  (`Scanned`), so that one that ends unchanged leaves a closed set, whatever
  the map's order.
  `TargetsApart` is why no two request schemas meet under one name.
* `Validation_proofs`, for any graph of request types and values of any size.
  `TypeCorrect` and `MarkingExact` are by the same argument over `c.all`:
  `LiveIsLeast` and `ScannedClosed`.
  `PlanComplete` is by `CoverInv`: a type met by `nodeFor` has no plan only if
  it is a scalar, or is in `c.all`, or has a call under way that will put it
  there, and a call has met the types of all the fields before the one it is
  at. No call is under way when the marking begins, so every type a node leads
  to has one (`Covered`); the marking leaves a closed set of these, and Prune
  does what `Kept` says (`Compiled`).
  `ReportsEveryRule` is `FailuresReported`. What a request breaks is given by
  `Reads(P, W, Q)`: `P` is a set of places with all their parts, `W` what is
  broken within each, and `Q` the same up to each of its parts. A request within
  the bounds has such a set (`SomeHold`, from `ValuesIs` and `FieldValuesFit`,
  which say what `Values` holds), any two agree on the whole request
  (`ReadsAlike`, by induction on the height of a place), and `Broken` is what
  one of them says (`BrokenReads`). What is pruned is silent: a place of a node
  that is not live has no rule in it, nor have its parts, because the live nodes
  are closed and the plan covers the parts' types (`QuietSilent`); so fields the
  plan does not keep, subs it drops and elements it does not descend into add
  nothing (`SkippedSilent`, `DroppedSilent`). The walk's invariant is `WalkIs`:
  the first call is at the request, each other one at the part where its caller
  stopped, the segments lead to it, so that a path written from them is that of
  the place (`WalkPath`), and the failures so far are those up to there. A call
  moves on (`Passes`), goes down into a part (`Descends`) or returns
  (`Returns`), and one lemma for each action says which
  (`FieldChecked`, `ElemChecked`, `CallReturned`). `ReadInv` puts it together
  with what is known before the walk and after it.
* `Registry_proofs`: `TypeCorrect`, `SealsTogether`, `RefusesForever`,
  `YAMLSettles`, `ReadsOneDocument`, `ServesDocuments`. The parts of `IInv` that are not
  properties: `InsideFreeze` (a goroutine inside Freeze finds the registry not
  frozen and its actions valid and sorted), `RefusalLasts` (once refused, the
  actions hold a problem, and every later set of actions does: appending and
  sorting keep problems, `AppendKeepsProblems` and `SortKeepsActions`),
  `SealedSound` (no name clash behind a seal), `Unsealed`, `SealedRead`
  and `TornWhileSealing` (what the documents are before, during and after the
  write) and `OnceAfterFreeze`. `ServesDocuments` has no hypothesis on
  the declarations. A frozen registry's actions are mounted apart
  (`SealedTogether`), so a later entry of the table for the node and method of an
  earlier one is a twin's (one whose path differs in the names of parameters) or
  the registry's own endpoint's (`TableServes`); an action that has neither is
  served, and so are the three endpoints (`SelfDocsApart`). The twins are finding
  2: no check of `Freeze` keeps them out, so nothing better can be proved.
* `Pipeline_proofs`: `TypeCorrect`, `ObservesWhatWasSent`, `AnswersOnce`,
  `EndsAreReported`, `TimeoutsComeLate`, `SavesWhatWasSent`, for any statuses.
  The properties of this run are not inductive by themselves; `IInv` adds what
  is true on the way in (`Inward`: nothing written, recorded, saved or handled
  yet), how the recorder follows the wire (`Recorded`, `FirstSent`), what an
  unwinding panic knows (`PanicsLate`), and what the key step will save
  (`Replayed`). Two lemmas carry the writes: `RespondKeeps` for any response
  inside the recovery, `RespondInward` for the first one.

* `Reading_proofs`: `KeysRead`, for headers, keys and scopes of any length. A
  reader that is not lost has read the escaped form of the key it has so far
  (`Tells`, kept by every character: `TellsOn`), so what it accepts was sent;
  and it has `key` when it has read `Escaped(key)` (`ReadsEscaped`, by induction
  on the key), so what was sent is accepted. `QuotedExact` puts the two
  together, `SendsTrimmed` says that a form of a key between blanks is what is
  left after trimming them, since no form begins or ends with one, and
  `StoreKeysApart` that the last newline of a store key ends the scope.
  `RequestsBound`, for any layout of any structs (`IsLayout`: what Go compiles)
  and any values: a request is bound as it was sent. Its first half is that the
  binder's view of the JSON fields of the request itself agrees with the
  reference's. Each round of `jsonFields` keeps `Tops`, by which the request's
  own named fields are among those found, each once, and all others lie deeper
  (`DeepBegins` for the first round, `DeepGoesOn` for the rest). A shallower
  field beats a deeper one, so an own field has its JSON name exactly when
  `Wins` says so of the request's own fields alone (`JsonOwn`), and the same is
  true of the reference (`NamedOwn`, from `WaysAre` and `ContendersAre`). Its
  second half is `Bindings`, the invariant of the loop over the parameters: no
  value read so far is bad and each parameter passed has what was sent, or the
  loop has stopped at the first bad value (`BindingsGoOn`). `FailureIsFirst` and
  `HeldIs` read the answer off it, and `BoundExact` puts the halves together.

There is no induction theorem among the tools that takes a predicate, so the
inductions on data are by a least counterexample: `LeastNatural` gives every set
of naturals that is not empty a least element (the intervals below its elements
are finite sets, which the library shows to be well-founded under inclusion).
What a recursive function or a fold computes follows from the existence of its
values up to each number (`RoundsExist`, `FoldsExist`, `EscapesExist`,
`Recursion`), by the same argument, and two of them that start and go on alike
are equal (`Alike`).

Only model-checked:

* liveness (`ServedEventually`, `ReleasedEventually`, `CallsReturn`), which the prover
  does not reach;
* `FieldsRead`: it is true of layouts of up to four structs only (section 5), so
  a theorem for any structs would be false. What `RequestsBound` proves of the
  request's own fields is true of any.

## 5. What is not modelled, and why

* *Key step*: the fingerprint's bytes, the replay's headers, and the body cap's
  arithmetic; SHA-256 is taken to be injective, so `KeyHeader` compares what is
  hashed.
* *Declaration check*: the per-field rules (examples, enum values, parameter
  names), each of which looks at one field.
* *Schema generation*: keywords, nullability and `openapi` tags are data; two
  schemas of a name differ or do not. Names are the types themselves, so the
  error for two types of one name is modelled in `Registry` only, and the one
  for two `$defs` names is not.
* *Validation*: the single rules and the parsing of their arguments; arrays,
  which are zero with elements in them; and `validatorCache`, which only saves
  compiling again what would come out the same.
* *Request fields*: names and tags are as they are spelled, while
  `encoding/json` falls back to a match that ignores case; fields of an
  embedded type that is no struct; and layouts of five or more structs, where
  what a struct met twice embeds is counted once, by `encoding/json` and by the
  code alike, which the reference in `Reading` does not follow.
* *Binding*: a value converts or does not; `Content-Type` matching and the
  binder's cache.
* *Registry and pipeline*: what single declarations are refused for is one bit;
  headers, request ids and HEAD.
* *Index, pagination, annotations, raw bodies, security, enums, actiontest,
  foundationx, examples*: data carried from one place to another, with no state
  that lasts.

## 6. Plan

Done: every module of section 2. What is worth adding, in order:

1. In `Validation`, a larger plan: three composite types.
2. The contents of the OpenAPI document beyond its components (parameters,
   security, the index), as operators checked against a reading of the actions.
