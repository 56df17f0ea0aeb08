# A verification of the Sentinel Go Probe SDK

TLA+ models of `sentinel-probe-go`, checked by TLC on small instances and proved
by TLAPS for all of them. Paths below are relative to the repository.

## The system

A *Probe* is a library inside a Go service. The service's goroutines emit events
and, for events a Specification enforces, ask Sentinel before they go on;
meanwhile Sentinel pushes new Event Filters, which the host hands to the Probe
from yet another goroutine. Nothing is persisted and the library starts no
goroutine: all concurrency is the host's, and what the goroutines share is one
atomic pointer, a clock and a remote endpoint.

| Component | State | Operations | What is hard | What makes it correct |
|---|---|---|---|---|
| `client/filterstore.go` | an atomic pointer to the held filter | `Get`, `Epoch`, `Set`, `ShouldRefresh` | `Set` loads, compares and stores in two accesses; epoch 0 is not "no epoch" | answers true of the store, readers that disagree only after a push, one pusher is atomic |
| `client/client.go` | the store and a decider | `CurrentFilter`, `AcknowledgedEpoch`, `SetFilter`, `RefreshOnEpoch`, `BuildDecideRequest`, `DecideFunc` | a flow loads the store up to three times | the event, its projection and its request are about one policy unless a push intervened |
| `client/transport.go`, `gen/.../decision.connect.go` | a client: base URL, HTTP client | `NewSentinelClient`, `Decide`, the handler | the network fails at any point; no timeout by default; a request and its answer lose what protobuf does not send | the request arrives as built; only the service's own answer counts |
| `enforcement/gate.go` | locals of a call | `Gate` | twelve ways to return and two to panic; clock, context and endpoint move between its steps | fail-closed contracts, budgets, audit, contract refinement |
| `enforcement/budget.go` | none | `remaining`, `monotonicDelta`, `RemainingTransportBudgetNs` | unsigned differences of a clock that may go back or wrap | exact, shrinking, never past the deadline |
| `filter/apply.go` | none | `ApplyFilter` | must keep whatever an enforcing Specification needs, though the gate may run under a filter pushed since | no Specification it knew loses attributes or the event |
| `internal/specmatch` | none | `Selects` | shared by projection and gate | one predicate, not two that drift |
| `emission` | a tracer | `SpanToEvent`, `ToEvent`, `NewProbeTracer` | mistyped or empty reserved attributes, missing links, nested empties; a slice of options shared by goroutines | each predecessor once and in order, and reported if it fell back; attributes whole and in order, nothing reserved shipped; providers that share nothing |
| `config` | none | `LoadSourceTierConfig`, `ParseSourceTierConfig`, `TierForHandle` | validation in map order | no undeclared tier, no partial configuration |
| `int128` | none | `FromBigInt`, `ToBigInt`, `FromInt64`, `TimeToNanoseconds` | a signed and an unsigned word | round trip within 128 bits |
| `ids` | none | two UUID calls | — | — |
| `proto`, `gen` | — | messages, accessors, enums | absent is flattened by the generated getters; enums are open | presence told from zero wherever it matters |

They interact as in the README's quickstart: `AcknowledgedEpoch` is stamped by
`SpanToEvent` into the event; `ApplyFilter` projects it under `CurrentFilter`;
`Gate` decides, under `CurrentFilter` again or the snapshot the flow kept, whether
to ask, builds the request and calls `DecideFunc`, which goes through the Connect
client, the network and the service's handler; meanwhile announcements arrive, the
host asks `RefreshOnEpoch`, fetches and calls `SetFilter`. Before all that, each
Probe reads its tier from the deployment's configuration and builds its tracer.

## Modules

| Module | Models | State and actions |
|---|---|---|
| `Messages` | the messages of `gen` the SDK handles | A record per message, its `Zero` (what `Reset`, the getters of nil and decoding give), enums with a member for unknown numbers. |
| `FilterStore` | `client/filterstore.go` | `current` is the atomic pointer. `Set` is `SetCall`, then `SetUnchanged` or `SetLoad` and `SetStore`: one access each. `ReadEpoch` and `ReadFilter` are `Epoch` and `Get` in the quickstart's order. `seen` and `moved` are history: what a running `Set` lived through, whether a push landed since a stamp. |
| `EpochStore` | what callers of the store rely on | `Swap` and `Keep` are a push in one step. |
| `Refresh` | `RefreshOnEpoch` and `SetFilter` in the loop a host closes | Uses `FilterStore`'s actions for `ShouldRefresh` and `Set`. `announced` is the network: any epoch in it may arrive at any time, any number of times. `Fetch` and `FetchNothing` are the host's. `overtaken` is history. |
| `Budget` | `enforcement/budget.go` | A reading is the `uint64` the code subtracts, below `Wrap = 2*Half`; the code has `Half = 2^63`. |
| `EventFilters` | `specmatch`; the predicates of `gate.go`; `filter/apply.go` | No state. `OfKeys` is the loop of `ApplyFilter` over the entries. |
| `Gate` | `enforcement/gate.go` | The locals of a call are functions of the call; `pc` is where it stands between two accesses to the world (two clock readings, the context, the ask, a third reading). `ClockMoves`, `Cancel` and `EndpointReturns` are the world. `doomed` (calls whose context was done before Gate looked at it), `asked` and `readAt` are history. |
| `EnforcementContract` | what a host relies on | What a call owes is fixed at its start; an ask happens at most once, only under enforcement; permit and deny are final; the unresolved ends in the fail mode. |
| `Transport` | `client/transport.go`, `DecideFunc`, `decision.connect.go` | Extends `Gate`, whose `EndpointReturns` becomes an exchange: `Send`, `Serve` or `NotFound`, `Reply` or `ReplyError`, `Break` anywhere, and `DecideReturns`, `DecideFails`, `HangUp` or `TimeOut` at the caller. `options` are the host's; `client` is what `NewSentinelClient` makes of them, a procedure URL and whether its HTTP client times out. `frame` is what of a message is on the wire. |
| `Probe` | the flow through `client`, `emission`, `filter` and the head of `enforcement.Gate` | Uses `FilterStore`'s actions as they are (`Store!...`) for pushes and loads, and adds projection and the decision to ask. `replaced` is history. |
| `Int128Codec` | `int128/int128.go` | No state; a word has `2*Half` values. |
| `Emission` | `emission/spantoevent.go`, `ToEvent` | `StartRoot`, `StartChild`, `AddLink` and `EndSpan` are the host's, which threads event identifiers, loses or mistypes them, and loses span contexts or their trace identifiers on the way; `Convert` is `SpanToEvent`. `mapValue` is a recursive function over attribute values, which are finite trees: `Depth` says how deep. `edges` is history: what the producer meant. |
| `SourceTier` | the pure part of `config/sourcetier.go` | Documents as `encoding/json` decodes them; the first fault of an entry; `TierForHandle`. |
| `Startup` | `ParseSourceTierConfig` in goroutines, `NewProbeTracer` | `EntryFails` and `EntryParses` take any entry left, as Go's map iteration does. `arrays` is the memory behind slices: `Clone` makes one, `AppendResource` writes in place when there is room. |
| `MCFilterStore`, `MCRefresh`, `MCGate`, `MCTransport`, `MCProbe`, `MCEmission`, `MCStartup` | small instances | |
| `FilterStoreProofs`, `RefreshProofs`, `GateProofs` (with `Budget`, `EnforcementContract` and `Transport`), `ProbeProofs`, `EmissionProofs` (with `Int128Codec`), `StartupProofs` | theorems | |
| `Loops`, `TreeRecursion` | no code: lemmas about loops over sequences, for `ProbeProofs` and `EmissionProofs`, and about recursive functions over finite trees, for `EmissionProofs` | |

A definition whose comment begins "A slip" is a plausible bug of that code; it is
part of no specification. Putting it in the place of the definition it precedes
makes the property it is meant for fail.

`EpochStore` and `EnforcementContract` are specifications, not translations, and
have no lines in the map.

### Abstractions

* Fields of messages that no code of the SDK reads or writes are left out, as are
  whole messages of that kind. Repeated fields that are only searched are sets;
  `causal_predecessor_ids` and `attributes` are sequences, and so are the values of
  an attribute slice and the entries of a map.
* The per-specification decision records of a response travel on the wire; in a
  `GateOutcome` they are represented by the answer they came with. Reasons keep the
  class an auditor can tell apart; the two kinds of context error are one, and so
  are the ways an endpoint fails.
* A message on the wire is a function from the fields protobuf sends to their
  values: a nil pointer is never sent, nor a field without presence that holds its
  zero. Framing, compression and headers are left out; a truncated message is an
  exchange that failed, which is what Connect makes of it.
* `FilterStore` and `Refresh` know a filter by its pointer and epoch; `Probe` adds
  the message it points to.
* A URL is the pieces of its path, slashes among them, so that `TrimRight` and the
  procedure are computed; a host and a scheme would tell nothing more apart. The HTTP
  client is whether it has a timeout.
* `AcceptedFailModeFor` is the set of specifications it accepts as CLOSED.
* A missing event has the empty kind, as through `GetKind`, and a specification that
  lists it selects a missing event.
* The clock reading that anchors a budget and the arithmetic on it are one step,
  since nothing shared is read between them. The test of the context and the call
  of `Decide` are two, since a cancellation may fall between them.

## Runs

| Run | Configuration | Shows |
|---|---|---|
| `store_racing` | two setters (symmetric), one reader; an initial filter of no epoch, two of epoch 0, nil; 519k states | The reply of `Set` is true at some moment of the call, whatever races. A redundant swap needs a push between load and store. A stamp and a snapshot disagree only after a push. |
| `store_atomic` | one setter, one reader, epochs 0, 1 and none, announcements nil, 0, 1; 29k states | The store implements `EpochStore`. |
| `refresh` | two handlers, filters of epoch 0 and 1, two publications after the first, one failed fetch; 587k states | A push stores something else than what is published only if a publication overtook its own fetch, or the fetch failed. Whatever stale or nil push lands last, the store ends up holding the published epoch. |
| `gate_safety` | one call at a time, repeated; `Half = 3`; 34 arguments; 42k states | The type invariant, the seven safety properties and the refinement of `EnforcementContract`. Blocking and letting through are both bounded: `ClosedContractHolds` says when a host may proceed, `BlocksOnlyUnderContract` when it may be kept from it. |
| `gate_liveness` | one call over the wire, repeated; `Half = 2`; epochs 0 and none, a nil event, right and wrong base URLs, no HTTP client and those with and without a timeout; 72k states | What the service is given is what Gate built; what Gate acts on is what the service said. Only the endpoint can hold a call; cancelling ends it, and so does the host's timeout. |
| `probe_flow` | one setter, one flow; three filters and nil; 23k states | Whatever is pushed, and whether the flow keeps its snapshot or loads again, each enforcing specification the projection knew is asked about with what it needs; only one that came with the push may miss attributes, or a dropped event. The epochs of a flow agree unless a push landed. |
| `emission` | two spans and a remote one whose event identifier is empty; up to two links; words of 8 values; every attribute type and an unknown one, nested two deep, a reserved key inside a map; 697k states | Every edge arrives once, in order, and reported if it fell back; a predecessor nobody was told of is joinable, unless its producer threaded an empty identifier; attributes arrive in order, none twice and nested as they were, and times unchanged. |
| `startup` | three Probes, two handles, eight documents and a literal, one free place behind the host's slice; 45k states | The verdict on a document does not depend on the order of its entries; no tier without declaration; providers do not share. |

Four more runs each show that one sentence of the documentation is not what the
code does:

* `store_race_finding`: two concurrent `Set`s of an equal epoch both report an
  update (`filterstore.go:60-62`, `:22`).
* `store_refresh_finding`: `ShouldRefresh(nil)` is true when the held filter has no
  epoch (`filterstore.go:77-78`).
* `gate_defer_finding`: a deferral without a deadline does not always stand
  (`gate.go:141-142`); a test of the package agrees with the code
  (`gate_test.go:844`).
* `gate_clock_finding`: a missing clock does not panic (`gate.go:109-111`).

### Bounds

* Two setters are every race `Set` has: it compares once, and one other store in
  between is the worst case. More are covered by the theorems.
* `Half = 3` gives six clock values: differences on both sides of "valid", a wrap,
  budgets below, at and above `Half` (a budget of 5 exceeds every valid
  difference), deadlines passed and ahead. The clock may move anywhere at any
  step, so the bound limits no interleaving.
* Calls of `Gate` share only the clock and cannot see each other, so one call,
  started again and again, is every behaviour a call can have, over the wire as well,
  where each call has an exchange of its own; the theorems are for any number.
* `MCInputs` has an argument for each early return and each source of the budget;
  `MCFewInputs` keeps what the findings need; `MCWireInputs` what differs on the wire.
* Three filters in `MCProbe`: one whose specifications trim, one that has one of them
  beside a specification that lists neither kind nor key, one without an epoch. So a
  push may bring a specification that enforces what the projection dropped, one that
  needs what it cut off, or the same one in other company.
* `Refresh` has two counters. `MaxPublications = 2` lets Sentinel publish an epoch,
  another, and the first again, which is what a comparison for equality could be
  fooled by; `MaxLosses = 1` lets one fetch fail at any point. `StoreCatchesUp`
  needs both to end: a store cannot catch up with publications that never stop.
  Two handlers are an old push and a new one in any order.
* `MaxLinks`: one span may have two links, so that the order of edges and the one
  report per edge are seen; the other is a child, or the target of one. Words of 8
  values put both starts, one before the epoch and one after, out of the range of
  one word; `TimesAreStarts` is for all.
* In `Startup` two handles are two bad entries at once, and one free place behind the
  slice is what makes an append in place possible: with none, each append copies.
* No other module has a counter, so no state is cut off.

Deadlock is checked in every run but `emission` and `startup`, whose spans are all
converted and whose Probes have all started or failed at the end: elsewhere hosts
may always start another call or push, or hear another announcement.

### Fairness

`TransportFairness` has, per call: the steps of `Gate`, `Send` and the return of
`DecideFunc`, since a goroutine is scheduled and none of these blocks; `HangUp`,
since Connect over `net/http` returns once the context it was given is done and
`DecideFunc` hands it the caller's (`client.go:129-137`); and `TimeOut`, which is
enabled only with a timeout in the HTTP client of the host's `TransportOptions`
(`transport.go:16-18`).
Nothing is assumed of the service or the network: `Serve`, `Reply` and `Break` may
never happen. The host may never cancel either, so that every call returns is not
claimed; the code sets no timer of its own and neither does `http.DefaultClient`.

`Refresh!Fairness` says that a handler that has begun goes on and its fetch
returns, and `SF(HearLatest)`: of the announcements a handler keeps hearing, some
are of what is published now. The code has no such loop; it leaves it to the host
(`client.go:63-67`), and this is what the host must provide for the store to catch
up. Weak fairness would not do: a handler that is always busy with older
announcements is never continuously able to hear the latest.

The other specifications state no fairness; their properties are safety.

## Theorems

All proofs are checked to the leaves. They assume only what the modules state, each
assumption named where its constant is declared and evaluated by TLC in a run:
`Half` is a positive number; arguments, filters and spans have their types; `Nil` is
none of them; attribute values and messages are finite trees, deeper than their
items, and the messages `mapValue` returns are among `AttributeValues`; and the few
string literals of `Emission` are strings, which no prover here knows by itself.

* **Store.** `TypeCorrect`; `RepliesAreTrue`, from an invariant that a setter
  between load and store holds a pointer in `seen` that differs from its argument's
  epoch; `RedundantSwapsAreRaces` from the same; `StampsMatch`, from the fact that a
  stamp is the current epoch until a push sets `moved`; `OnePusherIsAtomic`: if
  only one goroutine pushes, `Spec => ImplementsEpochStore`, because then `held` is
  `current` until the store. It is false with two (`store_race_finding`).
* **Refresh.** `StoresAreFreshUnlessOvertaken`, from an invariant that what a
  handler is pushing is what it fetched, and that a fetched filter is the published
  one until `overtaken`. `RefreshUsesTheStore`: `Spec => Store!Spec`, since what
  is pushed is a filter or nil and what is asked about is an epoch of a filter or none;
  hence `HandlersRepliesAreTrue`, the theorems about `Set` for the handlers of the loop.
* **Budget.** `RemainingIsExact`, `BudgetOnlyShrinks`, `RemainingEndsByDeadline`,
  for every clock width.
* **Gate.** `Inv` of `GateProofs` says, per call and per place in the code, what
  Gate has established so far: an anchored call has a contract and a budget within
  every contracted one and the deadline; a built one has a request stamped at
  `readAt`; one past the check was not doomed before it. The properties alone are
  not inductive, since none of them speaks of the budget before it is stamped. It
  gives `GateTypeCorrect`, `StampsFit`, `AsksAreAlive`; with a description of how
  each outcome can have come about, `ClosedContracts`, `BlocksAreContracted` and
  `DeferralsLeaveTime`; with one of where each reason is given, `AuditIsTrue`;
  `PanicsAreWiringBugs` from what is known at the two places that panic.
* **Contract.** `GateImplementsContract`: `Spec => ImplementsContract` with the
  phase, the duty and the kind of outcome of each call as the refinement mapping;
  each action of `Gate` maps to one of the contract or to a stutter.
* **Transport.** `WireIsAnEndpoint`: `TransportSpec => Spec`, the wire refines
  Gate's arbitrary endpoint, so that every theorem about `Gate` holds over it:
  `ClosedContractsOverTheWire` is one. `RequestsArrive` and `AnswersAreTheServices`
  rest on `WireRoundTrip` (decoding what was encoded gives it back, for any message
  whose only nil fields are pointers) and on an invariant that relates the frame of
  an exchange to the request or the reply it carries.
* **Probe.** `EndpointSees`, `UnaskedIsUnenforced` and `EpochsAgree`, from lemmas
  about the pure functions, `OfKeysKeeps` (the loop of `ApplyFilter` keeps the entries
  of its keys, in order), `ProjectionKeepsWhatIsNeeded`, `DroppedIsUnselected` and
  `EnforcementIgnoresProjection`, and an invariant that ties a flow's projection to the
  snapshot it was made under. Neither assumes that the gate runs under that
  snapshot. `ProbeUsesTheStore`:
  `Spec => Store!Spec`, so that `ProbeStoreIsTrue` (replies, redundant swaps, stamps)
  and `OnePusherServesFlowsAtomically` are FilterStore's theorems about a Probe at
  work.
* **Emission.** For words of any width, `EncodingIsWords`, `RoundTrip` for every
  number in the signed range of two words, `FromInt64Agrees`, and from these
  `EveryTimeHasAnEncoding`: the seconds of a `time.Time` are one word, so its
  nanoseconds fit two (assuming a second has at most `2^64` of them).

  The rest is about traces of any number of spans and links, and values of any depth.
  - *Recursion.* `mapValue` and the references `Walk` and `ArrivedWalk` are
    functions that TLA+ defines by a `CHOOSE`. A lemma, `RecursionIsDefined` of
    `TreeRecursion`, says that such a function satisfies its equation, because its body looks at
    shallower trees only and every depth is a number. The library's induction
    theorems take a predicate, which the provers cannot instantiate; the least
    number principle for a *set* of numbers does the same, and so do inductions over
    sequences.
  - *Loops.* A Go loop that appends to a slice is `FlattenSeq` of a map to sequences
    of no or one element (`FlatMap`), which, unlike `SelectSeq`, has a definition the
    provers can go through element by element; `FlatMapAppend`, `FlatMapConcat`,
    `FlatMapTwice` and `FlatMapRange` of `Loops` are the laws the proofs need. Like
    `TreeRecursion`, it holds tools and no result about this code.
  - *Values.* `WalksArrive`: however deep the value, to read `mapValue[v]` from the
    outside in (`ArrivedWalk`) is to read `v` (`Walk`): the same nesting, keys, order
    and leaves, each under the arm of its type, and nothing dropped but the types that
    are skipped.
  - *The invariant.* The properties speak of converted spans only, so they are not
    inductive. `EmissionInv` says what a span shows before it is converted, in terms of
    the history `edges`: its start is the one given, its domain attributes are those
    recorded, and the edges read back from its parent, links and reserved attributes
    are the ones the producer named; and that an event is `SpanToEvent` of what
    its span showed. One lemma per action shows that it is kept.
  - *The theorems.* `EventsAreMessages` (types), `TimesAreStarts`, `EdgesAreMeant` (the
    predecessors of an event are the edges its producer named, each once, in order),
    `SilentEdgesAreJoinable` (a predecessor nobody was told of is the identifier of
    another span's event, or the empty one of a span that was assigned none) and
    `SpansArriveWhole` (nothing reserved is shipped, everything else arrives in its
    order, once and whole).
* **Startup.** `VerdictsAreTheDocuments` and `TiersAreDeclared`, from an invariant
  that the configuration so far is exactly the entries visited, all of them good;
  `ProvidersDoNotShare`, from one that an array other than a Probe's own is never
  written, whatever its capacity and the interleaving.

Only model-checked: the liveness properties (`OnlyTheEndpointHoldsACall`,
`CancelledCallReturns`, `HostTimeoutEndsCalls`, `StoreCatchesUp`). Their proofs need
`ENABLED` and fairness, which TLAPS 1.4.5 does not handle. Every safety
property and every refinement a passing run checks is a theorem.

## Not modelled

* `ids`: two calls of a UUID library. That identifiers are unique is the library's
  promise; a model could only assume it.
* The messages no code of the SDK handles: verdicts (`verdict.pb.go`), gate evidence
  and baselines, watermarks, completeness signals, source identity and assurance,
  the receiver's `Event`. They have accessors and no behaviour here. The reflection
  tables, descriptors and initialisation of the generated files, and of protobuf and
  Connect no more than what they do to a message and a call.
* OpenTelemetry beyond what `SpanToEvent` reads of a span and `NewProbeTracer` passes
  to it. `resource.Merge` is the choice of whether the schemas conflict.
* The aliasing of attribute entries that `ApplyFilter` shares with its input: the
  SDK never writes to one, and a host that does is outside the model.
* Tests, conformance vectors and the code generation check, read for what they say.

## Plan

In this order; what is done is marked.

1. `EpochStore`, `FilterStore`: the store and its races, with proofs. *Done.*
2. `Budget`, `EventFilters`, `EnforcementContract`, `Gate`: the gate, its
   refinement and its proofs. *Done.*
3. `Probe`, composing the store, the projection and the gate's decision, with
   proofs about one snapshot. *Done.*
4. `Refresh`: announcements, fetches and pushes, and that the store catches up.
   *Done.* A host's retries of a deferred call are calls started again in `Gate` and
   `Transport`: each is measured afresh against the deadline it passes.
5. `Emission` with `Int128Codec`: causal predecessors, reports, attributes and
   times. *Done.*
6. `SourceTier` and `Startup`. *Done.*
7. `Messages` and `Transport`: the wire under the gate, as a refinement. *Done.*
8. Theorems for every safety property and refinement of the runs. *Done.*
9. The store inside the compositions: what is proved of `FilterStore` carried to
   `Refresh` and `Probe`. *Done.* Left: the decision of `Probe` as an abstraction of
   the head of `Gate`, so that one theorem spans projection, gate and wire; and the
   safety half of the liveness arguments (whichever step a stuck call or a stale
   store waits for is one the fairness is about).
