# mobject: TLA+ models, model checking and proofs

mobject is a microservice of the Mochi suite: a *provider* registers RPCs with a
thallium engine and keeps a map from UUIDs to *sequencers* (backends); an *admin*
creates, opens, closes and destroys sequencers; a *client* uses them through
handles, synchronously or with asynchronous requests. This directory holds TLA+
modules of that code, TLC configurations and TLAPS proofs. `PROJECT.json` lists
for every definition the source lines it models.

## Inventory

| Component | State | Operations | What is hard |
|---|---|---|---|
| `ProviderImpl` (src/src/ProviderImpl.hpp) | `m_backends` under `m_backends_mtx`, `m_token` under nothing, backends through `shared_ptr` | create, open, close, destroy, check, sayHello, computeSum | handlers are user-level threads that interleave; backends are called outside the mutex; early returns respond under it; the token is read twice while it may be assigned |
| `Provider` (Provider.cpp) | `self`, a finalize callback in the engine that captured `this` | constructors, move, destructor, `setSecurityToken` | addresses are reused, callbacks outlive objects, handlers run on a raw `this` |
| `AsyncRequest`, `AsyncRequestImpl` | shared implementation, `m_waited`, the response | copy, move, assign, wait, completed, destructor | the last copy waits; waits may throw, also in a destructor |
| `SequencerHandle` | shared implementation | sayHello, computeSum (sync, async) | the async call assigns over the request it is given |
| `Client`, `Admin` | shared implementation with the RPC objects | handle creation with an optional check; the four admin RPCs, shutdown | the check is stale when the handle is used |
| `Backend`, `SequencerFactory`, `DummyBackend` | two static maps of factory functions | registration, create, open, computeSum, destroy | static initialization order; two backends of one name; 32-bit overflow |
| `RequestResult`, `UUID` | success, error, value; 16 bytes | aliasing specializations for bool and string; generate, parse, compare | uninitialized value on failure; both ends of an RPC name the type of its result |
| Example programs (examples/) | a command line, an exit status, what was printed | the admin and client programs | ids go through text; exceptions of other types; a narrowed provider id |
| Bedrock module | none | registers and deletes providers and clients | deletes a provider with handlers in flight |

Interaction: `Admin` and `SequencerHandle` send RPCs; the engine starts a handler
of `ProviderImpl` for each; the handler calls the backend and responds; the
response is thrown as an exception, returned, or stored by an `AsyncRequest`.
When the engine is finalized it runs the callbacks providers pushed.

What makes each component correct: no backend is used after its deletion, an id
names one sequencer for ever, requests look atomic to clients, every request is
answered, and the token in force decides (handlers); a valid provider is reset
exactly when the engine goes and never through a dead address (providers); a
response is taken exactly once and never lost (asynchronous requests); what a
handler decided is what the caller gets (results); a registered backend is found
and opened by the type that created it (factory); a status tells what was done
(programs).

## Modules

### `SequencerRegistry` - what the provider promises
An abstract registry: the set of live ids and, per request, its operation,
target, verdict and answer. Each request is invoked, takes effect in one step
(`Create`, `Remove`, `Find`, `Miss`, `Refuse`), and is answered later with what
it did. This is linearizability with ids that are never reused.

### `ProviderImpl` - the handlers
A request and its handler have one name; `pc[r]` is where the handler is. One
action is one access to shared state:

| Label | Code | Actions |
|---|---|---|
| `token`, `compare` | `m_token.size() > 0 && m_token != token` | `CheckTokenSize`, `CompareToken` |
| `build` | `json::parse`, `SequencerFactory` | `Build`, `BuildFails` |
| `lock` | `lock_guard(m_backends_mtx)` | `Lock` |
| `insert` | `m_backends[id] = move(backend)` | `Insert` |
| `find` | `find`, `count` | `Find`, `FindToRemove`, `Miss` |
| `destroy`, `erase` | `->destroy()`, `m_backends.erase(id)` | `Destroy`, `Erase` |
| `call` | `computeSum`, `sayHello` on the backend | `CallSum`, `CallHello` |
| `respond`, `respond_locked`, `unlock`, `return` | `req.respond`, end of scopes | `Respond`, `Unlock`, `Return` |

`createSequencer` and `openSequencer` differ only in the factory function, so
they share actions. A backend is named by the request that built it; `DeleteOrphans`
is the reference count: the step that drops the last owner (map entry or handler
pointer) deletes the backend. `setSecurityToken` is two steps, `BeginSetToken` and
`EndSetToken`; a read in between is a data race and returns any token. A client
sends an id it was told in a response, or one nobody has (`NilUUID` stands for
those); `UUID::generate` returns fresh ids, 122 random bits never repeating.
`inForce` is a history variable: the token when the request came, `None` once an
assignment overlaps the check.

### `ProviderImplInvariant`, `ProviderImplProofs`, `ProviderImplRefinement`
The inductive invariant and the proofs about it, see below.

### `ProviderLifecycle` (and `ProviderLifecycleProofs`)
`Provider` objects at addresses, the number of finalize callbacks that point to
each address, the engine, the handlers that run on each `ProviderImpl`. The
callbacks' order is left out: they do the same whichever runs first. `pop` does
nothing when the owner has no callback (thallium). Margo finalizes when no RPC is
in flight; this, the callback stack and the start of handlers are modelled from
how the code uses them. The history variable `vacated` holds the addresses providers
were moved from. A callback that runs on memory without a Provider is undefined
behaviour, and so is moving an empty provider, which dereferences a null pointer
(`MoveEmpty`): the model stops there (`crashed`). Deleting a valid provider under
running handlers is in the model (`Destroy`), without a property: bedrock decides
whether that happens, see below.

### `AsyncRequest` (with `AsyncRequestInvariant`, `AsyncRequestProofs`)
Objects, the implementations they share (one per call), the response of each call. An
operation that may wait is several steps: the test of `unique()`, the callback that
takes the response, the flag `m_waited`, the release or the assignment. `Threads`
bounds how many operations are under way at once, each on an object of its own, which
may be a copy of another's; the object an assignment reads is used by no other
operation. The history variable `raced` remembers the requests two operations worked
on at one time, through two copies, and `retaken` those whose response was taken
again: what `unique()` and `m_waited` promise, they promise for requests that were not
raced for. An exception in the callback goes to the caller of `wait`, an assignment or
`computeSum`, and out of a destructor, where it terminates the program. An
asynchronous `computeSum` is a send followed by a move-assignment of a temporary; if
the assignment throws, the new call is dropped.

### `SequencerClient` - end to end
Users call `Admin`, `Client` and `SequencerHandle`; the provider is an `INSTANCE` of
`SequencerRegistry`, which `ProviderImpl` implements. An operation is named by its
RPC: `Send` invokes it in the registry, `waiting` is the RPC a user is blocked in,
`Return` takes the answer and returns or throws by `success()` (`Reports`). A handle
holds the id alone; `makeSequencerHandle` gets it with a check RPC or without. An
asynchronous `computeSum` is in `requests` until its user waits for it (copies of
requests are in `AsyncRequest`). `mobject_say_hello` is defined with its response
disabled, so `sayHello` returns at once, whatever its handle names (`Call`), and the
provider answers it only when it finds nothing (`Responds`). Users pass ids on to each other; `NilUUID` is an id
nobody has. What an operation on an empty handle does (throw at once) changes
nothing. Not modelled: a provider that goes away while users call it.
`SequencerClientInvariant` and `SequencerClientProofs` hold the inductive invariant
`CInv` and the proofs.

### `SequencerFactory` (and `SequencerFactoryProofs`)
Before `main`, the two maps are constructed, in the order Backend.cpp defines them,
and each backend's registration object runs, once, before, between or after: the
standard leaves the order of two files open. Writing to a map that was not
constructed is undefined, so it either crashes (`RegisterCrashes`) or is lost when
the construction that follows empties the map. A backend stands for its type,
`early` remembers who was too early. `Lookup` is `createSequencer` or
`openSequencer`: nothing for an unknown name, else the backend or an exception.

### `RequestResult` (and `RequestResultProofs`)
One call from the handler's result to the caller. `Member` says which member each
accessor refers to in each of the three layouts, `Members` what `serialize` writes
and in which order; `Fresh` is a default-constructed result, whose `int32_t` value
is any integer. `Sent` and `Read` are the two types named at the two ends of an
RPC. Handlers fill in a result as each RPC does (`Refuse`, `CreateOrOpen`,
`CloseOrCheck`, `Destroy`, `ComputeSum`), `Receive` reads the bytes, tests them and
stores a sum where the caller asked for it. `decided` remembers what the handler and
backend meant. A sum that overflows is undefined: any integer (`Sums`), and nobody
can tell it from a right one, so no property is about it.
No handler sends a `RequestResult<std::string>`; its layout is there as the general
lemmas of the proofs cover it.

### `ExamplePrograms` (with `ExampleProgramsInvariant`, `ExampleProgramsProofs`)
Runs of the admin and client programs over the registry of `SequencerRegistry`. A
program has a command line (`Start`), sends its RPCs (`Administer`, or `MakeHandle`,
whose check the program waits for, then `SayHello` and `ComputeSum`), prints an id and
exits (`Finish`), or is ended by an exception nobody catches (`Abort`): what
`UUID::from_string` throws, or thallium, when there is no such provider. A text is an
id in one of the forms people type: as printed, in upper case, without dashes, or
nonsense; `from_string` accepts the forms `uuid_parse` does. People type ids that were
printed. The backend call of a `destroy` or `computeSum` may report a failure
(`ServeBackend`), which `failed` remembers: the program exits with -1 although its RPC
was performed (`Reports`). A provider id is narrowed to `IdRange` values as the `uint16_t` parameters
do; provider 0 is the only one that exists. Without `-c`, whose default is the empty
string, no create or open gets past `json::parse` (`Parses`).

### MC modules
`MCProviderImpl`, `MCRequestResult` and `MCExamplePrograms` add symmetry sets,
`MCSequencerFactory` the names of three backends; `MCProviderImpl`, `MCAsyncRequest`,
`MCSequencerClient` and `MCExamplePrograms` bring the invariants of the proofs.
Definitions commented "Mutant" are faulty variants of the definition that follows
them, used to see that the properties notice.

## Runs

| Run | Bounds | What it shows |
|---|---|---|
| `service` | 3 requests, 2 ids, fairness | `RegistrySound`, `NoUseAfterDelete`, `RemovedOnce`, `CreatedStaysRegistered`, `RemovedForGood`, `LookupAvoidsDestroyed`, `AnsweredOnce`, `EveryRequestAnswered`, `RemovedIsDeleted`, `Linearizable`; the proofs' invariant `IInv` |
| `token` | 2 requests, 3 tokens, any of them assigned at any time, symmetry | `TokenRespected` |
| `failed_destroy` | 2 requests | a destroy that failed has erased the sequencer (violation) |
| `lifecycle` | 3 addresses, 3 implementations, 2 handlers, moves and deletions, fairness | `ValidHasCallback`, `OneOwner`, `DanglesOnlyWhereMoved`, `FinalizeResets`; the proofs' invariant `LInv` |
| `moved_provider` | the same, moves only | a moved provider leaves a dangling callback (violation) |
| `requests` | 3 objects, 2 calls that may fail, 2 threads, fairness | `TakenOnce`, `NothingAbandoned`, `EndsOnlyOnFailure`, `OperationsEnd`; the proofs' invariant `AInv` |
| `blocking_async` | 3 objects, 3 calls, 1 thread | an asynchronous `computeSum` may block (violation) |
| `failed_wait` | 3 objects, 3 calls, 1 thread | a destructor waits again for a request whose wait threw (violation) |
| `clients` | 2 users, 3 RPCs, 2 ids, backends that do not fail, fairness | `StaleUseFails`, `ThrowMeansGone`, `OneRemovalReturns`, `CreatedIsUsable`, `LostOnlyToRemoval`, `WaitsForAnswer`, `EveryCallEnds`; the proofs' invariant `CInv` |
| `factory` | 3 backends, two of one name, 3 names, 3 calls, symmetry | `LateIsFound`, `OneTypePerName` |
| `results` | 2 calls of any kind, 2 variables, 2-bit integers, symmetry | `OutcomeDelivered`, `CellHoldsSum` |
| `programs` | 3 program runs, 2 ids, provider ids 0 and 3 of a range of 2, backends that may fail, symmetry | `StatusTellsOutcome`, `PrintedIdWorks`; the proofs' invariant `EInv` |

Every module's type invariant is checked too: by itself in `factory` and `results`,
elsewhere as the first part of the inductive invariant.

What the less obvious ones say. `FinalizeResets`: an engine that starts to finalize
with no dangling callback ends with every provider reset, moved ones included.
`EndsOnlyOnFailure`: of the steps that end the program, which only destructors take,
each is a wait for a call that failed or that another operation raced for.
`StaleUseFails`: a call on a sequencer that is not open takes no effect, and does not
return normally unless it is `sayHello`. `StatusTellsOutcome`: exit status 0 if and
only if the last RPC was performed and its backend reported no failure, nothing sent
by a program that aborts, and one removal of an id at most that exits with 0.

Why the bounds are enough: every conflict in the handlers is between a create, a
removal that races with another removal, or with a lookup that holds the backend:
three requests cover each, two ids cover crossed ids, and the theorems cover any
number of both. Three addresses let a provider move while another takes its old place;
three objects and two calls let a copy, its original and an unrelated request meet,
and two threads are enough for a race: the theorems say that more threads add nothing
as long as they are kept from one request's copies; three RPCs of users let a create
be followed by two removals, or by a removal and a use. Three backends let two share a
name, apart from a third, and three calls compare what they get; two calls share a
variable or not, and two bits are enough for integers to overflow on both sides; three
program runs are one that creates, one that removes and one that uses. `create` and
`open`, and `close` and `destroy` with backends that do not fail, are the same to a
user, so `clients` has one of each (`Rpcs`); so are the handlers of `create` and
`open`, and `service` has the first alone. TLC checks deadlock in every run; the steps
`AllServed` and `Over` are the intended ends.

## Fairness
`ProviderImpl!FairSpec` assumes weak fairness of each handler: Argobots runs every
runnable thread and `respond` completes. The requests are finitely many, so a
handler waiting for the mutex is eventually left alone with it: strong fairness is
not needed. No fairness is assumed of clients, nor of `setSecurityToken`.
`AsyncRequest!FairSpec` assumes that threads go on with the operations they began
and that each call is answered (`service` shows the provider's part of that).
`ProviderLifecycle!FairSpec` assumes that `margo_finalize`, once it has begun, runs the
callbacks that are left and ends; nothing makes anybody finalize.
`SequencerClient!FairSpec` assumes what `ProviderImpl` does of the provider, and that a user whose
response is there goes on; nothing makes a user call or wait.
Liveness runs use no symmetry.

## Proofs
`ProviderAssumption` (the nil id is not generated, `None` is no token and no request,
...), `LifecycleAssumption`, `ClientAssumption`, `AsyncAssumption` (finitely many
objects, `Null` is none of them, ...), `FactoryAssumption`, `ResultAssumption` (the
integers are an interval of any width) and `ProgramsAssumption` are the only
assumptions on the constants.

`IInv` is inductive. The properties alone are not: that a `Find` returns a backend
that has not been destroyed needs to know that the handler between `destroy` and
`erase` holds the mutex (`MutexInv`, `DestroyedInv`); that a backend is not deleted
under a call needs to know who owns which backend at which label (`OwnerInv`,
`ControlInv`); that a removed id does not come back needs ids unique from their
generation on (`IdInv`), before the insertion; `LifeInv` ties each inserted id to its
entry or to the one request that removed it; `ResultInv` says what a result holds at
each label, and that a response is the result; `TokenInv` relates a check under way to
the token in force. These make up `HandlerInv`: one lemma per action shows that it
preserves every conjunct, and `NextInv` combines them. Two more parts rest on it:
`AnswerInv`, which response a handler has sent at each label, and `LeakInv`, that an
inserted backend is deleted exactly when nothing owns it any more. From `IInv` follow
`RegistryIsSound`, `NeverUsedAfterDelete`, `RemovedAtMostOnce`, `CreatedIsRegistered`,
`RemovedIsForGood`, `TokenIsRespected`, `AnsweredExactlyOnce` and, with a step of
`Find`, `LookupIsClean`.

Two theorems are what safety can say about the liveness TLC checks on three requests.
`HandlersNeverStuck`: a handler under way can run its next statement (`Ready`, the
guards of its actions), or waits for a mutex whose holder can. `HandlersGoForward`:
every step of a handler lowers its `Rank`, which starts at ten. So any number of
handlers, run fairly, must all finish: only this last step, from fairness, is left to
`EveryRequestAnswered`. `NoBackendLeaks` is the same for `RemovedIsDeleted`: once
the handlers are over, a backend is alive if and only if the map leads to it.

`ProviderImplRefinement` proves `ProviderLinearizable`: under the mapping at the end
of `ProviderImpl`, `Receive` is `Invoke`, `Insert` is `Create`, `Erase` is `Remove`,
`Find` and `Miss` are themselves, a refusal is `Refuse`, `Respond` is `Answer`, and
every other step changes nothing. That `Insert` picks an id never given before uses
`IdInv`.

`ProviderLifecycleProofs` proves its types and its three safety properties.
`ValidHasCallback` and `OneOwner` are inductive with the types and the fact that living
implementations were made. `DanglesOnlyWhereMoved` needs the exact count, one callback
per valid provider and none elsewhere, at every address nobody was moved from
(`Paired`). Together they are `LInv`.

`AsyncRequestProofs` proves `ResponseTakenOnce`, `NoResultLost` and
`EndsOnlyOnFailures` for any number of threads, objects and calls. `AInv` adds to the two properties what makes them
inductive: `RaceInv` (two operations on copies of one request are recorded in
`raced`), `SourceInv` and `FreshInv` (what an assignment reads nobody else touches, and
nobody holds a call before it is made), `WaitInv` and `FlagInv` (the flag follows the
response one step behind, and some object is in that step), `OwnerInv` (what an object
is about to let go of was waited for or has another owner; this is where `unique()`
matters, and `SharedIsHeld` relates its count to an owner) and `HeldInv` (a call whose
response is due is held by an object or by the temporary of `computeSum`). That other
threads disturb nothing is what `BeginsFacts` is for: the operation that is beginning
is the only one on its request, or the request is in `raced` from now on.
For `EndsOnlyOnFailures`, an action property, only a callback that throws can end the
program (`OnlyThrowsEnd`), and it throws for a call that failed or was raced for
(`ThrownFor`), a response taken before being one of these by `FlagInv`, `WaitInv`
and `RaceInv`.

`SequencerClientProofs` proves all the safety properties of `SequencerClient`, for any
number of users, handles and RPCs. `CInv` adds to them what the registry promises a
client only by being one: an id that was ever given to somebody is live or was
removed by one RPC that took effect (so a miss has a removal to blame, and a second
removal misses), no id is given twice, a handle and a request in flight name ids
that were given or the nil id, and an outcome agrees with the answer it came from.
`LostOnlyToRemoval`, the one about hellos nobody answers, is about the verdict and not
the outcome, and follows from the first of these. `WaitInv` says that a response that
is due is waited for by one user in one way; `NobodyWaitsInVain` follows, and
`OutcomesStay`, an action property: what a user was told is never changed.
`StaleUseAlwaysFails` needs that an id once closed is never live again.
Every action of `SequencerClient` takes a step of the `SequencerRegistry` it is an
`INSTANCE` of or leaves it alone, so `ProviderLinearizable` is what connects it to the
handlers.

`SequencerFactoryProofs`: the invariant says that both maps have the same entry for a
name once both are constructed, that it is the one of the last registration, and
that nobody who registered after them has lost the name altogether. It holds for any
assignment of names to backends. `RequestResultProofs`: the lemma that reading back
what was written gives the members that were saved, for each layout, and that an
accessor sees what was set through the accessor sharing its member; then the
invariant relates the bytes on the wire to what was decided. The integers are any
interval, so also the one of 32 bits. `ExampleProgramsProofs`: its invariant relates
command lines to RPCs, texts that were printed to ids that were given, and an id
that was given to being live or removed, what a backend failed at to RPCs that were
performed, and two removals that were performed to different ids; `PrintedIdsWork` and
`StatusTells` follow.
`ProgramsNeverStuck` shows that a program is never left between two RPCs: it can go on,
or the provider owes it a response.

Only model-checked: liveness (`EveryRequestAnswered`, `RemovedIsDeleted`,
`FinalizeResets`, `OperationsEnd`, `EveryCallEnds`), which is beyond the prover, as is `ENABLED`: that
`Ready` and `CanGoOn` are when an action is enabled is read off the actions. That the
four violations are violations is shown by their runs alone.

## What the code does otherwise
Runs show these:

1. `destroySequencer` erases the sequencer even when `Backend::destroy` failed.
2. Moving a `Provider` leaves a finalize callback to its old address; the example
   server does so with more than one provider.
3. An asynchronous `computeSum` blocks when the request it is given holds an
   unanswered call.
4. A request whose wait threw is waited for again, by a destructor that then
   throws.

These are in the models, as exceptions their properties name or as steps of which they
claim nothing:

5. A backend registered before the factory's maps are constructed is unknown to
   them (`early`); nothing but the linker's order of files prevents it, and
   include/mobject/Backend.hpp:26-28 asks for no order.
6. The dummy backend's sum overflows, which is undefined, and is a success (`Sums`).
7. The example programs catch `mobject::Exception` only, and a mistyped id throws
   `std::invalid_argument` (`Abort`).
8. They narrow an unsigned provider id to 16 bits: `-p 65536` is provider 0
   (`Contacted`).
9. `-c` is optional in the admin program, and create and open always fail without
   it (`Parses`).
10. Two threads that wait for, assign over or destroy copies of one request at one time
    may both take its response, or lose it (`raced`); no comment says they must not.
11. `sayHello` on a handle whose sequencer is gone returns normally: its response is
    disabled, and the failure the provider sends is heard by nobody (`Call`).
12. Moving an empty `Provider` dereferences a null pointer, src/src/Provider.cpp:29
    (`MoveEmpty`).
13. include/mobject/UUID.hpp:63 speaks of a "33-byte" string, 32 digits without dashes,
    which `uuid_parse` rejects; `from_string` throws on it (the form `bare`).
14. `deregisterProvider` (BedrockModule.cpp:27) deletes a `ProviderImpl` whose handlers
    may be running (`Destroy`, `serving`); the repository does not say whether bedrock
    waits for them, so nothing is claimed.
15. A `setSecurityToken` that overlaps a token check is a data race: such a check may
    decide by any token, and `TokenRespected` is about the others.

## Not modelled
Thallium, Margo and Mercury beyond what the handlers use (no lost messages: RPCs
run over reliable transports and the code has no timeout or retry). What a client
sees of a provider that was deregistered or shut down during its call is theirs
too, so `SequencerClient` is not composed with `ProviderLifecycle`. Logging and what is
printed, ids apart; what TCLAP does with a bad command line, which ends a program
before it does anything; hexadecimal digits (`uuid_parse` and `uuid_unparse` are
libuuid's); the hash of UUIDs; the configuration a `DummyBackend` keeps and never
reads; a linker that leaves a backend's file out of the program; the tests and
build files; clients in the Bedrock module, which are made and deleted.
`completed()` changes nothing.
Two threads that work on copies of one request at one time race in `unique()` and on
`m_waited`: the class makes no promise about them. They are in the model as far as
interleaving goes, which shows that each may skip the wait or both may take the response,
and `raced` takes their request out of what is promised; that a data race is undefined
altogether is not modelled. Two threads on one object, or one that assigns from an
object another one works on, are not modelled either.

## Plan
In this order; all are done.

1. `SequencerRegistry`, `ProviderImpl`, its invariant, proofs and refinement.
2. `ProviderLifecycle` and its proofs.
3. `AsyncRequest` and its proofs.
4. `SequencerClient`, end to end, and its proofs.
5. `SequencerFactory`: registration during static initialization, then lookups.
6. `RequestResult`: the layouts, serialization, uninitialized values, sums.
7. `ExamplePrograms`: the programs people run, over the registry.
8. `AsyncRequest` for several threads, whose proofs need nothing but that they keep
   from copies of one request.
9. Progress as far as safety goes: answers, waits, leaks and ranks (`AnswerInv`,
   `LeakInv`, `WaitInv`, `HandlersNeverStuck`, `ProgramsNeverStuck`).
