# Formal models of Forte / peko

TLA+ models, TLC runs and TLAPS proofs for the `forte dev` core: the CLI
proxy, the hot-swappable Wasmtime runtime and the change-triggered rebuild
pipeline, plus the SSR entry handler. The source is under `src/`. Most of
the Forte core exists there as the code excerpts of `src/forte/PLAN.md`,
and the models cite those excerpts by line.

## 1. Inventory

### Components and their state

| Component | Source | State | Operations |
|---|---|---|---|
| Request classifier / proxy | PLAN.md 201-251, 1384-1398 | none of its own; it reads `backend_compiling` | `classify_request`, `handle` (Static, Internal, ApiOnly, Page), 503 while compiling |
| Module runtime (WasmRuntime) | PLAN.md 142-198, 292-298 | engine, active component, linker, env vars; one `Store` per request | `new` (load), `handle_request` (dispatch), `reload` (swap) |
| Watcher and rebuild pipeline | PLAN.md 273-298, 1370-1417; PROGRESS.md 55-61 | pending change, the build in flight | debounced change, codegen, `cargo build`, reload, WebSocket signal, error overlay |
| Compilation state | PLAN.md 1384-1391 | `backend_compiling`, `backend_ready`, `last_error` | written by the pipeline, read by the proxy |
| Backend router and wrappers | PLAN.md 335-392, 459-500, 739-824 | route table (immutable per build) | `match_route`, `not_found`, `wrapper_get`, `wrapper_post` (400 / 500 / 200 tiers) |
| Type extractor / emitter | PLAN.md 300-333, 561-645; generated `props` files | none (pure) | Rust type to TypeScript type, enum encoding, serde rename/skip |
| Node SSR entry | `src/unnamed/part_003` 27-50 | none | `handler(req)`: pick a page from the path, render or 404 |
| ski sandbox runtime | `src/ski/ski/run.js`, `bootstrap.js` | the JS global object | `runHandler`: request parts, user `handler`, `op_respond`, 500 on error |
| suisei WASM build | `src/unnamed/part_002`, `src/suisei/src/adapter.ts` | files in the server dir | `buildServer`: entry shim, rolldown, jco; `runCommand` |
| wasi-sdk setup | PLAN.md 1237-1284 | cache directory | `ensure_wasi_sdk`, `detect_wasi_sdk_url` |
| Cloud infrastructure | `src/pulumi`, `src/cloud`, `src/unnamed/part_000` 1-67 | Pulumi resources | declarative, not modelled |

### How they interact

The browser talks only to the proxy. The proxy reads the compilation flags
(shared state) and calls the runtime synchronously (`handle_request`). For a
Page request it then posts the props to the Node SSR server, whose `handler`
picks the page. The watcher task runs the pipeline. The pipeline calls the
type generator, then the external `cargo` process, then `WasmRuntime.reload`,
and then pushes a message on the live-reload WebSocket that browsers listen to.

### What is hard

* Requests run concurrently with a reload. A request keeps the component it
  started in, so the old component must stay loaded until it drains.
* The pipeline is single: a change that arrives during a build must be queued
  and not lost. Two overlapping builds could finish out of order.
* The reload signal must be ordered after the swap.
* Failure paths: a build or load failure keeps the old component serving. On
  the request side, the three error tiers (400 / 500 / 200) must not mix.
* Boundary cases in the path handling: prefix tests, JS 0-based indexing,
  and `unwrap` on the path parameters.

### Properties that make each component correct

* Runtime: no request runs in an unloaded component. The active version never
  goes back. A retired version is eventually unloaded.
* Pipeline: every change is eventually built. Live-reload clients are never
  served something older than they were told. While the server reports
  Ready and no change waits, it serves and has announced the current source.
* Proxy: ApiOnly/Page requests answer 503 while compiling. Classification is
  total.
* Router and wrappers: a validation failure is 400 and never runs the action.
  An internal error is 500. A business result is 200. A GET's tier comes
  from parameter parsing alone, and its 200 only from `Ok`.
* Toolchain: a process that gets `Ok(sdk_path)` finds the whole SDK there.
  It does not hold: see the findings.
* SSR handler: each page URL renders its page.
* ski sandbox: user code cannot replace the entry point, and each request
  gets one answer, the catch block's 500 exactly when the `try` block threw.
  The second does not hold: see the findings.

The hazards are listed, each at the line where it bites, in
`PROJECT.json` under `hazards`.

## 2. Plan

Done:

1. **DevServer**: watcher, pipeline, compilation flags, runtime arena and
   proxy in one module, because they share the flags and the active handle.
   Its proofs are in **DevServer_proofs**.
2. **SsrHandler**: the Node entry's page selection, checked against the
   routes the frontend defines.
3. **BackendRouter**: `Router::handle`, `wrapper_get` and `wrapper_post`
   with the three response tiers. Its proofs are in **BackendRouter_proofs**.
4. **HotSwap**: the abstract runtime of spec 4.4-4.6, with the refinement
   DevServer => HotSwap (**DevServerRefinement**, proved in
   **DevServerRefinement_proofs**).
5. **SuiseiBuild**: the WASM component build with partial failure and
   interruption. Its proofs are in **SuiseiBuild_proofs**.
6. **ToolchainSetup**: `ensure_wasi_sdk` shared by several processes, with
   crashes and reruns, unpacking in place as `download_and_extract(url,
   &sdk_path)` does.
7. **SkiSandbox**: the ski isolate's global object, user code acting on it,
   and `runHandler` step by step. Its proofs are in **SkiSandbox_proofs**.

Left:

* The Page path's second hop, props sent to the Node SSR server. Today it
  is one dispatch in DevServer. The plan shows no code for `NodeClient`.
* Composing BackendRouter's status codes into DevServer's `Complete`, which
  now picks any code of the wrapper's set.
* The type emitter is left out for the reasons in section 7.
* A timeout for a ski handler that never settles: nothing in the repository
  bounds it (see the hazard at `run.js:22`).

## 3. Modules

### DevServer.tla

Data is reduced to version numbers. Version *n* is the component built from
the source after the *n*-th debounced change.

| Variable | Code |
|---|---|
| `srcVer`, `pending` | watcher: debounced changes, a change not yet taken by the pipeline |
| `builds` | the pipeline run in flight, `compiling` (codegen + cargo) then `loading` |
| `compiling`, `ready`, `lastError` | `backend_compiling`, `backend_ready`, `last_error` (PLAN.md 14.2) |
| `active`, `loaded` | the component `handle_request` uses; the versions the runtime still holds |
| `notified` | the last version announced on the live-reload WebSocket |
| `req` | one record per client connection: stage, handle, response code, last reload it had seen |
| `lastAttempt` | history variable: the source version of the last finished build, used only by `NoLostChange` |

Actions: `FileChange` (watcher), `StartBuild`, `BuildSucceeds`,
`BuildFails` (codegen, cargo or load failure), `LoadAndSwap` (reload, flags,
WebSocket signal), `Receive` (`CoRouterProxy::handle` with
`classify_request` and the 503 gate), `Dispatch` (`handle_request` binds a
fresh `Store` to the component active at that moment), `Complete` (the
handler returns one of the wrapper's codes), and `Release` (the arena unloads
a drained version).

`Receive` and `Dispatch` are separate steps. The proxy reads
`backend_compiling` in `handle`, and `handle_request` reads the active
component later, so a build may start and even swap in between (the hazard
at PLAN.md 1396). An admitted request records the reload it had seen
(`seen`); the mutant `DispatchStale`, which binds the request to the
component that was active at the check, is caught by `HandleSafety`.

`Release` and `InFlight` are modelled from the spec (sections 4.5 and 9). The
plan swaps the component in `WasmRuntime` but has no code that says when the
old one is freed. Paths are sequences of segments. `starts_with("/api/")` is
"first segment `api`, at least one more segment", so `"/api"` is a Page, as
in the code.

Every other mapped definition names its lines in `PROJECT.json`.

### SsrHandler.tla

`handler(req)` from `src/unnamed/part_003`. `split("/")` is
`<<"">> \o path`. An out-of-range JS index is the model value `Undefined`.
`RoutePage` is the reference: the pages the frontend defines.

### BackendRouter.tla

This module models the generated backend inside `backend.wasm`
(PLAN.md 345-391, 448-499, 745-775). Every request runs in its own `Store`,
so requests share nothing, and one request is one step.

* The variable `last` records the latest request and its answer.
* `Handle` picks a method, a path and a body class (`malformed`, `invalid`,
  `valid`), plus what the user functions return. It then applies
  `RouterHandle`.
* `WrapperGet` covers the unwrapped `parse::<i32>` of path parameters. A
  failed parse panics, the component traps and the answer is 500. Otherwise
  the answer is 200, or `e.status_code()` on an error.
* `WrapperPost` covers the 400, 500 and 200 tiers.
* `match_route` has no body in the plan. `MatchRoute` is modelled from spec
  4.6: exact segment count, and the literal segment wins at the first
  position where two matches differ.

### SuiseiBuild.tla

This module models `astro build` followed by the suisei `astro:build:done`
hook (`src/unnamed/part_002`): `createServerEntry`, the rolldown config,
`rolldown`, then `jco componentize`.

* Each file of the server directory is recorded by the number of the build
  that wrote it, or by its input's number for a derived file. A stale
  `component.wasm` can therefore be told from a fresh one.
* A spawned command is modelled in two parts. Whether it wrote its output
  depends on the exit code. Whether `runCommand`'s promise resolves is
  `RunCommandResolves`.
* Any step may fail, and `Interrupt` kills the build between two awaits.
* Astro's `static` output is included. There the hook only warns, and the
  directory may be emptied.

### ToolchainSetup.tla

This module models `ensure_wasi_sdk` (PLAN.md 1240-1250), run by several
forte processes on one cache directory.

* `EnsureWasiSdk` is the `sdk_path.exists()` test: `Ok` at once, or the
  download.
* `download_and_extract(url, &sdk_path)` is given `sdk_path` itself, so it
  unpacks in place: `Download` fetches the archive and creates `sdk_path`,
  `ExtractEntry` writes one archive entry into it, and `FinishExtract`
  returns `Ok` once all are written. `DownloadFails` is the `?` on a
  network error.
* `Crash` kills a process during the install (bounded by `MaxCrashes`);
  `Rerun` starts a finished process again.

The body of `download_and_extract` is not in the plan; writing one entry
is taken as one step, which is the finest grain the plan justifies.

### HotSwap.tla and DevServerRefinement.tla

`HotSwap` is what the dev server promises (spec 4.4, 4.5, 4.6 step 1):

* the `Idle | Compiling | Ready | Failed` machine, with no edge
  `Compiling -> Idle`;
* an active handle published atomically, always a handle the runtime did not
  hold before (`Publish`);
* backend requests admitted (`Admit`) only outside `Compiling`, and bound
  to the handle active when they are dispatched (`Dispatch`); spec 4.6 lets
  the previous module serve while the next one compiles, so the gate is on
  admission;
* a retired handle released only when no request holds it.

`DevServerRefinement` instantiates `HotSwap` with a refinement mapping:

* `state` maps to `CompilationState`, derived from the flags;
* `admitted` maps to `Admitted`, the connections past the proxy's check and
  not yet dispatched;
* `retained` maps to `loaded`;
* `held` maps to `Held`, the handle of each running request, or `NoHandle`;
* `Handles` maps to the version numbers.

Watcher and build steps that change none of these map to stutters.

### SkiSandbox.tla

This module models the ski sandbox: `bootstrap.js` builds the global object
of the isolate snapshot, user code runs in that isolate, and for each
request the host calls `globalThis.__ski_runHandler`, which is
`runHandler` of `run.js`.

* `globals` maps each name to a property descriptor `[value, configurable,
  writable]` or `Absent`. A value is an abstract class: a built-in, runHandler
  itself, a user function or a user non-function. `Init` is the snapshot:
  `RunHandlerEntry` (non-writable, non-configurable, `bootstrap.js` 9-14),
  and the 56 Web API globals of `FetchDomGlobals`, `TimerStreamGlobals` and
  `EncodingMiscGlobals`, all writable and configurable.
* `UserOp` is a statement of user code: at top level, in a timer between
  requests, or in the handler's body while `runHandler` awaits it. It
  assigns, defines or deletes a global under ECMAScript's rules for
  descriptors. These rules are the engine's, not repository code, so
  `Assign`, `DefineProperty`, `DefineAllowed` and `Delete` have no map entry.
* `runHandler` is one action per statement group of its `try` block:
  * `Invoke`: the host reads the entry point;
  * `NewRequest`: the first `console.log`, `op_get_request_parts` and
    `new Request`, which reads the global `Request`;
  * `CheckHandler`: the `typeof handler` test;
  * `CallHandler`: `await handler(..)`, which may return a Response, throw
    or never settle;
  * `ConvertBody`: the body's resource id;
  * `Respond`: `await op_respond(..)`.

  `Throw(v)` moves to the catch block with the thrown value's class: an
  Error, or `undefined`/`null` (`UserThrown`). `Catch` is the catch block:
  `console.error(.., e.message, e.stack)` (line 54), then
  `op_respond(500, ..)`. Each `op_respond` call either succeeds or rejects
  (`RespondOutcomes`).
* Every `console.log` reads the global `console`, which user code may
  replace or delete (`MCUserNames` includes it). `ConsoleWorks` is the
  built-in; `ConsoleThrows` is a deleted or user-defined one, whose call
  may throw. A throw of the `console.log` after a successful `op_respond`
  (line 52) goes to the catch block after the answer went out.
* The host runs one `runHandler` at a time: the ops take no request
  argument, so they refer to the request in progress.

## 4. Runs

| Run | Checks | Bounds | Result |
|---|---|---|---|
| `dev_safety` | `TypeOK`, `HandleSafety`, `ServedNotOlderThanNotified`, `ActiveMonotonic`, `ReadyServesLatest` | 2 connections (symmetric), 5 paths (one per class, plus `/api`), 3 edits | pass, 37 047 states |
| `dev_liveness` | `NoLostChange`, `RetiredEventuallyReleased` under `FairSpec` | 2 connections, 5 paths, 2 edits | pass, 11 170 states |
| `dev_refinement` | `HotSwapSpec` (DevServer implements HotSwap) | as `dev_safety` | pass, 37 047 states |
| `ssr_routes` | `PageRoutesRender` | paths `/`, `/product/7`, `/product`, `/about` | **violation** |
| `router_tiers` | `PostTierSeparation`, `GetTierSeparation` | 4 routes (a root GET, a `:id` GET and POST, a literal POST that overlaps `:id`), 5 paths, an i32 and a non-i32 segment, every body class and result | pass, 181 states |
| `router_get_error` | `GetInternalFailureIs500` | as `router_tiers`, with `status_code()` in {400, 500} | **violation** |
| `suisei_build` | `SuccessMeansFresh` | 3 builds | pass, 377 states |
| `toolchain_inplace` | `EnsuredSdkComplete` | 2 processes (symmetric), 2 entries, 1 crash | **violation** |
| `ski_sandbox` | `EntryPointIntact` | user code touches the entry point, `Request`, `handler` and `console`, 2 user operations, 2 requests, `op_respond` ok or rejecting | pass, 37 070 states |
| `ski_unanswered` | `OneAnswerPerRequest` | as `ski_sandbox` | **violation** |

Why these bounds are enough:

* **Edits.** Three edits allow a change during a build, a failure followed
  by a success, and two consecutive swaps while a request still runs in the
  first component.
* **Connections.** Two connections allow one request to hold an old version
  while the other binds to the new one.
* **Builds.** Three builds allow a failed build between two successful ones,
  and a success after an interrupted build over the same directory.
* **Processes.** Two processes and one crash cover both ways to reach an
  existing but incomplete `sdk_path`: a concurrent start, and a rerun after
  a crash.
* **Ski.** Two user operations are enough to replace `Request`,
  `handler` or `console` and then redefine or delete the entry point. Two requests let
  the second run after user code changed globals during the first.
* **Mutants.** Every mutant below is caught within these bounds.

Each property of a passing run has a mutant: a plausible bug in the mapped
code that the run must catch.

| Mutant | Bug it stands for | Caught by |
|---|---|---|
| `StartBuildOffByOne` | the build snapshots the next version | `TypeOK` |
| `ReleaseUndrained` | old component freed at reload | `HandleSafety` |
| `DispatchStale` | `handle_request` runs in the component that was active when the proxy checked the flags | `HandleSafety` |
| `BuildSucceedsNotifyEarly` | reload signal sent when cargo ends, before the swap | `ServedNotOlderThanNotified` |
| `StartBuildOverlapping` | a second pipeline run starts during a build | `ActiveMonotonic` |
| `FileChangeDroppedWhileCompiling` | watcher ignores events during a build | `NoLostChange`, `ReadyServesLatest` |
| `ReleaseAfterFullDrain` | release waits until no request at all is running | `RetiredEventuallyReleased` |
| `ReceiveUngated` | the proxy drops the 503 gate while compiling | `HotSwapSpec` |
| `WrapperPostNoValidate` | the generated wrapper omits `input.validate()` | `PostTierSeparation` |
| `WrapperGetErrOk` | `wrapper_get` answers 200 whatever `get_props` returns | `GetTierSeparation` |
| `RunCommandResolvesOnClose` | `runCommand` resolves on `close` whatever the exit code | `SuccessMeansFresh` |
| `RunHandlerEntryConfigurable` | the entry point is exposed with `configurable: true` | `EntryPointIntact` |

### Findings

* **ssr_routes.** `handler` tests `pathParts[2]`, while the segment it wants
  is at index 1.
  * For `/` the array is `["", ""]`, so `pathParts[2]` is `undefined`.
  * For `/product/7`, `pathParts[2]` is `"7"`.

  Both pages the frontend defines are answered 404.
* **router_get_error.** `wrapper_get` answers an error of `get_props` with
  `e.status_code()` (PLAN.md 492). Spec section 8 says an internal failure
  of the handler is a 500. `wrapper_post` does send the fixed 500.
* **toolchain_inplace.** `ensure_wasi_sdk` takes `sdk_path.exists()` as
  "installed" (PLAN.md 1244). If the archive is unpacked in place, two
  cases get `Ok` for a half-unpacked SDK, and nothing repairs it later:
  * a second process that starts during the install;
  * a rerun after an interrupted install.
* **ski_unanswered.** The catch block of `runHandler` begins with
  `console.error("[ski/run.js] Error:", e.message, e.stack)` (run.js 54),
  before its `op_respond(500)`. If user code throws `undefined` or `null`
  (a handler whose promise rejects with no reason, a user `Request` that
  throws `null`), or has deleted or replaced `console`, that line throws:
  the request gets no answer, though no `op_respond` was rejected. In the
  other direction, a `console.log` that throws after a successful
  `op_respond` (line 52) makes the catch block send a second answer.

### Fairness

Weak fairness is assumed on these actions:

* `StartBuild` and `PipelineStep`. The pipeline is one task that runs to
  completion. Builds are not cancellable, and `cargo` terminates with
  success or failure.
* `Dispatch(r)`. `handle` calls `handle_request` directly after the check.
* `Complete(r)`. Every dispatch carries an execution budget (spec section 5),
  so a running request ends.
* `Release(v)`. The arena frees a version when its last holder drops.

Edits (`FileChange`) and clients (`Receive`) are not fair. Users may stop
editing, and clients may stop sending. The other modules are checked for
safety only, so they assume no fairness.

## 5. Proofs

Every theorem is proved by TLAPS for every value of the constants, under the
named `ASSUME`s of the modules (`MaxEdits \in Nat`, `MaxBuilds \in Nat`,
the route roles, `MaxRequests \in Nat /\ MaxUserOps \in Nat`). Each
rests on an inductive strengthening of the property, and TLC checked the
strengthening as an invariant before it was proved. The strengthening is
needed because the property alone is not preserved by every step.

**DevServer_proofs** proves five theorems:

* `TypeCorrect`: `Spec => []TypeOK`.
* `HandleSafe`: `Spec => []HandleSafety`.
* `ServedFresh`: `Spec => []ServedNotOlderThanNotified`.
* `Monotonic`: `Spec => ActiveMonotonic`.
* `ReadyLatest`: `Spec => []ReadyServesLatest`.

They rest on `IInv`, which adds seven facts:

* the active version is loaded;
* at most one build is in flight;
* a build's version lies between `active` and `srcVer`;
* `notified = active`: the signal is sent in the same step as the swap;
* `BuildsCurrent`: a build started with no change pending is of the current
  source until a change arrives;
* `SettledCurrent`: with no build, no error and nothing pending, `active`
  is the current source. This is what `ReadyServesLatest` needs;
* `AdmittedBehind`: a request past the proxy's check holds no handle yet
  and has seen no reload newer than `active`. `Dispatch` binds it to
  `active`, and this is what keeps `ServedNotOlderThanNotified` then.

**DevServerRefinement_proofs** proves `Refinement`: `Spec => HotSwapSpec`.
`RInv` extends `IInv` with four facts, which make each swap a legal
`Publish` of a handle not yet retained:

* `compiling` exactly while a build is in flight;
* every loaded version is at most `active`;
* builds are newer than `active`;
* a pending change is newer still.

The proof has three parts:

* `InitRefines`: initial states map to `HSInit`.
* `StepRefines`: one case per action, each mapped to the abstract action
  or to a stutter. `Receive` maps to `Admit` or a stutter, `Dispatch` to
  `Dispatch`, `Complete` to `Finish` and `Release` to `ReleaseHandle`.
* The temporal step, `PTL`.

**BackendRouter_proofs** proves `PostTiers`: `Spec => []PostTierSeparation`.
The strengthening `AnswerMatches` says the recorded answer is what
`RouterHandle` computes for the recorded inputs. `HandleCodes` proves the
code for each role. `GetTiers` proves `Spec => []GetTierSeparation` from the
same strengthening plus `StatusFromError`: a recorded answer's
`status_code()` is one of the error statuses.

**SuiseiBuild_proofs** proves `FreshOnSuccess`:
`Spec => []SuccessMeansFresh`. `StepsDone` states, for each step the build
awaits, which files already carry this build's number. It also states that
a reported success leaves the build idle.

**SkiSandbox_proofs** proves `EntryIntact`: `Spec => []EntryPointIntact`.
It rests on `IInv`: the global object stays a map from names to
descriptors, and the entry's descriptor is always `RunHandlerEntry`.
`UserOpGlobal` shows that assignment, `defineProperty` and delete all leave
a non-writable, non-configurable descriptor as it is; `RunHandlerStep` shows
that no step of `runHandler` touches the globals or reaches `hijacked`.

The following are only model-checked:

* The two liveness properties. They need fairness and ENABLED, which are out
  of the prover's reach.
* The SSR reference comparison.
* The four violations.

## 6. Hazards

`PROJECT.json` lists every hazard at the line where it bites, with the
properties that cover it. A hazard no property covers has a note saying why.
One example is the JS rounding of `u64` values above 2^53.

## 7. Not modelled

* **Cloud infrastructure** (`src/pulumi`, `src/cloud`): Pulumi resource
  declarations, with no behaviour of the program's own.
* **Type extractor and emitter**: the repository has only the mapping tables
  and generated files, with no code to translate.
* **ski host ops**: the Rust side of `op_get_request_parts` and
  `op_respond`, and the Web API modules that `bootstrap.js` imports, are not
  in the repository. `op_respond` is modelled only by its two outcomes.
* **Documents**: the CLA, the old README and the agent guide are prose.
