----------------------------- MODULE DevServer -----------------------------
(***************************************************************************)
(* The `forte dev` core: the change-triggered rebuild pipeline, the        *)
(* hot-swappable Wasmtime runtime and the CLI proxy that every request     *)
(* enters (src/forte/PLAN.md sections 1.4, 3.2, 3.3, 3.5, 3.6, 14.2).      *)
(*                                                                         *)
(* - The watcher turns a debounced burst of edits into one change event;   *)
(*   the pipeline (codegen, cargo build, WasmRuntime.reload, WebSocket     *)
(*   reload signal) runs one build at a time.                              *)
(* - The runtime keeps an arena of loaded module versions: `active` is the *)
(*   one new requests bind to, older ones stay loaded until no in-flight   *)
(*   request holds them.                                                   *)
(* - The proxy classifies each path; ApiOnly and Page requests are         *)
(*   answered 503 while `backend_compiling` is set, otherwise dispatched   *)
(*   to the handle active at dispatch time.                                *)
(*                                                                         *)
(* Source text, edits and module bytes are abstracted to version numbers:  *)
(* version n is the module built from the source after the n-th debounced  *)
(* change.                                                                 *)
(***************************************************************************)
EXTENDS Integers, Sequences, FiniteSets

CONSTANTS
  Req,       \* concurrent client connections (model values)
  Paths,     \* request paths, each a sequence of '/'-separated segments
  MaxEdits   \* bound on debounced source changes

ASSUME MaxEditsAssumption == MaxEdits \in Nat

VARIABLES
  srcVer,        \* number of debounced changes seen by the watcher
  pending,       \* a change event the pipeline has not picked up yet
  builds,        \* pipeline runs in flight: [src, phase]
  compiling,     \* backend_compiling (PLAN.md 14.2)
  ready,         \* backend_ready
  lastError,     \* last_error is Some(_)
  active,        \* version of the component new requests bind to
  loaded,        \* versions still held by the runtime's arena
  notified,      \* last version announced on the live-reload WebSocket
  req,           \* per connection: the request it is serving
  lastAttempt    \* history: source version of the last finished build

vars == <<srcVer, pending, builds, compiling, ready, lastError,
          active, loaded, notified, req, lastAttempt>>

Versions == 0 .. MaxEdits
NoHandle == -1
Phases   == {"compiling", "loading"}
Codes    == {"Delegated", "Rebuilding", "Ok", "BadRequest",
             "NotFound", "InternalError"}

\* What a handler invocation can answer: the wrapper's three tiers
\* (200 business result, 400 validation, 500 anyhow error) and the
\* router's 404 (PLAN.md 6.4, 3.8).
HandlerCodes == {"Ok", "BadRequest", "NotFound", "InternalError"}

ReqState == [stage : {"idle", "admitted", "running", "done"},
             handle : Versions \cup {NoHandle},
             code : Codes \cup {"None"},
             seen : Versions]

(***************************************************************************)
(* CoRouterProxy::classify_request: prefix tests on the path string.       *)
(* `starts_with("/api/")` holds exactly when the first segment is "api"    *)
(* and at least one more segment (possibly empty) follows it.              *)
(***************************************************************************)
StartsWith(path, seg) == Len(path) >= 2 /\ path[1] = seg

ClassifyRequest(path) ==
  IF StartsWith(path, "client") \/ StartsWith(path, "static") THEN "Static"
  ELSE IF StartsWith(path, "__forte") THEN "Internal"
  ELSE IF StartsWith(path, "api") THEN "ApiOnly"
  ELSE "Page"

\* The abstract compilation state of spec section 4.4, read off the
\* three flags the CLI keeps.
CompilationState ==
  IF compiling THEN "Compiling"
  ELSE IF lastError THEN "Failed"
  ELSE IF ready THEN "Ready"
  ELSE "Idle"

InFlight(v) == \E r \in Req : req[r].stage = "running" /\ req[r].handle = v

(***************************************************************************)
(* `forte dev` has built and loaded the backend (version 0) before the     *)
(* proxy starts listening (PLAN.md 3.4 steps 3-6).                         *)
(***************************************************************************)
Init ==
  /\ srcVer = 0
  /\ pending = FALSE
  /\ builds = {}
  /\ compiling = FALSE
  /\ ready = TRUE
  /\ lastError = FALSE
  /\ active = 0
  /\ loaded = {0}
  /\ notified = 0
  /\ req = [r \in Req |-> [stage |-> "idle", handle |-> NoHandle,
                           code |-> "None", seen |-> 0]]
  /\ lastAttempt = 0

(***************************************************************************)
(* Watcher: a debounced change of a watched file.  The debouncer fires     *)
(* whether or not a build is running; a change during a build stays        *)
(* pending and is picked up when the build ends.                           *)
(***************************************************************************)
\* Mutant: the watcher ignores events while a build runs.
FileChangeDroppedWhileCompiling ==
  /\ srcVer < MaxEdits
  /\ srcVer' = srcVer + 1
  /\ pending' = ~compiling
  /\ UNCHANGED <<builds, compiling, ready, lastError, active, loaded,
                 notified, req, lastAttempt>>

FileChange ==
  /\ srcVer < MaxEdits
  /\ srcVer' = srcVer + 1
  /\ pending' = TRUE
  /\ UNCHANGED <<builds, compiling, ready, lastError, active, loaded,
                 notified, req, lastAttempt>>

(***************************************************************************)
(* Pipeline start: the single serialized pipeline takes the pending change *)
(* and sets backend_compiling; the build is of the source as it is now.    *)
(***************************************************************************)
\* Mutant: the build snapshots the version after the current one.
StartBuildOffByOne ==
  /\ pending
  /\ builds = {}
  /\ builds' = {[src |-> srcVer + 1, phase |-> "compiling"]}
  /\ pending' = FALSE
  /\ compiling' = TRUE
  /\ UNCHANGED <<srcVer, ready, lastError, active, loaded, notified, req,
                 lastAttempt>>

\* Mutant: a new change starts a second build while one is in flight.
StartBuildOverlapping ==
  /\ pending
  /\ builds' = builds \cup {[src |-> srcVer, phase |-> "compiling"]}
  /\ pending' = FALSE
  /\ compiling' = TRUE
  /\ UNCHANGED <<srcVer, ready, lastError, active, loaded, notified, req,
                 lastAttempt>>

StartBuild ==
  /\ pending
  /\ builds = {}
  /\ builds' = {[src |-> srcVer, phase |-> "compiling"]}
  /\ pending' = FALSE
  /\ compiling' = TRUE
  /\ UNCHANGED <<srcVer, ready, lastError, active, loaded, notified, req,
                 lastAttempt>>

(***************************************************************************)
(* Codegen and `cargo build` finished and produced backend.wasm.           *)
(***************************************************************************)
\* Mutant: the reload signal goes out when cargo finishes, before the swap.
BuildSucceedsNotifyEarly(b) ==
  /\ b.phase = "compiling"
  /\ builds' = (builds \ {b}) \cup {[b EXCEPT !.phase = "loading"]}
  /\ notified' = b.src
  /\ UNCHANGED <<srcVer, pending, compiling, ready, lastError, active, loaded,
                 req, lastAttempt>>

BuildSucceeds(b) ==
  /\ b.phase = "compiling"
  /\ builds' = (builds \ {b}) \cup {[b EXCEPT !.phase = "loading"]}
  /\ UNCHANGED <<srcVer, pending, compiling, ready, lastError, active, loaded,
                 notified, req, lastAttempt>>

(***************************************************************************)
(* Codegen, cargo or Component::from_file failed: the diagnostic is kept   *)
(* in last_error, backend_compiling is cleared and the previous component  *)
(* stays active and serving.                                               *)
(***************************************************************************)
BuildFails(b) ==
  /\ builds' = builds \ {b}
  /\ compiling' = FALSE
  /\ lastError' = TRUE
  /\ lastAttempt' = b.src
  /\ UNCHANGED <<srcVer, pending, ready, active, loaded, notified, req>>

(***************************************************************************)
(* WasmRuntime.reload: the new component is published, the old one is     *)
(* retired into the arena, the flags are set and the WebSocket reload      *)
(* signal is sent, in this order (PLAN.md 3.6).                            *)
(***************************************************************************)
LoadAndSwap(b) ==
  /\ b.phase = "loading"
  /\ builds' = builds \ {b}
  /\ active' = b.src
  /\ loaded' = loaded \cup {b.src}
  /\ compiling' = FALSE
  /\ ready' = TRUE
  /\ lastError' = FALSE
  /\ notified' = b.src
  /\ lastAttempt' = b.src
  /\ UNCHANGED <<srcVer, pending, req>>

(***************************************************************************)
(* CoRouterProxy::handle for a new request on connection r (a connection   *)
(* whose previous request has been answered).  Static and Internal are     *)
(* delegated; for ApiOnly and Page the proxy reads backend_compiling and   *)
(* answers 503 if it is set (PLAN.md 14.2 steps 1-3), else the request is  *)
(* admitted and goes on to the runtime in a later step (Dispatch): the     *)
(* pipeline runs concurrently and may start a build, or swap, in between.  *)
(* `seen` records the last reload the client was told of.                  *)
(***************************************************************************)
\* Mutant: the proxy admits without checking backend_compiling.
ReceiveUngated(r) ==
  /\ req[r].stage \in {"idle", "done"}
  /\ \E p \in Paths :
       LET kind == ClassifyRequest(p) IN
       \/ /\ kind \in {"Static", "Internal"}
          /\ req' = [req EXCEPT ![r] = [stage |-> "done", handle |-> NoHandle,
                                        code |-> "Delegated", seen |-> notified]]
       \/ /\ kind \in {"ApiOnly", "Page"}
          /\ req' = [req EXCEPT ![r] = [stage |-> "admitted", handle |-> NoHandle,
                                        code |-> "None", seen |-> notified]]
  /\ UNCHANGED <<srcVer, pending, builds, compiling, ready, lastError,
                 active, loaded, notified, lastAttempt>>

Receive(r) ==
  /\ req[r].stage \in {"idle", "done"}
  /\ \E p \in Paths :
       LET kind == ClassifyRequest(p) IN
       \/ /\ kind \in {"Static", "Internal"}
          /\ req' = [req EXCEPT ![r] = [stage |-> "done", handle |-> NoHandle,
                                        code |-> "Delegated", seen |-> notified]]
       \/ /\ kind \in {"ApiOnly", "Page"}
          /\ compiling
          /\ req' = [req EXCEPT ![r] = [stage |-> "done", handle |-> NoHandle,
                                        code |-> "Rebuilding", seen |-> notified]]
       \/ /\ kind \in {"ApiOnly", "Page"}
          /\ ~compiling
          /\ req' = [req EXCEPT ![r] = [stage |-> "admitted", handle |-> NoHandle,
                                        code |-> "None", seen |-> notified]]
  /\ UNCHANGED <<srcVer, pending, builds, compiling, ready, lastError,
                 active, loaded, notified, lastAttempt>>

(***************************************************************************)
(* wasm_runtime.handle_request (ApiOnly) or get_props (Page): a fresh      *)
(* Store, and linker.instantiate on self.component, the component active   *)
(* now, whatever happened since the proxy's check.                         *)
(***************************************************************************)
\* Mutant: the handle is the one that was active when the proxy checked.
DispatchStale(r) ==
  /\ req[r].stage = "admitted"
  /\ req' = [req EXCEPT ![r].stage = "running", ![r].handle = req[r].seen]
  /\ UNCHANGED <<srcVer, pending, builds, compiling, ready, lastError,
                 active, loaded, notified, lastAttempt>>

Dispatch(r) ==
  /\ req[r].stage = "admitted"
  /\ req' = [req EXCEPT ![r].stage = "running", ![r].handle = active]
  /\ UNCHANGED <<srcVer, pending, builds, compiling, ready, lastError,
                 active, loaded, notified, lastAttempt>>

(***************************************************************************)
(* The component's incoming handler returns (or its execution budget runs  *)
(* out, which answers 500); the per-request Store is dropped.              *)
(***************************************************************************)
Complete(r) ==
  /\ req[r].stage = "running"
  /\ \E c \in HandlerCodes :
       req' = [req EXCEPT ![r].stage = "done", ![r].code = c]
  /\ UNCHANGED <<srcVer, pending, builds, compiling, ready, lastError,
                 active, loaded, notified, lastAttempt>>

(***************************************************************************)
(* The arena unloads a retired version once no request holds it.           *)
(***************************************************************************)
\* Mutant: the old component is dropped without waiting for its requests.
ReleaseUndrained(v) ==
  /\ v \in loaded
  /\ v # active
  /\ loaded' = loaded \ {v}
  /\ UNCHANGED <<srcVer, pending, builds, compiling, ready, lastError,
                 active, notified, req, lastAttempt>>

\* Mutant: the arena waits until no request at all is running.
ReleaseAfterFullDrain(v) ==
  /\ v \in loaded
  /\ v # active
  /\ \A r \in Req : req[r].stage # "running"
  /\ loaded' = loaded \ {v}
  /\ UNCHANGED <<srcVer, pending, builds, compiling, ready, lastError,
                 active, notified, req, lastAttempt>>

Release(v) ==
  /\ v \in loaded
  /\ v # active
  /\ ~InFlight(v)
  /\ loaded' = loaded \ {v}
  /\ UNCHANGED <<srcVer, pending, builds, compiling, ready, lastError,
                 active, notified, req, lastAttempt>>

PipelineStep ==
  \E b \in builds : BuildSucceeds(b) \/ BuildFails(b) \/ LoadAndSwap(b)

Next ==
  \/ FileChange
  \/ StartBuild
  \/ PipelineStep
  \/ \E r \in Req : Receive(r) \/ Dispatch(r) \/ Complete(r)
  \/ \E v \in Versions : Release(v)

(***************************************************************************)
(* Fairness.  The pipeline is a tokio task that runs to completion (builds *)
(* are not cancellable and cargo terminates); the proxy's handler future   *)
(* goes on to the runtime once admitted; every dispatch carries an         *)
(* execution budget, so a running request completes; the arena's release  *)
(* runs when the last holder drops.  Clients and edits are not fair.       *)
(***************************************************************************)
Fairness ==
  /\ WF_vars(StartBuild)
  /\ WF_vars(PipelineStep)
  /\ \A r \in Req : WF_vars(Dispatch(r)) /\ WF_vars(Complete(r))
  /\ \A v \in Versions : WF_vars(Release(v))

Spec == Init /\ [][Next]_vars
FairSpec == Spec /\ Fairness

-----------------------------------------------------------------------------
(* Type invariant. *)
TypeOK ==
  /\ srcVer \in Versions
  /\ pending \in BOOLEAN
  /\ builds \subseteq [src : Versions, phase : Phases]
  /\ compiling \in BOOLEAN
  /\ ready \in BOOLEAN
  /\ lastError \in BOOLEAN
  /\ active \in Versions
  /\ loaded \subseteq Versions
  /\ notified \in Versions
  /\ req \in [Req -> ReqState]
  /\ lastAttempt \in Versions

(***************************************************************************)
(* Reload atomicity, use side: a request that is still running in the      *)
(* component it was dispatched to finds that component loaded.  Breaks if  *)
(* the arena unloads a retired version while a request started before the  *)
(* reload is still executing in it (WasmRuntime.reload vs handle_request). *)
(***************************************************************************)
HandleSafety ==
  \A r \in Req : req[r].stage = "running" => req[r].handle \in loaded

(***************************************************************************)
(* The published component never goes back to an older source version:    *)
(* hot reload replaces the active module only by a newer build.  Breaks   *)
(* if two pipeline runs overlap and the older one swaps in last.          *)
(***************************************************************************)
ActiveMonotonic == [][active' >= active]_vars

(***************************************************************************)
(* A client told over the live-reload channel that version v is live, and *)
(* then sending a request, is served by version v or a newer one.  Breaks *)
(* if the reload signal is sent before WasmRuntime.reload has swapped.    *)
(***************************************************************************)
ServedNotOlderThanNotified ==
  \A r \in Req : req[r].handle # NoHandle => req[r].handle >= req[r].seen

(***************************************************************************)
(* Ready means current: while the dev server reports Ready and no change   *)
(* is waiting for the pipeline, new requests are served by the component   *)
(* built from the current source, and the live-reload channel has         *)
(* announced it.  Breaks if a change that arrives during a build is        *)
(* dropped: the build of the older source then swaps in and reports Ready. *)
(***************************************************************************)
ReadyServesLatest ==
  CompilationState = "Ready" /\ ~pending => active = srcVer /\ notified = srcVer

(***************************************************************************)
(* No change is lost: every debounced change is eventually covered by a   *)
(* finished build (successful or not).  Breaks if a change that arrives   *)
(* while backend_compiling is set is dropped instead of queued.           *)
(***************************************************************************)
NoLostChange ==
  \A v \in 1 .. MaxEdits : (srcVer >= v) ~> (lastAttempt >= v)

(***************************************************************************)
(* Every retired component is eventually unloaded once the requests that  *)
(* started in it finish, even while new requests keep arriving.  Breaks   *)
(* if the arena waits for all in-flight requests instead of its own.      *)
(***************************************************************************)
RetiredEventuallyReleased ==
  \A v \in Versions : (v \in loaded /\ v # active) ~> (v \notin loaded)

=============================================================================
