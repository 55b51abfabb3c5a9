---------------------------- MODULE BackendRouter ----------------------------
(***************************************************************************)
(* The generated backend inside backend.wasm: Router::handle matches the   *)
(* method and path against the route table and calls the route's wrapper   *)
(* (PLAN.md 3.8, 4.1, 4.2, 6.4).  wrapper_get parses the path parameters   *)
(* and calls get_props; wrapper_post parses and validates the JSON body    *)
(* and calls post_action, mapping the two-level result onto the three      *)
(* response tiers (500 internal, 400 validation, 200 business result).     *)
(*                                                                         *)
(* Each request runs in its own Store (WasmRuntime::handle_request), so    *)
(* requests share nothing and one request is one step.  What the user     *)
(* functions return is an input of the step.                               *)
(***************************************************************************)
EXTENDS Naturals, Sequences

CONSTANTS
  Routes,      \* Router::new's table: sequence of [method, pattern, role]
  Paths,       \* request paths, as sequences of segments
  ParamSegs,   \* pattern segments that are parameters (":id", ...)
  I32Segs,     \* path segments that `str::parse::<i32>` accepts
  ErrStatuses  \* what `e.status_code()` of a get_props error may return

ASSUME RoutesAssumption ==
  /\ \A i \in DOMAIN Routes : Routes[i].role \in {"get", "post"}
  /\ ErrStatuses \subseteq {400, 404, 500}

VARIABLES
  last   \* the most recent request and how it was answered

vars == <<last>>

Methods       == {"GET", "POST"}
Bodies        == {"malformed", "invalid", "valid"}  \* JSON parse / validate
GetOutcomes   == {"Ok", "Err"}                       \* anyhow::Result<PageProps>
PostOutcomes  == {"Err", "OkOk", "OkErr"}           \* Result<Result<Response, Error>>
Codes         == {200, 400, 404, 500}

(***************************************************************************)
(* Matching (spec 4.6; the plan does not show match_route's body): same    *)
(* method, same segment count, every literal segment equal.  Among several *)
(* matches the one with a literal at the first position where they differ *)
(* wins.                                                                   *)
(***************************************************************************)
Matches(rt, method, path) ==
  /\ rt.method = method
  /\ Len(rt.pattern) = Len(path)
  /\ \A i \in 1 .. Len(path) :
       rt.pattern[i] \in ParamSegs \/ rt.pattern[i] = path[i]

IsLit(rt, i) == rt.pattern[i] \notin ParamSegs

MoreSpecific(a, b) ==
  \E i \in 1 .. Len(a.pattern) :
    /\ \A j \in 1 .. i - 1 : IsLit(a, j) = IsLit(b, j)
    /\ IsLit(a, i) /\ ~IsLit(b, i)

Candidates(method, path) ==
  {Routes[i] : i \in {k \in DOMAIN Routes : Matches(Routes[k], method, path)}}

\* match_route's None
NoRoute == [method |-> "none", pattern |-> <<>>, role |-> "none"]

MatchRoute(method, path) ==
  LET C == Candidates(method, path) IN
  IF C = {} THEN NoRoute
  ELSE CHOOSE m \in C : \A o \in C : o = m \/ MoreSpecific(m, o)

(***************************************************************************)
(* wrapper_get: `params.get(..).unwrap().parse().unwrap()` for every path  *)
(* parameter (a failed parse panics, the component traps and the host      *)
(* answers 500), then get_props: Ok gives 200 with the props, Err(e) the  *)
(* status `e.status_code()`, which the error value decides.                *)
(***************************************************************************)
BadParam(rt, path) ==
  \E i \in 1 .. Len(path) : rt.pattern[i] \in ParamSegs /\ path[i] \notin I32Segs

\* Mutant: get_props' Err is answered 200 with the error JSON, as
\* wrapper_post answers a business error.
WrapperGetErrOk(rt, path, outcome, errStatus) ==
  IF BadParam(rt, path) THEN [code |-> 500, invoked |-> FALSE]
  ELSE [code |-> 200, invoked |-> TRUE]

WrapperGet(rt, path, outcome, errStatus) ==
  IF BadParam(rt, path) THEN [code |-> 500, invoked |-> FALSE]
  ELSE [code |-> IF outcome = "Ok" THEN 200 ELSE errStatus, invoked |-> TRUE]

(***************************************************************************)
(* wrapper_post: body not JSON for ActionInput -> 400; validate() fails    *)
(* -> 400 with the field errors; otherwise post_action runs: Err -> 500,   *)
(* Ok(Ok(response)) and Ok(Err(error)) -> 200 with the tagged JSON.        *)
(***************************************************************************)
\* Mutant: the generated wrapper omits the `input.validate()` check.
WrapperPostNoValidate(body, outcome) ==
  IF body = "malformed" THEN [code |-> 400, invoked |-> FALSE]
  ELSE [code |-> IF outcome = "Err" THEN 500 ELSE 200, invoked |-> TRUE]

WrapperPost(body, outcome) ==
  IF body = "malformed" THEN [code |-> 400, invoked |-> FALSE]
  ELSE IF body = "invalid" THEN [code |-> 400, invoked |-> FALSE]
  ELSE [code |-> IF outcome = "Err" THEN 500 ELSE 200, invoked |-> TRUE]

(***************************************************************************)
(* Router::handle: the matched route's wrapper, or not_found (404).        *)
(***************************************************************************)
RouterHandle(method, path, body, gOut, gStatus, pOut) ==
  LET rt == MatchRoute(method, path) IN
  IF rt = NoRoute THEN [code |-> 404, invoked |-> FALSE]
  ELSE IF rt.role = "get" THEN WrapperGet(rt, path, gOut, gStatus)
  ELSE WrapperPost(body, pOut)

Init == last = [method |-> "GET", path |-> <<"">>, body |-> "valid",
                gOut |-> "Ok", gStatus |-> 500, pOut |-> "OkOk", code |-> 0,
                invoked |-> FALSE]

\* One request enters the component and is answered.
Handle ==
  \E m \in Methods, p \in Paths, b \in Bodies, g \in GetOutcomes,
     e \in ErrStatuses, o \in PostOutcomes :
    LET res == RouterHandle(m, p, b, g, e, o) IN
    last' = [method |-> m, path |-> p, body |-> b, gOut |-> g, gStatus |-> e,
             pOut |-> o, code |-> res.code, invoked |-> res.invoked]

Next == Handle

Spec == Init /\ [][Next]_vars

-----------------------------------------------------------------------------
Role(l) == MatchRoute(l.method, l.path).role

TypeOK ==
  /\ last.method \in Methods /\ last.body \in Bodies
  /\ last.gOut \in GetOutcomes /\ last.pOut \in PostOutcomes
  /\ last.code \in Codes \cup {0} /\ last.invoked \in BOOLEAN

(***************************************************************************)
(* The three tiers of wrapper_post never mix (spec 7 and 8): a body that   *)
(* does not parse or validate is answered 400 and post_action never runs;  *)
(* post_action's outer Err is 500; both inner results, the declared        *)
(* business error included, are 200.  (Code 0 is the state before the     *)
(* first request.)                                                         *)
(***************************************************************************)
PostTierSeparation ==
  Role(last) = "post" /\ last.code # 0 =>
    /\ last.code = 400 <=> last.body # "valid"
    /\ last.invoked <=> last.body = "valid"
    /\ last.invoked => (last.code = 500 <=> last.pOut = "Err")

(***************************************************************************)
(* The tiers of wrapper_get never mix: an answered GET to a get route ran  *)
(* get_props exactly when every path parameter parses as i32; a parameter *)
(* that does not parse traps the component and is answered 500; and the   *)
(* answer is 200 exactly when get_props returned Ok, whatever status an    *)
(* error value reports.                                                    *)
(***************************************************************************)
GetTierSeparation ==
  Role(last) = "get" /\ last.code # 0 =>
    /\ last.invoked <=> ~BadParam(MatchRoute(last.method, last.path), last.path)
    /\ ~last.invoked => last.code = 500
    /\ last.code = 200 <=> (last.invoked /\ last.gOut = "Ok")

(***************************************************************************)
(* The spec's scenario for GET /product/:id: when get_props raises an      *)
(* internal failure the answer is 500.  wrapper_get answers with           *)
(* `e.status_code()`.                                                      *)
(***************************************************************************)
GetInternalFailureIs500 ==
  (Role(last) = "get" /\ last.invoked /\ last.gOut = "Err") => last.code = 500

=============================================================================
