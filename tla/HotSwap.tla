------------------------------ MODULE HotSwap ------------------------------
(***************************************************************************)
(* What the dev server promises (spec 4.4, 4.5, 4.6 step 1, 5): the        *)
(* compilation state machine, an atomically published active module       *)
(* handle, no backend request admitted while compiling, admitted requests  *)
(* bound to the handle active when they are dispatched, and an old handle  *)
(* released only once no request holds it.  Admission and dispatch are two *)
(* steps: a build may start between them (spec 5: requests are dispatched  *)
(* concurrently with the serialized pipeline, and the previous module      *)
(* stays active and serving while compiling).  Builds, flags, the watcher    *)
(* and classification are not visible at this level.                       *)
(***************************************************************************)
CONSTANTS
  Req,       \* concurrent client connections
  Handles,   \* module handles
  NoHold     \* what a connection holds when no request of it runs, not a handle

VARIABLES
  state,     \* CompilationState: "Idle", "Compiling", "Ready", "Failed"
  active,    \* the published handle
  retained,  \* handles the runtime still holds
  admitted,  \* connections whose request passed the gate, not yet dispatched
  held       \* per connection: the handle its running request uses

hsVars == <<state, active, retained, admitted, held>>

States == {"Idle", "Compiling", "Ready", "Failed"}

\* Initial state is Idle or Ready once a module exists at startup (4.4).
HSInit ==
  /\ state \in {"Idle", "Ready"}
  /\ active \in Handles
  /\ retained = {active}
  /\ admitted = {}
  /\ held = [r \in Req |-> NoHold]

\* Idle|Ready|Failed -> Compiling on a relevant file change.
StartCompiling ==
  /\ state # "Compiling"
  /\ state' = "Compiling"
  /\ UNCHANGED <<active, retained, admitted, held>>

\* Compiling -> Ready on build and swap success: a new handle is published,
\* never one mutated in place (9).
Publish(h) ==
  /\ state = "Compiling"
  /\ h \in Handles \ retained
  /\ state' = "Ready"
  /\ active' = h
  /\ retained' = retained \cup {h}
  /\ UNCHANGED <<admitted, held>>

\* Compiling -> Failed; the previous handle stays active.
BuildFailed ==
  /\ state = "Compiling"
  /\ state' = "Failed"
  /\ UNCHANGED <<active, retained, admitted, held>>

\* An ApiOnly or Page request is admitted, outside Compiling only (4.6
\* step 1); inside Compiling it gets the rebuilding status, a stutter here.
Admit(r) ==
  /\ held[r] = NoHold
  /\ r \notin admitted
  /\ state # "Compiling"
  /\ admitted' = admitted \cup {r}
  /\ UNCHANGED <<state, active, retained, held>>

\* An admitted request is dispatched on the handle active at dispatch time.
Dispatch(r) ==
  /\ r \in admitted
  /\ admitted' = admitted \ {r}
  /\ held' = [held EXCEPT ![r] = active]
  /\ UNCHANGED <<state, active, retained>>

Finish(r) ==
  /\ held[r] # NoHold
  /\ held' = [held EXCEPT ![r] = NoHold]
  /\ UNCHANGED <<state, active, retained, admitted>>

\* A retired handle is released once its last in-flight request completes.
ReleaseHandle(h) ==
  /\ h \in retained \ {active}
  /\ \A r \in Req : held[r] # h
  /\ retained' = retained \ {h}
  /\ UNCHANGED <<state, active, admitted, held>>

HSNext ==
  \/ StartCompiling \/ BuildFailed
  \/ \E h \in Handles : Publish(h) \/ ReleaseHandle(h)
  \/ \E r \in Req : Admit(r) \/ Dispatch(r) \/ Finish(r)

HSSpec == HSInit /\ [][HSNext]_hsVars

=============================================================================
