-------------------------- MODULE DevServer_proofs --------------------------
(***************************************************************************)
(* Proofs about the dev-server core (DevServer), for every number of       *)
(* connections, every set of paths and every bound on edits.               *)
(***************************************************************************)
EXTENDS DevServer, TLAPS

(***************************************************************************)
(* The inductive invariant.  HandleSafety alone is not inductive: Receive  *)
(* binds a request to `active`, so the active version must be loaded; a    *)
(* swap publishes the version of the one build in flight, so that build    *)
(* must be no older than `active`, and the reload signal must name the     *)
(* active version for a request's `seen` to stay below its handle.         *)
(***************************************************************************)
AtMostOneBuild == \A b1, b2 \in builds : b1 = b2

BuildsAhead == \A b \in builds : active <= b.src /\ b.src <= srcVer

(***************************************************************************)
(* ReadyServesLatest needs two more facts: a build started with no change  *)
(* pending is of the current source until a change arrives, and once the   *)
(* pipeline has settled (no build, no error, nothing pending) the active   *)
(* version is the current source.                                          *)
(***************************************************************************)
BuildsCurrent == \A b \in builds : ~pending => b.src = srcVer

SettledCurrent == ~compiling /\ ~lastError /\ ~pending => active = srcVer

(***************************************************************************)
(* A request the proxy has admitted holds no handle yet, and the reload    *)
(* its client had heard of is no newer than `active`: the check read       *)
(* `notified`, which equals `active`, and `active` only grows afterwards.  *)
(* This is what keeps ServedNotOlderThanNotified across the window between *)
(* the proxy's check and handle_request.                                   *)
(***************************************************************************)
AdmittedBehind ==
  \A r \in Req : req[r].stage = "admitted" =>
                   req[r].handle = NoHandle /\ req[r].seen <= active

IInv ==
  /\ TypeOK
  /\ active \in loaded
  /\ active <= srcVer
  /\ notified = active
  /\ AtMostOneBuild
  /\ BuildsAhead
  /\ BuildsCurrent
  /\ SettledCurrent
  /\ AdmittedBehind
  /\ HandleSafety
  /\ ServedNotOlderThanNotified

USE MaxEditsAssumption

(* The initial state (backend built and loaded, nothing in flight)
   satisfies the inductive invariant. *)
LEMMA InitIInv == Init => IInv
<1> SUFFICES ASSUME Init PROVE IInv
  OBVIOUS
<1>1. [stage |-> "idle", handle |-> NoHandle, code |-> "None", seen |-> 0]
        \in ReqState
  BY DEF ReqState, Versions, NoHandle
<1>2. req \in [Req -> ReqState]
  BY <1>1 DEF Init
<1>3. /\ srcVer \in Versions /\ active \in Versions /\ notified \in Versions
      /\ lastAttempt \in Versions /\ loaded \subseteq Versions
  BY DEF Init, Versions
<1>4. TypeOK
  BY <1>2, <1>3 DEF Init, TypeOK
<1>5. QED
  BY <1>4 DEF Init, IInv, Versions, NoHandle, AtMostOneBuild, BuildsAhead,
              BuildsCurrent, SettledCurrent, AdmittedBehind, HandleSafety,
              ServedNotOlderThanNotified

(* Every step of the dev server preserves the inductive invariant. *)
LEMMA NextIInv == IInv /\ [Next]_vars => IInv'
<1> SUFFICES ASSUME IInv, [Next]_vars PROVE IInv'
  OBVIOUS
<1> USE DEF IInv, TypeOK, AtMostOneBuild, BuildsAhead, BuildsCurrent,
            SettledCurrent, AdmittedBehind, HandleSafety,
            ServedNotOlderThanNotified, Versions, NoHandle, Phases
<1>1. CASE FileChange
  BY <1>1 DEF FileChange
<1>2. CASE StartBuild
  <2>1. builds' \subseteq [src : Versions, phase : Phases]
    BY <1>2 DEF StartBuild
  <2>2. AtMostOneBuild' /\ BuildsAhead'
    BY <1>2 DEF StartBuild
  <2>3. BuildsCurrent' /\ SettledCurrent'
    BY <1>2 DEF StartBuild
  <2>4. QED
    BY <1>2, <2>1, <2>2, <2>3 DEF StartBuild
<1>3. ASSUME NEW b \in builds, BuildSucceeds(b) PROVE IInv'
  BY <1>3 DEF BuildSucceeds
<1>4. ASSUME NEW b \in builds, BuildFails(b) PROVE IInv'
  BY <1>4 DEF BuildFails
<1>5. ASSUME NEW b \in builds, LoadAndSwap(b) PROVE IInv'
  <2>1. active <= active' /\ active' \in Versions /\ UNCHANGED req
    BY <1>5 DEF LoadAndSwap
  <2>2. AdmittedBehind'
    BY <2>1 DEF ReqState
  <2>3. QED
    BY <1>5, <2>2 DEF LoadAndSwap
<1>6. ASSUME NEW r \in Req, Receive(r) PROVE IInv'
  <2>1. PICK p \in Paths :
          \/ req' = [req EXCEPT ![r] = [stage |-> "done", handle |-> NoHandle,
                                        code |-> "Delegated", seen |-> notified]]
          \/ req' = [req EXCEPT ![r] = [stage |-> "done", handle |-> NoHandle,
                                        code |-> "Rebuilding", seen |-> notified]]
          \/ req' = [req EXCEPT ![r] = [stage |-> "admitted", handle |-> NoHandle,
                                        code |-> "None", seen |-> notified]]
    BY <1>6 DEF Receive
  <2>2. UNCHANGED <<srcVer, pending, builds, compiling, ready, lastError,
                    active, loaded, notified, lastAttempt>>
    BY <1>6 DEF Receive
  <2>3. req' \in [Req -> ReqState]
    <3>1. /\ [stage |-> "done", handle |-> NoHandle,
              code |-> "Delegated", seen |-> notified] \in ReqState
          /\ [stage |-> "done", handle |-> NoHandle,
              code |-> "Rebuilding", seen |-> notified] \in ReqState
          /\ [stage |-> "admitted", handle |-> NoHandle,
              code |-> "None", seen |-> notified] \in ReqState
      BY DEF ReqState, Codes
    <3>2. QED
      BY <2>1, <3>1
  <2>4. HandleSafety' /\ ServedNotOlderThanNotified' /\ AdmittedBehind'
    BY <2>1, <2>2
  <2>5. QED
    BY <2>2, <2>3, <2>4
<1>11. ASSUME NEW r \in Req, Dispatch(r) PROVE IInv'
  <2>1. req' = [req EXCEPT ![r] = [req[r] EXCEPT !.stage = "running",
                                                 !.handle = active]]
    BY <1>11 DEF Dispatch
  <2>2. UNCHANGED <<srcVer, pending, builds, compiling, ready, lastError,
                    active, loaded, notified, lastAttempt>>
    BY <1>11 DEF Dispatch
  <2>3. req[r].stage = "admitted" /\ req[r].seen <= active
    BY <1>11 DEF Dispatch
  <2>4. [req[r] EXCEPT !.stage = "running", !.handle = active] \in ReqState
    BY DEF ReqState
  <2>5. req' \in [Req -> ReqState]
    BY <2>1, <2>4
  <2>6. HandleSafety' /\ ServedNotOlderThanNotified' /\ AdmittedBehind'
    BY <2>1, <2>2, <2>3
  <2>7. QED
    BY <2>2, <2>5, <2>6
<1>7. ASSUME NEW r \in Req, Complete(r) PROVE IInv'
  <2>1. PICK c \in HandlerCodes :
          req' = [req EXCEPT ![r].stage = "done", ![r].code = c]
    BY <1>7 DEF Complete
  <2>2. UNCHANGED <<srcVer, pending, builds, compiling, ready, lastError,
                    active, loaded, notified, lastAttempt>>
    BY <1>7 DEF Complete
  <2>3. [req[r] EXCEPT !.stage = "done", !.code = c] \in ReqState
    BY DEF ReqState, Codes, HandlerCodes
  <2>4. req' = [req EXCEPT ![r] = [req[r] EXCEPT !.stage = "done", !.code = c]]
    BY <2>1
  <2>5. req' \in [Req -> ReqState]
    BY <2>3, <2>4
  <2>6. HandleSafety' /\ ServedNotOlderThanNotified' /\ AdmittedBehind'
    BY <2>2, <2>4
  <2>7. QED
    BY <2>2, <2>5, <2>6
<1>8. ASSUME NEW v \in Versions, Release(v) PROVE IInv'
  BY <1>8 DEF Release, InFlight
<1>9. CASE UNCHANGED vars
  BY <1>9 DEF vars
<1>10. QED
  BY <1>1, <1>2, <1>3, <1>4, <1>5, <1>6, <1>7, <1>8, <1>9, <1>11
     DEF Next, PipelineStep

(* The type invariant holds in every reachable state. *)
THEOREM TypeCorrect == Spec => []TypeOK
BY InitIInv, NextIInv, PTL DEF Spec, IInv

(* Reload atomicity: no request runs in a component the arena has
   unloaded (WasmRuntime.reload racing handle_request). *)
THEOREM HandleSafe == Spec => []HandleSafety
BY InitIInv, NextIInv, PTL DEF Spec, IInv

(* A client that heard the live-reload signal for version v is served by
   v or newer: the signal is sent only after the swap. *)
THEOREM ServedFresh == Spec => []ServedNotOlderThanNotified
BY InitIInv, NextIInv, PTL DEF Spec, IInv

(* Ready means current: while the dev server reports Ready and no change
   waits, new requests run the component built from the current source,
   and the live-reload channel has announced it (a change arriving during
   a build is queued, not dropped). *)
THEOREM ReadyLatest == Spec => []ReadyServesLatest
<1>1. IInv => ReadyServesLatest
  BY DEF IInv, SettledCurrent, ReadyServesLatest, CompilationState
<1>2. QED
  BY <1>1, InitIInv, NextIInv, PTL DEF Spec

(* The active component only moves forward: the single pipeline publishes
   a build that started after the active one. *)
THEOREM Monotonic == Spec => ActiveMonotonic
<1>1. IInv /\ [Next]_vars => active' >= active
  <2> SUFFICES ASSUME IInv, [Next]_vars PROVE active' >= active
    OBVIOUS
  <2> USE DEF IInv, TypeOK, BuildsAhead, Versions
  <2>1. ASSUME NEW b \in builds, LoadAndSwap(b) PROVE active' >= active
    BY <2>1 DEF LoadAndSwap
  <2>2. CASE ~\E b \in builds : LoadAndSwap(b)
    <3>1. UNCHANGED active
      BY <2>2 DEF Next, vars, FileChange, StartBuild, PipelineStep,
                  BuildSucceeds, BuildFails, Receive, Dispatch, Complete,
                  Release
    <3>2. QED
      BY <3>1
  <2>3. QED
    BY <2>1, <2>2
<1>2. QED
  BY <1>1, InitIInv, NextIInv, PTL DEF Spec, ActiveMonotonic

=============================================================================
