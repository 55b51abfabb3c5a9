---------------------- MODULE DevServerRefinement_proofs ----------------------
(***************************************************************************)
(* Proof that DevServer implements HotSwap under the refinement mapping of *)
(* DevServerRefinement, for every number of connections, paths and edits. *)
(***************************************************************************)
EXTENDS DevServerRefinement, DevServer_proofs, TLAPS

(***************************************************************************)
(* What the refinement needs beyond IInv.  A swap must publish a handle    *)
(* the runtime does not hold yet: every loaded version is at most          *)
(* `active`, the build in flight is strictly newer, and so is a pending    *)
(* change, which is what the next build will take.  The abstract state is  *)
(* Compiling exactly while a build is in flight.                           *)
(***************************************************************************)
CompilingIffBuild == compiling <=> builds # {}
LoadedBelow == \A v \in loaded : v <= active
BuildsFresh == \A b \in builds : b.src > active
PendingAhead == pending => (srcVer > active /\ \A b \in builds : srcVer > b.src)

RInv == IInv /\ CompilingIffBuild /\ LoadedBelow /\ BuildsFresh /\ PendingAhead

USE MaxEditsAssumption

LEMMA InitRInv == Init => RInv
<1> SUFFICES ASSUME Init PROVE RInv
  OBVIOUS
<1>1. IInv
  BY InitIInv
<1>2. CompilingIffBuild /\ LoadedBelow /\ BuildsFresh /\ PendingAhead
  BY DEF Init, CompilingIffBuild, LoadedBelow, BuildsFresh, PendingAhead
<1>3. QED
  BY <1>1, <1>2 DEF RInv

LEMMA NextRInv == RInv /\ [Next]_vars => RInv'
<1> SUFFICES ASSUME RInv, [Next]_vars PROVE RInv'
  OBVIOUS
<1>0. IInv'
  BY NextIInv DEF RInv
<1> USE DEF RInv, IInv, TypeOK, AtMostOneBuild, BuildsAhead, Versions,
            CompilingIffBuild, LoadedBelow, BuildsFresh, PendingAhead
<1>1. CASE FileChange
  BY <1>0, <1>1 DEF FileChange
<1>2. CASE StartBuild
  BY <1>0, <1>2 DEF StartBuild
<1>3. ASSUME NEW b \in builds, BuildSucceeds(b) PROVE RInv'
  BY <1>0, <1>3 DEF BuildSucceeds
<1>4. ASSUME NEW b \in builds, BuildFails(b) PROVE RInv'
  BY <1>0, <1>4 DEF BuildFails
<1>5. ASSUME NEW b \in builds, LoadAndSwap(b) PROVE RInv'
  <2>1. builds' = {}
    BY <1>5 DEF LoadAndSwap
  <2>2. \A v \in loaded' : v <= active'
    BY <1>5 DEF LoadAndSwap
  <2>3. QED
    BY <1>0, <1>5, <2>1, <2>2 DEF LoadAndSwap
<1>6. ASSUME NEW r \in Req, Receive(r) PROVE RInv'
  BY <1>0, <1>6 DEF Receive
<1>7. ASSUME NEW r \in Req, Complete(r) PROVE RInv'
  BY <1>0, <1>7 DEF Complete
<1>11. ASSUME NEW r \in Req, Dispatch(r) PROVE RInv'
  BY <1>0, <1>11 DEF Dispatch
<1>8. ASSUME NEW v \in Versions, Release(v) PROVE RInv'
  BY <1>0, <1>8 DEF Release
<1>9. CASE UNCHANGED vars
  BY <1>0, <1>9 DEF vars
<1>10. QED
  BY <1>1, <1>2, <1>3, <1>4, <1>5, <1>6, <1>7, <1>8, <1>9, <1>11
     DEF Next, PipelineStep

LEMMA InitRefines == Init => HS!HSInit
<1> SUFFICES ASSUME Init PROVE HS!HSInit
  OBVIOUS
<1>1. CompilationState = "Ready"
  BY DEF Init, CompilationState
<1>2. Held = [r \in Req |-> NoHandle] /\ Admitted = {}
  BY DEF Init, Held, Admitted
<1>3. QED
  BY <1>1, <1>2 DEF Init, HS!HSInit, Versions

LEMMA StepRefines == RInv /\ [Next]_vars => [HS!HSNext]_HS!hsVars
<1> SUFFICES ASSUME RInv, [Next]_vars PROVE [HS!HSNext]_HS!hsVars
  OBVIOUS
<1> USE DEF RInv, IInv, TypeOK, Versions, NoHandle
<1>1. CASE FileChange
  BY <1>1 DEF FileChange, HS!hsVars, CompilationState, Held, Admitted
<1>2. CASE StartBuild
  <2>1. CompilationState # "Compiling" /\ CompilationState' = "Compiling"
    BY <1>2 DEF StartBuild, CompilingIffBuild, CompilationState
  <2>2. UNCHANGED <<active, loaded, Admitted, Held>>
    BY <1>2 DEF StartBuild, Held, Admitted
  <2>3. QED
    BY <2>1, <2>2 DEF HS!HSNext, HS!StartCompiling
<1>3. ASSUME NEW b \in builds, BuildSucceeds(b) PROVE [HS!HSNext]_HS!hsVars
  BY <1>3 DEF BuildSucceeds, HS!hsVars, CompilationState, Held, Admitted
<1>4. ASSUME NEW b \in builds, BuildFails(b) PROVE [HS!HSNext]_HS!hsVars
  <2>1. CompilationState = "Compiling" /\ CompilationState' = "Failed"
    BY <1>4 DEF BuildFails, CompilingIffBuild, CompilationState
  <2>2. UNCHANGED <<active, loaded, Admitted, Held>>
    BY <1>4 DEF BuildFails, Held, Admitted
  <2>3. QED
    BY <2>1, <2>2 DEF HS!HSNext, HS!BuildFailed
<1>5. ASSUME NEW b \in builds, LoadAndSwap(b) PROVE [HS!HSNext]_HS!hsVars
  <2>1. CompilationState = "Compiling" /\ CompilationState' = "Ready"
    BY <1>5 DEF LoadAndSwap, CompilingIffBuild, CompilationState
  <2>2. b.src \in Versions \ loaded
    BY <1>5 DEF LoadedBelow, BuildsFresh
  <2>3. /\ active' = b.src /\ loaded' = loaded \cup {b.src}
        /\ Held' = Held /\ Admitted' = Admitted
    BY <1>5 DEF LoadAndSwap, Held, Admitted
  <2>4. HS!Publish(b.src)
    BY <2>1, <2>2, <2>3 DEF HS!Publish
  <2>5. QED
    BY <2>2, <2>4 DEF HS!HSNext
<1>6. ASSUME NEW r \in Req, Receive(r) PROVE [HS!HSNext]_HS!hsVars
  <2>1. PICK p \in Paths :
          \/ /\ req' = [req EXCEPT ![r] = [stage |-> "done", handle |-> NoHandle,
                                           code |-> "Delegated", seen |-> notified]]
          \/ /\ req' = [req EXCEPT ![r] = [stage |-> "done", handle |-> NoHandle,
                                           code |-> "Rebuilding", seen |-> notified]]
          \/ /\ ~compiling
             /\ req' = [req EXCEPT ![r] = [stage |-> "admitted", handle |-> NoHandle,
                                           code |-> "None", seen |-> notified]]
    BY <1>6 DEF Receive
  <2>2. UNCHANGED <<compiling, ready, lastError, active, loaded>>
    BY <1>6 DEF Receive
  <2>3. req[r].stage \in {"idle", "done"}
    BY <1>6 DEF Receive
  <2>4. Held[r] = NoHandle /\ r \notin Admitted /\ Held' = Held
    BY <2>1, <2>3 DEF Held, Admitted
  <2>5. CASE req'[r].stage = "done"
    <3>1. Admitted' = Admitted
      BY <2>1, <2>3, <2>5 DEF Admitted
    <3>2. QED
      BY <2>2, <2>4, <3>1 DEF HS!hsVars, CompilationState
  <2>6. CASE req'[r].stage # "done"
    <3>1. ~compiling /\ req' = [req EXCEPT ![r] = [stage |-> "admitted",
                               handle |-> NoHandle, code |-> "None", seen |-> notified]]
      BY <2>1, <2>6
    <3>2. Admitted' = Admitted \cup {r}
      BY <3>1 DEF Admitted
    <3>3. CompilationState # "Compiling"
      BY <3>1 DEF CompilationState
    <3>4. HS!Admit(r)
      BY <2>2, <2>4, <3>2, <3>3 DEF HS!Admit, CompilationState
    <3>5. QED
      BY <3>4 DEF HS!HSNext
  <2>7. QED
    BY <2>5, <2>6
<1>11. ASSUME NEW r \in Req, Dispatch(r) PROVE [HS!HSNext]_HS!hsVars
  <2>1. req' = [req EXCEPT ![r] = [req[r] EXCEPT !.stage = "running",
                                                 !.handle = active]]
    BY <1>11 DEF Dispatch
  <2>2. req[r].stage = "admitted"
    BY <1>11 DEF Dispatch
  <2>3. r \in Admitted /\ Admitted' = Admitted \ {r}
    BY <2>1, <2>2 DEF Admitted
  <2>4. Held' = [Held EXCEPT ![r] = active]
    <3>1. req'[r].stage = "running" /\ req'[r].handle = active
          /\ \A s \in Req \ {r} : req'[s] = req[s]
      BY <2>1 DEF ReqState
    <3>2. \A s \in Req : Held'[s] = [Held EXCEPT ![r] = active][s]
      BY <3>1, <1>11 DEF Held, Dispatch
    <3>3. QED
      BY <3>2 DEF Held
  <2>5. UNCHANGED <<compiling, ready, lastError, active, loaded>>
    BY <1>11 DEF Dispatch
  <2>6. HS!Dispatch(r)
    BY <2>3, <2>4, <2>5 DEF HS!Dispatch, CompilationState
  <2>7. QED
    BY <2>6 DEF HS!HSNext
<1>7. ASSUME NEW r \in Req, Complete(r) PROVE [HS!HSNext]_HS!hsVars
  <2>1. PICK c \in HandlerCodes :
          req' = [req EXCEPT ![r].stage = "done", ![r].code = c]
    BY <1>7 DEF Complete
  <2>2. req[r].stage = "running" /\ req[r].handle \in Versions
    BY <1>7 DEF Complete, HandleSafety
  <2>3. Held[r] # NoHandle
    BY <2>2 DEF Held
  <2>4. Held' = [Held EXCEPT ![r] = NoHandle]
    <3>1. req'[r].stage = "done" /\ \A s \in Req \ {r} : req'[s] = req[s]
      BY <2>1
    <3>2. \A s \in Req : Held'[s] = [Held EXCEPT ![r] = NoHandle][s]
      BY <3>1 DEF Held
    <3>3. QED
      BY <3>2 DEF Held
  <2>5. UNCHANGED <<compiling, ready, lastError, active, loaded>>
    BY <1>7 DEF Complete
  <2>6. Admitted' = Admitted
    BY <2>1, <2>2 DEF Admitted
  <2>7. HS!Finish(r)
    BY <2>3, <2>4, <2>5, <2>6 DEF HS!Finish, CompilationState
  <2>8. QED
    BY <2>7 DEF HS!HSNext
<1>8. ASSUME NEW v \in Versions, Release(v) PROVE [HS!HSNext]_HS!hsVars
  <2>1. \A r \in Req : Held[r] # v
    BY <1>8 DEF Release, InFlight, Held
  <2>2. HS!ReleaseHandle(v)
    BY <1>8, <2>1 DEF Release, HS!ReleaseHandle, CompilationState, Held,
                      Admitted
  <2>3. QED
    BY <2>2 DEF HS!HSNext
<1>9. CASE UNCHANGED vars
  BY <1>9 DEF vars, HS!hsVars, CompilationState, Held, Admitted
<1>10. QED
  BY <1>1, <1>2, <1>3, <1>4, <1>5, <1>6, <1>7, <1>8, <1>9, <1>11
     DEF Next, PipelineStep

(***************************************************************************)
(* The dev server implements the abstract hot-swap runtime of spec 4.4 and *)
(* 4.5 (HotSwapSpec): the compilation state takes only the machine's       *)
(* edges, each reload publishes a handle the runtime did not hold, backend *)
(* requests are admitted only outside Compiling and dispatched on the      *)
(* handle active at dispatch, and a handle is released only when no        *)
(* request holds it.                                                       *)
(***************************************************************************)
THEOREM Refinement == Spec => HotSwapSpec
<1>1. Init => RInv
  BY InitRInv
<1>2. RInv /\ [Next]_vars => RInv'
  BY NextRInv
<1>3. Init => HS!HSInit
  BY InitRefines
<1>4. RInv /\ [Next]_vars => [HS!HSNext]_HS!hsVars
  BY StepRefines
<1>5. QED
  BY <1>1, <1>2, <1>3, <1>4, PTL DEF Spec, HotSwapSpec, HS!HSSpec

=============================================================================
