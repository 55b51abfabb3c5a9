-------------------------- MODULE SuiseiBuild_proofs --------------------------
(***************************************************************************)
(* Proof that a successful `astro build` leaves only fresh artifacts, for  *)
(* any number of builds.                                                   *)
(***************************************************************************)
EXTENDS SuiseiBuild, TLAPS

(***************************************************************************)
(* Each step of buildServer has written the files before it in this build. *)
(* This is what makes SuccessMeansFresh inductive: jco copies component.js *)
(* 's number into component.wasm, so component.js must already be fresh.   *)
(***************************************************************************)
StepsDone ==
  /\ pc \in {"rolldownCfg", "rolldown", "jco"} =>
       files["shim"] = gen /\ files["entry"] = gen
  /\ pc \in {"rolldown", "jco"} => files["rolldownCfg"] = gen
  /\ pc = "jco" => files["js"] = gen
  /\ result = "ok" => pc = "idle"

IInv == TypeOK /\ StepsDone /\ SuccessMeansFresh

USE MaxBuildsAssumption

LEMMA InitIInv == Init => IInv
  BY DEF Init, IInv, TypeOK, StepsDone, SuccessMeansFresh, Steps

LEMMA NextIInv == IInv /\ [Next]_vars => IInv'
<1> SUFFICES ASSUME IInv, [Next]_vars PROVE IInv'
  OBVIOUS
<1> USE DEF IInv, TypeOK, StepsDone, SuccessMeansFresh, BuiltFiles, Files,
            Steps, Fail
<1>1. CASE AstroBuild
  BY <1>1 DEF AstroBuild
<1>2. CASE CreateServerEntry
  <2>1. CASE files["manifest"] = 0 /\ Fail /\ UNCHANGED files
            /\ UNCHANGED gen
    BY <2>1
  <2>2. CASE files["manifest"] # 0 /\ UNCHANGED gen
    <3>1. PICK written \in 0 .. 2 :
            /\ files' = [f \in Files |->
                           IF \/ f = "shim" /\ written >= 1
                              \/ f = "entry" /\ written >= 2
                           THEN gen ELSE files[f]]
            /\ IF written = 2 THEN pc' = "rolldownCfg" /\ UNCHANGED result
               ELSE Fail
      BY <1>2, <2>2 DEF CreateServerEntry
    <3>2. CASE written = 2
      BY <1>2, <2>2, <3>1, <3>2 DEF CreateServerEntry
    <3>3. CASE written # 2
      BY <1>2, <2>2, <3>1, <3>3 DEF CreateServerEntry
    <3>4. QED
      BY <3>2, <3>3
  <2>3. QED
    BY <1>2, <2>1, <2>2 DEF CreateServerEntry
<1>3. CASE WriteRolldownConfig
  BY <1>3 DEF WriteRolldownConfig
<1>4. CASE Rolldown
  <2>1. PICK exit \in Exits :
          /\ files' = IF exit = "code 0"
                      THEN [files EXCEPT !["js"] = files["entry"]] ELSE files
          /\ IF RunCommandResolves(exit) THEN pc' = "jco" /\ UNCHANGED result
             ELSE Fail
    BY <1>4 DEF Rolldown
  <2>2. QED
    BY <1>4, <2>1 DEF Rolldown, RunCommandResolves
<1>5. CASE Jco
  <2>1. PICK exit \in Exits :
          /\ files' = IF exit = "code 0"
                      THEN [files EXCEPT !["wasm"] = files["js"]] ELSE files
          /\ IF RunCommandResolves(exit) THEN pc' = "idle" /\ result' = "ok"
             ELSE Fail
    BY <1>5 DEF Jco
  <2>2. QED
    BY <1>5, <2>1 DEF Jco, RunCommandResolves
<1>6. CASE Interrupt
  BY <1>6 DEF Interrupt
<1>7. CASE Done \/ UNCHANGED vars
  BY <1>7 DEF Done, vars
<1>8. QED
  BY <1>1, <1>2, <1>3, <1>4, <1>5, <1>6, <1>7 DEF Next

(***************************************************************************)
(* Whenever `astro build` has reported success, shim-intl.js,              *)
(* component.ts, rolldown.config.mjs, component.js and component.wasm all  *)
(* come from that build (buildServer in suisei's build.ts).                *)
(***************************************************************************)
THEOREM FreshOnSuccess == Spec => []SuccessMeansFresh
<1>1. Init => IInv
  BY InitIInv
<1>2. IInv /\ [Next]_vars => IInv'
  BY NextIInv
<1>3. IInv => SuccessMeansFresh
  BY DEF IInv
<1>4. QED
  BY <1>1, <1>2, <1>3, PTL DEF Spec
=============================================================================
