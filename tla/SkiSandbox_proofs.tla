-------------------------- MODULE SkiSandbox_proofs --------------------------
(***************************************************************************)
(* Proof that user code cannot replace the ski entry point, for any        *)
(* globals user code touches, any handler statuses and any number of       *)
(* requests and user operations.                                           *)
(***************************************************************************)
EXTENDS SkiSandbox, TLAPS

(***************************************************************************)
(* The strengthening: every global is a descriptor or Absent, and the      *)
(* entry's descriptor never changes.  EntryPointIntact alone is not        *)
(* inductive: Invoke reads the entry, so what user code did to it before   *)
(* must be known.                                                          *)
(***************************************************************************)
GlobalsType == globals \in [Names -> Descs \cup {Absent}]
EntryKept == globals[Entry] = RunHandlerEntry

IInv == GlobalsType /\ EntryKept /\ EntryPointIntact

USE SkiAssumption, AbsentAssumption

LEMMA DescType ==
  ASSUME NEW v \in {"builtin", "runHandler"} \cup UserValues,
         NEW c \in BOOLEAN, NEW w \in BOOLEAN
  PROVE  Desc(v, c, w) \in Descs
  BY Zenon DEF Desc, Descs

LEMMA EntryDesc == RunHandlerEntry \in Descs /\ RunHandlerEntry # Absent
<1>1. RunHandlerEntry \in Descs
  BY DescType DEF RunHandlerEntry
<1>2. QED
  BY <1>1, AbsentAssumption

LEMMA InitIInv == Init => IInv
<1> SUFFICES ASSUME Init PROVE IInv
  OBVIOUS
<1>1. GlobalsType
  <2>1. Desc("builtin", TRUE, TRUE) \in Descs
    BY DescType
  <2>2. QED
    BY <2>1, EntryDesc DEF Init, GlobalsType
<1>2. QED
  BY <1>1 DEF Init, IInv, EntryKept, Names, EntryPointIntact

(***************************************************************************)
(* What a user-code operation does to one global: the new value is a       *)
(* descriptor or Absent, and the non-writable, non-configurable entry is   *)
(* left as it is by assignment, defineProperty and delete alike.           *)
(***************************************************************************)
LEMMA UserOpGlobal ==
  ASSUME GlobalsType, EntryKept, UserOp
  PROVE  /\ globals' \in [Names -> Descs \cup {Absent}]
         /\ globals'[Entry] = RunHandlerEntry
<1>1. PICK n \in {Entry} \cup UserNames, v \in UserValues, c, w \in BOOLEAN :
        Assign(n, v) \/ DefineProperty(n, Desc(v, c, w)) \/ Delete(n)
  BY DEF UserOp
<1>2. n \in Names /\ globals \in [Names -> Descs \cup {Absent}]
  BY DEF Names, GlobalsType
<1>3. Desc(v, TRUE, TRUE) \in Descs /\ Desc(v, c, w) \in Descs
  BY DescType
<1>4. globals[Entry] # Absent /\ ~globals[Entry].configurable
      /\ ~globals[Entry].writable
  BY EntryDesc DEF EntryKept, RunHandlerEntry, Desc
<1>5. CASE Assign(n, v)
  <2>1. globals[n] \in Descs => [globals[n] EXCEPT !.value = v] \in Descs
    BY Zenon DEF Descs
  <2>2. CASE n = Entry
    <3>1. globals'[Entry] = globals[Entry]
      BY <1>2, <1>4, <1>5, <2>2 DEF Assign
    <3>2. QED
      BY <1>2, <3>1, <1>5, <2>2, EntryDesc DEF Assign, EntryKept
  <2>3. CASE n # Entry
    <3>1. globals'[Entry] = globals[Entry]
      BY <1>2, <1>5, <2>3 DEF Assign, Names
    <3>2. globals'[n] \in Descs \cup {Absent}
      BY <1>2, <1>3, <1>5, <2>1 DEF Assign
    <3>3. QED
      BY <1>2, <1>5, <3>1, <3>2 DEF Assign, EntryKept
  <2>4. QED
    BY <2>2, <2>3
<1>6. CASE DefineProperty(n, Desc(v, c, w))
  <2>1. ~DefineAllowed(globals[Entry], Desc(v, c, w))
          \/ Desc(v, c, w) = globals[Entry]
    BY <1>4 DEF DefineAllowed
  <2>2. QED
    BY <1>2, <1>3, <1>6, <2>1 DEF DefineProperty, EntryKept
<1>7. CASE Delete(n)
  BY <1>2, <1>4, <1>7 DEF Delete, EntryKept
<1>8. QED
  BY <1>1, <1>5, <1>6, <1>7

\* The steps of runHandler leave globalThis alone and never move to
\* "hijacked"; only Invoke reads the entry point.
LEMMA RunHandlerStep ==
  ASSUME NewRequest \/ CheckHandler \/ CallHandler \/ ConvertBody
         \/ Respond \/ Catch
  PROVE  UNCHANGED globals /\ pc' # "hijacked"
<1>1. CASE NewRequest
  BY <1>1 DEF NewRequest, Throw
<1>2. CASE CheckHandler
  BY <1>2 DEF CheckHandler, Throw
<1>3. CASE CallHandler
  BY <1>3 DEF CallHandler, Throw
<1>4. CASE ConvertBody
  BY <1>4 DEF ConvertBody, Throw
<1>5. CASE Respond
  BY <1>5 DEF Respond, Finish
<1>6. CASE Catch
  BY <1>6 DEF Catch, Finish
<1>7. QED
  BY <1>1, <1>2, <1>3, <1>4, <1>5, <1>6

LEMMA NextIInv == IInv /\ [Next]_vars => IInv'
<1> SUFFICES ASSUME IInv, [Next]_vars PROVE IInv'
  OBVIOUS
<1>1. CASE UserOp
  <2>1. GlobalsType' /\ EntryKept'
    BY <1>1, UserOpGlobal DEF IInv, GlobalsType, EntryKept
  <2>2. UNCHANGED pc
    BY <1>1 DEF UserOp
  <2>3. QED
    BY <2>1, <2>2 DEF IInv, EntryPointIntact
<1>2. CASE Invoke
  <2>1. GlobalValue(Entry) = "runHandler"
    BY EntryDesc DEF IInv, EntryKept, GlobalValue, RunHandlerEntry, Desc
  <2>2. pc' = "parts" /\ UNCHANGED globals
    BY <1>2, <2>1 DEF Invoke
  <2>3. QED
    BY <2>2 DEF IInv, GlobalsType, EntryKept, EntryPointIntact
<1>3. CASE NewRequest \/ CheckHandler \/ CallHandler \/ ConvertBody
           \/ Respond \/ Catch
  BY <1>3, RunHandlerStep DEF IInv, GlobalsType, EntryKept, EntryPointIntact
<1>4. CASE Done \/ UNCHANGED vars
  BY <1>4 DEF Done, vars, IInv, GlobalsType, EntryKept, EntryPointIntact
<1>5. QED
  BY <1>1, <1>2, <1>3, <1>4 DEF Next

(***************************************************************************)
(* Whatever user code does to globalThis, the host's entry point stays     *)
(* run.js's runHandler (bootstrap.js exposes it non-writable and           *)
(* non-configurable).                                                      *)
(***************************************************************************)
THEOREM EntryIntact == Spec => []EntryPointIntact
<1>1. Init => IInv
  BY InitIInv
<1>2. IInv /\ [Next]_vars => IInv'
  BY NextIInv
<1>3. IInv => EntryPointIntact
  BY DEF IInv
<1>4. QED
  BY <1>1, <1>2, <1>3, PTL DEF Spec
=============================================================================
