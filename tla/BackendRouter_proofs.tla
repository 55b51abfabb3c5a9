------------------------- MODULE BackendRouter_proofs -------------------------
(***************************************************************************)
(* Proofs for BackendRouter: the three tiers of wrapper_post stay apart    *)
(* for every route table, every set of paths and every error status.       *)
(***************************************************************************)
EXTENDS BackendRouter, TLAPS

\* The last answer is what Router::handle computes for the last request.
AnswerMatches ==
  last.code # 0 =>
    LET res == RouterHandle(last.method, last.path, last.body, last.gOut,
                            last.gStatus, last.pOut)
    IN  last.code = res.code /\ last.invoked = res.invoked

\* An answered request's error status is one e.status_code() may return.
StatusFromError == last.code # 0 => last.gStatus \in ErrStatuses

IInv == TypeOK /\ AnswerMatches /\ StatusFromError

LEMMA InitIInv == Init => IInv
<1> SUFFICES ASSUME Init PROVE IInv
  OBVIOUS
<1>1. TypeOK
  BY DEF Init, TypeOK, Methods, Bodies, GetOutcomes, PostOutcomes
<1>2. AnswerMatches /\ StatusFromError
  BY DEF Init, AnswerMatches, StatusFromError
<1>3. QED
  BY <1>1, <1>2 DEF IInv

\* Every wrapper, and not_found, answers one of the four codes.
LEMMA HandleCodes ==
  ASSUME NEW m, NEW p, NEW b, NEW g, NEW e \in ErrStatuses, NEW o
  PROVE  /\ RouterHandle(m, p, b, g, e, o).code \in Codes
         /\ RouterHandle(m, p, b, g, e, o).invoked \in BOOLEAN
<1> DEFINE rt == MatchRoute(m, p)
<1>1. e \in Codes
  BY RoutesAssumption DEF Codes
<1>2. /\ WrapperGet(rt, p, g, e).code \in Codes
      /\ WrapperGet(rt, p, g, e).invoked \in BOOLEAN
  BY <1>1 DEF WrapperGet, Codes
<1>3. /\ WrapperPost(b, o).code \in Codes
      /\ WrapperPost(b, o).invoked \in BOOLEAN
  BY DEF WrapperPost, Codes
<1>4. CASE rt = NoRoute
  BY <1>4 DEF RouterHandle, Codes
<1>5. CASE rt # NoRoute /\ rt.role = "get"
  <2>1. RouterHandle(m, p, b, g, e, o) = WrapperGet(rt, p, g, e)
    BY <1>5 DEF RouterHandle
  <2>2. QED
    BY <1>2, <2>1
<1>6. CASE rt # NoRoute /\ rt.role # "get"
  <2>1. RouterHandle(m, p, b, g, e, o) = WrapperPost(b, o)
    BY <1>6 DEF RouterHandle
  <2>2. QED
    BY <1>3, <2>1
<1>7. QED
  BY <1>4, <1>5, <1>6

LEMMA NextIInv == IInv /\ [Next]_vars => IInv'
<1> SUFFICES ASSUME IInv, [Next]_vars PROVE IInv'
  OBVIOUS
<1>1. CASE Next
  <2>1. PICK m \in Methods, p \in Paths, b \in Bodies, g \in GetOutcomes,
             e \in ErrStatuses, o \in PostOutcomes :
          last' = [method |-> m, path |-> p, body |-> b, gOut |-> g,
                   gStatus |-> e, pOut |-> o,
                   code |-> RouterHandle(m, p, b, g, e, o).code,
                   invoked |-> RouterHandle(m, p, b, g, e, o).invoked]
    BY <1>1 DEF Next, Handle
  <2>2. RouterHandle(m, p, b, g, e, o).code \in Codes
    BY HandleCodes
  <2>3. RouterHandle(m, p, b, g, e, o).invoked \in BOOLEAN
    BY HandleCodes
  <2>4. TypeOK'
    BY <2>1, <2>2, <2>3 DEF TypeOK, Codes
  <2>5. AnswerMatches'
    BY <2>1 DEF AnswerMatches
  <2>6. StatusFromError'
    BY <2>1 DEF StatusFromError
  <2>7. QED
    BY <2>4, <2>5, <2>6 DEF IInv
<1>2. CASE UNCHANGED vars
  BY <1>2 DEF IInv, TypeOK, AnswerMatches, StatusFromError, vars
<1>3. QED
  BY <1>1, <1>2

\* Under the invariant, a post route's answer is wrapper_post's.
LEMMA IInvPostTiers == IInv => PostTierSeparation
<1> SUFFICES ASSUME IInv, Role(last) = "post", last.code # 0
             PROVE  /\ last.code = 400 <=> last.body # "valid"
                    /\ last.invoked <=> last.body = "valid"
                    /\ last.invoked => (last.code = 500 <=> last.pOut = "Err")
  BY DEF PostTierSeparation
<1> DEFINE rt == MatchRoute(last.method, last.path)
<1>1. rt # NoRoute /\ rt.role # "get"
  BY DEF Role, NoRoute
<1>2. RouterHandle(last.method, last.path, last.body, last.gOut,
                   last.gStatus, last.pOut) = WrapperPost(last.body, last.pOut)
  BY <1>1 DEF RouterHandle
<1>3. last.code = WrapperPost(last.body, last.pOut).code
      /\ last.invoked = WrapperPost(last.body, last.pOut).invoked
  BY <1>2 DEF IInv, AnswerMatches
<1>4. last.body \in Bodies /\ last.pOut \in PostOutcomes
  BY DEF IInv, TypeOK
<1>5. QED
  BY <1>3, <1>4 DEF WrapperPost, Bodies, PostOutcomes

\* Under the invariant, a get route's answer is wrapper_get's.
LEMMA IInvGetTiers == IInv => GetTierSeparation
<1> DEFINE rt == MatchRoute(last.method, last.path)
<1> SUFFICES ASSUME IInv, Role(last) = "get", last.code # 0
             PROVE  /\ last.invoked <=> ~BadParam(rt, last.path)
                    /\ ~last.invoked => last.code = 500
                    /\ last.code = 200 <=> (last.invoked /\ last.gOut = "Ok")
  BY DEF GetTierSeparation
<1>1. rt # NoRoute /\ rt.role = "get"
  BY DEF Role, NoRoute
<1>2. RouterHandle(last.method, last.path, last.body, last.gOut,
                   last.gStatus, last.pOut)
        = WrapperGet(rt, last.path, last.gOut, last.gStatus)
  BY <1>1 DEF RouterHandle
<1>3. last.code = WrapperGet(rt, last.path, last.gOut, last.gStatus).code
      /\ last.invoked = WrapperGet(rt, last.path, last.gOut, last.gStatus).invoked
  BY <1>2 DEF IInv, AnswerMatches
<1>4. last.gStatus # 200
  BY RoutesAssumption DEF IInv, StatusFromError
<1>5. last.gOut \in GetOutcomes
  BY DEF IInv, TypeOK
<1>6. QED
  BY <1>3, <1>4, <1>5 DEF WrapperGet, GetOutcomes

(***************************************************************************)
(* For every route table, wrapper_post answers a body that fails parsing   *)
(* or validation with 400 without running post_action, post_action's       *)
(* outer Err with 500, and both business results with 200.                 *)
(***************************************************************************)
THEOREM PostTiers == Spec => []PostTierSeparation
<1>1. Init => IInv
  BY InitIInv
<1>2. IInv /\ [Next]_vars => IInv'
  BY NextIInv
<1>3. IInv => PostTierSeparation
  BY IInvPostTiers
<1>4. QED
  BY <1>1, <1>2, <1>3, PTL DEF Spec

(***************************************************************************)
(* For every route table and every status an error value may report,       *)
(* wrapper_get runs get_props exactly when the path parameters parse,      *)
(* answers a parameter that does not parse with 500, and answers 200       *)
(* exactly when get_props returned Ok.                                     *)
(***************************************************************************)
THEOREM GetTiers == Spec => []GetTierSeparation
<1>1. IInv => GetTierSeparation
  BY IInvGetTiers
<1>2. QED
  BY <1>1, InitIInv, NextIInv, PTL DEF Spec
=============================================================================
