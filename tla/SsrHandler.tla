----------------------------- MODULE SsrHandler -----------------------------
(***************************************************************************)
(* The Node SSR entry `handler(req)` of the frontend bundle: it parses the *)
(* props the proxy posts, splits the URL path and picks the page to        *)
(* render, or answers 404.                                                 *)
(*                                                                         *)
(* A path is the sequence of its '/'-separated segments after the leading  *)
(* slash: "/" is <<"">>, "/product/7" is <<"product", "7">>.  JavaScript's *)
(* `pathname.split("/")` then yields <<"">> \o path, and indexing an array *)
(* past its end yields `undefined`, modelled by the model value Undefined. *)
(***************************************************************************)
EXTENDS Naturals, Sequences

CONSTANTS
  Paths,      \* request paths the proxy forwards as Page requests
  Undefined   \* JavaScript `undefined`, unequal to every string

VARIABLES
  rendered    \* set of <<path, outcome>> pairs answered so far

vars == <<rendered>>

Pages == {"index", "product", "NotFound"}

\* url.pathname.split("/")
SplitPath(path) == <<"">> \o path

\* parts[i] on a 0-based JavaScript array.
JsAt(parts, i) == IF i < Len(parts) THEN parts[i + 1] ELSE Undefined

\* The page handler(req) renders for a path, in the order of its tests.
Handler(path) ==
  LET parts == SplitPath(path) IN
  IF Len(parts) = 2 /\ JsAt(parts, 2) = "" THEN "index"
  ELSE IF Len(parts) = 3 /\ JsAt(parts, 2) = "product" THEN "product"
  ELSE "NotFound"

(***************************************************************************)
(* Reference: the pages the frontend defines (pages/index and              *)
(* pages/product/[id]) and the URLs they serve, "/" and "/product/:id".    *)
(***************************************************************************)
RoutePage(path) ==
  IF path = <<"">> THEN "index"
  ELSE IF Len(path) = 2 /\ path[1] = "product" /\ path[2] # "" THEN "product"
  ELSE "NotFound"

Init == rendered = {}

\* One request forwarded by the proxy is answered.
Serve ==
  \E p \in Paths : rendered' = rendered \cup {<<p, Handler(p)>>}

Next == Serve

Spec == Init /\ [][Next]_vars

(* Type invariant. *)
TypeOK == rendered \subseteq (Paths \X Pages)

(***************************************************************************)
(* Every URL that has a page is rendered with that page: "/" with the      *)
(* index page and "/product/:id" with the product page, never a 404.       *)
(***************************************************************************)
PageRoutesRender ==
  \A pr \in rendered : pr[2] = RoutePage(pr[1])

=============================================================================
