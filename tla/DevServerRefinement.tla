------------------------- MODULE DevServerRefinement -------------------------
(***************************************************************************)
(* DevServer implements HotSwap.  The abstract compilation state is read   *)
(* off the CLI's three flags, the retained handles are the runtime's       *)
(* loaded versions, and a connection holds a handle while its request is   *)
(* running; a request the proxy has let through is admitted until         *)
(* handle_request binds it.  Watcher events, the compile-to-load phase     *)
(* change and the delegated or 503 answers are stuttering steps.           *)
(***************************************************************************)
EXTENDS DevServer

Held == [r \in Req |-> IF req[r].stage = "running" THEN req[r].handle
                                                   ELSE NoHandle]

Admitted == {r \in Req : req[r].stage = "admitted"}

HS == INSTANCE HotSwap WITH
        Handles <- Versions, NoHold <- NoHandle,
        state <- CompilationState, retained <- loaded, admitted <- Admitted,
        held <- Held

(***************************************************************************)
(* The dev server keeps the promises of spec 4.4 and 4.5: the compilation  *)
(* state only takes the machine's edges (no Compiling -> Idle), a reload   *)
(* publishes a new handle atomically, ApiOnly and Page requests are never  *)
(* admitted while compiling (one admitted earlier may still be dispatched *)
(* on the previous handle), and a handle is released only when no request *)
(* holds it.                                                               *)
(***************************************************************************)
HotSwapSpec == HS!HSSpec

=============================================================================
