----------------------------- MODULE SkiSandbox -----------------------------
(***************************************************************************)
(* The ski sandbox: bootstrap.js builds the global object of the isolate  *)
(* snapshot, user code then runs in that isolate and may assign, define   *)
(* and delete globals, and the host serves each request by calling        *)
(* globalThis.__ski_runHandler, which is run.js's runHandler.              *)
(*                                                                         *)
(* A global is a property descriptor [value, configurable, writable] or   *)
(* Absent; `enumerable` is left out, since nothing here enumerates the    *)
(* global object.  A value is an abstract class: the bootstrap's built-in *)
(* ("builtin"), runHandler itself, a user function or a user non-function. *)
(* The host runs one runHandler at a time: op_get_request_parts and        *)
(* op_respond name no request, so the ops refer to the one request in      *)
(* progress.                                                               *)
(***************************************************************************)
EXTENDS Naturals

CONSTANTS
  UserNames,        \* globals user code touches
  HandlerStatuses,  \* statuses a user handler's Response may carry
  RespondOutcomes,  \* what `await op_respond(..)` may do: "ok", "reject"
  MaxRequests,      \* bound on requests served
  MaxUserOps,       \* bound on user-code operations on globals
  Absent            \* a name with no property on globalThis

ASSUME SkiAssumption ==
  /\ MaxRequests \in Nat /\ MaxUserOps \in Nat
  /\ RespondOutcomes \subseteq {"ok", "reject"}

VARIABLES
  globals,   \* globalThis: name -> descriptor or Absent
  pc,        \* the host and runHandler's step for the request in progress
  cur,       \* the request in progress
  last,      \* the last request that runHandler finished
  served,    \* requests finished
  userOps    \* user-code operations done so far

vars == <<globals, pc, cur, last, served, userOps>>

Entry == "__ski_runHandler"
UserValues == {"userFn", "userObj"}
Desc(v, c, w) == [value |-> v, configurable |-> c, writable |-> w]
Descs == [value : {"builtin", "runHandler"} \cup UserValues,
          configurable : BOOLEAN, writable : BOOLEAN]

ASSUME AbsentAssumption == Absent \notin Descs

(***************************************************************************)
(* bootstrap.js, in the snapshot: runHandler is exposed non-writable and   *)
(* non-configurable; every Web API global is writable and configurable.   *)
(***************************************************************************)
\* Mutant: runHandler is exposed with `configurable: true`.
RunHandlerEntryConfigurable == Desc("runHandler", TRUE, FALSE)

RunHandlerEntry == Desc("runHandler", FALSE, FALSE)

\* fetch, Request, Response, Headers, FormData, console, URL APIs,
\* DOMException, the Event classes and reportError.
FetchDomGlobals ==
  {"fetch", "Request", "Response", "Headers", "FormData", "console", "URL",
   "URLSearchParams", "URLPattern", "DOMException", "Event", "EventTarget",
   "CustomEvent", "MessageEvent", "CloseEvent", "ErrorEvent", "ProgressEvent",
   "PromiseRejectionEvent", "reportError"}

\* Timers, AbortController/AbortSignal, atob/btoa and the Streams API.
TimerStreamGlobals ==
  {"setTimeout", "setInterval", "clearTimeout", "clearInterval",
   "AbortController", "AbortSignal", "atob", "btoa", "ReadableStream",
   "ReadableStreamDefaultReader", "ReadableStreamBYOBReader",
   "ReadableStreamBYOBRequest", "ReadableByteStreamController",
   "ReadableStreamDefaultController", "WritableStream",
   "WritableStreamDefaultWriter", "WritableStreamDefaultController",
   "TransformStream", "TransformStreamDefaultController",
   "ByteLengthQueuingStrategy", "CountQueuingStrategy"}

\* Text encoding, Blob/File, compression, MessageChannel and Performance.
EncodingMiscGlobals ==
  {"TextEncoder", "TextDecoder", "TextEncoderStream", "TextDecoderStream",
   "Blob", "File", "CompressionStream", "DecompressionStream",
   "MessageChannel", "MessagePort", "structuredClone", "Performance",
   "PerformanceEntry", "PerformanceMark", "PerformanceMeasure", "performance"}

Builtins == FetchDomGlobals \cup TimerStreamGlobals \cup EncodingMiscGlobals
Names == {Entry, "handler"} \cup Builtins \cup UserNames

\* A request in progress: answers sent, by which block, whether the try
\* block threw and what (an Error object, or undefined / null), whether an
\* op_respond call rejected, and whether runHandler's promise rejected.
NoRequest == [responses |-> 0, from |-> "none", failed |-> FALSE,
              thrown |-> "none", respondFailed |-> FALSE, rejected |-> FALSE,
              status |-> 0, body |-> "none"]

Init ==
  /\ globals = [n \in Names |->
                  IF n = Entry THEN RunHandlerEntry
                  ELSE IF n \in Builtins THEN Desc("builtin", TRUE, TRUE)
                  ELSE Absent]
  /\ pc = "idle" /\ cur = NoRequest /\ last = NoRequest
  /\ served = 0 /\ userOps = 0

-----------------------------------------------------------------------------
(***************************************************************************)
(* User code: top-level statements, timers between requests, and the       *)
(* handler's own body while runHandler awaits it.  ECMAScript semantics:   *)
(* assignment to a non-writable property changes nothing; defineProperty   *)
(* may change a non-configurable property only from writable to           *)
(* non-writable, or its value while writable; delete removes a             *)
(* configurable property only.                                             *)
(***************************************************************************)
UserMayRun == pc \in {"idle", "call"} /\ userOps < MaxUserOps

Assign(n, v) ==
  globals' = [globals EXCEPT ![n] =
                IF @ = Absent THEN Desc(v, TRUE, TRUE)
                ELSE IF @.writable THEN [@ EXCEPT !.value = v] ELSE @]

DefineAllowed(old, d) ==
  \/ old = Absent \/ old.configurable
  \/ /\ ~d.configurable /\ old.writable
  \/ d = old

DefineProperty(n, d) ==
  globals' = [globals EXCEPT ![n] = IF DefineAllowed(@, d) THEN d ELSE @]

Delete(n) ==
  globals' = [globals EXCEPT ![n] =
                IF @ # Absent /\ @.configurable THEN Absent ELSE @]

UserOp ==
  /\ UserMayRun
  /\ \E n \in {Entry} \cup UserNames, v \in UserValues, c, w \in BOOLEAN :
       Assign(n, v) \/ DefineProperty(n, Desc(v, c, w)) \/ Delete(n)
  /\ userOps' = userOps + 1
  /\ UNCHANGED <<pc, cur, last, served>>

-----------------------------------------------------------------------------
\* What a read of global n finds: the value class, or "absent".
GlobalValue(n) == IF globals[n] = Absent THEN "absent" ELSE globals[n].value

(***************************************************************************)
(* The host calls globalThis.__ski_runHandler for the next request.  If    *)
(* user code replaced it, user code runs as the request's entry point.     *)
(***************************************************************************)
Invoke ==
  /\ pc = "idle" /\ served < MaxRequests
  /\ pc' = IF GlobalValue(Entry) = "runHandler" THEN "parts" ELSE "hijacked"
  /\ cur' = NoRequest
  /\ UNCHANGED <<globals, last, served, userOps>>

(***************************************************************************)
(* console.log / console.error read the global `console` at each call: the *)
(* built-in works; with `console` deleted the read is a ReferenceError;   *)
(* a value user code put there may or may not have the method.            *)
(***************************************************************************)
ConsoleWorks == GlobalValue("console") # "absent"
ConsoleThrows == GlobalValue("console") \in {"absent"} \cup UserValues

\* A statement of the try block throws value class v: control goes to
\* the catch block.
Throw(v) ==
  /\ pc' = "catch" /\ cur' = [cur EXCEPT !.failed = TRUE, !.thrown = v]
  /\ UNCHANGED <<last, served>>

\* What user code may throw: an Error object, or undefined / null.
UserThrown == {"error", "nullish"}

\* console.log("Getting request parts"), op_get_request_parts,
\* readableStreamForRid, then `new Request(..)`, which reads the global
\* Request: absent is a ReferenceError, a non-function a TypeError, a user
\* function may construct or throw anything.
NewRequest ==
  /\ pc = "parts"
  /\ LET R == GlobalValue("Request") IN
       \/ ConsoleWorks /\ R \in {"builtin", "userFn"} /\ pc' = "check"
          /\ UNCHANGED cur
       \/ ConsoleThrows /\ Throw("error")
       \/ R \in {"absent", "userObj"} /\ Throw("error")
       \/ R = "userFn" /\ \E v \in UserThrown : Throw(v)
  /\ UNCHANGED <<globals, last, served, userOps>>

\* `if (typeof handler !== "function") throw new Error(..)`, then
\* console.log("Calling user handler").
CheckHandler ==
  /\ pc = "check"
  /\ IF GlobalValue("handler") = "userFn"
       THEN \/ ConsoleWorks /\ pc' = "call" /\ UNCHANGED cur
            \/ ConsoleThrows /\ Throw("error")
       ELSE Throw("error")
  /\ UNCHANGED <<globals, last, served, userOps>>

(***************************************************************************)
(* `await handler(request)`: a Response with a status and a body (none, a  *)
(* Deno resource-backed stream, a plain Web stream); the handler throws or *)
(* its promise rejects with any value; anything but a Response makes      *)
(* `response.status` throw a TypeError; or the promise never settles.     *)
(***************************************************************************)
CallHandler ==
  /\ pc = "call"
  /\ \/ \E s \in HandlerStatuses, b \in {"none", "deno", "web"} :
          pc' = "body" /\ cur' = [cur EXCEPT !.status = s, !.body = b]
     \/ \E v \in UserThrown : Throw(v)
     \/ pc' = "hung" /\ UNCHANGED cur
  /\ UNCHANGED <<globals, last, served, userOps>>

\* The console.log calls of lines 23-46 and the body's resource id: the
\* existing one, none, or resourceForReadableStream, which throws on a
\* locked stream.
ConvertBody ==
  /\ pc = "body"
  /\ \/ ConsoleWorks /\ pc' = "respond" /\ UNCHANGED cur
     \/ ConsoleThrows /\ Throw("error")
     \/ cur.body = "web" /\ Throw("error")
  /\ UNCHANGED <<globals, last, served, userOps>>

Finish(r) ==
  /\ pc' = "idle" /\ last' = r /\ served' = served + 1
  /\ cur' = r

(***************************************************************************)
(* `await core.ops.op_respond(status, headers, rid)`, then                *)
(* console.log("op_respond completed").  A rejection sends nothing (the   *)
(* client is gone) and is caught; so is a throw of that console.log,      *)
(* after the response went out.                                            *)
(***************************************************************************)
Respond ==
  /\ pc = "respond"
  /\ \E o \in RespondOutcomes :
       IF o = "ok"
       THEN LET sent == [cur EXCEPT !.responses = @ + 1, !.from = "handler"]
            IN \/ ConsoleWorks /\ Finish(sent)
               \/ ConsoleThrows /\ pc' = "catch"
                  /\ cur' = [sent EXCEPT !.failed = TRUE, !.thrown = "error"]
                  /\ UNCHANGED <<last, served>>
       ELSE /\ pc' = "catch" /\ UNCHANGED <<last, served>>
            /\ cur' = [cur EXCEPT !.failed = TRUE, !.thrown = "error",
                                  !.respondFailed = TRUE]
  /\ UNCHANGED <<globals, userOps>>

(***************************************************************************)
(* catch (e): console.error("Error:", e.message, e.stack), then           *)
(* `await core.ops.op_respond(500, ..)`.  Reading e.message throws when e  *)
(* is undefined or null, and the call throws when `console` no longer has *)
(* a working error method; runHandler's promise then rejects without the  *)
(* 500.  If op_respond rejects, runHandler's promise rejects too.          *)
(***************************************************************************)
Catch ==
  /\ pc = "catch"
  /\ \/ (cur.thrown = "nullish" \/ ConsoleThrows)
        /\ Finish([cur EXCEPT !.rejected = TRUE])
     \/ /\ cur.thrown # "nullish" /\ ConsoleWorks
        /\ \E o \in RespondOutcomes :
             IF o = "ok"
             THEN Finish([cur EXCEPT !.responses = @ + 1, !.from = "catch",
                                     !.status = 500])
             ELSE Finish([cur EXCEPT !.respondFailed = TRUE, !.rejected = TRUE])
  /\ UNCHANGED <<globals, userOps>>

Done ==
  /\ \/ pc = "idle" /\ served = MaxRequests
     \/ pc \in {"hung", "hijacked"}
  /\ UNCHANGED vars

Next ==
  \/ UserOp \/ Invoke \/ NewRequest \/ CheckHandler \/ CallHandler
  \/ ConvertBody \/ Respond \/ Catch \/ Done

Spec == Init /\ [][Next]_vars

-----------------------------------------------------------------------------
Requests == [responses : 0 .. 2, from : {"none", "handler", "catch"},
             failed : BOOLEAN, thrown : {"none"} \cup UserThrown,
             respondFailed : BOOLEAN, rejected : BOOLEAN,
             status : HandlerStatuses \cup {0, 500}, body : {"none", "deno", "web"}]

TypeOK ==
  /\ globals \in [Names -> Descs \cup {Absent}]
  /\ pc \in {"idle", "parts", "check", "call", "body", "respond", "catch",
             "hung", "hijacked"}
  /\ cur \in Requests /\ last \in Requests
  /\ served \in 0 .. MaxRequests /\ userOps \in 0 .. MaxUserOps

(***************************************************************************)
(* Whatever user code does to globalThis, before or between requests or   *)
(* inside its handler, the host's per-request entry point stays run.js's  *)
(* runHandler: user code never runs in its place with the request ops.    *)
(***************************************************************************)
EntryPointIntact == pc # "hijacked"

(***************************************************************************)
(* Every request runHandler finishes is answered exactly once, unless the *)
(* client is gone (an op_respond call rejected), and the catch block's    *)
(* 500 is sent only after a statement of the try block threw: the host    *)
(* never sees runHandler settle for a request nobody answered.            *)
(***************************************************************************)
OneAnswerPerRequest ==
  served > 0 =>
    /\ last.responses <= 1
    /\ last.responses = 0 => last.respondFailed
    /\ last.from = "catch" => last.failed

=============================================================================
