---------------------------- MODULE SuiseiBuild ----------------------------
(***************************************************************************)
(* The suisei Astro integration turns Astro's server build into a WASM     *)
(* component.  `astro build` runs Astro's own SSR build, which writes a    *)
(* manifest_*.mjs into the server directory, and then the                  *)
(* 'astro:build:done' hook awaits buildServer: createServerEntry (find the *)
(* manifest, write shim-intl.js and component.ts), write                   *)
(* rolldown.config.mjs, run rolldown (component.ts -> component.js), run   *)
(* `jco componentize` (component.js -> component.wasm).                    *)
(*                                                                         *)
(* A file is recorded by the number of the build that wrote it (0: not     *)
(* there), and a derived file by the number its input carried, so a        *)
(* component.wasm from an older build is told apart from a fresh one.     *)
(* Builds are repeated over the same directory; any of them may fail at    *)
(* any step or be interrupted between two awaits.                          *)
(***************************************************************************)
EXTENDS Naturals

CONSTANTS
  MaxBuilds   \* bound on the number of `astro build` invocations

ASSUME MaxBuildsAssumption == MaxBuilds \in Nat

VARIABLES
  gen,        \* number of the latest `astro build`
  pc,         \* the step of buildServer the build awaits next
  files,      \* server directory: file -> number of the build it comes from
  result      \* how the latest build ended: "none", "running", "ok", "failed"

vars == <<gen, pc, files, result>>

Files == {"manifest", "shim", "entry", "rolldownCfg", "js", "wasm"}
Steps == {"idle", "entry", "rolldownCfg", "rolldown", "jco"}

\* How a spawned command ends: the exit code on 'close', a signal (code
\* null), or an 'error' event (the binary cannot be spawned).  Only a
\* command that exits 0 has written its output file.
Exits == {"code 0", "code 1", "signal", "error"}

Init == gen = 0 /\ pc = "idle" /\ files = [f \in Files |-> 0] /\ result = "none"

\* Mutant: the promise resolves on 'close' whatever the exit code.
RunCommandResolvesOnClose(exit) == exit # "error"

\* runCommand: settles on 'close' with code 0 (resolve), else rejects.
RunCommandResolves(exit) == exit = "code 0"

Fail == pc' = "idle" /\ result' = "failed"

(***************************************************************************)
(* `astro build`.  Astro's own build may fail, and then the hook never     *)
(* runs.  With output "server" it writes this build's manifest.  With      *)
(* output "static", 'astro:config:done' only warns: no manifest is         *)
(* written, the directory is emptied or left as it was (Astro's business, *)
(* not suisei's), and 'astro:build:done' still calls buildServer.          *)
(***************************************************************************)
AstroBuild ==
  /\ pc = "idle" /\ gen < MaxBuilds
  /\ gen' = gen + 1
  /\ \/ /\ pc' = "entry" /\ result' = "running"
        /\ \/ files' = [files EXCEPT !["manifest"] = gen + 1]     \* server
           \/ files' \in {files, [f \in Files |-> 0]}            \* static
     \/ Fail /\ UNCHANGED files

(***************************************************************************)
(* createServerEntry: readdir and find a manifest (throw if none), write   *)
(* shim-intl.js, then component.ts, which imports that manifest.  Either  *)
(* write may fail.                                                         *)
(***************************************************************************)
CreateServerEntry ==
  /\ pc = "entry"
  /\ \/ files["manifest"] = 0 /\ Fail /\ UNCHANGED files
     \/ /\ files["manifest"] # 0
        /\ \E written \in 0 .. 2 :
             /\ files' = [f \in Files |->
                            IF \/ f = "shim" /\ written >= 1
                               \/ f = "entry" /\ written >= 2
                            THEN gen ELSE files[f]]
             /\ IF written = 2 THEN pc' = "rolldownCfg" /\ UNCHANGED result
                ELSE Fail
  /\ UNCHANGED gen

\* fs.writeFile(rolldown.config.mjs, generateRolldownConfig(...)).
WriteRolldownConfig ==
  /\ pc = "rolldownCfg"
  /\ \/ /\ files' = [files EXCEPT !["rolldownCfg"] = gen]
        /\ pc' = "rolldown" /\ UNCHANGED result
     \/ Fail /\ UNCHANGED files
  /\ UNCHANGED gen

(***************************************************************************)
(* runCommand(rolldown, -c rolldown.config.mjs): bundles component.ts into *)
(* component.js, which then carries component.ts's build number.           *)
(***************************************************************************)
Rolldown ==
  /\ pc = "rolldown"
  /\ \E exit \in Exits :
       /\ files' = IF exit = "code 0"
                   THEN [files EXCEPT !["js"] = files["entry"]] ELSE files
       /\ IF RunCommandResolves(exit) THEN pc' = "jco" /\ UNCHANGED result
          ELSE Fail
  /\ UNCHANGED gen

(***************************************************************************)
(* runCommand(jco componentize ... component.js): component.wasm carries   *)
(* component.js's number; buildServer resolves and the build succeeds.    *)
(***************************************************************************)
Jco ==
  /\ pc = "jco"
  /\ \E exit \in Exits :
       /\ files' = IF exit = "code 0"
                   THEN [files EXCEPT !["wasm"] = files["js"]] ELSE files
       /\ IF RunCommandResolves(exit) THEN pc' = "idle" /\ result' = "ok"
          ELSE Fail
  /\ UNCHANGED gen

\* The build process is killed (Ctrl-C, CI timeout) between two awaits.
Interrupt ==
  /\ pc # "idle"
  /\ Fail
  /\ UNCHANGED <<gen, files>>

Done == pc = "idle" /\ gen = MaxBuilds /\ UNCHANGED vars

Next == AstroBuild \/ CreateServerEntry \/ WriteRolldownConfig \/ Rolldown
        \/ Jco \/ Interrupt \/ Done

Spec == Init /\ [][Next]_vars

-----------------------------------------------------------------------------
TypeOK ==
  /\ gen \in 0 .. MaxBuilds /\ pc \in Steps
  /\ files \in [Files -> 0 .. MaxBuilds]
  /\ result \in {"none", "running", "ok", "failed"}

\* The files buildServer writes or derives.
BuiltFiles == Files \ {"manifest"}

(***************************************************************************)
(* When `astro build` reports success, every file buildServer produces,    *)
(* component.wasm above all, comes from this build: none is left over from *)
(* an earlier build that failed or was interrupted.                        *)
(***************************************************************************)
SuccessMeansFresh ==
  result = "ok" => \A f \in BuiltFiles : files[f] = gen

=============================================================================
