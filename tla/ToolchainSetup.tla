--------------------------- MODULE ToolchainSetup ---------------------------
(***************************************************************************)
(* forte-cli's toolchain/wasi_sdk.rs: ensure_wasi_sdk, run by every        *)
(* `forte dev` and `forte build`, installs wasi-sdk into the user cache    *)
(* the first time and returns its path, from which setup_build_env builds *)
(* CC, CXX, AR and CFLAGS for cargo.                                       *)
(*                                                                         *)
(* Several forte processes share the cache directory, and a process may    *)
(* die (Ctrl-C, a dropped connection, a kill) and be run again.            *)
(* download_and_extract(url, &sdk_path) is called on sdk_path itself: the  *)
(* archive is fetched, sdk_path is created and the entries are unpacked    *)
(* into it one by one.  Writing one entry is taken as one step.            *)
(***************************************************************************)
EXTENDS Naturals

CONSTANTS
  Procs,          \* forte processes (dev, build) on one machine
  Entries,        \* entries of the wasi-sdk archive
  MaxCrashes      \* bound on process deaths

VARIABLES
  sdkExists,  \* sdk_path.exists()
  sdk,        \* the entries present under sdk_path
  unpacked,   \* per process: the entries its download_and_extract has written
  pc,         \* per process: "idle", "download", "extract", "ok", "err"
  crashes

vars == <<sdkExists, sdk, unpacked, pc, crashes>>

Init ==
  /\ sdkExists = FALSE /\ sdk = {}
  /\ unpacked = [p \in Procs |-> {}] /\ pc = [p \in Procs |-> "idle"]
  /\ crashes = 0

(***************************************************************************)
(* ensure_wasi_sdk: `if !sdk_path.exists()` download and extract, else     *)
(* return Ok(sdk_path) at once.                                            *)
(***************************************************************************)
EnsureWasiSdk(p) ==
  /\ pc[p] = "idle"
  /\ pc' = [pc EXCEPT ![p] = IF sdkExists THEN "ok" ELSE "download"]
  /\ unpacked' = [unpacked EXCEPT ![p] = {}]
  /\ UNCHANGED <<sdkExists, sdk, crashes>>

\* download_and_extract: the archive has arrived; sdk_path is created
\* (create_dir_all succeeds if another process created it already).
Download(p) ==
  /\ pc[p] = "download"
  /\ pc' = [pc EXCEPT ![p] = "extract"]
  /\ sdkExists' = TRUE
  /\ UNCHANGED <<sdk, unpacked, crashes>>

\* download_and_extract unpacks one more entry of the archive into
\* sdk_path, overwriting what another process may have written there.
ExtractEntry(p) ==
  /\ pc[p] = "extract"
  /\ \E e \in Entries \ unpacked[p] :
       /\ unpacked' = [unpacked EXCEPT ![p] = @ \cup {e}]
       /\ sdk' = sdk \cup {e}
  /\ UNCHANGED <<sdkExists, pc, crashes>>

\* download_and_extract returns once its archive is unpacked; ensure_wasi_sdk
\* returns Ok(sdk_path).
FinishExtract(p) ==
  /\ pc[p] = "extract"
  /\ unpacked[p] = Entries
  /\ pc' = [pc EXCEPT ![p] = "ok"]
  /\ UNCHANGED <<sdkExists, sdk, unpacked, crashes>>

\* The download fails (network error): `?` returns Err before sdk_path
\* is created.
DownloadFails(p) ==
  /\ pc[p] = "download"
  /\ pc' = [pc EXCEPT ![p] = "err"]
  /\ UNCHANGED <<sdkExists, sdk, unpacked, crashes>>

\* The process dies in the middle of the install.
Crash(p) ==
  /\ pc[p] \in {"download", "extract"} /\ crashes < MaxCrashes
  /\ pc' = [pc EXCEPT ![p] = "idle"] /\ crashes' = crashes + 1
  /\ UNCHANGED <<sdkExists, sdk, unpacked>>

\* The user runs forte again after it ended, with or without the SDK.
Rerun(p) ==
  /\ pc[p] \in {"ok", "err"}
  /\ pc' = [pc EXCEPT ![p] = "idle"]
  /\ UNCHANGED <<sdkExists, sdk, unpacked, crashes>>

Next == \E p \in Procs :
          \/ EnsureWasiSdk(p) \/ Download(p) \/ ExtractEntry(p)
          \/ FinishExtract(p) \/ DownloadFails(p) \/ Crash(p) \/ Rerun(p)

Spec == Init /\ [][Next]_vars

-----------------------------------------------------------------------------
(***************************************************************************)
(* A process that got Ok(sdk_path) from ensure_wasi_sdk finds the whole    *)
(* SDK there: setup_build_env points CC at sdk_path/bin/clang and CFLAGS   *)
(* at its sysroot, so a missing entry breaks every C dependency's build.  *)
(***************************************************************************)
EnsuredSdkComplete == \A p \in Procs : pc[p] = "ok" => Entries \subseteq sdk

=============================================================================
