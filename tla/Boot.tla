--------------------------------- MODULE Boot ---------------------------------
(***************************************************************************)
(* How the game is started with the server inside it.  The loader process  *)
(* (loader/injector.cpp) checks the executable, creates the game suspended,*)
(* makes it load the DLL and waits on a named event before it lets the     *)
(* game's main thread run.  In the game process the DLL's InitThread       *)
(* (dll/init.cpp) checks the code it is about to patch, installs its hooks,*)
(* starts the server and signals the event.  Somebody may replace the      *)
(* executable on disk at any time the file system lets them.               *)
(***************************************************************************)
EXTENDS FiniteSets

(* An executable: the pinned one, one with the same headers and the same   *)
(* bytes at the hook sites, one with the same headers only, another one.   *)
Image == {"pinned", "same_sites", "same_headers", "other"}
NoImage == "none"
HeadersMatch(i) == i # "other"
SitesMatch(i) == i \in {"pinned", "same_sites"}

VARIABLES
    file,     \* the executable on disk
    locked,   \* whether the loader holds it open without sharing writes
    checked,  \* history: the executable that CheckBinaryPinning let pass
    loader,   \* the place in LaunchAndInject
    proc,     \* the game process: its main thread is suspended or running
    image,    \* the executable the process runs
    remote,   \* the remote thread that runs LoadLibraryW in it
    init,     \* the place of the DLL's InitThread
    hooked,   \* whether the head detours are installed
    serving,  \* whether the server runtime is up
    handles,  \* who holds a handle to the ready event
    event,    \* whether there is such an event and it is set
    everSet   \* history: whether InitThread has set it

loaderVars == <<locked, checked, loader>>
dllVars == <<init, hooked, serving>>
eventVars == <<handles, event, everSet>>
vars == <<file, loaderVars, proc, image, remote, dllVars, eventVars>>

TypeOK ==
    /\ file \in Image
    /\ locked \in BOOLEAN
    /\ checked \in Image \cup {NoImage}
    /\ loader \in {"start", "pin", "spawn", "unlock", "inject", "create_remote", "wait_remote",
                   "remote_done", "create_event", "wait_ready", "close_timed_out",
                   "close_signaled", "resume", "destroy", "failed", "started"}
    /\ proc \in {"none", "suspended", "running", "gone"}
    /\ image \in Image \cup {NoImage}
    /\ remote \in {"none", "loading", "loaded", "not_loaded"}
    /\ init \in {"none", "validate", "hook", "serve", "create_event", "set", "close", "done"}
    /\ hooked \in BOOLEAN
    /\ serving \in BOOLEAN
    /\ handles \subseteq {"loader", "dll"}
    /\ event \in {"none", "unset", "set"}
    /\ everSet \in BOOLEAN

Init ==
    /\ file \in Image
    /\ locked = FALSE
    /\ checked = NoImage
    /\ loader = "start"
    /\ proc = "none"
    /\ image = NoImage
    /\ remote = "none"
    /\ init = "none"
    /\ hooked = FALSE
    /\ serving = FALSE
    /\ handles = {}
    /\ event = "none"
    /\ everSet = FALSE

----------------------------------------------------------------------------
(* The executable is replaced.  A file that is open without shared writing *)
(* or mapped into a process cannot be.                                     *)
ReplaceFile ==
    /\ ~locked
    /\ proc \in {"none", "gone"}
    /\ \E i \in Image \ {file} : file' = i
    /\ UNCHANGED <<loaderVars, proc, image, remote, dllVars, eventVars>>

(* CreateEventW by a process: it opens the event, or creates it unset.     *)
OpenEvent(who) ==
    /\ handles' = handles \cup {who}
    /\ event' = IF event = "none" THEN "unset" ELSE event

(* The event goes with its last handle. *)
CloseEvent(who) ==
    /\ handles' = handles \ {who}
    /\ event' = IF handles \subseteq {who} THEN "none" ELSE event

(* The process ends, by TerminateProcess or ExitProcess, and its handles.  *)
EndProcess ==
    /\ proc' = "gone"
    /\ CloseEvent("dll")
    /\ UNCHANGED everSet

----------------------------------------------------------------------------
(* The loader. *)

Goto(from, to) == loader = from /\ loader' = to

LockFile ==
    /\ \/ Goto("start", "pin") /\ locked' = TRUE
       \/ Goto("start", "failed") /\ UNCHANGED locked
    /\ UNCHANGED <<file, checked, proc, image, remote, dllVars, eventVars>>

(* Mutant: the lock is released once the file has been checked. *)
CheckAndRelease ==
    /\ HeadersMatch(file)
    /\ Goto("pin", "spawn")
    /\ checked' = file
    /\ locked' = FALSE
    /\ UNCHANGED <<file, proc, image, remote, dllVars, eventVars>>

CheckBinaryPinning ==
    /\ \/ /\ HeadersMatch(file)
          /\ Goto("pin", "spawn")
          /\ checked' = file
          /\ UNCHANGED locked
       \/ /\ Goto("pin", "failed")  \* also when the file cannot be read
          /\ locked' = FALSE
          /\ UNCHANGED checked
    /\ UNCHANGED <<file, proc, image, remote, dllVars, eventVars>>

CreateSuspended ==
    /\ \/ /\ Goto("spawn", "unlock")
          /\ proc' = "suspended"
          /\ image' = file
          /\ UNCHANGED locked
       \/ /\ Goto("spawn", "failed")
          /\ locked' = FALSE
          /\ UNCHANGED <<proc, image>>
    /\ UNCHANGED <<file, checked, remote, dllVars, eventVars>>

UnlockFile ==
    /\ Goto("unlock", "inject")
    /\ locked' = FALSE
    /\ UNCHANGED <<file, checked, proc, image, remote, dllVars, eventVars>>

(* InjectDll, up to the remote thread. *)
WritePath ==
    /\ Goto("inject", "create_remote") \/ Goto("inject", "destroy")
    /\ UNCHANGED <<file, locked, checked, proc, image, remote, dllVars, eventVars>>

CreateRemoteThread ==
    /\ \/ Goto("create_remote", "wait_remote") /\ remote' = "loading"
       \/ Goto("create_remote", "destroy") /\ UNCHANGED remote
    /\ UNCHANGED <<file, locked, checked, proc, image, dllVars, eventVars>>

(* The wait ends with the thread, at its time limit or with an error. *)
WaitRemote ==
    /\ \/ Goto("wait_remote", "remote_done") /\ (remote # "loading" \/ proc = "gone")
       \/ Goto("wait_remote", "destroy")
    /\ UNCHANGED <<file, locked, checked, proc, image, remote, dllVars, eventVars>>

(* LoadLibraryW returned null, or a module. *)
CheckRemoteExit ==
    /\ \/ Goto("remote_done", "create_event") /\ remote # "not_loaded"
       \/ Goto("remote_done", "destroy")
    /\ UNCHANGED <<file, locked, checked, proc, image, remote, dllVars, eventVars>>

(* WaitForReady: create or open the event, *)
CreateReadyEvent ==
    /\ \/ Goto("create_event", "wait_ready") /\ OpenEvent("loader")
       \/ Goto("create_event", "destroy") /\ UNCHANGED <<handles, event>>
    /\ UNCHANGED <<file, locked, checked, proc, image, remote, dllVars, everSet>>

(* wait for it, or for ten seconds, *)
WaitForReady ==
    /\ \/ Goto("wait_ready", "close_signaled") /\ event = "set"
       \/ Goto("wait_ready", "close_timed_out") /\ event # "set"
    /\ UNCHANGED <<file, locked, checked, proc, image, remote, dllVars, eventVars>>

(* Mutant: the game is resumed whatever the wait returned. *)
CloseUnchecked ==
    /\ Goto("close_signaled", "resume") \/ Goto("close_timed_out", "resume")
    /\ CloseEvent("loader")
    /\ UNCHANGED <<file, locked, checked, proc, image, remote, dllVars, everSet>>

(* Mutant: after a time-out the process is left alone. *)
CloseAndLeave ==
    /\ Goto("close_signaled", "resume") \/ Goto("close_timed_out", "failed")
    /\ CloseEvent("loader")
    /\ UNCHANGED <<file, locked, checked, proc, image, remote, dllVars, everSet>>

(* and close it. *)
CloseReadyEvent ==
    /\ Goto("close_signaled", "resume") \/ Goto("close_timed_out", "destroy")
    /\ CloseEvent("loader")
    /\ UNCHANGED <<file, locked, checked, proc, image, remote, dllVars, everSet>>

ResumeMainThread ==
    /\ \/ Goto("resume", "started") /\ proc' = (IF proc = "gone" THEN "gone" ELSE "running")
       \/ Goto("resume", "destroy") /\ UNCHANGED proc
    /\ UNCHANGED <<file, locked, checked, image, remote, dllVars, eventVars>>

DestroyProcess ==
    /\ Goto("destroy", "failed")
    /\ EndProcess
    /\ UNCHANGED <<file, locked, checked, image, remote, dllVars>>

LoaderStep ==
    \/ LockFile \/ CheckBinaryPinning \/ CreateSuspended \/ UnlockFile
    \/ WritePath \/ CreateRemoteThread \/ WaitRemote \/ CheckRemoteExit
    \/ CreateReadyEvent \/ WaitForReady \/ CloseReadyEvent
    \/ ResumeMainThread \/ DestroyProcess

----------------------------------------------------------------------------
(* The game process. *)

Alive == proc \in {"suspended", "running"}

(* The remote thread loads the DLL, whose DllMain creates InitThread if it *)
(* can, or fails to load it.                                               *)
LoadDll ==
    /\ Alive
    /\ remote = "loading"
    /\ \/ remote' = "loaded" /\ init' \in {"validate", "done"}
       \/ remote' = "not_loaded" /\ UNCHANGED init
    /\ UNCHANGED <<file, loaderVars, proc, image, hooked, serving, eventVars>>

(* Mutant: the sites are patched without looking. *)
SkipValidation ==
    /\ Alive
    /\ init = "validate"
    /\ init' = "hook"
    /\ UNCHANGED <<file, loaderVars, image, remote, proc, hooked, serving, eventVars>>

ValidateHookSites ==
    /\ Alive
    /\ init = "validate"
    /\ SitesMatch(image)
    /\ init' = "hook"
    /\ UNCHANGED <<file, loaderVars, image, remote, proc, hooked, serving, eventVars>>

InstallHooks ==
    /\ Alive
    /\ init = "hook"
    /\ init' = "serve"
    /\ hooked' = TRUE
    /\ UNCHANGED <<file, loaderVars, image, remote, proc, serving, eventVars>>

StartServer ==
    /\ Alive
    /\ init = "serve"
    /\ init' = "create_event"
    /\ serving' = TRUE
    /\ UNCHANGED <<file, loaderVars, image, remote, proc, hooked, eventVars>>

(* Each of them may fail, the first when the sites differ, and then ends   *)
(* the process.                                                            *)
AbortInit ==
    /\ Alive
    /\ \/ init = "validate" /\ ~SitesMatch(image)
       \/ init \in {"hook", "serve"}
    /\ EndProcess
    /\ UNCHANGED <<file, loaderVars, image, remote, dllVars>>

(* SignalReady: create or open the event, which may fail, *)
CreateSignal ==
    /\ Alive
    /\ init = "create_event"
    /\ \/ init' = "set" /\ OpenEvent("dll")
       \/ init' = "done" /\ UNCHANGED <<handles, event>>
    /\ UNCHANGED <<file, loaderVars, proc, image, remote, hooked, serving, everSet>>

(* set it, *)
SetSignal ==
    /\ Alive
    /\ init = "set"
    /\ init' = "close"
    /\ event' = "set"
    /\ everSet' = TRUE
    /\ UNCHANGED <<file, loaderVars, proc, image, remote, hooked, serving, handles>>

(* and close it. *)
CloseSignal ==
    /\ Alive
    /\ init = "close"
    /\ init' = "done"
    /\ CloseEvent("dll")
    /\ UNCHANGED <<file, loaderVars, proc, image, remote, hooked, serving, everSet>>

DllStep ==
    \/ LoadDll \/ ValidateHookSites \/ InstallHooks \/ StartServer \/ AbortInit
    \/ CreateSignal \/ SetSignal \/ CloseSignal

Next == LoaderStep \/ DllStep \/ ReplaceFile

Spec == Init /\ [][Next]_vars

(* The loader runs to its end: each of its waits has a time limit. *)
FairSpec == Spec /\ WF_vars(LoaderStep)

----------------------------------------------------------------------------
(* The game never runs half-hooked: "resuming before the signal would let  *)
(* the game's own init race past the head detours" (injector.cpp).         *)
RunsHooked == proc = "running" => hooked /\ serving

(* What runs is what was checked, although the executable can be replaced  *)
(* between the check and the launch: LaunchAndInject holds it open.        *)
RunsWhatWasChecked == proc \in {"suspended", "running"} => image = checked

(* No code is patched that is not what it should be, so that a game that   *)
(* runs has the expected bytes at every hook site.                         *)
PatchesKnownCode == hooked => SitesMatch(image)

(* "no orphaned suspended game lingers" (DestroyProcess): whatever fails,  *)
(* the game ends up running or gone.                                       *)
NoOrphan == proc = "suspended" ~> proc \in {"running", "gone"}

(* SignalReady says that CreateEventW is idempotent by name (the loader    *)
(* may have created it first), and WaitForReady that it creates or opens   *)
(* the event: the loader that waits for InitThread sees that it has        *)
(* signaled.                                                               *)
SignalIsSeen == loader = "wait_ready" /\ everSet => event = "set"
=============================================================================
