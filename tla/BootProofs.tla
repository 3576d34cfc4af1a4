------------------------------ MODULE BootProofs ------------------------------
(***************************************************************************)
(* What holds of Boot in every behaviour.  Boot has no parameters; what    *)
(* the proofs add to its run is the argument: why the game that runs is    *)
(* hooked and is the executable that was checked, and why nothing is left  *)
(* behind when the loader ends.                                            *)
(***************************************************************************)
EXTENDS Boot, TLAPS

----------------------------------------------------------------------------
(* The strengthened invariant, in four parts.  First, what each place of   *)
(* InitThread has behind it, and that only InitThread gives the signal.    *)
SignalMeansHooked ==
    /\ init \in {"serve", "create_event", "set", "close"} => hooked
    /\ init \in {"create_event", "set", "close"} => serving
    /\ event = "set" => everSet
    /\ everSet => hooked /\ serving
    /\ loader \in {"close_signaled", "resume"} => everSet
    /\ proc = "running" => everSet

(* Second, that nothing has happened in the game before the loader creates *)
(* it, and that until it has done so it holds the executable open.         *)
LockedUntilSpawned ==
    /\ loader \in {"start", "pin", "spawn"} => proc = "none" /\ init = "none" /\ ~hooked
    /\ loader \in {"pin", "spawn"} => locked
    /\ loader = "spawn" => checked = file
    /\ proc = "none" => loader \in {"start", "pin", "spawn", "failed"}
    /\ proc \in {"suspended", "running"} => image = checked

(* Third, that InitThread patches after it has looked.                     *)
LookedBeforePatching ==
    /\ init = "hook" => SitesMatch(image)
    /\ hooked => SitesMatch(image)

(* Fourth, who holds what: the two sides hold the event from its opening   *)
(* to its closing and the event lives as long as a handle, the loader has  *)
(* the file from its check until the process exists, and the process is    *)
(* suspended only while the loader still has to decide about it.  The DLL  *)
(* is loaded once, by the one remote thread.                               *)
HoldersKnown ==
    /\ "loader" \in handles <=> loader \in {"wait_ready", "close_signaled", "close_timed_out"}
    /\ "dll" \in handles <=> init \in {"set", "close"} /\ proc # "gone"
    /\ event = "none" <=> handles = {}
    /\ init = "close" /\ proc # "gone" => event = "set"
    /\ locked => loader \in {"pin", "spawn", "unlock"}
    /\ proc = "suspended" => loader \notin {"failed", "started"}
    /\ loader = "failed" => proc # "running"
    /\ remote \in {"none", "loading", "not_loaded"} => init = "none"
    /\ loader \in {"start", "pin", "spawn", "unlock", "inject", "create_remote"} => remote = "none"

BootInv ==
    TypeOK /\ SignalMeansHooked /\ LockedUntilSpawned /\ LookedBeforePatching /\ HoldersKnown

----------------------------------------------------------------------------
(* The invariant holds when the loader starts. *)
LEMMA InitBootInv == Init => BootInv
BY DEF Init, BootInv, TypeOK, SignalMeansHooked, LockedUntilSpawned, LookedBeforePatching,
       HoldersKnown, Image, NoImage, SitesMatch

----------------------------------------------------------------------------
(* Each variable keeps its type.                                           *)
LEMMA TypeStep == TypeOK /\ [Next]_vars => TypeOK'
<1> SUFFICES ASSUME TypeOK, [Next]_vars PROVE TypeOK'
  OBVIOUS
<1> USE DEF TypeOK, Image, NoImage, loaderVars, dllVars, eventVars
<1>1. CASE LockFile
  <2>1. locked' \in BOOLEAN
    BY <1>1, Zenon DEF LockFile, Goto
  <2> QED
    BY <1>1, <2>1 DEF LockFile, Goto
<1>2. CASE CheckBinaryPinning
  <2>1. locked' \in BOOLEAN
    BY <1>2, Zenon DEF CheckBinaryPinning, Goto, HeadersMatch
  <2> QED
    BY <1>2, <2>1 DEF CheckBinaryPinning, Goto, HeadersMatch
<1>3. CASE CreateSuspended
  <2>1. locked' \in BOOLEAN
    BY <1>3, Zenon DEF CreateSuspended, Goto
  <2> QED
    BY <1>3, <2>1 DEF CreateSuspended, Goto
<1>4. CASE UnlockFile
  <2>1. locked' \in BOOLEAN
    BY <1>4, Zenon DEF UnlockFile, Goto
  <2> QED
    BY <1>4, <2>1 DEF UnlockFile, Goto
<1>5. CASE WritePath
  BY <1>5 DEF WritePath, Goto
<1>6. CASE CreateRemoteThread
  BY <1>6 DEF CreateRemoteThread, Goto
<1>7. CASE WaitRemote
  BY <1>7 DEF WaitRemote, Goto
<1>8. CASE CheckRemoteExit
  BY <1>8 DEF CheckRemoteExit, Goto
<1>9. CASE CreateReadyEvent
  <2>1. handles' \subseteq {"loader", "dll"} /\ event' \in {"none", "unset", "set"}
    <3>1. CASE OpenEvent("loader")
      BY <3>1 DEF OpenEvent
    <3>2. CASE UNCHANGED <<handles, event>>
      BY <3>2
    <3> QED
      BY <1>9, <3>1, <3>2 DEF CreateReadyEvent
  <2> QED
    BY <1>9, <2>1 DEF CreateReadyEvent, Goto
<1>10. CASE WaitForReady
  BY <1>10 DEF WaitForReady, Goto
<1>11. CASE CloseReadyEvent
  BY <1>11 DEF CloseReadyEvent, Goto, CloseEvent
<1>12. CASE ResumeMainThread
  BY <1>12 DEF ResumeMainThread, Goto
<1>13. CASE DestroyProcess
  BY <1>13 DEF DestroyProcess, Goto, EndProcess, CloseEvent
<1>14. CASE LoadDll
  BY <1>14 DEF LoadDll, Alive
<1>15. CASE ValidateHookSites
  BY <1>15 DEF ValidateHookSites, Alive
<1>16. CASE InstallHooks
  BY <1>16 DEF InstallHooks, Alive
<1>17. CASE StartServer
  BY <1>17 DEF StartServer, Alive
<1>18. CASE AbortInit
  BY <1>18 DEF AbortInit, Alive, EndProcess, CloseEvent
<1>19. CASE CreateSignal
  <2>1. handles' \subseteq {"loader", "dll"} /\ event' \in {"none", "unset", "set"}
    <3>1. CASE OpenEvent("dll")
      BY <3>1 DEF OpenEvent
    <3>2. CASE UNCHANGED <<handles, event>>
      BY <3>2
    <3> QED
      BY <1>19, <3>1, <3>2 DEF CreateSignal
  <2> QED
    BY <1>19, <2>1 DEF CreateSignal, Alive
<1>20. CASE SetSignal
  BY <1>20 DEF SetSignal, Alive
<1>21. CASE CloseSignal
  BY <1>21 DEF CloseSignal, Alive, CloseEvent
<1>22. CASE ReplaceFile
  BY <1>22 DEF ReplaceFile
<1>23. CASE UNCHANGED vars
  BY <1>23 DEF vars
<1> QED
  BY <1>1, <1>2, <1>3, <1>4, <1>5, <1>6, <1>7, <1>8, <1>9, <1>10, <1>11, <1>12, <1>13,
     <1>14, <1>15, <1>16, <1>17, <1>18, <1>19, <1>20, <1>21, <1>22, <1>23 DEF Next,
     LoaderStep, DllStep

(* InitThread gives the signal from a place where it has installed the     *)
(* hooks and started the server, and nothing takes them away.              *)
LEMMA SignalStep == SignalMeansHooked /\ [Next]_vars => SignalMeansHooked'
<1> SUFFICES ASSUME SignalMeansHooked, [Next]_vars PROVE SignalMeansHooked'
  OBVIOUS
<1> USE DEF SignalMeansHooked, loaderVars, dllVars, eventVars
<1>1. CASE LockFile
  BY <1>1 DEF LockFile, Goto
<1>2. CASE CheckBinaryPinning
  BY <1>2 DEF CheckBinaryPinning, Goto, HeadersMatch
<1>3. CASE CreateSuspended
  BY <1>3 DEF CreateSuspended, Goto
<1>4. CASE UnlockFile
  BY <1>4 DEF UnlockFile, Goto
<1>5. CASE WritePath
  BY <1>5 DEF WritePath, Goto
<1>6. CASE CreateRemoteThread
  BY <1>6 DEF CreateRemoteThread, Goto
<1>7. CASE WaitRemote
  BY <1>7 DEF WaitRemote, Goto
<1>8. CASE CheckRemoteExit
  BY <1>8 DEF CheckRemoteExit, Goto
<1>9. CASE CreateReadyEvent
  BY <1>9 DEF CreateReadyEvent, Goto, OpenEvent
<1>10. CASE WaitForReady
  BY <1>10 DEF WaitForReady, Goto
<1>11. CASE CloseReadyEvent
  BY <1>11 DEF CloseReadyEvent, Goto, CloseEvent
<1>12. CASE ResumeMainThread
  BY <1>12 DEF ResumeMainThread, Goto
<1>13. CASE DestroyProcess
  BY <1>13 DEF DestroyProcess, Goto, EndProcess, CloseEvent
<1>14. CASE LoadDll
  BY <1>14 DEF LoadDll, Alive
<1>15. CASE ValidateHookSites
  BY <1>15 DEF ValidateHookSites, Alive
<1>16. CASE InstallHooks
  BY <1>16 DEF InstallHooks, Alive
<1>17. CASE StartServer
  BY <1>17 DEF StartServer, Alive
<1>18. CASE AbortInit
  BY <1>18 DEF AbortInit, Alive, EndProcess, CloseEvent
<1>19. CASE CreateSignal
  BY <1>19 DEF CreateSignal, Alive, OpenEvent
<1>20. CASE SetSignal
  BY <1>20 DEF SetSignal, Alive
<1>21. CASE CloseSignal
  BY <1>21 DEF CloseSignal, Alive, CloseEvent
<1>22. CASE ReplaceFile
  BY <1>22 DEF ReplaceFile
<1>23. CASE UNCHANGED vars
  BY <1>23 DEF vars
<1> QED
  BY <1>1, <1>2, <1>3, <1>4, <1>5, <1>6, <1>7, <1>8, <1>9, <1>10, <1>11, <1>12, <1>13,
     <1>14, <1>15, <1>16, <1>17, <1>18, <1>19, <1>20, <1>21, <1>22, <1>23 DEF Next,
     LoaderStep, DllStep

(* The loader creates the game while it holds the file it has checked.     *)
LEMMA LockStep == TypeOK /\ LockedUntilSpawned /\ [Next]_vars => LockedUntilSpawned'
<1> SUFFICES ASSUME TypeOK /\ LockedUntilSpawned, [Next]_vars PROVE LockedUntilSpawned'
  OBVIOUS
<1> USE DEF TypeOK, LockedUntilSpawned, loaderVars, dllVars, eventVars
<1>1. CASE LockFile
  BY <1>1 DEF LockFile, Goto
<1>2. CASE CheckBinaryPinning
  BY <1>2 DEF CheckBinaryPinning, Goto, HeadersMatch
<1>3. CASE CreateSuspended
  BY <1>3 DEF CreateSuspended, Goto
<1>4. CASE UnlockFile
  BY <1>4 DEF UnlockFile, Goto
<1>5. CASE WritePath
  BY <1>5 DEF WritePath, Goto
<1>6. CASE CreateRemoteThread
  BY <1>6 DEF CreateRemoteThread, Goto
<1>7. CASE WaitRemote
  BY <1>7 DEF WaitRemote, Goto
<1>8. CASE CheckRemoteExit
  BY <1>8 DEF CheckRemoteExit, Goto
<1>9. CASE CreateReadyEvent
  BY <1>9 DEF CreateReadyEvent, Goto, OpenEvent
<1>10. CASE WaitForReady
  BY <1>10 DEF WaitForReady, Goto
<1>11. CASE CloseReadyEvent
  BY <1>11 DEF CloseReadyEvent, Goto, CloseEvent
<1>12. CASE ResumeMainThread
  BY <1>12 DEF ResumeMainThread, Goto
<1>13. CASE DestroyProcess
  BY <1>13 DEF DestroyProcess, Goto, EndProcess, CloseEvent
<1>14. CASE LoadDll
  BY <1>14 DEF LoadDll, Alive
<1>15. CASE ValidateHookSites
  BY <1>15 DEF ValidateHookSites, Alive
<1>16. CASE InstallHooks
  BY <1>16 DEF InstallHooks, Alive
<1>17. CASE StartServer
  BY <1>17 DEF StartServer, Alive
<1>18. CASE AbortInit
  BY <1>18 DEF AbortInit, Alive, EndProcess, CloseEvent
<1>19. CASE CreateSignal
  BY <1>19 DEF CreateSignal, Alive, OpenEvent
<1>20. CASE SetSignal
  BY <1>20 DEF SetSignal, Alive
<1>21. CASE CloseSignal
  BY <1>21 DEF CloseSignal, Alive, CloseEvent
<1>22. CASE ReplaceFile
  BY <1>22 DEF ReplaceFile
<1>23. CASE UNCHANGED vars
  BY <1>23 DEF vars
<1> QED
  BY <1>1, <1>2, <1>3, <1>4, <1>5, <1>6, <1>7, <1>8, <1>9, <1>10, <1>11, <1>12, <1>13,
     <1>14, <1>15, <1>16, <1>17, <1>18, <1>19, <1>20, <1>21, <1>22, <1>23 DEF Next,
     LoaderStep, DllStep

(* A process gets its image once, before anything in it runs.              *)
LEMMA LookStep == LockedUntilSpawned /\ LookedBeforePatching /\ [Next]_vars => LookedBeforePatching'
<1> SUFFICES ASSUME LockedUntilSpawned /\ LookedBeforePatching, [Next]_vars PROVE LookedBeforePatching'
  OBVIOUS
<1> USE DEF LockedUntilSpawned, LookedBeforePatching, SitesMatch, loaderVars, dllVars, eventVars
<1>1. CASE LockFile
  BY <1>1 DEF LockFile, Goto
<1>2. CASE CheckBinaryPinning
  BY <1>2 DEF CheckBinaryPinning, Goto, HeadersMatch
<1>3. CASE CreateSuspended
  BY <1>3 DEF CreateSuspended, Goto
<1>4. CASE UnlockFile
  BY <1>4 DEF UnlockFile, Goto
<1>5. CASE WritePath
  BY <1>5 DEF WritePath, Goto
<1>6. CASE CreateRemoteThread
  BY <1>6 DEF CreateRemoteThread, Goto
<1>7. CASE WaitRemote
  BY <1>7 DEF WaitRemote, Goto
<1>8. CASE CheckRemoteExit
  BY <1>8 DEF CheckRemoteExit, Goto
<1>9. CASE CreateReadyEvent
  BY <1>9 DEF CreateReadyEvent, Goto, OpenEvent
<1>10. CASE WaitForReady
  BY <1>10 DEF WaitForReady, Goto
<1>11. CASE CloseReadyEvent
  BY <1>11 DEF CloseReadyEvent, Goto, CloseEvent
<1>12. CASE ResumeMainThread
  BY <1>12 DEF ResumeMainThread, Goto
<1>13. CASE DestroyProcess
  BY <1>13 DEF DestroyProcess, Goto, EndProcess, CloseEvent
<1>14. CASE LoadDll
  BY <1>14 DEF LoadDll, Alive
<1>15. CASE ValidateHookSites
  BY <1>15 DEF ValidateHookSites, Alive
<1>16. CASE InstallHooks
  BY <1>16 DEF InstallHooks, Alive
<1>17. CASE StartServer
  BY <1>17 DEF StartServer, Alive
<1>18. CASE AbortInit
  BY <1>18 DEF AbortInit, Alive, EndProcess, CloseEvent
<1>19. CASE CreateSignal
  BY <1>19 DEF CreateSignal, Alive, OpenEvent
<1>20. CASE SetSignal
  BY <1>20 DEF SetSignal, Alive
<1>21. CASE CloseSignal
  BY <1>21 DEF CloseSignal, Alive, CloseEvent
<1>22. CASE ReplaceFile
  BY <1>22 DEF ReplaceFile
<1>23. CASE UNCHANGED vars
  BY <1>23 DEF vars
<1> QED
  BY <1>1, <1>2, <1>3, <1>4, <1>5, <1>6, <1>7, <1>8, <1>9, <1>10, <1>11, <1>12, <1>13,
     <1>14, <1>15, <1>16, <1>17, <1>18, <1>19, <1>20, <1>21, <1>22, <1>23 DEF Next,
     LoaderStep, DllStep

(* Handles, file and process are let go of by whoever holds them, on every *)
(* path: an ending process takes its handle with it, and the loader closes *)
(* its own whatever its wait returned.                                     *)
LEMMA HoldersStep ==
    TypeOK /\ LockedUntilSpawned /\ HoldersKnown /\ [Next]_vars => HoldersKnown'
<1> SUFFICES ASSUME TypeOK, LockedUntilSpawned, HoldersKnown, [Next]_vars PROVE HoldersKnown'
  OBVIOUS
<1> USE DEF TypeOK, LockedUntilSpawned, HoldersKnown, loaderVars, dllVars, eventVars
<1>1. CASE LockFile
  BY <1>1 DEF LockFile, Goto
<1>2. CASE CheckBinaryPinning
  BY <1>2 DEF CheckBinaryPinning, Goto, HeadersMatch
<1>3. CASE CreateSuspended
  BY <1>3 DEF CreateSuspended, Goto
<1>4. CASE UnlockFile
  BY <1>4 DEF UnlockFile, Goto
<1>5. CASE WritePath
  BY <1>5 DEF WritePath, Goto
<1>6. CASE CreateRemoteThread
  BY <1>6 DEF CreateRemoteThread, Goto
<1>7. CASE WaitRemote
  BY <1>7 DEF WaitRemote, Goto
<1>8. CASE CheckRemoteExit
  BY <1>8 DEF CheckRemoteExit, Goto
<1>9. CASE CreateReadyEvent
  BY <1>9 DEF CreateReadyEvent, Goto, OpenEvent
<1>10. CASE WaitForReady
  BY <1>10 DEF WaitForReady, Goto
<1>11. CASE CloseReadyEvent
  BY <1>11 DEF CloseReadyEvent, Goto, CloseEvent
<1>12. CASE ResumeMainThread
  BY <1>12 DEF ResumeMainThread, Goto
<1>13. CASE DestroyProcess
  BY <1>13 DEF DestroyProcess, Goto, EndProcess, CloseEvent
<1>14. CASE LoadDll
  BY <1>14 DEF LoadDll, Alive
<1>15. CASE ValidateHookSites
  BY <1>15 DEF ValidateHookSites, Alive
<1>16. CASE InstallHooks
  BY <1>16 DEF InstallHooks, Alive
<1>17. CASE StartServer
  BY <1>17 DEF StartServer, Alive
<1>18. CASE AbortInit
  BY <1>18 DEF AbortInit, Alive, EndProcess, CloseEvent, SitesMatch
<1>19. CASE CreateSignal
  BY <1>19 DEF CreateSignal, Alive, OpenEvent
<1>20. CASE SetSignal
  BY <1>20 DEF SetSignal, Alive
<1>21. CASE CloseSignal
  BY <1>21 DEF CloseSignal, Alive, CloseEvent
<1>22. CASE ReplaceFile
  BY <1>22 DEF ReplaceFile
<1>23. CASE UNCHANGED vars
  BY <1>23 DEF vars
<1> QED
  BY <1>1, <1>2, <1>3, <1>4, <1>5, <1>6, <1>7, <1>8, <1>9, <1>10, <1>11, <1>12, <1>13,
     <1>14, <1>15, <1>16, <1>17, <1>18, <1>19, <1>20, <1>21, <1>22, <1>23 DEF Next,
     LoaderStep, DllStep

----------------------------------------------------------------------------
(* Every place of the loader and of InitThread stays as it should, in      *)
(* every behaviour, with or without the loader's fairness.                 *)
THEOREM BootConsistent == Spec => []BootInv
<1>1. Init => BootInv
  BY InitBootInv
<1>2. BootInv /\ [Next]_vars => BootInv'
  BY TypeStep, SignalStep, LockStep, LookStep, HoldersStep DEF BootInv
<1> QED
  BY <1>1, <1>2, PTL DEF Spec

(* Its variables keep their types.                                         *)
THEOREM BootTyped == Spec => []TypeOK
BY BootConsistent, PTL DEF BootInv

(* The game runs only with its hooks installed and its server up.          *)
THEOREM NeverHalfHooked == Spec => []RunsHooked
<1>1. BootInv => RunsHooked
  BY DEF BootInv, SignalMeansHooked, RunsHooked
<1> QED
  BY <1>1, BootConsistent, PTL

(* What runs is the executable whose headers were checked.                 *)
THEOREM NeverSwapped == Spec => []RunsWhatWasChecked
<1>1. BootInv => RunsWhatWasChecked
  BY DEF BootInv, LockedUntilSpawned, RunsWhatWasChecked
<1> QED
  BY <1>1, BootConsistent, PTL

(* No executable is patched that has other bytes at a hook site.           *)
THEOREM NeverPatchesBlindly == Spec => []PatchesKnownCode
<1>1. BootInv => PatchesKnownCode
  BY DEF BootInv, LookedBeforePatching, PatchesKnownCode
<1> QED
  BY <1>1, BootConsistent, PTL

(* "no orphaned suspended game lingers" (DestroyProcess), the safety of    *)
(* NoOrphan: on whatever path LaunchAndInject ends, its file and its event *)
(* handles are closed and no process is left suspended; if it failed,      *)
(* none is left running either.                                            *)
NothingLeftBehind ==
    loader \in {"failed", "started"} =>
        /\ proc # "suspended"
        /\ loader = "failed" => proc \in {"none", "gone"}
        /\ ~locked
        /\ "loader" \notin handles

(* The loader leaves nothing behind, whatever failed.                      *)
THEOREM LoaderCleansUp == Spec => []NothingLeftBehind
<1>1. BootInv => NothingLeftBehind
  BY DEF BootInv, TypeOK, HoldersKnown, NothingLeftBehind
<1> QED
  BY <1>1, BootConsistent, PTL

(* Once the loader has the event open, a signal stays until it has looked: *)
(* InitThread's closing of its own handle does not take the event away     *)
(* (SignalReady, WaitForReady).  The signal that is lost in the run        *)
(* boot_signal was given and taken away before the loader came.            *)
SignalIsKept == [][event = "set" /\ "loader" \in handles' => event' = "set"]_vars

(* An event that is held open by the loader keeps its signal.              *)
THEOREM OpenedInTimeIsSeen == Spec => SignalIsKept
<1>1. ASSUME [Next]_vars, event = "set", "loader" \in handles'
      PROVE  event' = "set"
  <2>1. CASE \E who \in {"loader", "dll"} : OpenEvent(who) \/ CloseEvent(who)
    BY <1>1, <2>1 DEF OpenEvent, CloseEvent
  <2>2. CASE SetSignal \/ UNCHANGED event
    BY <1>1, <2>2 DEF SetSignal
  <2>3. \/ \E who \in {"loader", "dll"} : OpenEvent(who) \/ CloseEvent(who)
        \/ SetSignal \/ UNCHANGED event
    <3> USE DEF eventVars
    <3>1. CASE LoaderStep
      BY <3>1 DEF LoaderStep, LockFile, CheckBinaryPinning, CreateSuspended, UnlockFile,
            WritePath, CreateRemoteThread, WaitRemote, CheckRemoteExit, CreateReadyEvent,
            WaitForReady, CloseReadyEvent, ResumeMainThread, DestroyProcess, EndProcess
    <3>2. CASE DllStep
      BY <3>2 DEF DllStep, LoadDll, ValidateHookSites, InstallHooks, StartServer, AbortInit,
            CreateSignal, CloseSignal, EndProcess
    <3>3. CASE ReplaceFile \/ UNCHANGED vars
      BY <3>3 DEF ReplaceFile, vars
    <3> QED
      BY <1>1, <3>1, <3>2, <3>3 DEF Next
  <2> QED
    BY <2>1, <2>2, <2>3
<1>2. [Next]_vars => [event = "set" /\ "loader" \in handles' => event' = "set"]_vars
  BY <1>1
<1> QED
  BY <1>2, PTL DEF Spec, SignalIsKept
=============================================================================
