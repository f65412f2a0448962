---------------------------- MODULE BootHandover ----------------------------
(***************************************************************************)
(* The hand-over of a boot target from the menu process (ParalloidUI) to   *)
(* the boot script (files/init), with the script's background job that     *)
(* mounts the sdcard and signals the menu process.  The three share only   *)
(* files: the two marker files, /dev/booting and the images.               *)
(***************************************************************************)
EXTENDS ParalloidUI

VARIABLES
  initPc,      \* the boot script's next statement
  initTarget,  \* TARGET
  initDebug,   \* INIT_FORCE_DEBUGGABLE is exported
  booting,     \* /dev/booting exists
  sdPc         \* the sdcard job's next statement

initVars == <<initPc, initTarget, initDebug, booting>>
vars == <<uiVars, initVars, sdPc>>

InitLocations == {"poll", "read", "provision", "mount", "debuggable", "move",
                  "booting", "stop", "exec", "booted"}
SdLocations == {"search", "notify", "done"}

Init ==
  /\ UiInit
  /\ initPc = "poll" /\ initTarget = "none" /\ initDebug = FALSE /\ booting = FALSE
  /\ sdPc = "search"

-----------------------------------------------------------------------------
(* The boot script, from the launch of paralloid_ui on. *)

(* while [ ! -f marker ]; do sleep 1; done *)
Poll ==
  /\ initPc = "poll"
  /\ marker.file # "absent"
  /\ initPc' = "read"
  /\ UNCHANGED <<uiVars, initTarget, initDebug, booting, sdPc>>

(* TARGET="$(cat marker)" *)
ReadTarget ==
  /\ initPc = "read"
  /\ initTarget' = marker.file
  /\ initPc' = IF initTarget' = "internal" THEN "mount" ELSE "provision"
  /\ UNCHANGED <<uiVars, initDebug, booting, sdPc>>

(* [ ! -f userdata.img ]: allocate an image and format it.  The script goes *)
(* on whether or not that worked.                                          *)
Reformatted(t) == t \in Images  \* a mutant: an image that exists is formatted too

MissingUserdata(t) == t \in Images /\ userdata[t] = "none"

Provision ==
  /\ initPc = "provision" /\ initPc' = "mount"
  /\ \/ /\ MissingUserdata(initTarget)
        /\ \E f \in Formatted \cup {"none"} :
             userdata' = [userdata EXCEPT ![initTarget] = f]
     \/ ~MissingUserdata(initTarget) /\ UNCHANGED userdata
  /\ UNCHANGED <<procVars, mainVars, remaining, menuVars, screen, target, marker,
                 debugMarker, paths, clock, hup, history,
                 initTarget, initDebug, booting, sdPc>>

CheckDebuggable ==
  /\ initPc = "debuggable" /\ initPc' = "move"
  /\ initDebug' = debugMarker
  /\ UNCHANGED <<uiVars, initTarget, booting, sdPc>>

TouchBooting ==
  /\ initPc = "booting" /\ initPc' = "stop"
  /\ booting' = TRUE
  /\ UNCHANGED <<uiVars, initTarget, initDebug, sdPc>>

(* The stages that mount the target, move the first-stage mounts, stop the *)
(* other processes and exec the target's init.                             *)
NextStage ==
  [mount |-> "debuggable", move |-> "booting", stop |-> "exec", exec |-> "booted"]

Advance ==
  /\ initPc \in DOMAIN NextStage
  /\ initPc' = NextStage[initPc]
  /\ UNCHANGED <<uiVars, initTarget, initDebug, booting, sdPc>>

InitScript ==
  /\ pc # "rebooted"
  /\ Poll \/ ReadTarget \/ Provision \/ CheckDebuggable \/ TouchBooting \/ Advance

-----------------------------------------------------------------------------
(* The sdcard job. *)

(* A card is found and mounted; it may or may not hold the directory       *)
(* Paralloid that the main menu looks for.                                 *)
SdMount ==
  /\ sdPc = "search" /\ sdPc' = "notify"
  /\ paths' \in {paths, paths \cup {"sdcard"}}
  /\ UNCHANGED <<procVars, mainVars, remaining, menuVars, screen, target, fileVars, clock,
                 hup, history, initVars>>

(* pkill -HUP paralloid_ui: no process has that name before the exec. *)
SdNotify ==
  /\ sdPc = "notify" /\ sdPc' = "done"
  /\ hup' = IF pc \in {"forked"} \cup Ended THEN "lost" ELSE "pending"
  /\ UNCHANGED <<procVars, mainVars, remaining, menuVars, screen, target, fileVars, paths,
                 clock, history, initVars>>

(* No card after 15 tries, or the mount fails, or the boot goes ahead. *)
SdGiveUp ==
  /\ sdPc = "search" /\ sdPc' = "done"
  /\ UNCHANGED <<uiVars, initVars>>

SdJob == pc # "rebooted" /\ (SdMount \/ SdNotify \/ SdGiveUp)

-----------------------------------------------------------------------------
(* The system runs until the target's init has replaced the boot script,   *)
(* the device reboots, or the menu process is lost and the script polls    *)
(* for ever.                                                               *)
Stopped == initPc = "booted" \/ pc = "rebooted" \/ (pc \in {"dead", "aborted"} /\ initPc = "poll")

Terminated == Stopped /\ UNCHANGED vars

UiProcess == UiStep \/ KeyReleased \/ Sighup \/ SighupFatal \/ Tick

Next ==
  \/ UiProcess /\ UNCHANGED <<initVars, sdPc>>
  \/ InitScript
  \/ SdJob
  \/ Terminated

(* The menu process, the script and the kernel's signal delivery all go    *)
(* on; nothing obliges the user to press a key or a card to appear.  Time  *)
(* passes although it is only counted at the statements next to ev_wait(). *)
Fairness ==
  /\ WF_vars(UiStep /\ UNCHANGED <<initVars, sdPc>>)
  /\ SF_vars(Tick /\ UNCHANGED <<initVars, sdPc>>)
  /\ WF_vars((Sighup \/ SighupFatal) /\ UNCHANGED <<initVars, sdPc>>)
  /\ WF_vars(InitScript)

Spec == Init /\ [][Next]_vars /\ Fairness

-----------------------------------------------------------------------------
MenuTypeOK ==
  /\ pc \in Locations /\ ret \in {"loop", "check", "wait", "dispatch"}
  /\ mainItems \in Seq(Nat) /\ mainCached \in BOOLEAN /\ popNext \in 1..MainEntries
  /\ remaining \in -1..MAIN_MENU_TIMEOUT
  /\ menu \in Menus /\ local \in Seq(Nat) /\ menuItems \in Seq(Nat) /\ selected \in Int

FileTypeOK ==
  /\ screen \in {"off", "menu", "message"} /\ target \in Targets \cup {"none"}
  /\ marker \in [tmp : Targets \cup {"none", "absent", "empty"},
                 file : Targets \cup {"none", "absent", "empty"}]
  /\ debugMarker \in BOOLEAN /\ userdata \in [Images -> {"none", "data", "fresh", "raw"}]
  /\ paths \in SUBSET {"internal", "userdata", "sdcard"}
  /\ clock \in 0..MaxClock /\ hup \in {"none", "pending", "handled", "lost"}

HistoryTypeOK ==
  /\ wantDebug \in BOOLEAN
  /\ consent \in (ConfirmationKinds \cup {"none"}) \X (Targets \cup {"none"})
  /\ touched \in BOOLEAN /\ moved \in BOOLEAN /\ promised \in Nat

ScriptTypeOK ==
  /\ initPc \in InitLocations /\ initTarget \in Targets \cup {"none", "absent", "empty"}
  /\ initDebug \in BOOLEAN /\ booting \in BOOLEAN /\ sdPc \in SdLocations

(* Type correctness: every variable of the menu process, of the files and  *)
(* signals between the processes, of the boot script and of the sdcard job *)
(* keeps to the values the code gives it.                                  *)
TypeOK == MenuTypeOK /\ FileTypeOK /\ HistoryTypeOK /\ ScriptTypeOK

Elements(s) == {s[k] : k \in DOMAIN s}

(* The script boots the target the user chose: what it reads from the      *)
(* marker file is the whole argument of boot_target(), never a file that   *)
(* is still being written (createMarkerFile() and the poll of files/init). *)
BootTargetIntact ==
  initPc \notin {"poll", "read"} => initTarget = target /\ target \in Targets

(* A boot asked for as debuggable is a debuggable one: the second marker   *)
(* is in place before the script can look for it.                          *)
DebugRequestHonoured ==
  initPc \in {"move", "booting", "stop", "exec", "booted"} /\ wantDebug => initDebug

(* What the hand-over rests on, from the choice on the menu to the exec of *)
(* the target's init: the inductive invariant behind BootTargetIntact,     *)
(* DebugRequestHonoured, HandedOverStays and ImplementsBootChoice.         *)
Chosen == marker.file # "absent"

MarkerInv ==
  /\ pc \in {"exit", "clear", "create", "write", "rename", "sleep"} => target \in Targets
  /\ pc = "rename" => marker.tmp = target
  /\ Chosen => marker.file = target /\ target \in Targets /\ pc \in {"sleep"} \cup Ended
  /\ initPc # "poll" => Chosen
  /\ initPc \notin {"poll", "read"} => initTarget = target
  /\ initPc = "provision" => initTarget \in Images

ScreenInv ==
  /\ pc \in {"clear", "create", "write", "rename", "sleep"} => menu = NullMenu
  /\ screen = "message" =>
       menu = NullMenu /\ pc \in {"create", "write", "rename", "sleep"} \cup Ended

DebugInv ==
  /\ wantDebug => debugMarker
  /\ menu.kind = "boot" /\ menu.last = "extra" => debugMarker
  /\ initPc \in {"move", "booting", "stop", "exec", "booted"} /\ wantDebug => initDebug

HandoverInv == MarkerInv /\ ScreenInv /\ DebugInv

(* The operation that turns a userdata image from `old' into `new'. *)
UserdataOperation(old, new) ==
  IF new = "none" THEN "delete" ELSE IF old = "none" THEN "boot" ELSE "format"

(* No userdata image is made, formatted or deleted, by the menu process or *)
(* by the boot script, unless the last "Yes" was for that operation on     *)
(* that image.                                                             *)
UserdataConsent ==
  [][\A i \in Images : userdata'[i] # userdata[i] =>
       consent' = <<UserdataOperation(userdata[i], userdata'[i]), i>>]_vars

(* The boot message stays: once UI::exit() has drawn it no menu comes      *)
(* back, although SIGHUP may still be handled.                             *)
HandedOverStays == [][screen = "message" => screen' = "message"]_vars

(* After the signal of the sdcard job has been handled, or was sent before *)
(* there was a process to handle it, the main menu's cache offers the card *)
(* (or will be filled afresh).                                             *)
MainCacheFresh ==
  /\ "sdcard" \in paths /\ hup \in {"handled", "lost"}
  /\ mainCached /\ pc \notin {"populate"} \cup Ended
  => ACTION_BOOT_SDCARD \in Elements(mainItems)

(* When an item can be selected, the list and the position are those of    *)
(* the current menu: action IDs mean something else on another menu.       *)
SelectionMatchesMenu ==
  pc \in {"wait", "dispatch", "check", "loop"} =>
    /\ selected + 1 \in DOMAIN menuItems
    /\ IF menu = MainMenu THEN Elements(menuItems) \subseteq Elements(MainList)
                          ELSE menuItems = FixedList(menu)

(* The countdown only ever selects the first option of the main menu, and  *)
(* never after the user has changed the selection there.                   *)
CountdownSelectsDefault ==
  pc = "check" /\ remaining = 0 => menu = MainMenu /\ selected = 0 /\ ~moved

(* A chosen target is booted, unless the menu process is lost on the way.  *)
ChosenIsBooted ==
  \A t \in Targets : target = t ~> (initPc = "booted" /\ initTarget = t) \/ pc = "dead"

(* Left alone, a device with the internal system boots it.                 *)
UntouchedBootsInternal ==
  [](~touched /\ "internal" \in paths) =>
    <>((initPc = "booted" /\ initTarget = "internal") \/ pc = "dead")

(* The hand-over through the marker file implements the abstract choice.   *)
Choice == INSTANCE BootChoice WITH
  chosen   <- IF marker.file = "absent" THEN "none" ELSE marker.file,
  prepared <- initPc \notin {"poll", "read", "provision"},
  ready    <- {i \in Images : userdata[i] # "none"},
  booted   <- IF initPc = "booted" THEN initTarget ELSE "none"

(* Every step of the two processes is a step of BootChoice or a stutter,   *)
(* and once handed over the choice is carried out.                         *)
ImplementsBootChoice == Choice!Spec

-----------------------------------------------------------------------------
(* What the documentation says and the code does not do.                   *)

(* main.cpp:8, "Update the menu on SIGHUP.  This is used to signal sdcard  *)
(* being mounted": once it has been handled and the countdown no longer    *)
(* refreshes the main menu, the main menu on screen offers the card.       *)
MenuUpdatedOnHup ==
  pc = "wait" /\ menu = MainMenu /\ remaining = -1 /\ hup = "handled" /\ "sdcard" \in paths
    => ACTION_BOOT_SDCARD \in Elements(menuItems)

(* files/init:241, "Notify the UI process to update the menu": the         *)
(* notification never ends the menu process.                               *)
NotificationKeepsUi == pc # "dead"

(* menu.cpp:58, "Selecting default option in N seconds...": the countdown  *)
(* never selects before the time it has announced.                         *)
SelectsAsAnnounced == pc = "check" /\ remaining = 0 => promised <= clock

(* menu.cpp:192, "Boot with forced debuggable mode": only a boot for which *)
(* that item was chosen is a debuggable one.                               *)
DebuggableOnlyWhenAsked == initPc = "booted" /\ initDebug => wantDebug
=============================================================================
