---------------------------- MODULE ParalloidUI ----------------------------
(***************************************************************************)
(* The boot menu process, native/jni/paralloid_ui.  It is a single thread  *)
(* that draws menus, counts down to the default option, turns key releases *)
(* into menu operations and, in the end, writes the chosen boot target to  *)
(* a marker file.  A SIGHUP handler runs between any two of its            *)
(* statements, so every statement that reads or writes state the handler   *)
(* also touches is a step of its own, and `pc' says which one is next.     *)
(*                                                                         *)
(* The module has the state of the process and one action per statement or *)
(* handler; BootHandover composes it with the boot script.                 *)
(***************************************************************************)
EXTENDS Integers, Sequences, FiniteSets

CONSTANTS
  Images,             \* the directories with a system.img, on both storages
  StorageOf,          \* the storage each image is on
  ImagesOn,           \* per storage, its images in directory order
  MAIN_MENU_TIMEOUT,  \* seconds before the default option is selected
  MaxClock            \* bound: seconds the clock counts from the menu's start

Storages == {"userdata", "sdcard"}
Targets  == Images \cup {"internal"}

ASSUME ImagesAssumption ==
  /\ Images \cap {"internal", "none", "absent", "empty"} = {}
  /\ StorageOf \in [Images -> Storages]
  /\ ImagesOn \in [Storages -> Seq(Images)]
  /\ \A s \in Storages : \A k \in DOMAIN ImagesOn[s] : StorageOf[ImagesOn[s][k]] = s

ASSUME TimeAssumption ==
  /\ MAIN_MENU_TIMEOUT \in Nat \ {0}
  /\ MaxClock \in Nat
  /\ MAIN_MENU_TIMEOUT <= MaxClock

-----------------------------------------------------------------------------
(* The action IDs of menu.h; the same number means something else in       *)
(* another menu.                                                           *)
ACTION_BACK           == 1000
ACTION_BOOT_INTERNAL  == 1001
ACTION_BOOT_SDCARD    == 1002
ACTION_BOOT_USERDATA  == 1003
ACTION_REBOOT         == 1100
ACTION_REBOOT_REC     == 1101
ACTION_REBOOT_BL      == 1102
ACTION_YES            == 1001
ACTION_NO             == 1002
ACTION_ADB_DEBUGGABLE == 1001
ACTION_DELETE_DATA    == 1002
ACTION_FORMAT_DATA    == 1003
ACTION_IMAGE_BASE     == 1000000

(* Menu instances: `of' is the storage or the target the menu was          *)
(* constructed with, `last' the kind of its last_menu.                     *)
NullMenu              == [kind |-> "null", of |-> "none", last |-> "none"]
MainMenu              == [kind |-> "main", of |-> "none", last |-> "none"]
ImageSelectionMenu(s) == [kind |-> "images", of |-> s, last |-> "main"]
ExtraOptionsMenu(t, last)           == [kind |-> "extra", of |-> t, last |-> last]
BootConfirmationMenu(t, last)       == [kind |-> "boot", of |-> t, last |-> last]
DeleteDataConfirmationMenu(t, last) == [kind |-> "delete", of |-> t, last |-> last]
FormatDataConfirmationMenu(t, last) == [kind |-> "format", of |-> t, last |-> last]

ConfirmationKinds == {"boot", "delete", "format"}

Menus ==
  {NullMenu, MainMenu}
    \cup [kind : {"images"}, of : Storages, last : {"main"}]
    \cup [kind : {"boot"}, of : Images, last : {"images", "extra"}]
    \cup [kind : {"extra", "delete", "format"}, of : Images, last : {"images"}]
    \cup [kind : {"extra", "delete", "format"}, of : {"internal"}, last : {"main"}]

(* The menu that "..." and "No" go back to. *)
LastMenu(m) ==
  CASE m.last = "main"   -> MainMenu
    [] m.last = "images" -> ImageSelectionMenu(StorageOf[m.of])
    [] m.last = "extra"  -> ExtraOptionsMenu(m.of, "images")

-----------------------------------------------------------------------------
VARIABLES
  \* the process
  pc,          \* its next statement
  ret,         \* where the refreshMenu() in progress returns to
  \* main_menu and the globals of namespace UI
  mainItems,   \* main_menu->items, when mainCached
  mainCached,  \* main_menu->items is not nullptr
  popNext,     \* the next push_back of a populateItems() in progress
  remaining,   \* remaining_secs
  menu,        \* the current menu
  local,       \* the list getItems() returned, not yet assigned
  menuItems,   \* menu_items, as action IDs
  selected,    \* selected_item, counted from 0
  \* what the process leaves outside itself
  screen,      \* "off", "menu" (menu and menuItems) or "message"
  target,      \* the argument of boot_target()
  marker,      \* /dev/.paralloid_boot_target.tmp and /dev/.paralloid_boot_target
  debugMarker, \* /dev/.paralloid_force_debuggable exists
  userdata,    \* per image, its userdata.img: none, data, fresh, or not formatted (raw)
  \* what it observes
  paths,       \* which of the main menu's paths exist
  clock,       \* seconds since MainMenu was constructed
  hup,         \* the SIGHUP of the sdcard job: none, pending, handled or lost
  \* history, read only by properties
  wantDebug,   \* the boot under way was asked for as a debuggable one
  consent,     \* the last "Yes": the operation and the image
  touched,     \* some key was released
  moved,       \* the selection was changed on the main menu
  promised     \* when the countdown last drawn by the process said it would select

procVars == <<pc, ret>>
mainVars == <<mainItems, mainCached, popNext>>
menuVars == <<menu, local, menuItems, selected>>
fileVars == <<marker, debugMarker, userdata>>
history  == <<wantDebug, consent, touched, moved, promised>>
uiVars   == <<procVars, mainVars, remaining, menuVars, screen, target, fileVars,
              paths, clock, hup, history>>

(* The statements at which the process executes code of its own, those     *)
(* where it is blocked in a system call, and those where it is gone.       *)
Running == {"init", "refresh", "populate", "return", "assign", "render", "check",
            "loop", "dispatch", "exit", "clear", "create", "write", "rename"}
Blocked == {"wait", "sleep"}
Ended   == {"exited", "dead", "aborted", "rebooted"}
Locations == {"forked", "exec", "installed"} \cup Running \cup Blocked \cup Ended

UiInit ==
  /\ pc = "forked" /\ ret = "loop"
  /\ mainItems = <<>> /\ mainCached = FALSE /\ popNext = 1
  /\ remaining = MAIN_MENU_TIMEOUT
  /\ menu = NullMenu /\ local = <<>> /\ menuItems = <<>> /\ selected = 0
  /\ screen = "off" /\ target = "none"
  /\ marker = [tmp |-> "absent", file |-> "absent"] /\ debugMarker = FALSE
  /\ userdata \in [Images -> {"none", "data"}]
  /\ paths \in SUBSET {"internal", "userdata"}
  /\ clock = 0 /\ hup = "none"
  /\ wantDebug = FALSE /\ consent = <<"none", "none">>
  /\ touched = FALSE /\ moved = FALSE /\ promised = 0

-----------------------------------------------------------------------------
(* What the menus offer.                                                   *)

(* The k-th push_back of MainMenu::populateItems(). *)
MainEntry(k) ==
  CASE k = 1 -> IF "internal" \in paths THEN <<ACTION_BOOT_INTERNAL>> ELSE <<>>
    [] k = 2 -> IF "userdata" \in paths THEN <<ACTION_BOOT_USERDATA>> ELSE <<>>
    [] k = 3 -> IF "sdcard" \in paths THEN <<ACTION_BOOT_SDCARD>> ELSE <<>>
    [] k = 4 -> <<ACTION_REBOOT>>
    [] k = 5 -> <<ACTION_REBOOT_REC>>
    [] OTHER -> <<ACTION_REBOOT_BL>>
MainEntries == 6

MainList == MainEntry(1) \o MainEntry(2) \o MainEntry(3)
              \o MainEntry(4) \o MainEntry(5) \o MainEntry(6)

ImageList(s) == <<ACTION_BACK>>
                  \o [k \in 1..Len(ImagesOn[s]) |-> ACTION_IMAGE_BASE + k - 1]

ExtraList(t) ==
  <<ACTION_BACK, ACTION_ADB_DEBUGGABLE>>
    \o IF t \in Images /\ userdata[t] # "none"
         THEN <<ACTION_DELETE_DATA, ACTION_FORMAT_DATA>> ELSE <<>>

(* The item list of every menu whose cache is never reset. *)
FixedList(m) ==
  CASE m.kind = "images" -> ImageList(m.of)
    [] m.kind = "extra"  -> ExtraList(m.of)
    [] OTHER             -> <<ACTION_YES, ACTION_NO>>

Min2(a, b) == IF a < b THEN a ELSE b
Max2(a, b) == IF a < b THEN b ELSE a

-----------------------------------------------------------------------------
(* refreshMenu(), statement by statement.  It is entered by setting pc to  *)
(* "refresh" and returns to `ret'.                                         *)

RefreshThen(r) == pc' = "refresh" /\ ret' = r

SwitchMenuWithoutRefresh(m, r) ==  \* a mutant: the item list stays the old menu's
  menu' = m /\ selected' = 0 /\ pc' = r /\ ret' = ret

(* switchMenu(m); the refresh it ends with returns to r. *)
SwitchMenu(m, r) ==
  /\ menu' = m /\ selected' = 0
  /\ RefreshThen(r)

CountdownKept(m, r) == r  \* a mutant: a new selection leaves the countdown running

(* onActiveItemChanged() of menu m: only the main menu has one, and its    *)
(* nested refreshMenu() finds the same list.                               *)
ActiveItemChanged(m, r) == IF m = MainMenu THEN -1 ELSE r

(* From the extra text on: clamp the selection to `items' and render. *)
Draw(items) ==
  LET sel  == Min2(selected, Len(items) - 1)
      left == IF sel # selected THEN ActiveItemChanged(menu, remaining) ELSE remaining
  IN  /\ selected' = sel /\ remaining' = left
      /\ screen' = "menu"

(* getTitle() and the start of getItems(): a cached list is returned, the  *)
(* main menu's is built anew when resetCache() dropped it.                 *)
RefreshBegin ==
  /\ pc = "refresh"
  /\ \/ /\ menu = MainMenu /\ ~mainCached
        /\ mainItems' = <<>> /\ mainCached' = TRUE /\ popNext' = 1
        /\ pc' = "populate" /\ UNCHANGED local
     \/ /\ menu = MainMenu /\ mainCached
        /\ pc' = "return" /\ UNCHANGED <<mainVars, local>>
     \/ /\ menu \notin {MainMenu, NullMenu}
        /\ local' = FixedList(menu)
        /\ pc' = "assign" /\ UNCHANGED mainVars
  /\ UNCHANGED <<ret, remaining, menu, menuItems, selected, screen, target, fileVars,
                 paths, clock, hup, history>>

(* One push_back to the member `items': whichever list it points to now. *)
PopulateStep ==
  /\ pc = "populate"
  /\ mainItems' = mainItems \o MainEntry(popNext)
  /\ IF popNext = MainEntries THEN pc' = "return" /\ popNext' = 1
                              ELSE pc' = pc /\ popNext' = popNext + 1
  /\ UNCHANGED <<ret, mainCached, remaining, menuVars, screen, target, fileVars,
                 paths, clock, hup, history>>

(* `return items' of the main menu. *)
ReturnItems ==
  /\ pc = "return"
  /\ local' = mainItems /\ pc' = "assign"
  /\ UNCHANGED <<ret, mainVars, remaining, menu, menuItems, selected, screen, target,
                 fileVars, paths, clock, hup, history>>

(* menu_items = menu->getItems() *)
AssignItems ==
  /\ pc = "assign"
  /\ menuItems' = local /\ local' = <<>>
  /\ pc' = "render"
  /\ UNCHANGED <<ret, mainVars, remaining, menu, selected, screen, target,
                 fileVars, paths, clock, hup, history>>

RefreshEnd ==
  /\ pc = "render"
  /\ Draw(menuItems)
  /\ promised' = IF menu = MainMenu /\ remaining' > 0 THEN clock + remaining' ELSE promised
  /\ pc' = ret
  /\ UNCHANGED <<ret, mainVars, menu, local, menuItems, target, fileVars, paths, clock,
                 hup, wantDebug, consent, touched, moved>>

-----------------------------------------------------------------------------
(* Menu operations.  The action parameter r is where the process goes on   *)
(* after the operation; `a' is the action ID of the selected item.         *)

BootTarget(t, dbg) ==
  /\ target' = t /\ wantDebug' = dbg
  /\ pc' = "exit" /\ UNCHANGED <<ret, menu, selected>>

NeverAsks(t) == FALSE  \* a mutant: boots without asking

NeedsUserdataImage(t) == t \in Images /\ userdata[t] = "none"

BootTargetWithConfirmation(t, dbg, r) ==
  \/ /\ NeedsUserdataImage(t)
     /\ SwitchMenu(BootConfirmationMenu(t, menu.kind), r)
     /\ UNCHANGED <<target, wantDebug>>
  \/ ~NeedsUserdataImage(t) /\ BootTarget(t, dbg)

SwitchTo(m, r) == SwitchMenu(m, r) /\ UNCHANGED <<target, wantDebug>>

(* MainMenu::onItemSelected() *)
SelectOnMain(a, r) ==
  /\ menu = MainMenu
  /\ remaining' = -1
  /\ \/ a = ACTION_BOOT_INTERNAL /\ BootTarget("internal", FALSE)
     \/ a = ACTION_BOOT_SDCARD /\ SwitchTo(ImageSelectionMenu("sdcard"), r)
     \/ a = ACTION_BOOT_USERDATA /\ SwitchTo(ImageSelectionMenu("userdata"), r)
     \/ /\ a \in {ACTION_REBOOT, ACTION_REBOOT_REC, ACTION_REBOOT_BL}
        /\ pc' = "rebooted" /\ UNCHANGED <<ret, menu, selected, target, wantDebug>>
  /\ UNCHANGED <<debugMarker, userdata, consent>>

(* images.at(a - ACTION_IMAGE_BASE) *)
IsImage(k, a) == k \in DOMAIN ImagesOn[menu.of] /\ a = ACTION_IMAGE_BASE + k - 1

(* ImageSelectionMenu::onItemSelected() *)
SelectImage(a, r) ==
  /\ menu.kind = "images"
  /\ \/ a = ACTION_BACK /\ SwitchTo(MainMenu, r)
     \/ \E k \in DOMAIN ImagesOn[menu.of] :
          IsImage(k, a) /\ BootTargetWithConfirmation(ImagesOn[menu.of][k], FALSE, r)
  /\ UNCHANGED <<remaining, debugMarker, userdata, consent>>

MarkedWhenBootingAtOnce(t) ==  \* a mutant: no marker when a confirmation comes first
  debugMarker \/ ~NeedsUserdataImage(t)

MarkedDebuggable(t) == TRUE

(* ExtraOptionsMenu::onItemSelected(): the debuggable marker is created    *)
(* before boot_target_with_confirmation() asks.                            *)
SelectExtra(a, r) ==
  /\ menu.kind = "extra"
  /\ \/ a = ACTION_BACK /\ SwitchTo(LastMenu(menu), r) /\ UNCHANGED debugMarker
     \/ /\ a = ACTION_ADB_DEBUGGABLE
        /\ debugMarker' = MarkedDebuggable(menu.of)
        /\ BootTargetWithConfirmation(menu.of, TRUE, r)
     \/ /\ a = ACTION_DELETE_DATA
        /\ SwitchTo(DeleteDataConfirmationMenu(menu.of, menu.last), r) /\ UNCHANGED debugMarker
     \/ /\ a = ACTION_FORMAT_DATA
        /\ SwitchTo(FormatDataConfirmationMenu(menu.of, menu.last), r) /\ UNCHANGED debugMarker
  /\ UNCHANGED <<remaining, userdata, consent>>

(* What format-userdata-image leaves of an existing image: nobody looks at *)
(* its exit status.                                                        *)
Formatted == {"fresh", "raw"}

(* fs::remove() cannot delete the image: nothing catches what it throws.   *)
RemoveFails == pc' = "aborted" /\ UNCHANGED <<ret, menu, selected, target, wantDebug>>

(* ConfirmationMenu::onItemSelected() and the three onConfirmed() *)
SelectConfirmation(a, r) ==
  /\ menu.kind \in ConfirmationKinds
  /\ \/ a = ACTION_NO /\ SwitchTo(LastMenu(menu), r) /\ UNCHANGED <<userdata, consent>>
     \/ /\ a = ACTION_YES
        /\ consent' = <<menu.kind, menu.of>>
        /\ \/ menu.kind = "boot" /\ BootTarget(menu.of, menu.last = "extra")
                                  /\ UNCHANGED userdata
           \/ /\ menu.kind = "delete"
              /\ userdata' = [userdata EXCEPT ![menu.of] = "none"]
              /\ SwitchTo(LastMenu(menu), r)
           \/ menu.kind = "delete" /\ RemoveFails /\ UNCHANGED userdata
           \/ /\ menu.kind = "format"
              /\ \E f \in Formatted : userdata' = [userdata EXCEPT ![menu.of] = f]
              /\ SwitchTo(LastMenu(menu), r)
  /\ UNCHANGED <<remaining, debugMarker>>

(* UI::selectCurrentItem() *)
SelectCurrentItem(r) ==
  LET a == menuItems[selected + 1]
  IN  /\ \/ SelectOnMain(a, r)
         \/ SelectImage(a, r)
         \/ SelectExtra(a, r)
         \/ SelectConfirmation(a, r)
      /\ UNCHANGED <<mainVars, local, menuItems, screen, marker, paths, clock, hup,
                     moved, promised>>

(* onItemExtraOptionsSelected(): only two kinds of menu and, on the main   *)
(* one, only the internal target have extra options.                       *)
SelectExtraOptions(a, r) ==
  \/ /\ menu = MainMenu /\ a = ACTION_BOOT_INTERNAL
     /\ SwitchMenu(ExtraOptionsMenu("internal", "main"), r)
  \/ /\ menu.kind = "images"
     /\ \E k \in DOMAIN ImagesOn[menu.of] :
          IsImage(k, a) /\ SwitchMenu(ExtraOptionsMenu(ImagesOn[menu.of][k], "images"), r)
  \/ /\ \/ menu = MainMenu /\ a # ACTION_BOOT_INTERNAL
        \/ menu.kind = "images" /\ a < ACTION_IMAGE_BASE
        \/ menu.kind \in {"extra"} \cup ConfirmationKinds
     /\ pc' = r /\ UNCHANGED <<ret, menu, selected>>

-----------------------------------------------------------------------------
(* The event loop.                                                         *)

CountsElapsed(c) == c  \* a mutant: the seconds passed, not those left
CountdownNeverZero(c) == Max2(1, MAIN_MENU_TIMEOUT - c)  \* a mutant: off by one

CountdownLeft(c) == Max2(0, MAIN_MENU_TIMEOUT - c)

(* runForever(): menu->onEventLoopIteration(), up to its refreshMenu() *)
LoopIteration ==
  /\ pc = "loop"
  /\ IF menu = MainMenu /\ remaining # -1
       THEN /\ remaining' = CountdownLeft(clock)
            /\ RefreshThen("check")
       ELSE pc' = "wait" /\ UNCHANGED <<ret, remaining>>
  /\ UNCHANGED <<mainVars, menuVars, screen, target, fileVars, paths, clock, hup,
                 history>>

(* The rest of MainMenu::onEventLoopIteration() *)
CountdownCheck ==
  /\ pc = "check"
  /\ \/ remaining = 0 /\ SelectCurrentItem("wait") /\ UNCHANGED touched
     \/ /\ remaining # 0 /\ pc' = "wait"
        /\ UNCHANGED <<ret, mainVars, remaining, menuVars, screen, target, fileVars,
                       paths, clock, hup, history>>

(* ev_wait() times out, or ev_dispatch() has no more events of this batch. *)
EventsDone ==
  /\ pc \in {"wait", "dispatch"}
  /\ pc' = "loop"
  /\ UNCHANGED <<ret, mainVars, remaining, menuVars, screen, target, fileVars, paths,
                 clock, hup, history>>

(* Releasing volume up, or volume down after less than a second: s is the  *)
(* new selected_item.                                                      *)
MoveSelection(s) ==
  /\ selected' = s /\ screen' = "menu"
  /\ remaining' = ActiveItemChanged(menu, remaining)
  /\ IF menu = MainMenu
       THEN RefreshThen("dispatch") /\ moved' = TRUE
       ELSE pc' = "dispatch" /\ UNCHANGED <<ret, moved>>
  /\ UNCHANGED <<mainVars, menu, local, menuItems, target, fileVars, paths, clock, hup,
                 wantDebug, consent, promised>>

Above(s) == IF s > 0 THEN s - 1 ELSE Len(menuItems) - 1
Below(s) == IF s < Len(menuItems) - 1 THEN s + 1 ELSE 0

VolumeUpReleased   == MoveSelection(Above(selected))
VolumeDownReleased == MoveSelection(Below(selected))

(* Releasing volume down after more than a second. *)
VolumeDownLongPressed ==
  /\ SelectExtraOptions(menuItems[selected + 1], "dispatch")
  /\ UNCHANGED <<mainVars, remaining, local, menuItems, screen, target, fileVars, paths,
                 clock, hup, wantDebug, consent, moved, promised>>

PowerReleased == SelectCurrentItem("dispatch")

(* onInputEvent(): what the user does with the keys. *)
KeyReleased ==
  /\ pc \in {"wait", "dispatch"}
  /\ touched' = TRUE
  /\ VolumeUpReleased \/ VolumeDownReleased \/ VolumeDownLongPressed \/ PowerReleased

-----------------------------------------------------------------------------
(* main(), up to runForever(). *)

ExecProcess ==
  /\ pc = "forked" /\ pc' = "exec"
  /\ UNCHANGED <<ret, mainVars, remaining, menuVars, screen, target, fileVars, paths,
                 clock, hup, history>>

InstallHandler ==
  /\ pc = "exec" /\ pc' = "installed"
  /\ UNCHANGED <<ret, mainVars, remaining, menuVars, screen, target, fileVars, paths,
                 clock, hup, history>>

CreateMainMenu ==
  /\ pc = "installed" /\ pc' = "init"
  /\ UNCHANGED <<ret, mainVars, remaining, menuVars, screen, target, fileVars, paths,
                 clock, hup, history>>

ShowMainMenu ==
  /\ pc = "init"
  /\ SwitchMenu(MainMenu, "loop")
  /\ UNCHANGED <<mainVars, remaining, local, menuItems, screen, target, fileVars, paths,
                 clock, hup, history>>

-----------------------------------------------------------------------------
(* boot_target(): UI::exit() and createMarkerFile() are several steps. *)

MenuKept == menu  \* a mutant: UI::exit() leaves the menu in place

MenuAfterExit == NullMenu

ExitUi ==
  /\ pc = "exit" /\ pc' = "clear"
  /\ menu' = MenuAfterExit
  /\ UNCHANGED <<ret, mainVars, remaining, local, menuItems, selected, screen, target,
                 fileVars, paths, clock, hup, history>>

ShowBootMessage ==
  /\ pc = "clear" /\ pc' = "create"
  /\ screen' = "message"
  /\ UNCHANGED <<ret, mainVars, remaining, menuVars, target, fileVars, paths, clock, hup,
                 history>>

CreatedInPlace(m) == [tmp |-> "empty", file |-> "empty"]  \* a mutant: no temporary file
NeverRenamed(m)   == m                                    \* a mutant: the rename is missing

MarkerCreated(m)    == [m EXCEPT !.tmp = "empty"]
MarkerWritten(m, t) == [m EXCEPT !.tmp = t]
MarkerRenamed(m)    == [tmp |-> "absent", file |-> m.tmp]

(* createMarkerFile(): opening the stream, writing and closing it, and the *)
(* rename.                                                                 *)
WriteMarker ==
  /\ \/ pc = "create" /\ pc' = "write"  /\ marker' = MarkerCreated(marker)
     \/ pc = "write"  /\ pc' = "rename" /\ marker' = MarkerWritten(marker, target)
     \/ pc = "rename" /\ pc' = "sleep"  /\ marker' = MarkerRenamed(marker)
  /\ UNCHANGED <<ret, mainVars, remaining, menuVars, screen, target, debugMarker,
                 userdata, paths, clock, hup, history>>

SleepDone ==
  /\ pc = "sleep" /\ pc' = "exited"
  /\ UNCHANGED <<ret, mainVars, remaining, menuVars, screen, target, fileVars, paths,
                 clock, hup, history>>

-----------------------------------------------------------------------------
(* SIGHUP.                                                                 *)

CacheKept == UNCHANGED <<mainCached, mainItems>>  \* a mutant: the handler only refreshes

(* resetCache(): items = nullptr *)
ResetCache == mainCached' = FALSE /\ mainItems' = <<>>

(* sighup_handler(), from resetCache() to the end of refreshMenu() *)
SighupHandler ==
  \/ /\ menu = MainMenu
     /\ mainItems' = MainList /\ mainCached' = TRUE
     /\ menuItems' = MainList
     /\ Draw(MainList)
  \/ /\ menu \notin {MainMenu, NullMenu}
     /\ ResetCache
     /\ menuItems' = FixedList(menu)
     /\ Draw(FixedList(menu))
  \/ /\ menu = NullMenu
     /\ ResetCache
     /\ UNCHANGED <<menuItems, selected, remaining, screen>>

(* The blocked system call returns: ev_wait() reports no event, sleep()    *)
(* returns early and the process exits.                                    *)
AfterSighup(l) ==
  CASE l = "wait" -> "loop" [] l = "sleep" -> "exited" [] OTHER -> l

Sighup ==
  /\ hup = "pending" /\ hup' = "handled"
  /\ pc \in Running \cup Blocked
  /\ SighupHandler
  /\ pc' = AfterSighup(pc)
  /\ UNCHANGED <<ret, popNext, menu, local, target, fileVars, paths, clock, history>>

(* The signal ends the process: by the default disposition before the      *)
(* handler is installed, by a null main_menu right after, and possibly by  *)
(* running a handler that allocates, frees and draws in the middle of code *)
(* doing the same, which is undefined behaviour.                           *)
SighupFatal ==
  /\ hup = "pending" /\ hup' = "handled"
  /\ pc \in {"exec", "installed"} \cup Running
  /\ pc' = "dead"
  /\ UNCHANGED <<ret, mainVars, remaining, menuVars, screen, target, fileVars, paths,
                 clock, history>>

(* A second passes.  The only statement that reads the clock follows one   *)
(* of these locations, and the code in between takes no time to speak of.  *)
Tick ==
  /\ pc \in {"loop", "wait", "dispatch"}
  /\ clock < MaxClock
  /\ clock' = clock + 1
  /\ UNCHANGED <<procVars, mainVars, remaining, menuVars, screen, target, fileVars,
                 paths, hup, history>>

(* The steps the process takes on its own. *)
UiStep ==
  \/ ExecProcess \/ InstallHandler \/ CreateMainMenu \/ ShowMainMenu
  \/ RefreshBegin \/ PopulateStep \/ ReturnItems \/ AssignItems \/ RefreshEnd
  \/ LoopIteration \/ CountdownCheck \/ EventsDone
  \/ ExitUi \/ ShowBootMessage \/ WriteMarker \/ SleepDone
=============================================================================
