------------------------- MODULE BootHandoverProofs -------------------------
(***************************************************************************)
(* Proofs about BootHandover, for all images, storages and timeouts: type  *)
(* correctness, the inductive invariant HandoverInv, and what follows from *)
(* it: BootTargetIntact, DebugRequestHonoured, HandedOverStays and the     *)
(* refinement of BootChoice.                                               *)
(***************************************************************************)
EXTENDS BootHandover, SequenceTheorems, TLAPS

-----------------------------------------------------------------------------
(* Lists and menus.                                                        *)

LEMMA MainEntryType == \A k \in Nat : MainEntry(k) \in Seq(Nat)
  BY DEF MainEntry, ACTION_BOOT_INTERNAL, ACTION_BOOT_USERDATA, ACTION_BOOT_SDCARD,
         ACTION_REBOOT, ACTION_REBOOT_REC, ACTION_REBOOT_BL

LEMMA MainListType == MainList \in Seq(Nat)
<1>1. \A k \in 1..6 : MainEntry(k) \in Seq(Nat)
  BY MainEntryType
<1>2. QED
  BY <1>1, ConcatProperties DEF MainList

LEMMA FixedListType ==
  ASSUME NEW m \in Menus, m.kind = "images" => m.of \in Storages
  PROVE  FixedList(m) \in Seq(Nat)
<1>1. ASSUME NEW s \in Storages PROVE ImageList(s) \in Seq(Nat)
  <2>1. Len(ImagesOn[s]) \in Nat
    BY ImagesAssumption, <1>1
  <2>2. [k \in 1..Len(ImagesOn[s]) |-> ACTION_IMAGE_BASE + k - 1] \in Seq(Nat)
    BY <2>1 DEF ACTION_IMAGE_BASE
  <2>3. <<ACTION_BACK>> \in Seq(Nat)
    BY DEF ACTION_BACK
  <2>4. QED
    BY <2>2, <2>3, ConcatProperties DEF ImageList
<1>2. ExtraList(m.of) \in Seq(Nat)
  BY DEF ExtraList, ACTION_BACK, ACTION_ADB_DEBUGGABLE, ACTION_DELETE_DATA,
         ACTION_FORMAT_DATA
<1>3. QED
  BY <1>1, <1>2 DEF FixedList, ACTION_YES, ACTION_NO

(* What the fields of a menu say about each other. *)
LEMMA MenuFields ==
  ASSUME NEW m \in Menus
  PROVE  /\ m.kind = "images" => m.of \in Storages
         /\ m.kind \in {"extra"} \cup ConfirmationKinds => m.of \in Targets
         /\ m.kind = "boot" => m.of \in Images
         /\ m.kind \in {"extra"} \cup ConfirmationKinds => LastMenu(m) \in Menus
         /\ m.kind \in {"null", "main", "images", "extra"} \cup ConfirmationKinds
         /\ m.kind = "null" => m = NullMenu
         /\ m.kind = "main" => m = MainMenu
  BY ImagesAssumption
     DEF Menus, NullMenu, MainMenu, ExtraOptionsMenu, ImageSelectionMenu, LastMenu,
         ConfirmationKinds, Targets, Storages

LEMMA MenuConstructors ==
  /\ NullMenu \in Menus /\ MainMenu \in Menus
  /\ \A s \in Storages : ImageSelectionMenu(s) \in Menus
  /\ ExtraOptionsMenu("internal", "main") \in Menus
  /\ \A i \in Images : /\ ExtraOptionsMenu(i, "images") \in Menus
                       /\ BootConfirmationMenu(i, "images") \in Menus
                       /\ BootConfirmationMenu(i, "extra") \in Menus
  /\ \A m \in Menus : m.kind = "extra" =>
       /\ DeleteDataConfirmationMenu(m.of, m.last) \in Menus
       /\ FormatDataConfirmationMenu(m.of, m.last) \in Menus
  BY DEF Menus, NullMenu, MainMenu, ExtraOptionsMenu, ImageSelectionMenu,
         BootConfirmationMenu, DeleteDataConfirmationMenu, FormatDataConfirmationMenu

-----------------------------------------------------------------------------
(* Type correctness, one lemma per group of actions.                       *)

LEMMA InitType == Init => TypeOK
<1> SUFFICES ASSUME Init PROVE TypeOK
  OBVIOUS
<1>1. MenuTypeOK
  <2>1. NullMenu \in Menus /\ MAIN_MENU_TIMEOUT \in -1..MAIN_MENU_TIMEOUT
    BY MenuConstructors, TimeAssumption
  <2>2. pc \in Locations /\ ret \in {"loop", "check", "wait", "dispatch"}
    BY DEF Init, UiInit, Locations
  <2>3. mainCached \in BOOLEAN
    BY DEF Init, UiInit
  <2>4. /\ mainItems \in Seq(Nat) /\ local \in Seq(Nat) /\ menuItems \in Seq(Nat)
        /\ popNext \in 1..MainEntries /\ selected \in Int
    BY DEF Init, UiInit, MainEntries
  <2>5. remaining \in -1..MAIN_MENU_TIMEOUT /\ menu \in Menus
    BY <2>1 DEF Init, UiInit
  <2>6. QED
    BY <2>2, <2>3, <2>4, <2>5 DEF MenuTypeOK
<1>2. FileTypeOK
  <2>1. /\ userdata \in [Images -> {"none", "data"}]
        /\ paths \in SUBSET {"internal", "userdata"}
        /\ marker = [tmp |-> "absent", file |-> "absent"]
    BY DEF Init, UiInit
  <2>2. /\ userdata \in [Images -> {"none", "data", "fresh", "raw"}]
        /\ paths \in SUBSET {"internal", "userdata", "sdcard"}
        /\ marker \in [tmp : Targets \cup {"none", "absent", "empty"},
                      file : Targets \cup {"none", "absent", "empty"}]
    BY <2>1
  <2>3. /\ screen \in {"off", "menu", "message"} /\ target \in Targets \cup {"none"}
        /\ debugMarker \in BOOLEAN /\ hup \in {"none", "pending", "handled", "lost"}
    BY DEF Init, UiInit
  <2>4. clock \in 0..MaxClock
    BY TimeAssumption DEF Init, UiInit
  <2>5. QED
    BY <2>2, <2>3, <2>4 DEF FileTypeOK
<1>3. HistoryTypeOK
  BY DEF Init, UiInit, HistoryTypeOK
<1>4. ScriptTypeOK
  BY DEF Init, ScriptTypeOK, InitLocations, SdLocations
<1>5. QED
  BY <1>1, <1>2, <1>3, <1>4 DEF TypeOK

(* Draw() clamps the selection and may end the countdown. *)
LEMMA DrawType ==
  ASSUME MenuTypeOK, NEW items \in Seq(Nat), Draw(items)
  PROVE  selected' \in Int /\ remaining' \in -1..MAIN_MENU_TIMEOUT /\ screen' = "menu"
<1>1. Len(items) \in Nat
  OBVIOUS
<1>2. Min2(selected, Len(items) - 1) \in Int
  BY <1>1 DEF MenuTypeOK, Min2
<1>3. QED
  BY <1>2, TimeAssumption DEF MenuTypeOK, Draw, ActiveItemChanged

LEMMA StartType ==
  ASSUME TypeOK,
         ExecProcess \/ InstallHandler \/ CreateMainMenu \/ ShowMainMenu,
         UNCHANGED <<initVars, sdPc>>
  PROVE  TypeOK'
<1> USE DEF ExecProcess, InstallHandler, CreateMainMenu, ShowMainMenu, SwitchMenu,
            RefreshThen, mainVars, menuVars, fileVars, history, initVars, TypeOK
<1>1. MenuTypeOK'
  BY MenuConstructors DEF MenuTypeOK, Locations, Running
<1>2. FileTypeOK'
  BY DEF FileTypeOK
<1>3. HistoryTypeOK'
  BY DEF HistoryTypeOK
<1>4. ScriptTypeOK'
  BY DEF ScriptTypeOK
<1>5. QED
  BY <1>1, <1>2, <1>3, <1>4

LEMMA RefreshType ==
  ASSUME TypeOK,
         RefreshBegin \/ PopulateStep \/ ReturnItems \/ AssignItems \/ RefreshEnd,
         UNCHANGED <<initVars, sdPc>>
  PROVE  TypeOK'
<1> USE DEF RefreshBegin, PopulateStep, ReturnItems, AssignItems, RefreshEnd,
            mainVars, menuVars, fileVars, history, initVars, TypeOK
<1>1. MenuTypeOK'
  <2>1. CASE RefreshBegin
    <3>1. menu \notin {MainMenu, NullMenu} => FixedList(menu) \in Seq(Nat)
      BY MenuFields, FixedListType DEF MenuTypeOK
    <3>2. pc' \in Locations
      BY <2>1 DEF Locations, Running
    <3>3. mainItems' \in Seq(Nat) /\ mainCached' \in BOOLEAN /\ popNext' \in 1..MainEntries
      <4>1. CASE UNCHANGED mainVars
        BY <4>1 DEF MenuTypeOK
      <4>2. CASE mainItems' = <<>> /\ mainCached' = TRUE /\ popNext' = 1
        BY <4>2 DEF MainEntries
      <4>3. QED
        BY <2>1, <4>1, <4>2
    <3>4. local' \in Seq(Nat)
      BY <2>1, <3>1 DEF MenuTypeOK
    <3>5. QED
      BY <2>1, <3>2, <3>3, <3>4 DEF MenuTypeOK
  <2>2. CASE PopulateStep
    <3>1. mainItems \in Seq(Nat) /\ popNext \in Nat
      BY DEF MenuTypeOK, MainEntries
    <3>2. MainEntry(popNext) \in Seq(Nat)
      BY <3>1, MainEntryType
    <3>3. mainItems \o MainEntry(popNext) \in Seq(Nat)
      BY <3>1, <3>2, ConcatProperties
    <3>4. QED
      BY <2>2, <3>3 DEF MenuTypeOK, Locations, Running, MainEntries
  <2>3. CASE ReturnItems
    BY <2>3 DEF MenuTypeOK, Locations, Running
  <2>4. CASE AssignItems
    BY <2>4 DEF MenuTypeOK, Locations, Running
  <2>5. CASE RefreshEnd
    BY <2>5, DrawType DEF MenuTypeOK, Locations, Running, Blocked
  <2>6. QED
    BY <2>1, <2>2, <2>3, <2>4, <2>5
<1>2. RefreshEnd => screen' = "menu" /\ promised' \in Nat
  BY DrawType, TimeAssumption DEF MenuTypeOK, FileTypeOK, HistoryTypeOK
<1>3. FileTypeOK'
  BY <1>2 DEF FileTypeOK
<1>4. HistoryTypeOK'
  BY <1>2 DEF HistoryTypeOK
<1>5. ScriptTypeOK'
  BY DEF ScriptTypeOK
<1>6. QED
  BY <1>1, <1>3, <1>4, <1>5

(* Menu operations, on the variables they assign. *)
LEMMA SelectType ==
  ASSUME TypeOK, NEW a, NEW r \in {"wait", "dispatch"},
         SelectOnMain(a, r) \/ SelectImage(a, r) \/ SelectExtra(a, r) \/ SelectConfirmation(a, r)
  PROVE  /\ pc' \in Locations /\ ret' \in {"loop", "check", "wait", "dispatch"}
         /\ menu' \in Menus /\ selected' \in Int /\ remaining' \in -1..MAIN_MENU_TIMEOUT
         /\ target' \in Targets \cup {"none"} /\ wantDebug' \in BOOLEAN
         /\ debugMarker' \in BOOLEAN
         /\ userdata' \in [Images -> {"none", "data", "fresh", "raw"}]
         /\ consent' \in (ConfirmationKinds \cup {"none"}) \X (Targets \cup {"none"})
<1> USE DEF TypeOK, MenuTypeOK, FileTypeOK, HistoryTypeOK
<1>1. \A m \in Menus : SwitchTo(m, r) =>
        /\ pc' \in Locations /\ ret' \in {"loop", "check", "wait", "dispatch"}
        /\ menu' \in Menus /\ selected' \in Int
        /\ target' \in Targets \cup {"none"} /\ wantDebug' \in BOOLEAN
  BY DEF SwitchTo, SwitchMenu, RefreshThen, Locations, Running
<1>2. \A t \in Targets, dbg \in BOOLEAN : BootTarget(t, dbg) =>
        /\ pc' \in Locations /\ ret' \in {"loop", "check", "wait", "dispatch"}
        /\ menu' \in Menus /\ selected' \in Int
        /\ target' \in Targets \cup {"none"} /\ wantDebug' \in BOOLEAN
  BY DEF BootTarget, Locations, Running
<1>3. \A t \in Targets, dbg \in BOOLEAN :
        menu.kind \in {"images", "extra"} /\ BootTargetWithConfirmation(t, dbg, r) =>
        /\ pc' \in Locations /\ ret' \in {"loop", "check", "wait", "dispatch"}
        /\ menu' \in Menus /\ selected' \in Int
        /\ target' \in Targets \cup {"none"} /\ wantDebug' \in BOOLEAN
  BY <1>1, <1>2, MenuConstructors
     DEF BootTargetWithConfirmation, NeedsUserdataImage, SwitchTo
<1>4. CASE SelectOnMain(a, r)
  <2>1. ImageSelectionMenu("sdcard") \in Menus /\ ImageSelectionMenu("userdata") \in Menus
    BY MenuConstructors DEF Storages
  <2>2. remaining' = -1 /\ UNCHANGED <<debugMarker, userdata, consent>>
    BY <1>4 DEF SelectOnMain
  <2>3. /\ pc' \in Locations /\ ret' \in {"loop", "check", "wait", "dispatch"}
        /\ menu' \in Menus /\ selected' \in Int
        /\ target' \in Targets \cup {"none"} /\ wantDebug' \in BOOLEAN
    BY <1>1, <1>2, <1>4, <2>1 DEF SelectOnMain, Targets, Locations, Ended
  <2>4. QED
    BY <2>2, <2>3, TimeAssumption
<1>5. CASE SelectImage(a, r)
  <2>1. UNCHANGED <<remaining, debugMarker, userdata, consent>> /\ menu.kind = "images"
    BY <1>5 DEF SelectImage
  <2>2. \A k \in DOMAIN ImagesOn[menu.of] : ImagesOn[menu.of][k] \in Targets
    BY <2>1, MenuFields, ImagesAssumption DEF Targets
  <2>3. /\ pc' \in Locations /\ ret' \in {"loop", "check", "wait", "dispatch"}
        /\ menu' \in Menus /\ selected' \in Int
        /\ target' \in Targets \cup {"none"} /\ wantDebug' \in BOOLEAN
    BY <1>1, <1>3, <1>5, <2>1, <2>2, MenuConstructors DEF SelectImage
  <2>4. QED
    BY <2>1, <2>3
<1>6. CASE SelectExtra(a, r)
  <2>1. menu.kind = "extra" /\ UNCHANGED <<remaining, userdata, consent>>
    BY <1>6 DEF SelectExtra
  <2>2. menu.of \in Targets /\ LastMenu(menu) \in Menus
    BY <2>1, MenuFields
  <2>3. debugMarker' \in BOOLEAN
    BY <1>6 DEF SelectExtra, MarkedDebuggable
  <2>4. /\ DeleteDataConfirmationMenu(menu.of, menu.last) \in Menus
        /\ FormatDataConfirmationMenu(menu.of, menu.last) \in Menus
    BY <2>1, MenuConstructors
  <2>5. /\ pc' \in Locations /\ ret' \in {"loop", "check", "wait", "dispatch"}
        /\ menu' \in Menus /\ selected' \in Int
        /\ target' \in Targets \cup {"none"} /\ wantDebug' \in BOOLEAN
    BY <1>1, <1>3, <1>6, <2>1, <2>2, <2>4 DEF SelectExtra
  <2>6. QED
    BY <2>1, <2>3, <2>5
<1>7. CASE SelectConfirmation(a, r)
  <2>1. menu.kind \in ConfirmationKinds /\ UNCHANGED <<remaining, debugMarker>>
    BY <1>7 DEF SelectConfirmation
  <2>2. menu.of \in Targets /\ LastMenu(menu) \in Menus
    BY <2>1, MenuFields
  <2>3. /\ userdata' \in [Images -> {"none", "data", "fresh", "raw"}]
        /\ consent' \in (ConfirmationKinds \cup {"none"}) \X (Targets \cup {"none"})
    <3>1. \/ UNCHANGED userdata
          \/ userdata' = [userdata EXCEPT ![menu.of] = "none"]
          \/ \E f \in Formatted : userdata' = [userdata EXCEPT ![menu.of] = f]
      BY <1>7 DEF SelectConfirmation
    <3>2. UNCHANGED consent \/ consent' = <<menu.kind, menu.of>>
      BY <1>7 DEF SelectConfirmation
    <3>3. userdata' \in [Images -> {"none", "data", "fresh", "raw"}]
      BY <3>1 DEF Formatted
    <3>4. QED
      BY <2>1, <2>2, <3>2, <3>3
  <2>4. /\ pc' \in Locations /\ ret' \in {"loop", "check", "wait", "dispatch"}
        /\ menu' \in Menus /\ selected' \in Int
        /\ target' \in Targets \cup {"none"} /\ wantDebug' \in BOOLEAN
    <3>1. \/ SwitchTo(LastMenu(menu), r) \/ BootTarget(menu.of, menu.last = "extra")
          \/ RemoveFails
      BY <1>7 DEF SelectConfirmation
    <3>2. CASE SwitchTo(LastMenu(menu), r)
      BY <1>1, <2>2, <3>2
    <3>3. CASE BootTarget(menu.of, menu.last = "extra")
      <4>1. /\ pc' = "exit" /\ UNCHANGED <<ret, menu, selected>> /\ target' = menu.of
            /\ wantDebug' = (menu.last = "extra")
        BY <3>3 DEF BootTarget
      <4>2. wantDebug' \in BOOLEAN
        BY <4>1
      <4>3. QED
        BY <2>2, <4>1, <4>2 DEF Locations, Running
    <3>4. CASE RemoveFails
      BY <3>4 DEF RemoveFails, Locations, Ended
    <3>5. QED
      BY <3>1, <3>2, <3>3, <3>4
  <2>5. QED
    BY <2>1, <2>3, <2>4
<1>8. QED
  BY <1>4, <1>5, <1>6, <1>7

LEMMA SelectCurrentType ==
  ASSUME TypeOK, NEW r \in {"wait", "dispatch"}, SelectCurrentItem(r),
         touched' \in BOOLEAN, UNCHANGED <<initVars, sdPc>>
  PROVE  TypeOK'
<1>1. PICK a : \/ SelectOnMain(a, r) \/ SelectImage(a, r)
               \/ SelectExtra(a, r) \/ SelectConfirmation(a, r)
  BY DEF SelectCurrentItem
<1>2. UNCHANGED <<mainVars, local, menuItems, screen, marker, paths, clock, hup, moved,
                  promised>>
  BY DEF SelectCurrentItem
<1>3. MenuTypeOK'
  BY <1>1, <1>2, SelectType DEF TypeOK, MenuTypeOK, mainVars
<1>4. FileTypeOK'
  BY <1>1, <1>2, SelectType DEF TypeOK, FileTypeOK
<1>5. HistoryTypeOK'
  BY <1>1, <1>2, SelectType DEF TypeOK, HistoryTypeOK
<1>6. ScriptTypeOK'
  BY DEF TypeOK, ScriptTypeOK, initVars
<1>7. QED
  BY <1>3, <1>4, <1>5, <1>6 DEF TypeOK

LEMMA LoopType ==
  ASSUME TypeOK, LoopIteration \/ CountdownCheck \/ EventsDone \/ Tick,
         UNCHANGED <<initVars, sdPc>>
  PROVE  TypeOK'
<1>1. CASE CountdownCheck /\ remaining = 0
  BY <1>1, SelectCurrentType DEF CountdownCheck, TypeOK, HistoryTypeOK
<1>2. CASE LoopIteration \/ (CountdownCheck /\ remaining # 0) \/ EventsDone \/ Tick
  <2>1. pc' \in Locations /\ ret' \in {"loop", "check", "wait", "dispatch"}
    BY <1>2 DEF LoopIteration, CountdownCheck, EventsDone, Tick, procVars, RefreshThen,
                TypeOK, MenuTypeOK, Locations, Running, Blocked
  <2>2. remaining' \in -1..MAIN_MENU_TIMEOUT /\ clock' \in 0..MaxClock
    BY <1>2, TimeAssumption
       DEF LoopIteration, CountdownCheck, EventsDone, Tick, CountdownLeft, Max2,
           TypeOK, MenuTypeOK, FileTypeOK
  <2>3. UNCHANGED <<mainVars, menuVars, screen, target, fileVars, paths, hup, history>>
    BY <1>2 DEF LoopIteration, CountdownCheck, EventsDone, Tick
  <2>4. MenuTypeOK'
    BY <2>1, <2>2, <2>3 DEF TypeOK, MenuTypeOK, mainVars, menuVars
  <2>5. FileTypeOK'
    BY <2>2, <2>3 DEF TypeOK, FileTypeOK, fileVars
  <2>6. HistoryTypeOK'
    BY <2>3 DEF TypeOK, HistoryTypeOK, history
  <2>7. ScriptTypeOK'
    BY DEF TypeOK, ScriptTypeOK, initVars
  <2>8. QED
    BY <2>4, <2>5, <2>6, <2>7 DEF TypeOK
<1>3. QED
  BY <1>1, <1>2 DEF CountdownCheck

LEMMA KeyType ==
  ASSUME TypeOK, KeyReleased, UNCHANGED <<initVars, sdPc>>
  PROVE  TypeOK'
<1>1. touched' = TRUE
  BY DEF KeyReleased
<1>2. CASE PowerReleased
  BY <1>1, <1>2, SelectCurrentType DEF PowerReleased
<1>3. ASSUME NEW s \in Int, MoveSelection(s) PROVE TypeOK'
  <2>1. /\ UNCHANGED <<mainVars, menu, local, menuItems, target, fileVars, paths, clock,
                       hup, wantDebug, consent, promised>>
        /\ selected' = s /\ screen' = "menu"
    BY <1>3 DEF MoveSelection
  <2>2. pc' \in Locations /\ ret' \in {"loop", "check", "wait", "dispatch"}
    BY <1>3 DEF MoveSelection, RefreshThen, TypeOK, MenuTypeOK, Locations, Running
  <2>3. remaining' \in -1..MAIN_MENU_TIMEOUT
    BY <1>3, TimeAssumption DEF MoveSelection, ActiveItemChanged, TypeOK, MenuTypeOK
  <2>4. moved' \in BOOLEAN
    BY <1>3 DEF MoveSelection, TypeOK, HistoryTypeOK
  <2>5. MenuTypeOK'
    BY <2>1, <2>2, <2>3 DEF TypeOK, MenuTypeOK, mainVars
  <2>6. FileTypeOK'
    BY <2>1 DEF TypeOK, FileTypeOK, fileVars
  <2>7. HistoryTypeOK'
    BY <1>1, <2>1, <2>4 DEF TypeOK, HistoryTypeOK
  <2>8. ScriptTypeOK'
    BY DEF TypeOK, ScriptTypeOK, initVars
  <2>9. QED
    BY <2>5, <2>6, <2>7, <2>8 DEF TypeOK
<1>4. CASE VolumeUpReleased \/ VolumeDownReleased
  <2>1. Above(selected) \in Int /\ Below(selected) \in Int
    BY DEF Above, Below, TypeOK, MenuTypeOK
  <2>2. QED
    BY <1>3, <1>4, <2>1 DEF VolumeUpReleased, VolumeDownReleased
<1>5. CASE VolumeDownLongPressed
  <2>1. /\ pc' \in Locations /\ ret' \in {"loop", "check", "wait", "dispatch"}
        /\ menu' \in Menus /\ selected' \in Int
    <3>1. \A m \in Menus : SwitchMenu(m, "dispatch") =>
            /\ pc' \in Locations /\ ret' \in {"loop", "check", "wait", "dispatch"}
            /\ menu' \in Menus /\ selected' \in Int
      BY DEF SwitchMenu, RefreshThen, Locations, Running
    <3>2. menu.kind = "images" =>
            \A k \in DOMAIN ImagesOn[menu.of] : ImagesOn[menu.of][k] \in Images
      BY MenuFields, ImagesAssumption DEF TypeOK, MenuTypeOK
    <3>3. (\E m \in Menus : SwitchMenu(m, "dispatch")) \/ (pc' = "dispatch" /\ UNCHANGED <<ret, menu, selected>>)
      BY <1>5, <3>2, MenuConstructors DEF VolumeDownLongPressed, SelectExtraOptions
    <3>4. QED
      BY <3>1, <3>3 DEF TypeOK, MenuTypeOK, Locations, Running
  <2>2. UNCHANGED <<mainVars, remaining, local, menuItems, screen, target, fileVars, paths,
                    clock, hup, wantDebug, consent, moved, promised>>
    BY <1>5 DEF VolumeDownLongPressed
  <2>3. MenuTypeOK'
    BY <2>1, <2>2 DEF TypeOK, MenuTypeOK, mainVars
  <2>4. FileTypeOK'
    BY <2>2 DEF TypeOK, FileTypeOK, fileVars
  <2>5. HistoryTypeOK'
    BY <1>1, <2>2 DEF TypeOK, HistoryTypeOK
  <2>6. ScriptTypeOK'
    BY DEF TypeOK, ScriptTypeOK, initVars
  <2>7. QED
    BY <2>3, <2>4, <2>5, <2>6 DEF TypeOK
<1>6. QED
  BY <1>2, <1>4, <1>5 DEF KeyReleased

LEMMA BootType ==
  ASSUME TypeOK, ExitUi \/ ShowBootMessage \/ WriteMarker \/ SleepDone,
         UNCHANGED <<initVars, sdPc>>
  PROVE  TypeOK'
<1>1. /\ pc' \in Locations /\ menu' \in Menus
      /\ screen' \in {"off", "menu", "message"}
  BY MenuConstructors
     DEF ExitUi, ShowBootMessage, WriteMarker, SleepDone, MenuAfterExit, menuVars, history,
         TypeOK, MenuTypeOK, FileTypeOK, HistoryTypeOK, Locations, Running, Blocked, Ended
<1>2. marker' \in [tmp : Targets \cup {"none", "absent", "empty"},
                  file : Targets \cup {"none", "absent", "empty"}]
  <2>1. \/ UNCHANGED marker \/ marker' = MarkerCreated(marker)
        \/ marker' = MarkerWritten(marker, target) \/ marker' = MarkerRenamed(marker)
    BY DEF ExitUi, ShowBootMessage, WriteMarker, SleepDone, fileVars
  <2>2. QED
    BY <2>1 DEF MarkerCreated, MarkerWritten, MarkerRenamed, TypeOK, FileTypeOK
<1>3. UNCHANGED <<ret, mainVars, remaining, local, menuItems, selected, target, debugMarker,
                  userdata, paths, clock, hup, wantDebug, consent, touched, moved, promised>>
  BY DEF ExitUi, ShowBootMessage, WriteMarker, SleepDone, menuVars, fileVars, history
<1>4. MenuTypeOK'
  BY <1>1, <1>3 DEF TypeOK, MenuTypeOK, mainVars
<1>5. FileTypeOK'
  BY <1>1, <1>2, <1>3 DEF TypeOK, FileTypeOK
<1>6. HistoryTypeOK'
  BY <1>1, <1>3 DEF TypeOK, HistoryTypeOK
<1>7. ScriptTypeOK'
  BY DEF TypeOK, ScriptTypeOK, initVars
<1>8. QED
  BY <1>4, <1>5, <1>6, <1>7 DEF TypeOK

LEMMA SighupType ==
  ASSUME TypeOK, Sighup \/ SighupFatal, UNCHANGED <<initVars, sdPc>>
  PROVE  TypeOK'
<1>1. CASE Sighup
  <2>1. pc' \in Locations
    BY <1>1 DEF Sighup, AfterSighup, Locations, Running, Blocked, Ended
  <2>2. /\ mainItems' \in Seq(Nat) /\ mainCached' \in BOOLEAN /\ menuItems' \in Seq(Nat)
        /\ selected' \in Int /\ remaining' \in -1..MAIN_MENU_TIMEOUT
        /\ screen' \in {"off", "menu", "message"}
    <3>1. CASE /\ menu = MainMenu /\ mainItems' = MainList /\ mainCached' = TRUE
               /\ menuItems' = MainList /\ Draw(MainList)
      BY <3>1, MainListType, DrawType DEF TypeOK
    <3>2. CASE /\ menu \notin {MainMenu, NullMenu} /\ ResetCache
               /\ menuItems' = FixedList(menu) /\ Draw(FixedList(menu))
      <4>1. FixedList(menu) \in Seq(Nat)
        BY <3>2, MenuFields, FixedListType DEF TypeOK, MenuTypeOK
      <4>2. QED
        <5>1. /\ selected' \in Int /\ remaining' \in -1..MAIN_MENU_TIMEOUT
              /\ screen' = "menu"
          BY <3>2, <4>1, DrawType DEF TypeOK
        <5>2. mainItems' = <<>> /\ mainCached' = FALSE
          BY <3>2 DEF ResetCache
        <5>3. mainItems' \in Seq(Nat)
          BY <5>2
        <5>4. mainCached' \in BOOLEAN
          BY <5>2
        <5>5. QED
          BY <3>2, <4>1, <5>1, <5>3, <5>4
    <3>3. CASE /\ menu = NullMenu /\ ResetCache
               /\ UNCHANGED <<menuItems, selected, remaining, screen>>
      <4>1. mainItems' = <<>> /\ mainCached' = FALSE
        BY <3>3 DEF ResetCache
      <4>2. mainItems' \in Seq(Nat)
        BY <4>1
      <4>3. mainCached' \in BOOLEAN
        BY <4>1
      <4>4. QED
        BY <3>3, <4>2, <4>3 DEF TypeOK, MenuTypeOK, FileTypeOK
    <3>4. QED
      BY <1>1, <3>1, <3>2, <3>3 DEF Sighup, SighupHandler
  <2>3. /\ hup' = "handled"
        /\ UNCHANGED <<ret, popNext, menu, local, target, fileVars, paths, clock, history>>
    BY <1>1 DEF Sighup
  <2>4. MenuTypeOK'
    BY <2>1, <2>2, <2>3 DEF TypeOK, MenuTypeOK
  <2>5. FileTypeOK'
    BY <2>2, <2>3 DEF TypeOK, FileTypeOK, fileVars
  <2>6. HistoryTypeOK'
    BY <2>3 DEF TypeOK, HistoryTypeOK, history
  <2>7. ScriptTypeOK'
    BY DEF TypeOK, ScriptTypeOK, initVars
  <2>8. QED
    BY <2>4, <2>5, <2>6, <2>7 DEF TypeOK
<1>2. CASE SighupFatal
  <2>1. /\ hup' = "handled" /\ pc' = "dead"
        /\ UNCHANGED <<ret, mainVars, remaining, menuVars, screen, target, fileVars, paths,
                       clock, history>>
    BY <1>2 DEF SighupFatal
  <2>2. MenuTypeOK'
    BY <2>1 DEF TypeOK, MenuTypeOK, mainVars, menuVars, Locations, Ended
  <2>3. FileTypeOK'
    BY <2>1 DEF TypeOK, FileTypeOK, fileVars
  <2>4. HistoryTypeOK'
    BY <2>1 DEF TypeOK, HistoryTypeOK, history
  <2>5. ScriptTypeOK'
    BY DEF TypeOK, ScriptTypeOK, initVars
  <2>6. QED
    BY <2>2, <2>3, <2>4, <2>5 DEF TypeOK
<1>3. QED
  BY <1>1, <1>2

LEMMA UiProcessType ==
  ASSUME TypeOK, UiProcess, UNCHANGED <<initVars, sdPc>>
  PROVE  TypeOK'
  BY StartType, RefreshType, LoopType, KeyType, BootType, SighupType DEF UiProcess, UiStep

LEMMA InitScriptType ==
  ASSUME TypeOK, InitScript
  PROVE  TypeOK'
<1>1. /\ UNCHANGED <<procVars, mainVars, remaining, menuVars, screen, target, marker,
                     debugMarker, paths, clock, hup, history, sdPc>>
      /\ \/ UNCHANGED userdata
         \/ \E f \in Formatted \cup {"none"} : userdata' = [userdata EXCEPT ![initTarget] = f]
  BY DEF InitScript, Poll, ReadTarget, Provision, CheckDebuggable, TouchBooting, Advance,
         uiVars, fileVars
<1>2. MenuTypeOK'
  BY <1>1 DEF TypeOK, MenuTypeOK, procVars, mainVars, menuVars
<1>3. FileTypeOK'
  <2>1. userdata' \in [Images -> {"none", "data", "fresh", "raw"}]
    BY <1>1 DEF TypeOK, FileTypeOK, Formatted
  <2>2. QED
    BY <1>1, <2>1 DEF TypeOK, FileTypeOK
<1>4. HistoryTypeOK'
  BY <1>1 DEF TypeOK, HistoryTypeOK, history
<1>5. ScriptTypeOK'
  <2>1. initPc' \in InitLocations
    BY DEF InitScript, Poll, ReadTarget, Provision, CheckDebuggable, TouchBooting, Advance,
           NextStage, InitLocations
  <2>2. initTarget' \in Targets \cup {"none", "absent", "empty"}
    BY DEF InitScript, Poll, ReadTarget, Provision, CheckDebuggable, TouchBooting, Advance,
           TypeOK, FileTypeOK, ScriptTypeOK
  <2>3. initDebug' \in BOOLEAN /\ booting' \in BOOLEAN
    BY DEF InitScript, Poll, ReadTarget, Provision, CheckDebuggable, TouchBooting, Advance,
           TypeOK, FileTypeOK, ScriptTypeOK
  <2>4. QED
    BY <1>1, <2>1, <2>2, <2>3 DEF TypeOK, ScriptTypeOK
<1>6. QED
  BY <1>2, <1>3, <1>4, <1>5 DEF TypeOK

LEMMA SdJobType ==
  ASSUME TypeOK, SdJob
  PROVE  TypeOK'
<1>1. UNCHANGED <<procVars, mainVars, remaining, menuVars, screen, target, fileVars, clock,
                  history, initVars>>
  BY DEF SdJob, SdMount, SdNotify, SdGiveUp, uiVars
<1>2. /\ paths' \in SUBSET {"internal", "userdata", "sdcard"}
      /\ hup' \in {"none", "pending", "handled", "lost"} /\ sdPc' \in SdLocations
  BY DEF SdJob, SdMount, SdNotify, SdGiveUp, uiVars, SdLocations, TypeOK, FileTypeOK
<1>3. MenuTypeOK'
  BY <1>1 DEF TypeOK, MenuTypeOK, procVars, mainVars, menuVars
<1>4. FileTypeOK'
  BY <1>1, <1>2 DEF TypeOK, FileTypeOK, fileVars
<1>5. HistoryTypeOK'
  BY <1>1 DEF TypeOK, HistoryTypeOK, history
<1>6. ScriptTypeOK'
  BY <1>1, <1>2 DEF TypeOK, ScriptTypeOK, initVars
<1>7. QED
  BY <1>3, <1>4, <1>5, <1>6 DEF TypeOK

LEMMA StutterType ==
  ASSUME TypeOK, UNCHANGED vars
  PROVE  TypeOK'
<1>1. MenuTypeOK'
  BY DEF vars, uiVars, TypeOK, MenuTypeOK, procVars, mainVars, menuVars
<1>2. FileTypeOK'
  BY DEF vars, uiVars, TypeOK, FileTypeOK, fileVars
<1>3. HistoryTypeOK'
  BY DEF vars, uiVars, TypeOK, HistoryTypeOK, history
<1>4. ScriptTypeOK'
  BY DEF vars, TypeOK, ScriptTypeOK, initVars
<1>5. QED
  BY <1>1, <1>2, <1>3, <1>4 DEF TypeOK

LEMMA NextType == TypeOK /\ [Next]_vars => TypeOK'
  BY UiProcessType, InitScriptType, SdJobType, StutterType DEF Next, Terminated

(* Type correctness, for any images, listings and timeout. *)
THEOREM TypeCorrect == Spec => []TypeOK
<1>1. Init => TypeOK
  BY InitType
<1>2. TypeOK /\ [Next]_vars => TypeOK'
  BY NextType
<1>3. QED
  BY <1>1, <1>2, PTL DEF Spec

-----------------------------------------------------------------------------
(* The hand-over.  Until a target is chosen the process is at one of the   *)
(* menu's statements and none of its steps touches what the boot script    *)
(* reads; after that, no statement of the menu is reached any more.        *)

MenuLocations == {"forked", "exec", "installed", "init", "refresh", "populate", "return",
                  "assign", "render", "check", "loop", "dispatch", "wait"}

(* The steps that choose nothing and ask nothing. *)
QuietStep ==
  \/ ExecProcess \/ InstallHandler \/ CreateMainMenu \/ ShowMainMenu
  \/ RefreshBegin \/ PopulateStep \/ ReturnItems \/ AssignItems \/ RefreshEnd
  \/ LoopIteration \/ EventsDone \/ Tick
  \/ (pc = "check" /\ remaining # 0 /\ CountdownCheck)
  \/ (pc \in {"wait", "dispatch"} /\ VolumeUpReleased)
  \/ (pc \in {"wait", "dispatch"} /\ VolumeDownReleased)
  \/ (pc \in {"wait", "dispatch"} /\ VolumeDownLongPressed)

LEMMA QuietStepFrame ==
  ASSUME TypeOK, QuietStep
  PROVE  /\ pc \in MenuLocations /\ pc' \in MenuLocations
         /\ UNCHANGED <<target, marker, debugMarker, userdata, wantDebug, consent>>
         /\ menu' = menu \/ menu'.kind \in {"main", "extra"}
         /\ screen' \in {screen, "menu"}
<1>1. CASE ExecProcess \/ InstallHandler \/ CreateMainMenu \/ ShowMainMenu
  BY <1>1 DEF ExecProcess, InstallHandler, CreateMainMenu, ShowMainMenu, SwitchMenu,
              RefreshThen, MainMenu, menuVars, fileVars, history, MenuLocations
<1>2. CASE RefreshBegin \/ PopulateStep \/ ReturnItems \/ AssignItems
  BY <1>2 DEF RefreshBegin, PopulateStep, ReturnItems, AssignItems, menuVars, fileVars,
              history, MenuLocations
<1>3. CASE RefreshEnd
  BY <1>3 DEF RefreshEnd, Draw, fileVars, MenuLocations, TypeOK, MenuTypeOK
<1>4. CASE LoopIteration \/ EventsDone \/ Tick
  BY <1>4 DEF LoopIteration, EventsDone, Tick, RefreshThen, procVars, menuVars, fileVars,
              history, MenuLocations
<1>5. CASE pc = "check" /\ remaining # 0 /\ CountdownCheck
  BY <1>5 DEF CountdownCheck, menuVars, fileVars, history, MenuLocations
<1>6. CASE pc \in {"wait", "dispatch"} /\ (VolumeUpReleased \/ VolumeDownReleased)
  BY <1>6 DEF VolumeUpReleased, VolumeDownReleased, MoveSelection, RefreshThen, fileVars,
              MenuLocations
<1>7. CASE pc \in {"wait", "dispatch"} /\ VolumeDownLongPressed
  BY <1>7 DEF VolumeDownLongPressed, SelectExtraOptions, SwitchMenu, RefreshThen,
              ExtraOptionsMenu, fileVars, MenuLocations
<1>8. QED
  BY <1>1, <1>2, <1>3, <1>4, <1>5, <1>6, <1>7 DEF QuietStep

LEMMA QuietStepInv ==
  ASSUME TypeOK, HandoverInv, QuietStep, UNCHANGED <<initVars, sdPc>>
  PROVE  HandoverInv'
<1>1. /\ pc \in MenuLocations /\ pc' \in MenuLocations
      /\ UNCHANGED <<target, marker, debugMarker, userdata, wantDebug, consent>>
      /\ menu' = menu \/ menu'.kind \in {"main", "extra"}
      /\ screen' \in {screen, "menu"}
  BY QuietStepFrame
<1>2. ~Chosen
  BY <1>1 DEF HandoverInv, MarkerInv, MenuLocations, Ended
<1>3. MarkerInv'
  BY <1>1, <1>2 DEF HandoverInv, MarkerInv, Chosen, initVars, MenuLocations
<1>4. ScreenInv'
  BY <1>1 DEF HandoverInv, ScreenInv, MenuLocations, Ended
<1>5. DebugInv'
  BY <1>1 DEF HandoverInv, DebugInv, initVars
<1>6. QED
  BY <1>3, <1>4, <1>5 DEF HandoverInv

(* Selecting an item: only boot_target() leaves the menu's statements, and *)
(* it does so with a target, marked debuggable if that was asked for.      *)
LEMMA SelectFrame ==
  ASSUME TypeOK, HandoverInv, NEW r \in {"wait", "dispatch"}, SelectCurrentItem(r)
  PROVE  /\ pc' \in MenuLocations \cup {"exit", "rebooted", "aborted"}
         /\ UNCHANGED <<marker, screen>>
         /\ pc' = "exit" => target' \in Targets
         /\ pc' # "exit" => UNCHANGED <<target, wantDebug>>
         /\ debugMarker => debugMarker'
         /\ wantDebug' => debugMarker'
         /\ menu'.kind = "boot" /\ menu'.last = "extra" => debugMarker'
<1>1. PICK a : \/ SelectOnMain(a, r) \/ SelectImage(a, r)
               \/ SelectExtra(a, r) \/ SelectConfirmation(a, r)
  BY DEF SelectCurrentItem
<1>2. UNCHANGED <<marker, screen>>
  BY DEF SelectCurrentItem
<1>3. CASE SelectOnMain(a, r)
  BY <1>2, <1>3
     DEF SelectOnMain, SwitchTo, SwitchMenu, RefreshThen, BootTarget, ImageSelectionMenu,
         MainMenu, Targets, MenuLocations, HandoverInv, DebugInv
<1>4. CASE SelectImage(a, r)
  <2>1. \A k \in DOMAIN ImagesOn[menu.of] : ImagesOn[menu.of][k] \in Targets
    BY <1>4, MenuFields, ImagesAssumption DEF SelectImage, Targets, TypeOK, MenuTypeOK
  <2>2. QED
    BY <1>2, <1>4, <2>1
       DEF SelectImage, SwitchTo, SwitchMenu, RefreshThen, BootTarget,
           BootTargetWithConfirmation, BootConfirmationMenu, MainMenu, MenuLocations,
           HandoverInv, DebugInv
<1>5. CASE SelectExtra(a, r)
  <2>1. menu.of \in Targets
    BY <1>5, MenuFields DEF SelectExtra, TypeOK, MenuTypeOK
  <2>2. LastMenu(menu).kind # "boot"
    BY <1>5, MenuFields
       DEF SelectExtra, TypeOK, MenuTypeOK, Menus, LastMenu, MainMenu, NullMenu,
           ImageSelectionMenu, ExtraOptionsMenu
  <2>3. QED
    BY <1>2, <1>5, <2>1, <2>2
       DEF SelectExtra, SwitchTo, SwitchMenu, RefreshThen, BootTarget, MarkedDebuggable,
           BootTargetWithConfirmation, BootConfirmationMenu, DeleteDataConfirmationMenu,
           FormatDataConfirmationMenu, MenuLocations, HandoverInv, DebugInv
<1>6. CASE SelectConfirmation(a, r)
  <2>1. menu.of \in Targets
    BY <1>6, MenuFields DEF SelectConfirmation, TypeOK, MenuTypeOK
  <2>2. LastMenu(menu).kind # "boot"
    BY <1>6, MenuFields
       DEF SelectConfirmation, ConfirmationKinds, TypeOK, MenuTypeOK, Menus, LastMenu,
           MainMenu, NullMenu, ImageSelectionMenu, ExtraOptionsMenu
  <2>3. UNCHANGED debugMarker
    BY <1>6 DEF SelectConfirmation
  <2>4. CASE SwitchTo(LastMenu(menu), r)
    BY <1>2, <2>2, <2>3, <2>4
       DEF SwitchTo, SwitchMenu, RefreshThen, MenuLocations, HandoverInv, DebugInv
  <2>5. CASE menu.kind = "boot" /\ BootTarget(menu.of, menu.last = "extra")
    <3>1. /\ pc' = "exit" /\ target' = menu.of /\ menu' = menu
          /\ wantDebug' = (menu.last = "extra")
      BY <2>5 DEF BootTarget
    <3>2. menu.last = "extra" => debugMarker'
      BY <2>3, <2>5 DEF HandoverInv, DebugInv
    <3>3. QED
      BY <1>2, <2>1, <2>3, <3>1, <3>2
  <2>6. CASE RemoveFails
    BY <1>2, <2>3, <2>6 DEF RemoveFails, HandoverInv, DebugInv
  <2>7. QED
    BY <1>6, <2>4, <2>5, <2>6 DEF SelectConfirmation
<1>7. QED
  BY <1>1, <1>3, <1>4, <1>5, <1>6

LEMMA SelectInv ==
  ASSUME TypeOK, HandoverInv, NEW r \in {"wait", "dispatch"},
         pc \in {"check", "wait", "dispatch"}, SelectCurrentItem(r), UNCHANGED <<initVars, sdPc>>
  PROVE  HandoverInv'
<1>1. /\ pc' \in MenuLocations \cup {"exit", "rebooted", "aborted"}
      /\ UNCHANGED <<marker, screen>>
      /\ pc' = "exit" => target' \in Targets
      /\ pc' # "exit" => UNCHANGED <<target, wantDebug>>
      /\ debugMarker => debugMarker'
      /\ wantDebug' => debugMarker'
      /\ menu'.kind = "boot" /\ menu'.last = "extra" => debugMarker'
  BY SelectFrame
<1>2. ~Chosen /\ initPc = "poll"
  BY DEF HandoverInv, MarkerInv, Ended
<1>3. ~Chosen' /\ initPc' = "poll"
  BY <1>1, <1>2 DEF Chosen, initVars
<1>4. MarkerInv'
  BY <1>1, <1>3 DEF MarkerInv, MenuLocations
<1>5. ScreenInv'
  BY <1>1 DEF HandoverInv, ScreenInv, MenuLocations, Ended
<1>6. DebugInv'
  BY <1>1, <1>3 DEF DebugInv
<1>7. QED
  BY <1>4, <1>5, <1>6 DEF HandoverInv

(* boot_target(): the marker file appears whole, by the rename. *)
LEMMA BootInv ==
  ASSUME TypeOK, HandoverInv, ExitUi \/ ShowBootMessage \/ WriteMarker \/ SleepDone,
         UNCHANGED <<initVars, sdPc>>
  PROVE  HandoverInv'
<1>1. UNCHANGED <<target, debugMarker, userdata, wantDebug>>
  BY DEF ExitUi, ShowBootMessage, WriteMarker, SleepDone, fileVars, history
<1>2. MarkerInv'
  <2>1. CASE ExitUi \/ ShowBootMessage
    <3>1. UNCHANGED marker /\ pc' \in {"clear", "create"} /\ pc \in {"exit", "clear"}
      BY <2>1 DEF ExitUi, ShowBootMessage, fileVars
    <3>2. QED
      BY <1>1, <3>1 DEF HandoverInv, MarkerInv, Chosen, initVars, Ended
  <2>2. CASE WriteMarker
    <3>1. target \in Targets /\ ~Chosen /\ initPc = "poll" /\ initPc' = "poll"
      BY <2>2 DEF WriteMarker, HandoverInv, MarkerInv, Chosen, initVars, Ended
    <3>2. CASE pc' = "write" /\ marker' = MarkerCreated(marker)
      BY <1>1, <3>1, <3>2
         DEF MarkerInv, Chosen, MarkerCreated, TypeOK, FileTypeOK
    <3>3. CASE pc' = "rename" /\ marker' = MarkerWritten(marker, target)
      BY <1>1, <3>1, <3>3
         DEF MarkerInv, Chosen, MarkerWritten, TypeOK, FileTypeOK
    <3>4. CASE pc = "rename" /\ pc' = "sleep" /\ marker' = MarkerRenamed(marker)
      BY <1>1, <3>1, <3>4
         DEF HandoverInv, MarkerInv, Chosen, MarkerRenamed, TypeOK, FileTypeOK
    <3>5. QED
      BY <2>2, <3>2, <3>3, <3>4 DEF WriteMarker
  <2>3. CASE SleepDone
    <3>1. UNCHANGED marker /\ pc' = "exited" /\ pc = "sleep"
      BY <2>3 DEF SleepDone, fileVars
    <3>2. QED
      BY <1>1, <3>1 DEF HandoverInv, MarkerInv, Chosen, initVars, Ended
  <2>4. QED
    BY <2>1, <2>2, <2>3
<1>3. ScreenInv'
  BY DEF ExitUi, ShowBootMessage, WriteMarker, SleepDone, MenuAfterExit, menuVars,
         HandoverInv, ScreenInv, Ended
<1>4. DebugInv'
  <2>1. menu' = menu \/ menu' = NullMenu
    BY DEF ExitUi, ShowBootMessage, WriteMarker, SleepDone, MenuAfterExit, menuVars
  <2>2. QED
    BY <1>1, <2>1 DEF HandoverInv, DebugInv, NullMenu, initVars
<1>5. QED
  BY <1>2, <1>3, <1>4 DEF HandoverInv

(* The handler draws nothing once UI::exit() has set the menu to null. *)
LEMMA SighupInv ==
  ASSUME TypeOK, HandoverInv, Sighup \/ SighupFatal, UNCHANGED <<initVars, sdPc>>
  PROVE  HandoverInv'
<1>1. UNCHANGED <<target, marker, debugMarker, userdata, wantDebug, menu>>
  BY DEF Sighup, SighupFatal, menuVars, fileVars, history
<1>2. /\ pc' = pc \/ (pc = "wait" /\ pc' = "loop") \/ pc' \in {"exited", "dead"}
      /\ pc' = "exited" => pc = "sleep"
      /\ pc \notin Ended
  BY DEF Sighup, SighupFatal, AfterSighup, Running, Blocked, Ended
<1>3. screen' = screen \/ (menu # NullMenu /\ screen' = "menu")
  BY DEF Sighup, SighupFatal, SighupHandler, Draw, MainMenu, NullMenu
<1>4. MarkerInv'
  BY <1>1, <1>2 DEF HandoverInv, MarkerInv, Chosen, initVars, Ended
<1>5. ScreenInv'
  BY <1>1, <1>2, <1>3 DEF HandoverInv, ScreenInv, Ended
<1>6. DebugInv'
  BY <1>1 DEF HandoverInv, DebugInv, initVars
<1>7. QED
  BY <1>4, <1>5, <1>6 DEF HandoverInv

LEMMA UiProcessInv ==
  ASSUME TypeOK, HandoverInv, UiProcess, UNCHANGED <<initVars, sdPc>>
  PROVE  HandoverInv'
<1>1. \/ QuietStep
      \/ pc = "check" /\ SelectCurrentItem("wait")
      \/ pc \in {"wait", "dispatch"} /\ SelectCurrentItem("dispatch")
      \/ ExitUi \/ ShowBootMessage \/ WriteMarker \/ SleepDone
      \/ Sighup \/ SighupFatal
  BY DEF UiProcess, UiStep, QuietStep, KeyReleased, CountdownCheck, PowerReleased
<1>2. QED
  BY <1>1, QuietStepInv, SelectInv, BootInv, SighupInv

LEMMA InitScriptInv ==
  ASSUME TypeOK, HandoverInv, InitScript
  PROVE  HandoverInv'
<1>1. UNCHANGED <<pc, menu, screen, target, marker, debugMarker, wantDebug>>
  BY DEF InitScript, Poll, ReadTarget, Provision, CheckDebuggable, TouchBooting, Advance,
         uiVars, procVars, menuVars, fileVars, history
<1>2. ScreenInv'
  BY <1>1 DEF HandoverInv, ScreenInv
<1>3. CASE Poll
  BY <1>1, <1>2, <1>3
     DEF Poll, HandoverInv, MarkerInv, DebugInv, Chosen
<1>4. CASE ReadTarget
  <2>1. initTarget' = target /\ initPc' \in {"mount", "provision"} /\ Chosen /\ Chosen'
    BY <1>1, <1>4 DEF ReadTarget, HandoverInv, MarkerInv, Chosen
  <2>2. initPc' = "provision" => initTarget' \in Images
    BY <1>4, <2>1 DEF ReadTarget, HandoverInv, MarkerInv, Targets
  <2>3. QED
    BY <1>1, <1>2, <2>1, <2>2 DEF HandoverInv, MarkerInv, DebugInv, Chosen
<1>5. CASE Provision
  <2>1. initPc' = "mount" /\ initTarget' = initTarget /\ initTarget \in Images
    BY <1>5 DEF Provision, HandoverInv, MarkerInv
  <2>2. QED
    BY <1>1, <1>2, <1>5, <2>1 DEF Provision, HandoverInv, MarkerInv, DebugInv, Chosen
<1>6. CASE CheckDebuggable \/ TouchBooting \/ Advance
  <2>1. /\ UNCHANGED <<userdata, initTarget>>
        /\ initPc \notin {"poll", "read", "provision"}
        /\ initPc' \notin {"poll", "read", "provision"}
    BY <1>6 DEF CheckDebuggable, TouchBooting, Advance, NextStage, uiVars, fileVars
  <2>2. MarkerInv'
    BY <1>1, <2>1 DEF HandoverInv, MarkerInv, Chosen
  <2>3. DebugInv'
    BY <1>1, <1>6
       DEF CheckDebuggable, TouchBooting, Advance, NextStage, HandoverInv, DebugInv
  <2>4. QED
    BY <1>2, <2>2, <2>3 DEF HandoverInv
<1>7. QED
  BY <1>3, <1>4, <1>5, <1>6 DEF InitScript

LEMMA FrameInv ==
  ASSUME HandoverInv, SdJob \/ UNCHANGED vars
  PROVE  HandoverInv'
<1>1. UNCHANGED <<pc, menu, screen, target, marker, debugMarker, userdata, wantDebug,
                  initPc, initTarget, initDebug>>
  BY DEF SdJob, SdMount, SdNotify, SdGiveUp, vars, uiVars, initVars, procVars, menuVars,
         fileVars, history
<1>2. QED
  BY <1>1 DEF HandoverInv, MarkerInv, ScreenInv, DebugInv, Chosen

LEMMA NextInv == TypeOK /\ HandoverInv /\ [Next]_vars => HandoverInv'
  BY UiProcessInv, InitScriptInv, FrameInv DEF Next, Terminated

(* The inductive invariant of the hand-over holds in every reachable state. *)
THEOREM HandoverCorrect == Spec => []HandoverInv
<1>1. Init => HandoverInv
  BY DEF Init, UiInit, HandoverInv, MarkerInv, ScreenInv, DebugInv, Chosen,
         NullMenu
<1>2. TypeOK /\ HandoverInv /\ [Next]_vars => HandoverInv'
  BY NextInv
<1>3. QED
  BY <1>1, <1>2, TypeCorrect, PTL DEF Spec

(* The script boots the whole target that was chosen, whatever the         *)
(* interleaving of its poll with the writing of the marker file.           *)
THEOREM BootTargetCorrect == Spec => []BootTargetIntact
<1>1. HandoverInv => BootTargetIntact
  BY DEF HandoverInv, MarkerInv, BootTargetIntact
<1>2. QED
  BY <1>1, HandoverCorrect, PTL

(* A boot asked for as debuggable is a debuggable one. *)
THEOREM DebugRequestCorrect == Spec => []DebugRequestHonoured
<1>1. HandoverInv => DebugRequestHonoured
  BY DEF HandoverInv, DebugInv, DebugRequestHonoured
<1>2. QED
  BY <1>1, HandoverCorrect, PTL

(* Once the boot message is drawn nothing draws over it: the process has   *)
(* left the statements that draw, and the handler finds no menu.           *)
THEOREM BootMessageStays == Spec => HandedOverStays
<1>1. TypeOK /\ HandoverInv /\ [Next]_vars => [screen = "message" => screen' = "message"]_vars
  <2> SUFFICES ASSUME TypeOK, HandoverInv, Next, screen = "message"
               PROVE  screen' = "message"
    BY DEF vars
  <2>1. menu = NullMenu /\ pc \in {"create", "write", "rename", "sleep"} \cup Ended
    BY DEF HandoverInv, ScreenInv
  <2>2. CASE UiProcess
    <3>1. ~QuietStep
      BY <2>1, QuietStepFrame DEF MenuLocations, Ended
    <3>2. WriteMarker \/ SleepDone \/ Sighup \/ SighupFatal
      BY <2>1, <2>2, <3>1
         DEF UiProcess, UiStep, QuietStep, KeyReleased, CountdownCheck, PowerReleased,
             ExitUi, ShowBootMessage, Ended
    <3>3. QED
      BY <2>1, <3>2
         DEF WriteMarker, SleepDone, Sighup, SighupFatal, SighupHandler, MainMenu, NullMenu
  <2>3. CASE InitScript
    BY <2>3 DEF InitScript, Poll, ReadTarget, Provision, CheckDebuggable, TouchBooting,
                Advance, uiVars
  <2>4. CASE SdJob \/ Terminated
    BY <2>4 DEF SdJob, SdMount, SdNotify, SdGiveUp, Terminated, vars, uiVars
  <2>5. QED
    BY <2>2, <2>3, <2>4 DEF Next
<1>2. QED
  BY <1>1, TypeCorrect, HandoverCorrect, PTL DEF Spec, HandedOverStays

-----------------------------------------------------------------------------
(* The refinement of BootChoice: the rename is Choose, what the user does  *)
(* to userdata images is Manage, the script's reading of "internal" and    *)
(* its look at the userdata image are Prepare, its exec is Boot.           *)

readyBar == {i \in Images : userdata[i] # "none"}

LEMMA ChoiceStutter ==
  ASSUME UNCHANGED <<marker, userdata, initPc, initTarget>>
  PROVE  UNCHANGED Choice!vars
  BY DEF Choice!vars

(* A step of the menu process at a menu: the marker file is not there yet. *)
LEMMA ChoiceManage ==
  ASSUME UNCHANGED <<marker, initPc, initTarget>>, ~Chosen
  PROVE  [Choice!Next]_Choice!vars
<1>1. Choice!Manage
  BY DEF Choice!Manage, Chosen
<1>2. QED
  BY <1>1 DEF Choice!Next

LEMMA UiProcessChoice ==
  ASSUME TypeOK, HandoverInv, UiProcess, UNCHANGED <<initVars, sdPc>>
  PROVE  [Choice!Next]_Choice!vars
<1>1. UNCHANGED <<initPc, initTarget>>
  BY DEF initVars
<1>2. CASE QuietStep
  BY <1>1, <1>2, QuietStepFrame, ChoiceStutter
<1>3. CASE \E r \in {"wait", "dispatch"} :
             pc \in {"check", "wait", "dispatch"} /\ SelectCurrentItem(r)
  <2>1. ~Chosen /\ UNCHANGED marker
    BY <1>3 DEF HandoverInv, MarkerInv, Ended, SelectCurrentItem
  <2>2. QED
    BY <1>1, <2>1, ChoiceManage
<1>4. CASE WriteMarker
  <2>1. target \in Targets /\ marker.file = "absent" /\ UNCHANGED userdata
    BY <1>4 DEF WriteMarker, HandoverInv, MarkerInv, Chosen, Ended
  <2>2. CASE marker' = MarkerCreated(marker) \/ marker' = MarkerWritten(marker, target)
    <3>1. marker'.file = "absent"
      BY <2>1, <2>2 DEF MarkerCreated, MarkerWritten, TypeOK, FileTypeOK
    <3>2. QED
      BY <1>1, <2>1, <3>1 DEF Choice!vars
  <2>3. CASE pc = "rename" /\ marker' = MarkerRenamed(marker)
    <3>1. marker'.file = target /\ target # "absent"
      BY <2>1, <2>3, ImagesAssumption
         DEF HandoverInv, MarkerInv, MarkerRenamed, Targets
    <3>2. Choice!Choose(target)
      BY <1>1, <2>1, <3>1 DEF Choice!Choose
    <3>3. QED
      BY <2>1, <3>2 DEF Choice!Next, Targets
  <2>4. QED
    BY <1>4, <2>2, <2>3 DEF WriteMarker
<1>5. CASE ExitUi \/ ShowBootMessage \/ SleepDone \/ Sighup \/ SighupFatal
  <2>1. UNCHANGED <<marker, userdata>>
    BY <1>5 DEF ExitUi, ShowBootMessage, SleepDone, Sighup, SighupFatal, fileVars
  <2>2. QED
    BY <1>1, <2>1, ChoiceStutter
<1>6. \/ QuietStep
      \/ pc = "check" /\ SelectCurrentItem("wait")
      \/ pc \in {"wait", "dispatch"} /\ SelectCurrentItem("dispatch")
      \/ ExitUi \/ ShowBootMessage \/ WriteMarker \/ SleepDone
      \/ Sighup \/ SighupFatal
  BY DEF UiProcess, UiStep, QuietStep, KeyReleased, CountdownCheck, PowerReleased
<1>7. QED
  BY <1>2, <1>3, <1>4, <1>5, <1>6

LEMMA InitScriptChoice ==
  ASSUME TypeOK, HandoverInv, InitScript
  PROVE  [Choice!Next]_Choice!vars
<1>1. UNCHANGED marker
  BY DEF InitScript, Poll, ReadTarget, Provision, CheckDebuggable, TouchBooting, Advance,
         uiVars, fileVars
<1>2. initPc # "poll" => marker.file = target /\ target \in Targets /\ marker.file # "absent"
                         /\ target # "none"
  BY ImagesAssumption DEF HandoverInv, MarkerInv, Chosen, Targets
<1>3. CASE Poll
  <2>1. UNCHANGED userdata /\ initPc = "poll" /\ initPc' = "read"
    BY <1>3 DEF Poll, uiVars, fileVars
  <2>2. QED
    BY <1>1, <2>1 DEF Choice!vars
<1>4. CASE ReadTarget
  <2>1. UNCHANGED userdata /\ initPc = "read"
    BY <1>4 DEF ReadTarget, uiVars, fileVars
  <2>2. CASE initPc' = "mount"
    <3>1. Choice!Prepare
      BY <1>1, <1>2, <2>1, <2>2 DEF Choice!Prepare
    <3>2. QED
      BY <3>1 DEF Choice!Next
  <2>3. CASE initPc' = "provision"
    BY <1>1, <2>1, <2>3 DEF Choice!vars
  <2>4. QED
    BY <1>4, <2>2, <2>3 DEF ReadTarget
<1>5. CASE Provision
  <2>1. /\ initPc = "provision" /\ initPc' = "mount" /\ initTarget \in Images
        /\ marker.file = initTarget
    BY <1>2, <1>5 DEF Provision, HandoverInv, MarkerInv
  <2>2. readyBar' \in {readyBar, readyBar \cup {initTarget}}
    <3>1. CASE UNCHANGED userdata
      BY <3>1 DEF readyBar
    <3>2. ASSUME NEW f \in Formatted \cup {"none"}, MissingUserdata(initTarget),
                 userdata' = [userdata EXCEPT ![initTarget] = f]
          PROVE  readyBar' \in {readyBar, readyBar \cup {initTarget}}
      BY <2>1, <3>2 DEF readyBar, MissingUserdata, Formatted, TypeOK, FileTypeOK
    <3>3. QED
      BY <1>5, <3>1, <3>2 DEF Provision
  <2>3. Choice!Prepare
    <3>1. {initTarget} \cap Images = {initTarget}
      BY <2>1
    <3>2. QED
      BY <1>1, <1>2, <2>1, <2>2, <3>1 DEF Choice!Prepare, readyBar
  <2>4. QED
    BY <2>3 DEF Choice!Next
<1>6. CASE CheckDebuggable \/ TouchBooting \/ Advance
  <2>1. /\ UNCHANGED <<userdata, initTarget>> /\ initPc # "booted"
        /\ initPc \notin {"poll", "read", "provision"}
        /\ initPc' \notin {"poll", "read", "provision"}
    BY <1>6 DEF CheckDebuggable, TouchBooting, Advance, NextStage, uiVars, fileVars
  <2>2. CASE initPc' = "booted"
    <3>1. initTarget = marker.file
      BY <1>2, <2>1 DEF HandoverInv, MarkerInv
    <3>2. Choice!Boot
      BY <1>1, <1>2, <2>1, <2>2, <3>1 DEF Choice!Boot
    <3>3. QED
      BY <3>2 DEF Choice!Next
  <2>3. CASE initPc' # "booted"
    BY <1>1, <2>1, <2>3 DEF Choice!vars
  <2>4. QED
    BY <2>2, <2>3
<1>7. QED
  BY <1>3, <1>4, <1>5, <1>6 DEF InitScript

(* Every behaviour of the two processes is a behaviour of BootChoice, its  *)
(* fairness left to TLC.                                                   *)
THEOREM ChoiceRefined == Spec => Choice!Init /\ [][Choice!Next]_Choice!vars
<1>1. Init => Choice!Init
  BY DEF Init, UiInit, Choice!Init
<1>2. TypeOK /\ HandoverInv /\ [Next]_vars => [Choice!Next]_Choice!vars
  <2> SUFFICES ASSUME TypeOK, HandoverInv, [Next]_vars PROVE [Choice!Next]_Choice!vars
    OBVIOUS
  <2>1. CASE SdJob \/ UNCHANGED vars
    <3>1. UNCHANGED <<marker, userdata, initPc, initTarget>>
      BY <2>1 DEF SdJob, SdMount, SdNotify, SdGiveUp, vars, uiVars, initVars, fileVars
    <3>2. QED
      BY <3>1, ChoiceStutter
  <2>2. QED
    BY <2>1, UiProcessChoice, InitScriptChoice DEF Next, Terminated
<1>3. QED
  BY <1>1, <1>2, TypeCorrect, HandoverCorrect, PTL DEF Spec
=============================================================================
