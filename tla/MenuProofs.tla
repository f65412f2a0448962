----------------------------- MODULE MenuProofs -----------------------------
(***************************************************************************)
(* Proofs about the menus of BootHandover, for all images, storages and    *)
(* timeouts: what is selected is what the menu on screen offers            *)
(* (SelectionMatchesMenu), the main menu's cache knows of the card         *)
(* (MainCacheFresh), the countdown selects the default option only         *)
(* (CountdownSelectsDefault), and no userdata image is touched unasked     *)
(* (UserdataConsent).                                                      *)
(***************************************************************************)
EXTENDS BootHandoverProofs

Refreshing == {"refresh", "populate", "return", "assign", "render"}
AtMenu     == {"check", "loop", "wait", "dispatch"}
Leaving    == {"exit", "clear", "create", "write", "rename", "sleep"}

(* There is a menu while the process is refreshing or waiting, and it is   *)
(* the main one where only the main menu's code is.                        *)
PlaceInv ==
  /\ pc \in Refreshing \cup AtMenu => menu # NullMenu
  /\ pc \in {"populate", "return", "check"} => menu = MainMenu
  /\ pc \in Refreshing /\ ret = "check" => menu = MainMenu

(* The main menu's cache lists nothing that is not there, and is not empty *)
(* once it is filled.                                                      *)
CacheInv ==
  /\ Elements(mainItems) \subseteq Elements(MainList)
  /\ \/ pc = "populate" /\ popNext > 4
     \/ pc = "return"
     \/ mainCached /\ pc \notin {"populate"} \cup Ended
     => mainItems # <<>>

(* A list of items that belongs to menu m. *)
ListOf(m, l) ==
  IF m = MainMenu THEN l # <<>> /\ Elements(l) \subseteq Elements(MainList)
                  ELSE l = FixedList(m)

(* Each copy of a list is one of the current menu from where it is made    *)
(* on, and the selection is an item of it when keys are handled.           *)
ListInv ==
  /\ selected >= 0
  /\ pc = "assign" => ListOf(menu, local)
  /\ pc \in {"render"} \cup AtMenu => ListOf(menu, menuItems)
  /\ pc \in AtMenu => selected + 1 \in DOMAIN menuItems

MenuInv == PlaceInv /\ CacheInv /\ ListInv

(* The signal comes after the card, and from its handling on a list that   *)
(* is complete, or past the place of the card, has the card.               *)
FreshInv ==
  /\ hup # "none" => sdPc = "done"
  /\ pc = "forked" => ~mainCached
  /\ /\ "sdcard" \in paths /\ hup \in {"handled", "lost"}
     /\ \/ pc = "populate" /\ popNext > 3
        \/ mainCached /\ pc \notin {"populate"} \cup Ended
     => ACTION_BOOT_SDCARD \in Elements(mainItems)

(* Whatever moves the selection of the main menu stops the countdown.      *)
CountInv ==
  /\ moved => remaining = -1
  /\ menu = MainMenu /\ remaining # -1 => selected = 0

(* An operation on a userdata image is offered when there is one, and a    *)
(* target that has none is only booted after a "Yes".                      *)
ConsentInv ==
  /\ menu.kind \in {"delete", "format"} => menu.of \in Images /\ userdata[menu.of] # "none"
  /\ /\ pc \in Leaving \/ Chosen
     /\ target \in Images /\ userdata[target] = "none"
     => consent = <<"boot", target>>

-----------------------------------------------------------------------------
(* Lists.                                                                  *)

LEMMA ElementsOfConcat ==
  ASSUME NEW a \in Seq(Nat), NEW b \in Seq(Nat)
  PROVE  Elements(a \o b) = Elements(a) \cup Elements(b)
<1>1. \A k \in 1..Len(a) : (a \o b)[k] = a[k]
  OBVIOUS
<1>2. \A k \in 1..Len(b) : (a \o b)[Len(a) + k] = b[k] /\ Len(a) + k \in 1..Len(a \o b)
  OBVIOUS
<1>3. \A k \in 1..Len(a \o b) : k \in 1..Len(a) \/ k - Len(a) \in 1..Len(b)
  OBVIOUS
<1>4. \A k \in 1..Len(a \o b) : k \notin 1..Len(a) => (a \o b)[k] = b[k - Len(a)]
  OBVIOUS
<1>5. /\ DOMAIN a = 1..Len(a) /\ DOMAIN b = 1..Len(b) /\ DOMAIN (a \o b) = 1..Len(a \o b)
      /\ Len(a \o b) = Len(a) + Len(b)
  OBVIOUS
<1>6. Elements(a \o b) \subseteq Elements(a) \cup Elements(b)
  BY <1>1, <1>3, <1>4, <1>5 DEF Elements
<1>7. Elements(a) \subseteq Elements(a \o b)
  BY <1>1, <1>5 DEF Elements
<1>8. Elements(b) \subseteq Elements(a \o b)
  BY <1>2, <1>5 DEF Elements
<1>9. QED
  BY <1>6, <1>7, <1>8

LEMMA ElementsOfFew ==
  /\ Elements(<<>>) = {}
  /\ \A x : Elements(<<x>>) = {x}
  BY DEF Elements

(* What the main menu offers. *)
MainActions ==
  {a \in {ACTION_BOOT_INTERNAL, ACTION_BOOT_USERDATA, ACTION_BOOT_SDCARD,
          ACTION_REBOOT, ACTION_REBOOT_REC, ACTION_REBOOT_BL} :
     /\ a = ACTION_BOOT_INTERNAL => "internal" \in paths
     /\ a = ACTION_BOOT_USERDATA => "userdata" \in paths
     /\ a = ACTION_BOOT_SDCARD => "sdcard" \in paths}

LEMMA MainEntryElements ==
  /\ \A k \in 1..6 : Elements(MainEntry(k)) \subseteq MainActions
  /\ \A k \in 4..6 : MainEntry(k) # <<>>
  /\ "sdcard" \in paths => ACTION_BOOT_SDCARD \in Elements(MainEntry(3))
  BY ElementsOfFew
     DEF MainEntry, MainActions, ACTION_BOOT_INTERNAL, ACTION_BOOT_USERDATA,
         ACTION_BOOT_SDCARD, ACTION_REBOOT, ACTION_REBOOT_REC, ACTION_REBOOT_BL

LEMMA MainListElements ==
  /\ MainList \in Seq(Nat) /\ MainList # <<>>
  /\ Elements(MainList) = MainActions
<1>1. \A k \in Nat : MainEntry(k) \in Seq(Nat)
  BY MainEntryType
<1>2. ASSUME NEW l \in Seq(Nat), NEW k \in 1..6
      PROVE  l \o MainEntry(k) \in Seq(Nat)
             /\ Elements(l \o MainEntry(k)) = Elements(l) \cup Elements(MainEntry(k))
  BY <1>1, ElementsOfConcat
<1> DEFINE L2 == MainEntry(1) \o MainEntry(2)
           L3 == L2 \o MainEntry(3)
           L4 == L3 \o MainEntry(4)
           L5 == L4 \o MainEntry(5)
           L6 == L5 \o MainEntry(6)
<1> HIDE DEF L2, L3, L4, L5, L6
<1>3. L2 \in Seq(Nat) /\ Elements(L2) = Elements(MainEntry(1)) \cup Elements(MainEntry(2))
  BY <1>1, <1>2 DEF L2
<1>4. L3 \in Seq(Nat) /\ Elements(L3) = Elements(L2) \cup Elements(MainEntry(3))
  BY <1>2, <1>3 DEF L3
<1>5. L4 \in Seq(Nat) /\ Elements(L4) = Elements(L3) \cup Elements(MainEntry(4))
  BY <1>2, <1>4 DEF L4
<1>6. L5 \in Seq(Nat) /\ Elements(L5) = Elements(L4) \cup Elements(MainEntry(5))
  BY <1>2, <1>5 DEF L5
<1>7. L6 \in Seq(Nat) /\ Elements(L6) = Elements(L5) \cup Elements(MainEntry(6))
  BY <1>2, <1>6 DEF L6
<1>8. MainList = L6
  BY DEF MainList, L2, L3, L4, L5, L6
<1>9. Elements(MainList) = UNION {Elements(MainEntry(k)) : k \in 1..6}
  BY <1>3, <1>4, <1>5, <1>6, <1>7, <1>8
<1>10. Elements(MainList) = MainActions
  <2>1. Elements(MainList) \subseteq MainActions
    BY <1>9, MainEntryElements
  <2>2. ASSUME NEW a \in MainActions PROVE \E k \in 1..6 : MainEntry(k) = <<a>>
    BY <2>2 DEF MainActions, MainEntry
  <2>3. MainActions \subseteq Elements(MainList)
    BY <1>9, <2>2, ElementsOfFew
  <2>4. QED
    BY <2>1, <2>3
<1>11. ACTION_REBOOT \in MainActions
  BY DEF MainActions, ACTION_BOOT_INTERNAL, ACTION_BOOT_USERDATA, ACTION_BOOT_SDCARD, ACTION_REBOOT
<1>12. QED
  BY <1>7, <1>8, <1>10, <1>11, ElementsOfFew

LEMMA MainListElementsLater == (Elements(MainList) = MainActions)'
<1>1. Elements(MainList) = MainActions
  BY MainListElements
<1>2. QED
  BY <1>1, PTL

LEMMA FixedListNonEmpty ==
  \A m \in Menus : FixedList(m) # <<>>
<1> SUFFICES ASSUME NEW m \in Menus PROVE FixedList(m) # <<>>
  OBVIOUS
<1>1. CASE m.kind = "images"
  <2>1. m.of \in Storages
    BY <1>1, MenuFields
  <2>2. Len(ImagesOn[m.of]) \in Nat
    BY <2>1, ImagesAssumption
  <2>3. [k \in 1..Len(ImagesOn[m.of]) |-> ACTION_IMAGE_BASE + k - 1] \in Seq(Nat)
    BY <2>2 DEF ACTION_IMAGE_BASE
  <2>4. Len(ImageList(m.of)) = 1 + Len([k \in 1..Len(ImagesOn[m.of]) |-> ACTION_IMAGE_BASE + k - 1])
    BY <2>3 DEF ImageList
  <2>5. QED
    BY <1>1, <2>2, <2>4 DEF FixedList
<1>2. CASE m.kind = "extra"
  BY <1>2 DEF FixedList, ExtraList
<1>3. CASE m.kind \notin {"images", "extra"}
  BY <1>3 DEF FixedList
<1>4. QED
  BY <1>1, <1>2, <1>3

LEMMA ListOfNonEmpty ==
  ASSUME NEW m \in Menus, NEW l, ListOf(m, l)
  PROVE  l # <<>>
  BY FixedListNonEmpty DEF ListOf

-----------------------------------------------------------------------------
(* The steps of the menu process.                                          *)

(* The card is the only thing that comes to the main menu's paths. *)
LEMMA PathsKept ==
  ASSUME UNCHANGED paths
  PROVE  Elements(MainList)' = Elements(MainList)
  BY DEF MainList, MainEntry

LEMMA FixedListKept ==
  ASSUME UNCHANGED userdata, NEW m
  PROVE  FixedList(m)' = FixedList(m)
  BY DEF FixedList, ImageList, ExtraList

LEMMA ListOfKept ==
  ASSUME UNCHANGED <<paths, userdata>>, NEW m, NEW l, ListOf(m, l)
  PROVE  ListOf(m, l)'
  BY PathsKept, FixedListKept DEF ListOf

LEMMA MenuInit == Init => MenuInv
<1> SUFFICES ASSUME Init PROVE MenuInv
  OBVIOUS
<1>1. /\ pc = "forked" /\ mainItems = <<>> /\ mainCached = FALSE /\ selected = 0
  BY DEF Init, UiInit
<1>2. QED
  BY <1>1, ElementsOfFew
     DEF MenuInv, PlaceInv, CacheInv, ListInv, Refreshing, AtMenu

(* A switch to another menu: its refresh starts from nothing. *)
LEMMA MenuSwitch ==
  ASSUME TypeOK, MenuInv, pc \in {"init"} \cup AtMenu, UNCHANGED <<mainVars, paths>>,
         menu' # NullMenu, selected' = 0, pc' = "refresh", ret' # "check"
  PROVE  MenuInv'
<1>1. PlaceInv'
  BY DEF PlaceInv, Refreshing, AtMenu
<1>2. CacheInv'
  BY PathsKept DEF MenuInv, CacheInv, AtMenu, mainVars, Ended
<1>3. ListInv'
  BY DEF ListInv, AtMenu
<1>4. QED
  BY <1>1, <1>2, <1>3 DEF MenuInv

(* The process leaves the menus. *)
LEMMA MenuLeft ==
  ASSUME TypeOK, MenuInv, UNCHANGED <<mainVars, paths, selected>>,
         pc \notin {"populate"} \cup Ended \/ pc' \in Ended,
         pc' \notin Refreshing \cup AtMenu
  PROVE  MenuInv'
<1>1. PlaceInv'
  BY DEF PlaceInv, Refreshing, AtMenu
<1>2. CacheInv'
  BY PathsKept DEF MenuInv, CacheInv, Refreshing, mainVars
<1>3. ListInv'
  BY DEF MenuInv, ListInv, Refreshing, AtMenu
<1>4. QED
  BY <1>1, <1>2, <1>3 DEF MenuInv

(* A step from one statement at the menu to another. *)
LEMMA MenuRested ==
  ASSUME TypeOK, MenuInv, pc \in AtMenu, pc' \in {"loop", "wait", "dispatch"},
         UNCHANGED <<mainVars, menu, menuItems, paths, userdata>>,
         selected' + 1 \in DOMAIN menuItems, selected' >= 0
  PROVE  MenuInv'
<1>1. PlaceInv'
  BY DEF MenuInv, PlaceInv, Refreshing, AtMenu
<1>2. CacheInv'
  BY PathsKept DEF MenuInv, CacheInv, AtMenu, mainVars, Ended
<1>3. ListOf(menu, menuItems)'
  BY ListOfKept DEF MenuInv, ListInv
<1>4. ListInv'
  BY <1>3 DEF ListInv, AtMenu
<1>5. QED
  BY <1>1, <1>2, <1>4 DEF MenuInv

(* refreshMenu() begins, for the menu on screen. *)
LEMMA MenuRefreshed ==
  ASSUME TypeOK, MenuInv, pc \in AtMenu, pc' = "refresh",
         UNCHANGED <<mainVars, menu, paths>>, selected' >= 0,
         menu = MainMenu
  PROVE  MenuInv'
<1>1. PlaceInv'
  BY DEF PlaceInv, Refreshing, AtMenu, MainMenu, NullMenu
<1>2. CacheInv'
  BY PathsKept DEF MenuInv, CacheInv, AtMenu, mainVars, Ended
<1>3. ListInv'
  BY DEF ListInv, AtMenu
<1>4. QED
  BY <1>1, <1>2, <1>3 DEF MenuInv

LEMMA SwitchTargets ==
  /\ MainMenu # NullMenu
  /\ \A o, l : /\ ImageSelectionMenu(o) # NullMenu /\ ExtraOptionsMenu(o, l) # NullMenu
               /\ BootConfirmationMenu(o, l) # NullMenu
               /\ DeleteDataConfirmationMenu(o, l) # NullMenu
               /\ FormatDataConfirmationMenu(o, l) # NullMenu
  /\ \A m \in Menus : m.kind \in {"extra"} \cup ConfirmationKinds => LastMenu(m) # NullMenu
<1>1. /\ MainMenu # NullMenu
      /\ \A o, l : /\ ImageSelectionMenu(o) # NullMenu /\ ExtraOptionsMenu(o, l) # NullMenu
                   /\ BootConfirmationMenu(o, l) # NullMenu
                   /\ DeleteDataConfirmationMenu(o, l) # NullMenu
                   /\ FormatDataConfirmationMenu(o, l) # NullMenu
  BY DEF MainMenu, NullMenu, ImageSelectionMenu, ExtraOptionsMenu, BootConfirmationMenu,
         DeleteDataConfirmationMenu, FormatDataConfirmationMenu
<1>2. ASSUME NEW m \in Menus, m.kind \in {"extra"} \cup ConfirmationKinds
      PROVE  LastMenu(m) # NullMenu
  <2>1. m.last \in {"main", "images", "extra"}
    BY <1>2 DEF Menus, ConfirmationKinds, NullMenu, MainMenu
  <2>2. QED
    BY <1>1, <2>1 DEF LastMenu
<1>3. QED
  BY <1>1, <1>2

(* Selecting an item switches to another menu, or leaves the menus. *)
LEMMA SelectOutcome ==
  ASSUME TypeOK, NEW r \in {"wait", "dispatch"}, SelectCurrentItem(r)
  PROVE  \/ menu' # NullMenu /\ selected' = 0 /\ pc' = "refresh" /\ ret' = r
         \/ pc' \in {"exit", "rebooted", "aborted"} /\ UNCHANGED <<menu, selected>>
<1>1. PICK a : \/ SelectOnMain(a, r) \/ SelectImage(a, r)
               \/ SelectExtra(a, r) \/ SelectConfirmation(a, r)
  BY DEF SelectCurrentItem
<1> USE SwitchTargets DEF BootTarget, SwitchTo, SwitchMenu, RefreshThen
<1>2. CASE SelectOnMain(a, r)
  BY <1>2 DEF SelectOnMain
<1>3. CASE SelectImage(a, r)
  BY <1>3 DEF SelectImage, BootTargetWithConfirmation
<1>4. menu.kind \in {"extra"} \cup ConfirmationKinds => LastMenu(menu) # NullMenu
  BY DEF TypeOK, MenuTypeOK
<1>5. CASE SelectExtra(a, r)
  BY <1>4, <1>5 DEF SelectExtra, BootTargetWithConfirmation
<1>6. CASE SelectConfirmation(a, r)
  BY <1>4, <1>6 DEF SelectConfirmation, RemoveFails
<1>7. QED
  BY <1>1, <1>2, <1>3, <1>5, <1>6

LEMMA MenuSelect ==
  ASSUME TypeOK, MenuInv, NEW r \in {"wait", "dispatch"}, pc \in AtMenu, SelectCurrentItem(r)
  PROVE  MenuInv'
<1>1. UNCHANGED <<mainVars, paths>>
  BY DEF SelectCurrentItem
<1>2. CASE menu' # NullMenu /\ selected' = 0 /\ pc' = "refresh" /\ ret' = r
  BY <1>1, <1>2, MenuSwitch
<1>3. CASE pc' \in {"exit", "rebooted", "aborted"} /\ UNCHANGED <<menu, selected>>
  BY <1>1, <1>3, MenuLeft DEF AtMenu, Refreshing, Ended
<1>4. QED
  BY <1>2, <1>3, SelectOutcome

LEMMA MenuExtraOptions ==
  ASSUME TypeOK, MenuInv, pc \in {"wait", "dispatch"}, VolumeDownLongPressed
  PROVE  MenuInv'
<1>1. UNCHANGED <<mainVars, menuItems, paths, userdata>>
  BY DEF VolumeDownLongPressed, fileVars
<1>2. \/ menu' # NullMenu /\ selected' = 0 /\ pc' = "refresh" /\ ret' = "dispatch"
      \/ pc' = "dispatch" /\ UNCHANGED <<menu, selected>>
  BY SwitchTargets
     DEF VolumeDownLongPressed, SelectExtraOptions, SwitchMenu, RefreshThen
<1>3. CASE menu' # NullMenu /\ selected' = 0 /\ pc' = "refresh" /\ ret' = "dispatch"
  BY <1>1, <1>3, MenuSwitch DEF AtMenu
<1>4. CASE pc' = "dispatch" /\ UNCHANGED <<menu, selected>>
  BY <1>1, <1>4, MenuRested DEF MenuInv, ListInv, AtMenu
<1>5. QED
  BY <1>2, <1>3, <1>4

LEMMA MenuMove ==
  ASSUME TypeOK, MenuInv, pc \in {"wait", "dispatch"}, VolumeUpReleased \/ VolumeDownReleased
  PROVE  MenuInv'
<1>1. PICK s \in {Above(selected), Below(selected)} : MoveSelection(s)
  BY DEF VolumeUpReleased, VolumeDownReleased
<1>2. selected \in Int /\ selected >= 0 /\ menuItems \in Seq(Nat) /\ selected + 1 \in DOMAIN menuItems
  BY DEF TypeOK, MenuTypeOK, MenuInv, ListInv, AtMenu
<1>3. s >= 0 /\ s + 1 \in DOMAIN menuItems
  BY <1>1, <1>2 DEF Above, Below
<1>4. selected' = s /\ UNCHANGED <<mainVars, menu, menuItems, paths, userdata>>
  BY <1>1 DEF MoveSelection, fileVars
<1>5. CASE menu = MainMenu
  <2>1. pc' = "refresh"
    BY <1>1, <1>5 DEF MoveSelection, RefreshThen
  <2>2. ret' = "dispatch"
    BY <1>1, <1>5 DEF MoveSelection, RefreshThen
  <2>3. QED
    BY <1>3, <1>4, <1>5, <2>1, MenuRefreshed DEF AtMenu
<1>6. CASE menu # MainMenu
  <2>1. pc' = "dispatch"
    BY <1>1, <1>6 DEF MoveSelection
  <2>2. QED
    BY <1>3, <1>4, <2>1, MenuRested DEF AtMenu
<1>7. QED
  BY <1>5, <1>6

LEMMA MenuRefreshing ==
  ASSUME TypeOK, MenuInv,
         RefreshBegin \/ PopulateStep \/ ReturnItems \/ AssignItems \/ RefreshEnd
  PROVE  MenuInv'
<1>1. /\ UNCHANGED <<ret, menu, paths, userdata>> /\ pc \in Refreshing
      /\ pc' \in Refreshing \cup {ret}
  BY DEF RefreshBegin, PopulateStep, ReturnItems, AssignItems, RefreshEnd, menuVars,
         fileVars, Refreshing
<1>2. PlaceInv'
  BY <1>1 DEF MenuInv, PlaceInv, Refreshing, AtMenu, RefreshBegin, PopulateStep, ReturnItems,
              AssignItems, RefreshEnd, TypeOK, MenuTypeOK
<1>3. mainItems \in Seq(Nat) /\ selected \in Int /\ menuItems \in Seq(Nat) /\ menu \in Menus
      /\ ret \in {"loop", "check", "wait", "dispatch"}
  BY DEF TypeOK, MenuTypeOK
<1>4. CASE RefreshBegin
  <2>1. UNCHANGED <<menuItems, selected>>
    BY <1>4 DEF RefreshBegin
  <2>2. CASE menu = MainMenu /\ ~mainCached
    <3>1. mainItems' = <<>> /\ popNext' = 1 /\ pc' = "populate"
      BY <1>4, <2>2 DEF RefreshBegin
    <3>2. CacheInv'
      BY <1>1, <3>1, PathsKept, ElementsOfFew DEF CacheInv
    <3>3. ListInv'
      BY <2>1, <3>1 DEF MenuInv, ListInv, AtMenu
    <3>4. QED
      BY <1>2, <3>2, <3>3 DEF MenuInv
  <2>3. CASE menu = MainMenu /\ mainCached
    <3>1. UNCHANGED mainVars /\ pc' = "return" /\ pc = "refresh"
      BY <1>4, <2>3 DEF RefreshBegin
    <3>2. CacheInv'
      BY <1>1, <2>3, <3>1, PathsKept DEF MenuInv, CacheInv, mainVars, Ended
    <3>3. ListInv'
      BY <2>1, <3>1 DEF MenuInv, ListInv, AtMenu
    <3>4. QED
      BY <1>2, <3>2, <3>3 DEF MenuInv
  <2>4. CASE menu \notin {MainMenu, NullMenu}
    <3>1. UNCHANGED mainVars /\ pc' = "assign" /\ local' = FixedList(menu) /\ pc = "refresh"
      BY <1>4, <2>4 DEF RefreshBegin
    <3>2. CacheInv'
      BY <1>1, <3>1, PathsKept DEF MenuInv, CacheInv, mainVars, Ended
    <3>3. ListOf(menu, local)'
      BY <1>1, <2>4, <3>1, FixedListKept DEF ListOf
    <3>4. ListInv'
      BY <2>1, <3>1, <3>3 DEF MenuInv, ListInv, AtMenu
    <3>5. QED
      BY <1>2, <3>2, <3>4 DEF MenuInv
  <2>5. QED
    BY <1>4, <2>2, <2>3, <2>4 DEF RefreshBegin
<1>5. CASE PopulateStep
  <2>1. /\ pc = "populate" /\ mainItems' = mainItems \o MainEntry(popNext)
        /\ pc' \in {"populate", "return"} /\ UNCHANGED <<mainCached, selected>>
        /\ IF popNext = 6 THEN pc' = "return" /\ popNext' = 1
                          ELSE pc' = "populate" /\ popNext' = popNext + 1
    BY <1>5 DEF PopulateStep, MainEntries, menuVars
  <2>2. popNext \in 1..6
    BY DEF TypeOK, MenuTypeOK, MainEntries
  <2>3. MainEntry(popNext) \in Seq(Nat)
    BY <2>2, MainEntryType
  <2>4. Elements(mainItems \o MainEntry(popNext)) = Elements(mainItems) \cup Elements(MainEntry(popNext))
    BY <1>3, <2>3, ElementsOfConcat
  <2>5. Elements(MainEntry(popNext)) \subseteq Elements(MainList)
    BY <2>2, MainEntryElements, MainListElements
  <2>6. Elements(mainItems') = Elements(mainItems) \cup Elements(MainEntry(popNext))
    BY <2>1, <2>4
  <2>7. Elements(mainItems)' \subseteq Elements(MainList)'
    BY <1>1, <2>5, <2>6, PathsKept DEF MenuInv, CacheInv, Elements
  <2>8. popNext > 3 => MainEntry(popNext) # <<>>
    BY <2>2, MainEntryElements
  <2>9. popNext > 3 => mainItems' # <<>>
    BY <1>3, <2>1, <2>3, <2>8
  <2>10. CacheInv'
    BY <2>1, <2>2, <2>7, <2>9 DEF CacheInv, Ended
  <2>11. ListInv'
    BY <2>1 DEF MenuInv, ListInv, AtMenu
  <2>12. QED
    BY <1>2, <2>10, <2>11 DEF MenuInv
<1>6. CASE ReturnItems
  <2>1. /\ pc = "return" /\ pc' = "assign" /\ local' = mainItems
        /\ UNCHANGED <<mainVars, menuItems, selected>>
    BY <1>6 DEF ReturnItems
  <2>2. menu = MainMenu /\ mainItems # <<>> /\ Elements(mainItems) \subseteq Elements(MainList)
    BY <2>1 DEF MenuInv, PlaceInv, CacheInv
  <2>3. ListOf(menu, local)'
    BY <1>1, <2>1, <2>2, PathsKept DEF ListOf, Elements
  <2>4. CacheInv'
    BY <1>1, <2>1, <2>2, PathsKept DEF MenuInv, CacheInv, mainVars
  <2>5. ListInv'
    BY <2>1, <2>3 DEF MenuInv, ListInv, AtMenu
  <2>6. QED
    BY <1>2, <2>4, <2>5 DEF MenuInv
<1>7. CASE AssignItems
  <2>1. /\ pc = "assign" /\ pc' = "render" /\ menuItems' = local
        /\ UNCHANGED <<mainVars, selected>>
    BY <1>7 DEF AssignItems
  <2>2. ListOf(menu, local)
    BY <2>1 DEF MenuInv, ListInv
  <2>3. ListOf(menu, menuItems)'
    BY <1>1, <2>1, <2>2, ListOfKept
  <2>4. CacheInv'
    BY <1>1, <2>1, PathsKept DEF MenuInv, CacheInv, mainVars, Ended
  <2>5. ListInv'
    BY <2>1, <2>3 DEF MenuInv, ListInv, AtMenu
  <2>6. QED
    BY <1>2, <2>4, <2>5 DEF MenuInv
<1>8. CASE RefreshEnd
  <2>1. /\ pc = "render" /\ pc' = ret /\ UNCHANGED <<mainVars, menuItems>>
        /\ selected' = Min2(selected, Len(menuItems) - 1)
    BY <1>8 DEF RefreshEnd, Draw
  <2>2. ListOf(menu, menuItems) /\ selected >= 0
    BY <2>1 DEF MenuInv, ListInv
  <2>3. menuItems # <<>>
    BY <1>3, <2>2, ListOfNonEmpty
  <2>4. selected' >= 0 /\ selected' + 1 \in DOMAIN menuItems
    BY <1>3, <2>1, <2>2, <2>3 DEF Min2
  <2>5. ListOf(menu, menuItems)'
    BY <1>1, <2>1, <2>2, ListOfKept
  <2>6. CacheInv'
    BY <1>1, <1>3, <2>1, PathsKept DEF MenuInv, CacheInv, mainVars, Ended
  <2>7. ListInv'
    BY <1>3, <2>1, <2>4, <2>5 DEF ListInv, AtMenu
  <2>8. QED
    BY <1>2, <2>6, <2>7 DEF MenuInv
<1>9. QED
  BY <1>4, <1>5, <1>6, <1>7, <1>8

LEMMA MenuLoop ==
  ASSUME TypeOK, MenuInv,
         LoopIteration \/ EventsDone \/ Tick \/ (pc = "check" /\ pc' = "wait" /\ CountdownCheck)
  PROVE  MenuInv'
<1>1. CASE Tick
  <2>1. UNCHANGED <<procVars, mainVars, menuVars, paths, userdata>>
    BY <1>1 DEF Tick, fileVars
  <2>2. ListOf(menu, local) => ListOf(menu, local)'
    BY <2>1, ListOfKept DEF menuVars
  <2>3. ListOf(menu, menuItems) => ListOf(menu, menuItems)'
    BY <2>1, ListOfKept DEF menuVars
  <2>4. PlaceInv' /\ CacheInv'
    BY <2>1, PathsKept DEF MenuInv, PlaceInv, CacheInv, procVars, mainVars, menuVars
  <2>5. ListInv'
    BY <2>1, <2>2, <2>3 DEF MenuInv, ListInv, procVars, menuVars
  <2>6. QED
    BY <2>4, <2>5 DEF MenuInv
<1>2. CASE LoopIteration /\ menu = MainMenu /\ pc' = "refresh"
  BY <1>2, MenuRefreshed DEF LoopIteration, menuVars, AtMenu, MenuInv, ListInv
<1>3. CASE pc \in AtMenu /\ pc' \in {"wait", "loop"} /\ UNCHANGED <<mainVars, menuVars, paths, userdata>>
  BY <1>3, MenuRested DEF menuVars, MenuInv, ListInv
<1>4. LoopIteration => \/ menu = MainMenu /\ pc' = "refresh"
                       \/ /\ pc \in AtMenu /\ pc' \in {"wait", "loop"}
                          /\ UNCHANGED <<mainVars, menuVars, paths, userdata>>
  BY DEF LoopIteration, RefreshThen, fileVars, AtMenu
<1>5. EventsDone => /\ pc \in AtMenu /\ pc' \in {"wait", "loop"}
                    /\ UNCHANGED <<mainVars, menuVars, paths, userdata>>
  BY DEF EventsDone, fileVars, AtMenu
<1>6. CASE pc = "check" /\ pc' = "wait" /\ CountdownCheck
  <2>1. ~ SelectCurrentItem("wait")
    BY <1>6, SelectOutcome
  <2>2. UNCHANGED <<mainVars, menuVars, paths, userdata>>
    BY <1>6, <2>1 DEF CountdownCheck, fileVars
  <2>3. QED
    BY <1>3, <1>6, <2>2 DEF AtMenu
<1>7. QED
  BY <1>1, <1>2, <1>3, <1>4, <1>5, <1>6

LEMMA MenuStart ==
  ASSUME TypeOK, MenuInv, ExecProcess \/ InstallHandler \/ CreateMainMenu \/ ShowMainMenu
  PROVE  MenuInv'
<1>1. UNCHANGED <<mainVars, paths>>
  BY DEF ExecProcess, InstallHandler, CreateMainMenu, ShowMainMenu
<1>2. CASE ShowMainMenu
  BY <1>1, <1>2, MenuSwitch, SwitchTargets DEF ShowMainMenu, SwitchMenu, RefreshThen
<1>3. CASE ExecProcess \/ InstallHandler \/ CreateMainMenu
  BY <1>1, <1>3, MenuLeft
     DEF ExecProcess, InstallHandler, CreateMainMenu, menuVars, Refreshing, AtMenu, Ended
<1>4. QED
  BY <1>2, <1>3 DEF ShowMainMenu

LEMMA MenuExit ==
  ASSUME TypeOK, MenuInv, ExitUi \/ ShowBootMessage \/ WriteMarker \/ SleepDone
  PROVE  MenuInv'
<1>1. UNCHANGED <<mainVars, paths, selected>>
  BY DEF ExitUi, ShowBootMessage, WriteMarker, SleepDone, menuVars
<1>2. pc \in {"exit", "clear", "create", "write", "rename", "sleep"}
  BY DEF ExitUi, ShowBootMessage, WriteMarker, SleepDone
<1>3. pc' \in {"clear", "create", "write", "rename", "sleep", "exited"}
  BY DEF ExitUi, ShowBootMessage, WriteMarker, SleepDone
<1>4. QED
  BY <1>1, <1>2, <1>3, MenuLeft DEF Refreshing, AtMenu, Ended

LEMMA MenuSighup ==
  ASSUME TypeOK, MenuInv, Sighup
  PROVE  MenuInv'
<1>1. /\ pc \in Running \cup Blocked /\ pc' = AfterSighup(pc) /\ SighupHandler
      /\ UNCHANGED <<ret, popNext, menu, local, paths, userdata>>
  BY DEF Sighup, fileVars
<1>2. /\ pc \notin Ended
      /\ pc' \in Refreshing <=> pc \in Refreshing
      /\ pc' \in AtMenu <=> pc \in AtMenu
      /\ \A l \in {"populate", "return", "check", "assign", "render"} : pc' = l <=> pc = l
  BY <1>1 DEF AfterSighup, Running, Blocked, Ended, Refreshing, AtMenu
<1>3. selected \in Int /\ selected >= 0 /\ menu \in Menus
  BY DEF TypeOK, MenuTypeOK, MenuInv, ListInv
<1>4. PlaceInv'
  BY <1>1, <1>2 DEF MenuInv, PlaceInv
<1>5. /\ \A m, l : ListOf(m, l) => ListOf(m, l)'
      /\ Elements(MainList)' = Elements(MainList)
  BY <1>1, ListOfKept, PathsKept
<1>6. CASE menu = MainMenu
  <2>1. /\ mainItems' = MainList /\ menuItems' = MainList
        /\ selected' = Min2(selected, Len(MainList) - 1)
    BY <1>1, <1>6, SwitchTargets DEF SighupHandler, Draw
  <2>2. Len(MainList) \in Nat /\ Len(MainList) >= 1 /\ DOMAIN MainList = 1..Len(MainList)
    BY MainListElements
  <2>3. selected' >= 0 /\ selected' + 1 \in DOMAIN MainList
    BY <1>3, <2>1, <2>2 DEF Min2
  <2>4. CacheInv'
    BY <1>5, <2>1, MainListElements DEF CacheInv, Elements
  <2>5. ListOf(menu, menuItems)'
    BY <1>1, <1>5, <1>6, <2>1, MainListElements DEF ListOf, Elements
  <2>6. pc = "assign" => ListOf(menu, local)'
    BY <1>1, <1>5 DEF MenuInv, ListInv
  <2>7. ListInv'
    BY <1>2, <2>1, <2>3, <2>5, <2>6 DEF ListInv
  <2>8. QED
    BY <1>4, <2>4, <2>7 DEF MenuInv
<1>7. CASE menu \notin {MainMenu, NullMenu}
  <2>1. /\ mainItems' = <<>> /\ mainCached' = FALSE /\ menuItems' = FixedList(menu)
        /\ selected' = Min2(selected, Len(FixedList(menu)) - 1)
    BY <1>1, <1>7 DEF SighupHandler, Draw, ResetCache
  <2>2. FixedList(menu) \in Seq(Nat) /\ FixedList(menu) # <<>>
    BY <1>3, FixedListNonEmpty, FixedListType, MenuFields
  <2>3. selected' >= 0 /\ selected' + 1 \in DOMAIN FixedList(menu)
    BY <1>3, <2>1, <2>2 DEF Min2
  <2>4. CacheInv'
    BY <1>2, <1>7, <2>1, ElementsOfFew DEF CacheInv, MenuInv, PlaceInv
  <2>5. ListOf(menu, menuItems)'
    BY <1>1, <1>7, <2>1, FixedListKept DEF ListOf
  <2>6. pc = "assign" => ListOf(menu, local)'
    BY <1>1, <1>5 DEF MenuInv, ListInv
  <2>7. ListInv'
    BY <1>2, <2>1, <2>3, <2>5, <2>6 DEF ListInv
  <2>8. QED
    BY <1>4, <2>4, <2>7 DEF MenuInv
<1>8. CASE menu = NullMenu
  <2>1. /\ mainItems' = <<>> /\ mainCached' = FALSE /\ UNCHANGED selected
    BY <1>1, <1>8, SwitchTargets DEF SighupHandler, ResetCache
  <2>2. pc \notin Refreshing \cup AtMenu
    BY <1>8 DEF MenuInv, PlaceInv
  <2>3. CacheInv'
    BY <1>2, <2>1, <2>2, ElementsOfFew DEF CacheInv, Refreshing, AtMenu
  <2>4. ListInv'
    BY <1>2, <1>3, <2>1, <2>2 DEF ListInv, Refreshing, AtMenu
  <2>5. QED
    BY <1>4, <2>3, <2>4 DEF MenuInv
<1>9. QED
  BY <1>6, <1>7, <1>8

LEMMA MenuSighupFatal ==
  ASSUME TypeOK, MenuInv, SighupFatal
  PROVE  MenuInv'
  BY MenuLeft DEF SighupFatal, menuVars, Ended, Refreshing, AtMenu

(* Userdata images are made only when the menu is gone. *)
LEMMA MenuScript ==
  ASSUME TypeOK, HandoverInv, MenuInv, InitScript
  PROVE  MenuInv'
<1>1. UNCHANGED <<procVars, mainVars, menuVars, paths>>
  BY DEF InitScript, Poll, ReadTarget, Provision, CheckDebuggable, TouchBooting, Advance, uiVars
<1>2. initPc = "provision" => pc \notin Refreshing \cup AtMenu
  BY DEF HandoverInv, MarkerInv, Refreshing, AtMenu, Ended
<1>3. initPc # "provision" => UNCHANGED userdata
  BY DEF InitScript, Poll, ReadTarget, Provision, CheckDebuggable, TouchBooting, Advance,
         uiVars, fileVars
<1>4. PlaceInv' /\ CacheInv'
  BY <1>1, PathsKept DEF MenuInv, PlaceInv, CacheInv, procVars, mainVars, menuVars
<1>5. CASE initPc = "provision"
  <2>1. ListInv'
    BY <1>1, <1>2, <1>5 DEF MenuInv, ListInv, procVars, menuVars, Refreshing, AtMenu
  <2>2. QED
    BY <1>4, <2>1 DEF MenuInv
<1>6. CASE initPc # "provision"
  <2>1. /\ ListOf(menu, local) => ListOf(menu, local)'
        /\ ListOf(menu, menuItems) => ListOf(menu, menuItems)'
    BY <1>1, <1>3, <1>6, ListOfKept DEF menuVars
  <2>2. ListInv'
    BY <1>1, <2>1 DEF MenuInv, ListInv, procVars, menuVars
  <2>3. QED
    BY <1>4, <2>2 DEF MenuInv
<1>7. QED
  BY <1>5, <1>6

LEMMA MenuCard ==
  ASSUME TypeOK, MenuInv, SdJob
  PROVE  MenuInv'
<1>1. /\ UNCHANGED <<procVars, mainVars, menuVars, userdata>>
      /\ paths' \in {paths, paths \cup {"sdcard"}}
  BY DEF SdJob, SdMount, SdNotify, SdGiveUp, uiVars, fileVars
<1>2. MainActions \subseteq MainActions'
  BY <1>1 DEF MainActions, ACTION_BOOT_INTERNAL, ACTION_BOOT_USERDATA, ACTION_BOOT_SDCARD,
              ACTION_REBOOT, ACTION_REBOOT_REC, ACTION_REBOOT_BL
<1>3. Elements(MainList)' = MainActions'
  BY MainListElementsLater
<1>4. Elements(MainList) \subseteq Elements(MainList)'
  BY <1>2, <1>3, MainListElements
<1>5. \A m, l : ListOf(m, l) => ListOf(m, l)'
  BY <1>1, <1>4, FixedListKept DEF ListOf
<1>6. PlaceInv' /\ CacheInv'
  BY <1>1, <1>4 DEF MenuInv, PlaceInv, CacheInv, procVars, mainVars, menuVars, Elements
<1>7. /\ ListOf(menu, local) => ListOf(menu, local)'
      /\ ListOf(menu, menuItems) => ListOf(menu, menuItems)'
  BY <1>1, <1>5 DEF menuVars
<1>8. ListInv'
  BY <1>1, <1>7 DEF MenuInv, ListInv, procVars, menuVars
<1>9. QED
  BY <1>6, <1>8 DEF MenuInv

LEMMA MenuStutter ==
  ASSUME TypeOK, MenuInv, UNCHANGED vars
  PROVE  MenuInv'
<1>1. UNCHANGED <<procVars, mainVars, menuVars, paths, userdata>>
  BY DEF vars, uiVars, fileVars
<1>2. /\ ListOf(menu, local) => ListOf(menu, local)'
      /\ ListOf(menu, menuItems) => ListOf(menu, menuItems)'
  BY <1>1, ListOfKept DEF menuVars
<1>3. PlaceInv' /\ CacheInv'
  BY <1>1, PathsKept DEF MenuInv, PlaceInv, CacheInv, procVars, mainVars, menuVars
<1>4. ListInv'
  BY <1>1, <1>2 DEF MenuInv, ListInv, procVars, menuVars
<1>5. QED
  BY <1>3, <1>4 DEF MenuInv

LEMMA MenuUi ==
  ASSUME TypeOK, MenuInv, UiProcess
  PROVE  MenuInv'
<1>1. CASE KeyReleased
  BY <1>1, MenuMove, MenuExtraOptions, MenuSelect DEF KeyReleased, PowerReleased, AtMenu
<1>2. CASE CountdownCheck
  BY <1>2, MenuSelect, MenuLoop DEF CountdownCheck, AtMenu
<1>3. CASE UiStep /\ ~CountdownCheck
  BY <1>3, MenuStart, MenuRefreshing, MenuLoop, MenuExit DEF UiStep
<1>4. CASE Sighup \/ SighupFatal \/ Tick
  BY <1>4, MenuSighup, MenuSighupFatal, MenuLoop
<1>5. QED
  BY <1>1, <1>2, <1>3, <1>4 DEF UiProcess

LEMMA MenuStep == TypeOK /\ HandoverInv /\ MenuInv /\ [Next]_vars => MenuInv'
  BY MenuUi, MenuScript, MenuCard, MenuStutter DEF Next, Terminated

(* The menu on screen, the main menu's cache and each copy of an item list *)
(* belong together in every reachable state, SIGHUP or not.                *)
THEOREM MenuCorrect == Spec => []MenuInv
<1>1. Init => MenuInv
  BY MenuInit
<1>2. TypeOK /\ HandoverInv /\ MenuInv /\ [Next]_vars => MenuInv'
  BY MenuStep
<1>3. QED
  BY <1>1, <1>2, TypeCorrect, HandoverCorrect, PTL DEF Spec

(* Whatever the signal does in the middle of a refresh, and wherever keys  *)
(* lead, what can be selected when a key is handled is an item of the      *)
(* current menu.                                                           *)
THEOREM SelectionCorrect == Spec => []SelectionMatchesMenu
<1>1. TypeOK /\ MenuInv => SelectionMatchesMenu
  BY DEF MenuInv, PlaceInv, ListInv, ListOf, SelectionMatchesMenu, AtMenu
<1>2. QED
  BY <1>1, TypeCorrect, MenuCorrect, PTL

-----------------------------------------------------------------------------
(* The card in the cache.                                                  *)

LEMMA FreshInit == Init => FreshInv
  BY DEF Init, UiInit, FreshInv

(* Steps that leave the cache alone. *)
LEMMA FreshKept ==
  ASSUME TypeOK, FreshInv, UNCHANGED <<mainVars, paths, hup>>,
         sdPc' = sdPc \/ hup = "none",
         \/ pc' = pc
         \/ pc \notin {"populate"} \cup Ended /\ pc' # "populate"
         \/ pc' \in Ended,
         pc' # "forked" \/ pc = "forked"
  PROVE  FreshInv'
  BY DEF FreshInv, mainVars, Ended

LEMMA FreshUi ==
  ASSUME TypeOK, MenuInv, FreshInv, UiProcess, UNCHANGED <<initVars, sdPc>>
  PROVE  FreshInv'
<1>1. CASE RefreshBegin
  <2>1. UNCHANGED <<paths, hup>> /\ pc = "refresh" /\ pc' \in {"populate", "return", "assign"}
    BY <1>1 DEF RefreshBegin
  <2>2. CASE pc' = "populate"
    <3>1. popNext' = 1
      BY <1>1, <2>2 DEF RefreshBegin
    <3>2. QED
      BY <2>1, <2>2, <3>1 DEF FreshInv
  <2>3. CASE pc' # "populate"
    <3>1. UNCHANGED mainVars
      BY <1>1, <2>3 DEF RefreshBegin
    <3>2. QED
      BY <2>1, <2>3, <3>1 DEF FreshInv, mainVars, Ended
  <2>4. QED
    BY <2>2, <2>3
<1>2. CASE PopulateStep
  <2>1. /\ pc = "populate" /\ mainItems' = mainItems \o MainEntry(popNext)
        /\ UNCHANGED <<paths, hup, mainCached>> /\ popNext \in 1..6
        /\ \/ popNext = 6 /\ pc' = "return"
           \/ pc' = "populate" /\ popNext' = popNext + 1
    BY <1>2 DEF PopulateStep, MainEntries, TypeOK, MenuTypeOK
  <2>2. MainEntry(popNext) \in Seq(Nat) /\ mainItems \in Seq(Nat)
    BY <2>1, MainEntryType DEF TypeOK, MenuTypeOK
  <2>3. Elements(mainItems \o MainEntry(popNext)) = Elements(mainItems) \cup Elements(MainEntry(popNext))
    BY <2>2, ElementsOfConcat
  <2>4. "sdcard" \in paths /\ hup \in {"handled", "lost"} /\ popNext >= 3 =>
          ACTION_BOOT_SDCARD \in Elements(mainItems)'
    <3>1. Elements(mainItems)' = Elements(mainItems) \cup Elements(MainEntry(popNext))
      BY <2>1, <2>3 DEF Elements
    <3>2. CASE popNext = 3
      BY <3>1, <3>2, MainEntryElements
    <3>3. CASE popNext # 3
      BY <2>1, <3>1, <3>3 DEF FreshInv
    <3>4. QED
      BY <3>2, <3>3
  <2>5. QED
    BY <2>1, <2>4 DEF FreshInv
<1>3. CASE Sighup
  <2>1. /\ pc \in Running \cup Blocked /\ pc' = AfterSighup(pc) /\ SighupHandler
        /\ UNCHANGED <<menu, paths>> /\ hup = "pending"
    BY <1>3 DEF Sighup
  <2>2. /\ pc' = "populate" <=> pc = "populate"
        /\ pc' # "forked"
    BY <2>1 DEF AfterSighup, Running, Blocked
  <2>3. sdPc = "done"
    BY <2>1 DEF FreshInv
  <2>4. CASE menu = MainMenu
    <3>1. mainItems' = MainList
      BY <2>1, <2>4, SwitchTargets DEF SighupHandler
    <3>2. "sdcard" \in paths => ACTION_BOOT_SDCARD \in Elements(MainList)
      BY MainListElements DEF MainActions, ACTION_BOOT_INTERNAL, ACTION_BOOT_USERDATA,
         ACTION_BOOT_SDCARD, ACTION_REBOOT, ACTION_REBOOT_REC, ACTION_REBOOT_BL
    <3>3. QED
      BY <2>1, <2>2, <2>3, <3>1, <3>2 DEF FreshInv, Elements
  <2>5. CASE menu # MainMenu
    <3>1. mainCached' = FALSE /\ pc # "populate"
      BY <2>1, <2>5 DEF SighupHandler, ResetCache, MenuInv, PlaceInv
    <3>2. QED
      BY <2>1, <2>2, <2>3, <3>1 DEF FreshInv
  <2>6. QED
    BY <2>4, <2>5
<1>4. CASE SighupFatal
  BY <1>4 DEF SighupFatal, FreshInv, Ended, mainVars
<1>5. CASE KeyReleased \/ CountdownCheck
  <2>1. /\ UNCHANGED <<mainVars, paths, hup>> /\ pc \in AtMenu
        /\ pc' \in {"refresh", "exit", "rebooted", "aborted", "dispatch", "wait"}
    <3>1. CASE \E r \in {"wait", "dispatch"} : SelectCurrentItem(r)
      BY <1>5, <3>1, SelectOutcome DEF KeyReleased, CountdownCheck, SelectCurrentItem, AtMenu
    <3>2. CASE ~ \E r \in {"wait", "dispatch"} : SelectCurrentItem(r)
      BY <1>5, <3>2
         DEF KeyReleased, CountdownCheck, PowerReleased, VolumeUpReleased, VolumeDownReleased,
             VolumeDownLongPressed, MoveSelection, SelectExtraOptions, SwitchMenu, RefreshThen,
             AtMenu
    <3>3. QED
      BY <3>1, <3>2
  <2>2. QED
    BY <2>1, FreshKept DEF AtMenu, Ended
<1>6. CASE \/ ExecProcess \/ InstallHandler \/ CreateMainMenu \/ ShowMainMenu
           \/ ReturnItems \/ AssignItems \/ RefreshEnd
           \/ LoopIteration \/ EventsDone \/ Tick
           \/ ExitUi \/ ShowBootMessage \/ WriteMarker \/ SleepDone
  <2>1. UNCHANGED <<mainVars, paths, hup>>
    BY <1>6 DEF ExecProcess, InstallHandler, CreateMainMenu, ShowMainMenu, ReturnItems,
                AssignItems, RefreshEnd, LoopIteration, EventsDone, Tick, ExitUi,
                ShowBootMessage, WriteMarker, SleepDone
  <2>2. /\ pc \notin {"populate"} \cup Ended
        /\ pc' \notin {"populate", "forked"} \/ pc' = pc
    BY <1>6 DEF ExecProcess, InstallHandler, CreateMainMenu, ShowMainMenu, ReturnItems,
                AssignItems, RefreshEnd, LoopIteration, EventsDone, Tick, ExitUi,
                ShowBootMessage, WriteMarker, SleepDone, SwitchMenu, RefreshThen, procVars,
                Ended, TypeOK, MenuTypeOK
  <2>3. QED
    BY <2>1, <2>2, FreshKept
<1>7. QED
  BY <1>1, <1>2, <1>3, <1>4, <1>5, <1>6 DEF UiProcess, UiStep

LEMMA FreshCard ==
  ASSUME TypeOK, FreshInv, SdJob
  PROVE  FreshInv'
<1>1. UNCHANGED <<procVars, mainVars>>
  BY DEF SdJob, SdMount, SdNotify, SdGiveUp, uiVars
<1>2. CASE SdMount \/ SdGiveUp
  <2>1. hup = "none" /\ UNCHANGED hup
    BY <1>2 DEF SdMount, SdGiveUp, FreshInv, uiVars, TypeOK, FileTypeOK
  <2>2. QED
    BY <1>1, <2>1 DEF FreshInv, procVars, mainVars
<1>3. CASE SdNotify
  <2>1. sdPc' = "done" /\ UNCHANGED paths
        /\ hup' = IF pc \in {"forked"} \cup Ended THEN "lost" ELSE "pending"
    BY <1>3 DEF SdNotify
  <2>2. QED
    BY <1>1, <2>1 DEF FreshInv, procVars, mainVars, Ended
<1>4. QED
  BY <1>2, <1>3 DEF SdJob

LEMMA FreshStep == TypeOK /\ MenuInv /\ FreshInv /\ [Next]_vars => FreshInv'
<1> SUFFICES ASSUME TypeOK, MenuInv, FreshInv, [Next]_vars PROVE FreshInv'
  OBVIOUS
<1>1. CASE InitScript \/ UNCHANGED vars
  <2>1. UNCHANGED <<procVars, mainVars, paths, hup, sdPc>>
    BY <1>1 DEF InitScript, Poll, ReadTarget, Provision, CheckDebuggable, TouchBooting,
                Advance, uiVars, vars
  <2>2. QED
    BY <2>1, FreshKept DEF procVars
<1>2. QED
  BY <1>1, FreshUi, FreshCard DEF Next, Terminated

(* Once the card has been announced the main menu's cache offers it, or    *)
(* will be filled afresh, wherever the signal has met the process.         *)
THEOREM CacheCorrect == Spec => []MainCacheFresh
<1>1. FreshInv => MainCacheFresh
  BY DEF FreshInv, MainCacheFresh
<1>2. Init => FreshInv
  BY FreshInit
<1>3. TypeOK /\ MenuInv /\ FreshInv /\ [Next]_vars => FreshInv'
  BY FreshStep
<1>4. QED
  BY <1>1, <1>2, <1>3, TypeCorrect, MenuCorrect, PTL DEF Spec

-----------------------------------------------------------------------------
(* The countdown.                                                          *)

LEMMA CountdownStopped ==
  ASSUME CountInv, UNCHANGED moved, remaining' \in {remaining, -1},
         \/ UNCHANGED <<menu, selected>>
         \/ selected' = 0
         \/ menu' # MainMenu
         \/ remaining' = -1
  PROVE  CountInv'
  BY DEF CountInv

LEMMA CountDraw ==
  ASSUME CountInv, UNCHANGED <<moved, menu>>, NEW l, Draw(l)
  PROVE  CountInv'
  BY CountdownStopped DEF Draw, ActiveItemChanged

LEMMA CountSelect ==
  ASSUME TypeOK, CountInv, NEW r \in {"wait", "dispatch"}, SelectCurrentItem(r)
  PROVE  CountInv'
<1>1. UNCHANGED moved
  BY DEF SelectCurrentItem
<1>2. remaining' \in {remaining, -1}
  BY DEF SelectCurrentItem, SelectOnMain, SelectImage, SelectExtra, SelectConfirmation
<1>3. QED
  BY <1>1, <1>2, SelectOutcome, CountdownStopped

LEMMA CountKey ==
  ASSUME TypeOK, CountInv, KeyReleased
  PROVE  CountInv'
<1>1. CASE PowerReleased
  BY <1>1, CountSelect DEF PowerReleased
<1>2. CASE VolumeDownLongPressed
  <2>1. UNCHANGED <<moved, remaining>> /\ (UNCHANGED <<menu, selected>> \/ selected' = 0)
    BY <1>2 DEF VolumeDownLongPressed, SelectExtraOptions, SwitchMenu, RefreshThen
  <2>2. QED
    BY <2>1, CountdownStopped
<1>3. ASSUME NEW s, MoveSelection(s) PROVE CountInv'
  <2>1. CASE menu = MainMenu
    BY <1>3, <2>1 DEF MoveSelection, ActiveItemChanged, CountInv
  <2>2. CASE menu # MainMenu
    BY <1>3, <2>2 DEF MoveSelection, ActiveItemChanged, CountInv
  <2>3. QED
    BY <2>1, <2>2
<1>4. QED
  BY <1>1, <1>2, <1>3 DEF KeyReleased, VolumeUpReleased, VolumeDownReleased

LEMMA CountUi ==
  ASSUME TypeOK, CountInv, UiProcess
  PROVE  CountInv'
<1>1. CASE KeyReleased
  BY <1>1, CountKey
<1>2. CASE CountdownCheck
  <2>1. CASE SelectCurrentItem("wait")
    BY <2>1, CountSelect
  <2>2. CASE ~ SelectCurrentItem("wait")
    BY <1>2, <2>2, CountdownStopped DEF CountdownCheck, menuVars, history
  <2>3. QED
    BY <2>1, <2>2
<1>3. CASE LoopIteration
  <2>1. UNCHANGED <<menu, selected, moved>> /\ (remaining # -1 \/ UNCHANGED remaining)
    BY <1>3 DEF LoopIteration, menuVars, history
  <2>2. QED
    BY <2>1 DEF CountInv
<1>4. CASE RefreshEnd
  BY <1>4, CountDraw DEF RefreshEnd
<1>5. CASE Sighup
  <2>1. UNCHANGED <<menu, moved>>
    BY <1>5 DEF Sighup, history
  <2>2. (\E l : Draw(l)) \/ UNCHANGED <<selected, remaining>>
    BY <1>5 DEF Sighup, SighupHandler
  <2>3. QED
    BY <2>1, <2>2, CountDraw, CountdownStopped
<1>6. CASE ShowMainMenu \/ ExitUi
  BY <1>6, CountdownStopped, SwitchTargets
     DEF ShowMainMenu, SwitchMenu, ExitUi, MenuAfterExit, history
<1>7. CASE \/ ExecProcess \/ InstallHandler \/ CreateMainMenu
           \/ RefreshBegin \/ PopulateStep \/ ReturnItems \/ AssignItems
           \/ EventsDone \/ Tick
           \/ ShowBootMessage \/ WriteMarker \/ SleepDone \/ SighupFatal
  <2>1. UNCHANGED <<menu, selected, remaining, moved>>
    BY <1>7 DEF ExecProcess, InstallHandler, CreateMainMenu, RefreshBegin, PopulateStep,
                ReturnItems, AssignItems, EventsDone, Tick, ShowBootMessage, WriteMarker,
                SleepDone, SighupFatal, menuVars, history
  <2>2. QED
    BY <2>1, CountdownStopped
<1>8. QED
  BY <1>1, <1>2, <1>3, <1>4, <1>5, <1>6, <1>7 DEF UiProcess, UiStep

LEMMA CountStep == TypeOK /\ CountInv /\ [Next]_vars => CountInv'
<1> SUFFICES ASSUME TypeOK, CountInv, [Next]_vars PROVE CountInv'
  OBVIOUS
<1>1. CASE InitScript \/ SdJob \/ UNCHANGED vars
  <2>1. UNCHANGED <<menu, selected, remaining, moved>>
    BY <1>1 DEF InitScript, Poll, ReadTarget, Provision, CheckDebuggable, TouchBooting,
                Advance, SdJob, SdMount, SdNotify, SdGiveUp, uiVars, menuVars, history, vars
  <2>2. QED
    BY <2>1, CountdownStopped
<1>2. QED
  BY <1>1, CountUi DEF Next, Terminated

(* However long the menu is used and whenever the signal comes, running    *)
(* out of time selects the main menu's first option, and only if the user  *)
(* has left the selection alone.                                           *)
THEOREM CountdownCorrect == Spec => []CountdownSelectsDefault
<1>1. MenuInv /\ CountInv => CountdownSelectsDefault
  BY DEF MenuInv, PlaceInv, CountInv, CountdownSelectsDefault
<1>2. Init => CountInv
  BY DEF Init, UiInit, CountInv
<1>3. TypeOK /\ CountInv /\ [Next]_vars => CountInv'
  BY CountStep
<1>4. QED
  BY <1>1, <1>2, <1>3, TypeCorrect, MenuCorrect, PTL DEF Spec

-----------------------------------------------------------------------------
(* Consent.                                                                *)

(* Steps that ask for nothing, take nothing and do not start a boot. *)
LEMMA ConsentKept ==
  ASSUME TypeOK, ConsentInv, UNCHANGED <<userdata, target, consent>>,
         menu' = menu \/ menu'.kind \notin {"delete", "format"},
         pc' \in Leaving \/ Chosen' => pc \in Leaving \/ Chosen
  PROVE  ConsentInv'
<1>1. menu'.kind \in {"delete", "format"} => menu'.of \in Images /\ userdata'[menu'.of] # "none"
  BY DEF ConsentInv, Leaving
<1>2. /\ pc' \in Leaving \/ Chosen'
      /\ target \in Images /\ userdata[target] = "none"
      => consent = <<"boot", target>>
  BY DEF ConsentInv, Leaving
<1>3. QED
  BY <1>1, <1>2 DEF ConsentInv, Leaving

LEMMA ConsentQuiet ==
  ASSUME TypeOK, HandoverInv, ConsentInv, QuietStep
  PROVE  ConsentInv'
<1>1. /\ pc' \in MenuLocations
      /\ UNCHANGED <<target, marker, userdata, consent>>
      /\ menu' = menu \/ menu'.kind \in {"main", "extra"}
  BY QuietStepFrame
<1>2. Chosen' => Chosen
  BY <1>1 DEF Chosen
<1>3. QED
  BY <1>1, <1>2, ConsentKept DEF MenuLocations, Leaving

(* "Delete" and "Format" are only offered for an image that is there, and  *)
(* what boots at once has its userdata image.                              *)
LEMMA ConsentSelect ==
  ASSUME TypeOK, HandoverInv, MenuInv, ConsentInv, NEW r \in {"wait", "dispatch"},
         pc \in {"check", "wait", "dispatch"}, SelectCurrentItem(r)
  PROVE  ConsentInv'
<1>1. PICK a \in Elements(menuItems) :
        \/ SelectOnMain(a, r) \/ SelectImage(a, r)
        \/ SelectExtra(a, r) \/ SelectConfirmation(a, r)
  BY DEF SelectCurrentItem, MenuInv, ListInv, AtMenu, Elements
<1>2. menu # MainMenu => menuItems = FixedList(menu)
  BY DEF MenuInv, ListInv, ListOf, AtMenu
<1>3. ~Chosen'
  BY DEF HandoverInv, MarkerInv, Chosen, Ended, SelectCurrentItem
<1>4. LastMenu(menu).kind \notin {"delete", "format"} \/ menu.kind \notin {"extra"} \cup ConfirmationKinds
  BY MenuFields
     DEF ConfirmationKinds, TypeOK, MenuTypeOK, Menus, LastMenu, MainMenu, NullMenu,
         ImageSelectionMenu, ExtraOptionsMenu
<1>5. CASE SelectOnMain(a, r)
  <2>1. UNCHANGED userdata
    BY <1>5 DEF SelectOnMain
  <2>2. \/ menu' = menu
        \/ menu'.kind = "images"
    BY <1>5 DEF SelectOnMain, SwitchTo, SwitchMenu, BootTarget, ImageSelectionMenu
  <2>3. pc' \in Leaving => target' = "internal"
    BY <1>5 DEF SelectOnMain, SwitchTo, SwitchMenu, RefreshThen, BootTarget, Leaving
  <2>4. QED
    BY <1>3, <2>1, <2>2, <2>3, ImagesAssumption DEF ConsentInv, Leaving
<1>6. CASE SelectImage(a, r)
  <2>1. UNCHANGED userdata
    BY <1>6 DEF SelectImage
  <2>2. menu' = menu \/ menu'.kind \in {"main", "boot"}
    BY <1>6 DEF SelectImage, SwitchTo, SwitchMenu, BootTarget, BootTargetWithConfirmation,
                BootConfirmationMenu, MainMenu
  <2>3. pc' \in Leaving => target' \notin Images \/ userdata[target'] # "none"
    BY <1>6 DEF SelectImage, SwitchTo, SwitchMenu, RefreshThen, BootTarget,
                BootTargetWithConfirmation, NeedsUserdataImage, Leaving
  <2>4. QED
    BY <1>3, <2>1, <2>2, <2>3 DEF ConsentInv, Leaving
<1>7. CASE SelectExtra(a, r)
  <2>1. UNCHANGED userdata /\ menu.kind = "extra"
    BY <1>7 DEF SelectExtra
  <2>2. a \in Elements(ExtraList(menu.of))
    BY <1>1, <1>2, <2>1 DEF FixedList, MainMenu
  <2>3. a \in {ACTION_DELETE_DATA, ACTION_FORMAT_DATA} =>
          menu.of \in Images /\ userdata[menu.of] # "none"
    <3>1. CASE menu.of \in Images /\ userdata[menu.of] # "none"
      BY <3>1
    <3>2. CASE ~(menu.of \in Images /\ userdata[menu.of] # "none")
      <4> DEFINE always == <<ACTION_BACK, ACTION_ADB_DEBUGGABLE>>
      <4>1. always \in Seq(Nat) /\ Elements(always) = {1000, 1001}
        BY DEF Elements, ACTION_BACK, ACTION_ADB_DEBUGGABLE
      <4> HIDE DEF always
      <4>2. ExtraList(menu.of) = always \o <<>>
        BY <3>2, Zenon DEF ExtraList, always
      <4>3. a \in {1000, 1001}
        BY <2>2, <4>1, <4>2, ElementsOfConcat, ElementsOfFew
      <4>4. QED
        BY <4>3 DEF ACTION_DELETE_DATA, ACTION_FORMAT_DATA
    <3>3. QED
      BY <3>1, <3>2
  <2>4. CASE a \in {ACTION_DELETE_DATA, ACTION_FORMAT_DATA}
    <3>1. menu'.of = menu.of /\ pc' = "refresh"
      BY <1>7, <2>4
         DEF SelectExtra, SwitchTo, SwitchMenu, RefreshThen, DeleteDataConfirmationMenu,
             FormatDataConfirmationMenu, BootTargetWithConfirmation, BootTarget, ACTION_BACK, ACTION_ADB_DEBUGGABLE,
             ACTION_DELETE_DATA, ACTION_FORMAT_DATA
    <3>2. QED
      BY <1>3, <2>1, <2>3, <2>4, <3>1 DEF ConsentInv, Leaving
  <2>5. CASE a = ACTION_BACK
    <3>1. menu' = LastMenu(menu) /\ pc' = "refresh"
      BY <1>7, <2>5
         DEF SelectExtra, SwitchTo, SwitchMenu, RefreshThen, ACTION_BACK,
             ACTION_ADB_DEBUGGABLE, ACTION_DELETE_DATA, ACTION_FORMAT_DATA
    <3>2. QED
      BY <1>3, <1>4, <2>1, <3>1 DEF ConsentInv, Leaving
  <2>6. CASE a = ACTION_ADB_DEBUGGABLE
    <3>1. menu' = menu \/ menu'.kind = "boot"
      BY <1>7, <2>6
         DEF SelectExtra, SwitchTo, SwitchMenu, BootTarget, BootTargetWithConfirmation,
             BootConfirmationMenu, ACTION_BACK, ACTION_ADB_DEBUGGABLE, ACTION_DELETE_DATA,
             ACTION_FORMAT_DATA
    <3>2. pc' \in Leaving => target' \notin Images \/ userdata[target'] # "none"
      BY <1>7, <2>6
         DEF SelectExtra, SwitchTo, SwitchMenu, RefreshThen, BootTarget,
             BootTargetWithConfirmation, NeedsUserdataImage, Leaving, ACTION_BACK,
             ACTION_ADB_DEBUGGABLE, ACTION_DELETE_DATA, ACTION_FORMAT_DATA
    <3>3. QED
      BY <1>3, <2>1, <3>1, <3>2 DEF ConsentInv, Leaving
  <2>7. QED
    BY <1>7, <2>4, <2>5, <2>6 DEF SelectExtra
<1>8. CASE SelectConfirmation(a, r)
  <2>1. CASE SwitchTo(LastMenu(menu), r)
    <3>1. menu' = LastMenu(menu) /\ pc' = "refresh"
      BY <2>1 DEF SwitchTo, SwitchMenu, RefreshThen
    <3>2. menu.kind \in ConfirmationKinds
      BY <1>8 DEF SelectConfirmation
    <3>3. QED
      BY <1>3, <1>4, <3>1, <3>2 DEF ConsentInv, Leaving
  <2>2. CASE menu.kind = "boot" /\ BootTarget(menu.of, menu.last = "extra")
             /\ consent' = <<menu.kind, menu.of>>
    BY <2>2 DEF BootTarget, ConsentInv, Leaving
  <2>3. CASE RemoveFails /\ UNCHANGED userdata
    BY <1>3, <2>3 DEF RemoveFails, ConsentInv, Leaving
  <2>4. QED
    BY <1>8, <2>1, <2>2, <2>3 DEF SelectConfirmation
<1>9. QED
  BY <1>1, <1>5, <1>6, <1>7, <1>8

LEMMA ConsentBoot ==
  ASSUME TypeOK, ConsentInv, ExitUi \/ ShowBootMessage \/ WriteMarker \/ SleepDone
  PROVE  ConsentInv'
<1>1. UNCHANGED <<userdata, target, consent>>
  BY DEF ExitUi, ShowBootMessage, WriteMarker, SleepDone, fileVars, history
<1>2. menu' = menu \/ menu'.kind \notin {"delete", "format"}
  BY DEF ExitUi, ShowBootMessage, WriteMarker, SleepDone, MenuAfterExit, NullMenu, menuVars
<1>3. pc \in Leaving
  BY DEF ExitUi, ShowBootMessage, WriteMarker, SleepDone, Leaving
<1>4. QED
  BY <1>1, <1>2, <1>3, ConsentKept

LEMMA ConsentSignal ==
  ASSUME TypeOK, ConsentInv, Sighup \/ SighupFatal
  PROVE  ConsentInv'
<1>1. UNCHANGED <<userdata, target, consent, menu, marker>>
  BY DEF Sighup, SighupFatal, fileVars, history, menuVars
<1>2. pc' \in Leaving => pc \in Leaving
  BY DEF Sighup, SighupFatal, AfterSighup, Leaving
<1>3. QED
  BY <1>1, <1>2, ConsentKept DEF Chosen

(* The script makes an image only where there is none. *)
LEMMA ConsentScript ==
  ASSUME TypeOK, ConsentInv, InitScript
  PROVE  ConsentInv'
<1>1. UNCHANGED <<pc, menu, target, marker, consent>>
  BY DEF InitScript, Poll, ReadTarget, Provision, CheckDebuggable, TouchBooting, Advance,
         uiVars, procVars, menuVars, history, fileVars
<1>2. userdata \in [Images -> {"none", "data", "fresh", "raw"}]
  BY DEF TypeOK, FileTypeOK
<1>3. ASSUME NEW i \in Images, userdata'[i] = "none" PROVE userdata[i] = "none"
  <2>1. CASE UNCHANGED userdata
    BY <1>3, <2>1
  <2>2. CASE userdata' # userdata
    <3>1. MissingUserdata(initTarget)
          /\ \E f \in Formatted \cup {"none"} : userdata' = [userdata EXCEPT ![initTarget] = f]
      BY <2>2 DEF InitScript, Poll, ReadTarget, Provision, CheckDebuggable, TouchBooting,
                  Advance, uiVars, fileVars
    <3>2. QED
      BY <1>2, <1>3, <3>1 DEF MissingUserdata
  <2>3. QED
    BY <2>1, <2>2
<1>4. QED
  BY <1>1, <1>3 DEF ConsentInv, Chosen

LEMMA ConsentStep == TypeOK /\ HandoverInv /\ MenuInv /\ ConsentInv /\ [Next]_vars => ConsentInv'
<1> SUFFICES ASSUME TypeOK, HandoverInv, MenuInv, ConsentInv, [Next]_vars PROVE ConsentInv'
  OBVIOUS
<1>1. CASE UiProcess
  <2>1. \/ QuietStep
        \/ pc = "check" /\ SelectCurrentItem("wait")
        \/ pc \in {"wait", "dispatch"} /\ SelectCurrentItem("dispatch")
        \/ ExitUi \/ ShowBootMessage \/ WriteMarker \/ SleepDone
        \/ Sighup \/ SighupFatal
    BY <1>1 DEF UiProcess, UiStep, QuietStep, KeyReleased, CountdownCheck, PowerReleased
  <2>2. QED
    BY <2>1, ConsentQuiet, ConsentSelect, ConsentBoot, ConsentSignal
<1>2. CASE InitScript
  BY <1>2, ConsentScript
<1>3. CASE SdJob \/ UNCHANGED vars
  <2>1. UNCHANGED <<pc, menu, target, marker, userdata, consent>>
    BY <1>3 DEF SdJob, SdMount, SdNotify, SdGiveUp, uiVars, procVars, menuVars, history,
                fileVars, vars
  <2>2. QED
    BY <2>1, ConsentKept DEF Chosen
<1>4. QED
  BY <1>1, <1>2, <1>3 DEF Next, Terminated

(* No image is made, formatted or deleted by either process unless the     *)
(* last "Yes" was for that operation on that image.                        *)
THEOREM ConsentCorrect == Spec => UserdataConsent
<1>1. TypeOK /\ HandoverInv /\ ConsentInv /\ [Next]_vars
        => [\A i \in Images : userdata'[i] # userdata[i] =>
              consent' = <<UserdataOperation(userdata[i], userdata'[i]), i>>]_vars
  <2> SUFFICES ASSUME TypeOK, HandoverInv, ConsentInv, Next,
                      NEW i \in Images, userdata'[i] # userdata[i]
               PROVE  consent' = <<UserdataOperation(userdata[i], userdata'[i]), i>>
    OBVIOUS
  <2>1. userdata \in [Images -> {"none", "data", "fresh", "raw"}]
    BY DEF TypeOK, FileTypeOK
  <2>2. CASE UiProcess
    <3>1. PICK r \in {"wait", "dispatch"} : SelectCurrentItem(r)
      BY <2>2, QuietStepFrame
         DEF UiProcess, UiStep, QuietStep, KeyReleased, CountdownCheck, PowerReleased,
             ExitUi, ShowBootMessage, WriteMarker, SleepDone, Sighup, SighupFatal, fileVars
    <3>2. PICK a : SelectConfirmation(a, r)
      BY <3>1 DEF SelectCurrentItem, SelectOnMain, SelectImage, SelectExtra
    <3>3. consent' = <<menu.kind, menu.of>>
      BY <3>2 DEF SelectConfirmation
    <3>4. \/ menu.kind = "delete" /\ userdata' = [userdata EXCEPT ![menu.of] = "none"]
          \/ /\ menu.kind = "format"
             /\ \E f \in Formatted : userdata' = [userdata EXCEPT ![menu.of] = f]
      BY <3>2 DEF SelectConfirmation
    <3>5. CASE menu.kind = "delete" /\ userdata' = [userdata EXCEPT ![menu.of] = "none"]
      BY <2>1, <3>3, <3>5 DEF UserdataOperation
    <3>6. CASE /\ menu.kind = "format"
               /\ \E f \in Formatted : userdata' = [userdata EXCEPT ![menu.of] = f]
      BY <2>1, <3>3, <3>6 DEF UserdataOperation, Formatted, ConsentInv
    <3>7. QED
      BY <3>4, <3>5, <3>6
  <2>3. CASE InitScript
    <3>1. /\ initPc = "provision" /\ MissingUserdata(initTarget) /\ UNCHANGED consent
          /\ \E f \in Formatted \cup {"none"} :
               userdata' = [userdata EXCEPT ![initTarget] = f]
      BY <2>3 DEF InitScript, Poll, ReadTarget, Provision, CheckDebuggable, TouchBooting,
                  Advance, uiVars, fileVars, history
    <3>2. i = initTarget /\ userdata[i] = "none" /\ userdata'[i] \in Formatted
      BY <2>1, <3>1 DEF MissingUserdata
    <3>3. initTarget = target /\ Chosen
      BY <3>1 DEF HandoverInv, MarkerInv
    <3>4. consent = <<"boot", target>>
      BY <3>2, <3>3 DEF ConsentInv, Leaving
    <3>5. QED
      BY <3>1, <3>2, <3>3, <3>4 DEF UserdataOperation, Formatted
  <2>4. CASE SdJob \/ Terminated
    BY <2>4 DEF SdJob, SdMount, SdNotify, SdGiveUp, Terminated, vars, uiVars, fileVars
  <2>5. QED
    BY <2>2, <2>3, <2>4 DEF Next
<1>2. Init => ConsentInv
  BY ImagesAssumption DEF Init, UiInit, ConsentInv, Chosen, NullMenu
<1>3. TypeOK /\ HandoverInv /\ MenuInv /\ ConsentInv /\ [Next]_vars => ConsentInv'
  BY ConsentStep
<1>4. QED
  BY <1>1, <1>2, <1>3, TypeCorrect, HandoverCorrect, MenuCorrect, PTL
     DEF Spec, UserdataConsent
=============================================================================
