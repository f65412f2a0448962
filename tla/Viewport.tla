------------------------------ MODULE Viewport ------------------------------
(***************************************************************************)
(* Which part of a menu paralloid_ui draws: the scrolling of ui.cpp.       *)
(*                                                                         *)
(* A text is the number of its characters, on one line.  A menu item is    *)
(* its title, a text.  Lengths on the screen are in pixels.                *)
(***************************************************************************)
EXTENDS Integers, Sequences, FiniteSets, FiniteSetsExt

CONSTANTS
  Texts,               \* the lengths of item titles
  Titles,              \* the lengths of menu titles
  ExtraTexts,          \* the lengths of the texts below a menu
  MaxItems,            \* bound: the items of a menu
  screen_height,
  font_height,
  characters_per_line

ASSUME ScreenAssumption ==
  /\ Texts \subseteq Nat \ {0} /\ Titles \subseteq Nat \ {0}
  /\ ExtraTexts \subseteq Nat \ {0}
  /\ MaxItems \in Nat \ {0} /\ screen_height \in Nat
  /\ font_height \in Nat \ {0} /\ characters_per_line \in Nat \ {0}

MENU_ITEM_PADDING == font_height \div 2
DIVIDER_MARGIN    == font_height \div 2

Lists == UNION {[1..n -> Texts] : n \in 1..MaxItems}

(* What getExtraText() returns: 0 is no text. *)
Extras == ExtraTexts \union {0}

VARIABLES
  menu_title,          \* 0 before the first menu
  menu_items,          \* a sequence: item i of the code is menu_items[i + 1]
  menu_extra_text,
  selected_item,
  first_rendered_item,
  last_item,           \* the last item the last rendering drew
  bottom               \* cur_y at the end of that rendering

vars == <<menu_title, menu_items, menu_extra_text, selected_item,
          first_rendered_item, last_item, bottom>>

Last == Len(menu_items) - 1

(***************************************************************************)
(* Text.  What renderText() draws is found independently of what           *)
(* measureTextHeight() expects.                                            *)
(***************************************************************************)
(* Mutant of MeasureTextHeight: the last, shorter line is forgotten. *)
WholeLines(text) == (text \div characters_per_line) * font_height

MeasureTextHeight(text) ==
  LET lines == text \div characters_per_line
      rest  == IF text % characters_per_line # 0 THEN 1 ELSE 0
  IN (lines + rest) * font_height

RenderedHeight[text \in Nat] ==
  IF text <= characters_per_line THEN font_height
  ELSE font_height + RenderedHeight[text - characters_per_line]

(* What measureItemHeight() expects of each item, and what is drawn for it. *)
MeasureItemHeight(items) ==
  [k \in DOMAIN items |-> 2 * MENU_ITEM_PADDING + MeasureTextHeight(items[k])]

RenderedItemHeight(items) ==
  [k \in DOMAIN items |-> 2 * MENU_ITEM_PADDING + RenderedHeight[items[k]]]

(* acc_height behind the first n of some heights, and over those of the    *)
(* items from first to last.                                               *)
Accumulated(heights) ==
  LET acc[n \in 0..Len(heights)] == IF n = 0 THEN 0 ELSE acc[n - 1] + heights[n]
  IN acc

Extent(heights, first, last) == Accumulated(heights)[last + 1] - Accumulated(heights)[first]

(* The height of the items from first to last, as drawn, and of the extra  *)
(* text, which takes as many lines as it needs.                            *)
DrawnHeight(items, first, last) == Extent(RenderedItemHeight(items), first, last)

ExtraHeight(extra) == IF extra = 0 THEN 0 ELSE RenderedHeight[extra]

(* cur_y behind the second divider. *)
ItemsEnd(title, items, first, last) ==
  RenderedHeight[title] + 2 * DIVIDER_MARGIN
    + DrawnHeight(items, first, last) + 2 * DIVIDER_MARGIN

(* The height left for items below the title and the first divider, above *)
(* the second divider and one line: nothing asks how many lines the extra  *)
(* text has.                                                               *)
RemainingHeight(title) ==
  screen_height - (RenderedHeight[title] + 2 * DIVIDER_MARGIN)
                - 2 * DIVIDER_MARGIN - 1 - font_height

(***************************************************************************)
(* The two searches: each loop is left at the first item that does not fit *)
(* in with those before it, one step back, or at the end of the list.      *)
(***************************************************************************)
(* Mutant of Overshot: >= for >, so that an exact fit is none. *)
Filled(height, room) == height >= room

Overshot(height, room) == height > room

ForwardScan(items, first, room) ==
  LET over == {k \in first..Len(items) - 1 :
                 Overshot(Extent(MeasureItemHeight(items), first, k), room)}
  IN IF over = {} THEN Len(items) ELSE Min(over) - 1

BackwardScan(items, last, room) ==
  LET over == {k \in 0..last : Overshot(Extent(MeasureItemHeight(items), k, last), room)}
  IN IF over = {} THEN -1 ELSE Max(over) + 1

(* Mutant of FindLastDisplayableItem: an item that does not fit on its own *)
(* gives way to the one before it.                                         *)
StepsBack(items, first, room) ==
  LET ret == ForwardScan(items, first, room)
  IN IF ret >= Len(items) THEN Len(items) - 1 ELSE ret

FindLastDisplayableItem(items, first, room) ==
  LET ret == ForwardScan(items, first, room)
  IN IF ret < first THEN first
     ELSE IF ret >= Len(items) THEN Len(items) - 1 ELSE ret

FindFirstDisplayableItem(items, last, room) ==
  LET ret == BackwardScan(items, last, room)
  IN IF ret > last THEN last ELSE IF ret < 0 THEN 0 ELSE ret

(***************************************************************************)
(* renderMenu(), on the items, the extra text and the selection the caller *)
(* leaves.                                                                 *)
(***************************************************************************)
(* Mutant of StartItem: a selection above the first item is not followed. *)
KeptItem(selected) == first_rendered_item

StartItem(selected) ==
  IF first_rendered_item > selected THEN selected ELSE first_rendered_item

(* Mutant of LastBelow: nothing is drawn below the selected item. *)
NoneBelow(items, first, selected, room) == selected

LastBelow(items, first, selected, room) == FindLastDisplayableItem(items, first, room)

RenderMenu(title, items, extra, selected) ==
  LET room  == RemainingHeight(title)
      start == StartItem(selected)
      reach == FindLastDisplayableItem(items, start, room)
      back  == FindFirstDisplayableItem(items, selected, room)
  IN /\ IF reach < selected
        THEN first_rendered_item' = back /\ last_item' = LastBelow(items, back, selected, room)
        ELSE first_rendered_item' = start /\ last_item' = reach
     /\ bottom' = ItemsEnd(title, items, first_rendered_item', last_item') + ExtraHeight(extra)

Init ==
  /\ menu_title = 0 /\ menu_items = <<>> /\ menu_extra_text = 0
  /\ selected_item = 0 /\ first_rendered_item = 0 /\ last_item = 0 /\ bottom = 0

Show(title, items, extra, selected) ==
  /\ menu_title' = title /\ menu_items' = items /\ menu_extra_text' = extra
  /\ selected_item' = selected
  /\ RenderMenu(title, items, extra, selected)

SwitchMenu ==
  \E title \in Titles, items \in Lists, extra \in Extras : Show(title, items, extra, 0)

(* The list may have become shorter, or longer, and the extra text another *)
(* one: only the menus without one stay without (ui.h:31, menu.cpp:55).     *)
RefreshMenu ==
  /\ menu_items # <<>>
  /\ \E items \in Lists, extra \in Extras :
       /\ (extra = 0) = (menu_extra_text = 0)
       /\ Show(menu_title, items, extra,
               IF selected_item >= Len(items) THEN Len(items) - 1 ELSE selected_item)

VolumeUp ==
  /\ menu_items # <<>>
  /\ Show(menu_title, menu_items, menu_extra_text,
          IF selected_item > 0 THEN selected_item - 1 ELSE Last)

VolumeDown ==
  /\ menu_items # <<>>
  /\ Show(menu_title, menu_items, menu_extra_text,
          IF selected_item < Last THEN selected_item + 1 ELSE 0)

Next == SwitchMenu \/ RefreshMenu \/ VolumeUp \/ VolumeDown

Spec == Init /\ [][Next]_vars
-----------------------------------------------------------------------------
(* What is kept of a rendering lies within the list it was made from: at() *)
(* of ui.cpp:189 and ui.cpp:285 never throws.                              *)
TypeOK ==
  /\ menu_title \in Titles \union {0}
  /\ menu_items \in Lists \union {<<>>}
  /\ menu_extra_text \in Extras /\ bottom \in Nat
  /\ IF menu_items = <<>> THEN selected_item = 0 /\ first_rendered_item = 0 /\ last_item = 0
     ELSE {selected_item, first_rendered_item, last_item} \subseteq 0..Last

(* The selected item is always among those drawn (ui.cpp:254), also when the *)
(* menu, its items or their heights change under a scrolled view: nothing    *)
(* resets first_rendered_item.                                               *)
SelectedInView ==
  menu_items # <<>> => first_rendered_item <= selected_item /\ selected_item <= last_item

(* Unless a single item is drawn, the items end, with both dividers, at    *)
(* least a line above the bottom of the screen, so that all that is drawn  *)
(* ends on the screen if the extra text is missing or has one line         *)
(* (ui.cpp:259, ui.cpp:294).  Of a longer one, such as the help text of    *)
(* menu.cpp:8 on a narrow screen, every line but one may be below it.      *)
EndsOnScreen ==
  menu_items # <<>> /\ first_rendered_item < last_item =>
    /\ bottom - ExtraHeight(menu_extra_text) + 1 + font_height <= screen_height
    /\ ExtraHeight(menu_extra_text) <= font_height => bottom < screen_height

(* No room is left for the item after the last one drawn (ui.cpp:267-270). *)
RoomIsUsed ==
  menu_items # <<>> /\ last_item < Last =>
    DrawnHeight(menu_items, first_rendered_item, last_item + 1)
      > RemainingHeight(menu_title)

(* The view moves down only if the items from the one drawn first to the *)
(* selected one do not all fit (ui.cpp:263-266).                          *)
ScrollsOnlyIfNeeded ==
  [][first_rendered_item' > first_rendered_item =>
       DrawnHeight(menu_items', first_rendered_item, selected_item')
         > RemainingHeight(menu_title')]_vars
=============================================================================
