CONSTANTS
  Texts = {1, 3, 11}
  Titles = {1, 5}
  ExtraTexts = {1, 5}
  MaxItems = 4
  screen_height = 21
  font_height = 2
  characters_per_line = 2
SPECIFICATION Spec
INVARIANTS
  TypeOK
  SelectedInView
  EndsOnScreen
  RoomIsUsed
PROPERTY ScrollsOnlyIfNeeded
