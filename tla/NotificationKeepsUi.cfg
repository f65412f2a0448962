CONSTANTS
  u1 = u1
  s1 = s1
  Images = {u1}
  StorageOf <- MCStorageOfOne
  ImagesOn <- MCImagesOnOne
  MAIN_MENU_TIMEOUT = 1
  MaxClock = 2
SPECIFICATION Spec
INVARIANT NotificationKeepsUi
