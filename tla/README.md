# A TLA+ model of Paralloid

Paralloid boots one of several Android systems on a device. Its `init` script
takes over from the device's first stage, shows a boot menu that is worked with
the volume and power keys, offers a small fastboot daemon over USB, and then
puts the file system in place for the chosen system and executes its init. All
of it runs once per boot, mostly as root, before anything else is up: what goes
wrong here leaves a device that does not boot, or a user without data.

This directory holds TLA+ modules for the parts whose order of events matters,
TLC configurations that check them on small instances, and TLAPS proofs about
the hand-over from the menu to the script, the menus and their scrolling, the mounts,
the fastboot session, the events and the drawing. Every path below is under
`src/`; `jni/` stands for `native/jni/`. The modelled build is the 32-bit one
(`jni/Application.mk`: `armeabi-v7a`).

## Inventory

| Part | State it keeps | Operations | Module |
|---|---|---|---|
| Boot menu, `jni/paralloid_ui` | current menu, its items, selection, cache of the main menu, countdown | key releases, one loop iteration, countdown, SIGHUP handler, choosing, deleting, formatting, exit | `ParalloidUI` |
| Rendering of menus, `jni/paralloid_ui/ui.cpp` | first and last item drawn | switch, refresh, move the selection | `Viewport` |
| Marker files, `jni/libparalloid/utils.cpp` | `/dev/.paralloid_boot_target` and its `.tmp`, `/dev/.paralloid_force_debuggable` | create, write, rename | `ParalloidUI` |
| Images, `jni/libparalloid/images.cpp` | directories on both storages | scan, is it mounted | `ParalloidUI`, `FastbootSession` |
| Boot script, `files/init` | `TARGET`, debuggable or not, `/dev/booting`, images | poll, read, make userdata, mount, move, exec | `BootHandover` |
| sdcard job, `files/init` | the mount of the card | search, mount, signal, give up | `BootHandover` |
| Mount journey, `jni/move_mount_tree` and `files/init` | the mount table | move, bind, pivot, unmount | `MountTree` |
| Fastboot daemon, `jni/minfastbootd` | download buffer, endpoints, command in progress | open the endpoints, getvar, oem, download, flash, reboot, responses | `FastbootSession` |
| Image writer, `jni/minfastbootd/flashing.cpp` | a file, its offset, the chunks left | truncate, seek, write | `Flashing` |
| Events, `jni/minui/events.cpp` | table of descriptors, inotify | wait, dispatch, hot plug | `Events`; `ParalloidUI` as the menu sees it |
| Drawing, `jni/minui/graphics*.cpp`, `resources.cpp` and the routines of `ui.cpp` | `gr_draw`, the ink, two buffers and which is current, per-backend flags and fences | choose a backend, monitor and font; draw, flip, refresh, exit | `DisplaySetup`, `Display`, `MinuiBackend` |
| USB gadget, `files/init` 50-195 | FunctionFS, configfs, UDC, `/dev/.ffs_ready` | wait for the daemon, add the function, write UDC, take apart; connect, disconnect | `UsbGadget`, within `FastbootSession` |
| Overrides, `files/init` 329-423 | bind mounts over files of an image; the files that cover them | one fixed sequence | the mounts in `MountTree` |
| Build, busybox, external projects | none at run time | none | not modelled |

**How the parts interact.** The menu process and the script are two processes
that share nothing but files: the menu creates one marker file, or two, and the
script polls for one of them once a second. The sdcard job is a child of the
script that mounts a card while the menu is on screen and then sends SIGHUP to
every process named `paralloid_ui`. The handler does its work directly, in
signal context: it drops and refills the list that the interrupted code may be
filling. The menu reads the storage's directories, which the daemon writes, but
only when a menu is opened. The daemon tells the script with a marker file that
FunctionFS is initialised, and only then may the script make it part of the gadget;
in the end the script kills the daemon and takes the gadget apart, before it
executes the target's init. Drawing is a library inside the menu process, called
by its one thread and by the handler on the same globals. `move_mount_tree` runs alone, three times, with the
script waiting for it.

**What is hard.** The signal handler between any two statements of the menu;
the marker file read while it is written; a signal before there is a handler,
before there is a process, or after the menu has said goodbye; a countdown
running under other menus; action IDs that are reused between menus; userdata
images made by one process and deleted by the other; an image that arrives in
several downloads, each flashed by a call that truncates the file; clients that
are aborted or unplugged in the middle; 32-bit lengths; a scroll position that
outlives the list it was computed for; a list of mounts to move computed before
the first one is moved, with every failure ignored; a flip of the display that is
interrupted while it waits, and two buffers of which the code remembers in two
variables which one is shown; a USB function that is ignored if it comes too
early. `PROJECT.json` lists each of
these at the line where it bites, with the properties that guard it.

**What makes each part correct.**

- Hand-over: the script boots the whole target that was chosen, and as
  debuggable if that was asked for; no userdata image changes without a
  confirmation for that operation on that image; something is booted in the end.
- Menu: a selection means what it says on the menu on screen, the countdown
  selects only the default option of an untouched main menu, the signal adds
  the card.
- Scrolling: the selected item is on screen, the screen is full, the items do not
  run past its end, and the view stays put unless it must move.
- Mounts: the booted system finds every first-stage mount where it was, its own
  partitions, and nothing else but the files overridden in an image; the system
  partition is free for flashing.
- Fastboot: what the client was told is flashed, is in the file, and nothing of
  an older image follows it; a client nobody disturbs gets an answer.
- Gadget: fastboot is part of what the host sees.
- Drawing: the internal panel is chosen if there is one; what is on the screen is
  the menu as it is, in one piece, and after the choice no menu at all.
- Events: a keyboard is found whenever it appears, and its keys act once.

## Modules

```
BootChoice  <== refined by ==  BootHandover  -- EXTENDS -->  ParalloidUI
                                    ^
         MenuProofs --> BootHandoverProofs              (MCBootHandover)
FastbootProofs --> FastbootSession  -- EXTENDS -->  Flashing, UsbGadget
                                                    (MCFastbootSession)
MinuiBackend  <== refined by ==  Display  -- EXTENDS -->  DisplaySetup
                                                        (MCDisplay)
EventsProofs --> Events     FrameProofs --> DisplayProofs --> Display
ViewportProofs --> Viewport
MountTreeProofs --> MountTree                           (MCMountTree)
```

**`ParalloidUI`** is the menu process. It has one thread, but the handler can
run between any two of its statements. So each statement that reads or writes
what the handler also touches is a step, and `pc` is the next one:
`refreshMenu()` (`ui.cpp:114`) is `RefreshBegin`, `PopulateStep` (one per
`push_back`), `ReturnItems`, `AssignItems` and `RefreshEnd`;
`createMarkerFile()` is `create`, `write` and `rename`. Statements between
which the handler makes no difference are merged. Menus are records of a kind, what they are about
and the menu to go back to; items are their action IDs with the values of
`menu.h`, so that a confusion of two menus would show. `Sighup` is the handler
as it runs when it works; `SighupFatal` is the end of the process, by the
default disposition, by the null `main_menu`, or because a handler that
allocates and draws inside code doing the same has no defined behaviour. Both
are possible wherever the code allows both. `RemoveFails` is the `fs::remove()`
that throws, which ends the process too. Titles, wording, colours and logging
are left out.

**`BootHandover`** adds the script from the launch of the menu to the exec, and
the sdcard job. `Poll`, `ReadTarget`, `Provision`, `CheckDebuggable` and
`TouchBooting` are the statements that read or write shared state; `Advance`
stands for the stretches of `files/init` in between. The mounts inside those
stretches are `MountTree`'s.

**`BootChoice`** is what the two promise together, in four variables and four
actions: a target is chosen at most once, its userdata is prepared, perhaps in
vain, and it is the one that boots. `BootHandover` implements it under the
mapping `Choice`: a target is chosen when the marker file has its final name.

**`BootHandoverProofs`** and **`MenuProofs`** hold the proofs; see below.

**`Flashing`** is `flashing.cpp` below `FlashHandler()`. A file is a sequence of
blocks, and block *b* of the image has the value *b*, so that data in the wrong
place shows. A buffer is the list of chunks libsparse reports. `RawChunk` is
the `ftruncate()` whose failure is ignored, `WriteSome` one possibly short
`write()`, `SkipChunk` an `lseek64()`. `TruncateLength` computes in 32 bits.

**`FastbootSession`** puts the daemon and one client at a time around it. The
endpoints are synchronous on both sides, so a packet passes in one step.
The client is the ordinary tool: it asks for a variable, downloads and flashes
each piece, may reboot the device in the end, and stops at the first failure. It
may be aborted, the cable pulled,
the daemon killed. Every handler may answer FAIL at each place where the code
may; a response is a list of lines, of which only the last is a status.
`OpenStep` is one step of `InitFunctionFs`, which the daemon repeats whenever
`ExecuteCommands()` has returned; `CloseDevice` is the end of a `FastbootDevice`,
with its buffer. A transfer that waits when the cable is pulled fails
(`torn`); one begun without a connection may fail or wait.

**`UsbGadget`** is the other side of that: the script waits for
`/dev/.ffs_ready`, at most `FfsWaitLimit` seconds, adds the function, writes UDC,
and takes it all apart after it has killed the daemon. Whether the kernel ignores
the function when it is added is what `init:131` says: it does, unless
the daemon has written its descriptors. When the last endpoint is closed the kernel
may unbind the gadget, or not.

**`FastbootProofs`** holds the proofs about these three.

**`Viewport`** is the arithmetic of `ui.cpp:140-300` and nothing else. A text is
its length. The height that is *measured* follows `measureTextHeight()`; the
height that is *drawn* follows `renderText()`, defined apart; properties use the
second, so that they compare two computations of the code with each other.
`Accumulated` is the `acc_height` of a loop. `ForwardScan` and `BackwardScan` are the two
loops: each ends at the first item in its direction that does not fit in with those before
it, which is the least, or the greatest, of those that do not.
`FindLastDisplayableItem` and `FindFirstDisplayableItem` add the corrections behind them.
`bottom` is where `renderMenu()` stops drawing. The extra text comes last and is drawn whole (`ui.cpp:294`),
while the height kept free for it is that of one line (`ui.cpp:259`).
**`ViewportProofs`** holds the proofs.

**`MountTree`** is the mount table of the script, in the order of
`/proc/mounts`, from the first line to the exec. Each mount carries whose it is
and the path it was made for, so that at the end one can ask whether it is
there. `MoveMount` is one turn of `move_mount_tree`'s loop, including its
`mkdir()` and the failures it ignores; `GetMountsToMove` is its pass over the
table that decides what is listed, where an entry depends on those listed before it.
The table says what is mounted where, not which mount covers another.
What the first stage mounts, what the script mounts for the system, what the skip
list of that system names and which files of an image are overridden are constants, with three assumptions.
`MountsAssumption`: no path is mounted twice, none is one of Paralloid's own
directories or within one, `/sys` and `/sys/selinux` are mounted, and the first stage leaves
`/product` to the script, as Paralloid's own `skip_mount.cfg` has it (`create.sh:40-46`).
`DeliveryAssumption` is what the code relies on to bring each of them home: a
first-stage mount is at the top of the tree, or below one that is and that is always made before it,
since `mkdir()` makes one directory and a mount takes along what is below it; the
system has a directory for each at the top; the script's partitions are at the top
as well (`files/init:269`); and no skip list names `/sys/selinux`.
`OverridesAssumption`: what is overridden are files, so that nothing else is mounted at or below one.
`EnterTarget` makes these mounts (`Overrides`) for an image, over those of the files that
are there, and then pivots: the binds of `/dev/null` over the checksums of the policy (`files/init:346`), of the `fstab`s
and of the two policy files (`files/init:416-422`), and the ramdisk the latter come from, which stays outside the target.
**`MountTreeProofs`** holds the proofs.

**`Events`** is `minui/events.cpp` from `ev_init()` on, with devices that are
plugged in and pulled out at any time. A device is a node and the time it was
plugged in, since the same name comes back. `table` is `ev_fdinfo` up to
`g_ev_count`; each entry has the keys the kernel holds for that descriptor.
`ScanNode` is one round of `readdir()`, which may or may not show a node made
meanwhile; `LookAtName` one round of `inotify_cb()`, each with an `openat()` of
its own, since the device may be gone by then. What `ev_wait()` returned is
a snapshot that `DispatchInput` works off. `twice` and `passed` are history: the
devices that the code may open twice, and those it drops. **`EventsProofs`** holds
the proofs about it.

**`DisplaySetup`** is what `gr_init()`, the three backends' `Init()` and the
fonts come to, as functions of the hardware: which device of which backend, which
connector, mode and CRTC, which CRTCs are turned off, and the ways to end in an
error or a null pointer. `FindMainMonitor`, `FindCrtc` and
`DisabledCrtcs` are the loops of `graphics_drm.cpp` over connectors and encoders.

**`Display`** is what the menu draws with. A routine (`UI::render()`, `UI::exit()`)
is the list of calls it makes, and each call is a step, so that the handler, which
draws too, can come between any two: inside a flip, too, whose steps are the
ioctl, `poll()`, `drmHandleEvent()`, the change of `current_buffer`, the `return`
and the assignment to `gr_draw`. A surface holds what was drawn on it since it was
last cleared, each part with its ink and the version of the menu it belongs to: a
frame that is old, mixed or incomplete shows. `Refresh` is the display, which takes the next of the
flips it was asked for. Items that are not selected are drawn like the title.
The swap of fbdev is one step, since it has one call that others can see.
The post that ends the `Init()` of ADF may fail like any later one.
`poll()` and `drmHandleEvent()` fail only by EINTR. `disturbed` and
`calm` are history: what is promised only of routines nothing interrupts, or
again after some of those.

**`MinuiBackend`** is the contract of `minui/graphics.h` in three variables: what is
being drawn, what was last flipped, what is on the screen. `Display` implements it
with each of its four backends (ADF, DRM, fbdev with room for two screens, fbdev
with one), up to the first disturbance; `DisplayProofs` proves it.

The `MC` modules only give values to constants. A definition with the comment
"a mutant" is a variant of the one below it with a plausible bug; nothing uses
it, and the mutation entries of `PROJECT.json` say which property finds it.

## What is checked

Runs that pass, each with what it would take to violate it:

| Run | Instance | Asks |
|---|---|---|
| `boot_handover` | two images on two storages, a countdown of 2 s, 3 s of clock; 3.1 million states | is the right target handed over, whatever the order of user, signal, countdown and script? |
| `boot_handover_live` | one image, 1 s, 2 s; 440 thousand states, with fairness | is it booted in the end, and is all of it a `BootChoice`? |
| `fastboot_session` | an image of 6 blocks in 2 pieces over an old file of 7, up to 3 clients, 2 lines of information, a wait of 2; 40 thousand states, with fairness | is fastboot there, and is the image in the file as the client was told? |
| `viewport` | up to 4 items, each 1, 2 or 6 lines, titles of 1 or 3 lines, no extra text or one of 1 or 3 lines, 10 lines of screen; 3 thousand states | is the selection always on a full screen? |
| `events` | a keyboard and another device that share 4 plug-ins, 2 keys, 1 slot for devices found at the start and 3 for others; 340 thousand states, with fairness | is a keyboard found whenever it appears, and does each key act once? |
| `display` | 2396 machines, 4 versions of the menu; 568 thousand states, with fairness | is the menu on the right screen, as it is and whole, whatever interrupts the drawing? |
| `mount_tree` | 8 first-stage mounts, 4 of them optional; 2 partitions; any skip list over 4 paths; 2 files to override; 6.6 thousand states | is every mount where the system looks for it? |

Properties of `boot_handover`: `BootTargetIntact` relates what the script read to
what the menu was choosing and fails as soon as the marker is created in place
instead of renamed. `DebugRequestHonoured` fails if the second marker is made
after the first. `UserdataConsent` is an action property over both processes.
`HandedOverStays` is about a signal after `UI::exit()`. `MainCacheFresh` and
`SelectionMatchesMenu` are about the signal in the middle of a refresh: what the
cache and the list on screen may look like afterwards. `CountdownSelectsDefault`
is about a countdown that ends while the user is elsewhere.

Those of `boot_handover_live`: `ChosenIsBooted`, `UntouchedBootsInternal` (a
device left alone boots the internal system if it has one; the time it takes is
the countdown's) and `ImplementsBootChoice`, liveness of the abstract
specification included.

Those of `fastboot_session`: `FlashedDataKept` (an acknowledged piece is in the
file, and later pieces and their truncations leave it there), `NoStaleTail`,
`FlashesWhatWasSent` (no rest of a failed download, and no command swallowed by
one, is ever flashed for a client that waits), `FastbootOffered` (the marker of
the daemon, the wait of the script and the order of `addGadget` and UDC together:
the function is not ignored), and `ClientFinishes` (from the first `open()` to the
end of a client, if nothing fails).

Those of `viewport`: `SelectedInView`, `EndsOnScreen`, `RoomIsUsed`,
`ScrollsOnlyIfNeeded`. `EndsOnScreen` says what the code provides for and no more: the
items and the two dividers leave a line of the screen free, so that everything is on it if the extra text has
one line or is missing. A longer one may run past the end: the help text of `menu.cpp:8-10` has about
80 characters, which is two or three lines on a phone, and below a full list all but the first of them
may be cut off.

Those of `mount_tree`: `ListIsCurrent`,
`FirstStageDelivered`, `TargetFindsItsOwn` (outside `/debug_ramdisk` there are the first stage, the
system's own mounts and, in an image, overrides of files; no path is mounted twice), `SystemFreed`,
`NullDeviceAtHand`.

Those of `events`: `KeyboardsFound` (none is missed because it appeared at a bad
moment; what the code drops on purpose is in `passed`), `KeysActOnce` (in order,
and twice only for devices that appeared during the scan or while their name
was queued), `KeysHandled` and `HangUpsEnd` (what is unread comes back, what is
gone does not).

Those of `display`: `MainMonitorChosen` (over every pair of 48 kinds of connector:
panels before other screens, the preferred mode, and the chosen CRTC not among those
turned off), `ShownIsLatest` (after any disturbance the menu survives, two undisturbed
routines suffice for the screen to show the menu as it is), `ExitLeavesNoMenu` (in either buffer, if neither
`UI::exit()` nor the routine before it was disturbed; without the second condition it is false, see
`ExitClearsBothBuffers` below), `ImplementsBackend`, and `RoutinesEnd` (no flip of an undisturbed routine
waits for ever; the hang that a signal in `poll()` can cause is in the model, and is not excluded by any property). Deadlock is not
checked there: a machine without a display or a font crashes, a flip that is
interrupted at the wrong moment hangs, and after the boot message all is done.

### Bounds, and why they are enough

- *Images*: menus treat all images of a storage alike; one on each storage makes
  the two lists, their confirmation menus and "the wrong image" differ. The
  liveness run has one image, since its properties are about the path from a
  choice to the exec, which is the same for each.
- *`MaxClock`* caps the seconds the clock counts. It is larger than the countdown, so
  that time goes on after it is over; the countdown is the only reader.
- *`MAIN_MENU_TIMEOUT`* is 20 in the code. One second is enough for it to expire,
  two for it to be seen running, reset and passed.
- *One SIGHUP*: the job sends at most one in a boot.
- *`MaxRuns`*: three clients are one that is disturbed, one that meets what it left
  behind, and one after that.
- *`Pieces`*: the first piece ends in a skip over the second's data, the second begins with one
  over the first's; so each truncation has something of the other to cut. The old file is longer
  than the image so that there is a tail to lose.
- *`WORD`* is 2^32 in blocks; 16 is out of the way of 7 blocks, also as a signed
  number, and 5 is in it.
- *`Texts`*, *`MaxItems`*: items of one, two and six lines, of which two, or one
  but not two, fill the screen; four of them give each search a case in the middle,
  at both ends, and past both ends.
- *Devices*: four plug-ins of one keyboard and one other device let a name come
  back, be queued while it is looked at, and vanish before a queued one; one slot
  and three make both limits be reached and an overrun show. 16 are the same.
- *`FfsWaitLimit`* is 10 in the code; 2 is enough for the marker to come before,
  between and after the looks for it. *`MaxLines`* = 2: none, one or several.
- *`MaxVersion`*: four contents of the menu are one before, one during and two
  after a disturbance, which is what `ShownIsLatest` needs; a fifth would repeat.
- *`MCHardware`*: every pair of 48 connectors on a second DRM device (the first is
  of no use), every combination of ADF, DRM and fbdev that succeeds, has
  too few buffers or fails, and every kind of font file. Priority needs a panel of
  each rank and another screen; more than two connectors compare pairwise. `hardware`
  is forgotten once it has been looked at, so that the states of drawing do not
  multiply.
- *Mounts*: some at the root, some below another mount, before and after it in
  the list, some that the target replaces, some that the skip list drops. Of the two overridden
  files one is below the product image, the other below a mount of the first stage that may be missing.

### Fairness

Weak fairness of the menu's own steps, of the script and of signal delivery:
each is a thread the kernel schedules, and none waits for another while enabled.
Strong fairness of `Tick`: time passes, but the model counts it only next to the
statement that reads the clock, where the process is again and again without
staying. Nothing obliges the user to press a key or a card to be found.
In `Events`: the loop goes on; devices and the user do as they please.
In `FastbootSession`: the daemon and the client it serves go on, the script sets
the gadget up, a host that can configure it does, and a client that
has not started is started; no fairness makes a client give up, the cable
be pulled, or the script kill the daemon. `ClientFinishes` excludes what the
environment does to it by its hypothesis.
In `Display`: both threads go on with their calls and the display refreshes. Nothing
obliges a signal to come or the menu to start.

### Disagreements between the code and what is said of it

Each is a run that TLC must find violated:

- `menu_updated_on_hup`: "Update the menu on SIGHUP" (`main.cpp:8`). A handler that
  runs between `getItems()` and the assignment to `menu_items` has its update
  overwritten by the list from before.
- `notification_keeps_ui`: "Notify the UI process to update the menu"
  (`files/init:241`). It may end the process instead, and the script then polls
  for ever.
- `debuggable_only_when_asked`: "Boot with forced debuggable mode"
  (`menu.cpp:192`). The marker is made before the confirmation and stays after "No".
- `skip_extends_file`: "lseek() beyond the end simply extends the file"
  (`flashing.cpp:28`). It does not; a trailing skipped chunk is missing.
- `truncates_to_chunk_end`: "Truncate the file to the end of the current data
  chunk" (`flashing.cpp:33`). With 32-bit `off_t` the length wraps around.

Seen while reading, without a run of their own.

In the menu: "Selecting default option in N seconds..." (`menu.cpp:58`) is N from before when
one comes back from the extra options of the internal system, and the default is
selected in the next iteration (`SelectsAsAnnounced` in `BootHandover` states it);
a failing `fs::remove()` (`menu.cpp:218`) ends the menu and the
script polls for ever; SIGHUP ends the `sleep(60)` that
holds the DRM device open (`main.cpp:49`); SIGHUP inside `populateItems()`
lists items twice (`ui.h:11`); the list can change between a key and
the item it selects (`ui.h:21`); a refresh keeps the index of the selection, not
the item (`ui.h:42`).

In the mounts: a system without a directory for a first-stage mount never
gets that mount, which stays below `/debug_ramdisk` (`files/init:325`; give
`TargetDirs` fewer members to see `FirstStageDelivered` fail); the `umount` of
`/target/product` (`files/init:311`) comes before anything is mounted there.

In fastboot: `usb_client.cpp:280` passes the beginning of the buffer again for the second
part of a long write, which no response is long enough to reach; a client
aborted while the daemon writes a response leaves it waiting until the cable is
pulled; closing the endpoints after the cable was pulled may unbind the gadget,
nobody writes UDC again, and fastboot may not come back.

In the drawing: a handler that comes between the `return` of a `Flip()` and the
assignment to `gr_draw` (`graphics.cpp:341`) leaves `gr_draw` and the backend's
buffer a frame apart, which the next flip repairs, so that `ShownIsLatest` needs
two routines; if the next routine is `UI::exit()`, its first `gr_flip()` hands out the buffer that was just
cleared, and although nothing disturbs it a menu stays in the other one, the very case that "Switch to the other
buffer and clear it too" (`ui.cpp:94`) is about (`ExitClearsBothBuffers` in `Display` states that comment, and
TLC refutes it as an invariant of `MCDisplay` within seconds; a flip that failed before does the same); SIGHUP inside the `poll()` of a DRM flip makes the next flip fail, which stores a
null `gr_draw` that the next drawing dereferences, or lets the handler read the event
main polls for, and main waits for ever (`graphics_drm.cpp:391`); `main()`
does not look whether `gr_init()` failed, and draws on a null surface;
`DisableNonMainCrtcs()` dereferences the CRTC of connectors that have none; without any font
`UI::init()` divides by zero; ADF never draws with one buffer, although it counts
them, since the error of the second is what `InterfaceInit` returns; a font file
that is cut off in its rows jumps to a frame that is gone; `gr_exit()` on DRM removes
the framebuffers, and the boot message may go with them.

## What is proved

**The hand-over.** In `BootHandoverProofs`, for every set of images, every assignment to the two
storages, every timeout and every bound of the clock, from `ImagesAssumption`
(image names differ from the words the model uses, and each storage lists its
own images) and `TimeAssumption` (the timeout is a positive number of seconds,
within the bound):

| Theorem | States |
|---|---|
| `TypeCorrect` | `Spec => []TypeOK` |
| `HandoverCorrect` | `Spec => []HandoverInv` |
| `BootTargetCorrect` | `Spec => []BootTargetIntact` |
| `DebugRequestCorrect` | `Spec => []DebugRequestHonoured` |
| `BootMessageStays` | `Spec => HandedOverStays` |
| `ChoiceRefined` | `Spec` implies `BootChoice` without its fairness, under `Choice` |

`BootTargetIntact` is not inductive: that the script reads the whole
target depends on what the final marker holds from the rename on, that on what
the temporary one held before it, and that on there being a target since the
selection. `MarkerInv` says this, location by location. `DebugInv` needs that a
confirmation menu opened from the extra options already has the marker behind
it; `ScreenInv` needs that the current menu is null from the boot message on,
because then the handler draws nothing. `HandoverInv` is the conjunction of the three and
is inductive together with `TypeOK`.

The proofs follow the actions: one lemma for each group of actions about types,
one about the invariant. Most actions of the menu neither touch the marker nor
leave the menu; `QuietStep` names that frame, and `QuietStepInv` is proved once for
all of them. `ChoiceRefined` sorts the steps of `Next` into stutters, `Manage`
(the menu's operations on userdata before the choice), `Choose` (the rename),
`Prepare` and `Boot`.

**The menus.** `MenuProofs`, from the same assumptions:

| Theorem | States |
|---|---|
| `MenuCorrect` | `Spec => []MenuInv` |
| `SelectionCorrect` | `Spec => []SelectionMatchesMenu` |
| `CacheCorrect` | `Spec => []MainCacheFresh` |
| `CountdownCorrect` | `Spec => []CountdownSelectsDefault` |
| `ConsentCorrect` | `Spec => UserdataConsent` |

There are three copies of a list: the main menu's cache, what `getItems()`
returned, and `menu_items`. `MenuInv` says, location by location, of which of them it is known
that it belongs to the current menu (`ListInv`), that the cache lists nothing
that is not there and is not empty where it is returned (`CacheInv`), and at
which statements there is a menu at all, and the main one (`PlaceInv`): the
handler fills the cache only on the main menu, and `populateItems()` runs only
there. An update may be lost and items may be there twice, but no item is another menu's.
`FreshInv` follows the card: the job signals after it has mounted it,
and a list begun after the signal, or filled by it, has the card once it is past its
place. `CountInv` says that what moves the selection of the main menu, the
clamp of a refresh included, stops the countdown. `ConsentInv` says that a menu for
deleting or formatting is about an image that exists, which follows from what
`MenuInv` says of the list it was selected from, and that a target without
userdata was confirmed. All of them were checked by TLC before they were proved.

**Fastboot.** `FastbootProofs`, for every image and every way to split it, any
number of clients and any limit of the wait, from `PiecesAssumption`,
`LengthAssumption` and, for the last three, `PiecesInOrder`:

| Theorem | States | If |
|---|---|---|
| `FunctionOffered` | `Spec => []FastbootOffered` | |
| `FlashesSent` | `Spec => []FlashesWhatWasSent` | |
| `FastbootTypesCorrect` | `Spec => []TypeOK` | |
| `FlashedDataStays` | `Spec => []FlashedDataKept` | `ImageLength < WORD` |
| `StaleTailFreed` | `Spec => []NoStaleTail` | `2 * ImageLength < WORD`, and the image has data |

`PiecesInOrder` is what a tool that splits a sparse image sends: the chunks of each piece
follow each other from offset 0 and stay within the image, and the data of an earlier piece is
below that of a later one. Without it a later piece would overwrite an earlier one with reason.
`WORD` stands for 2^32, in blocks: `cur_pos + len` is computed in an unsigned word, and
`ftruncate()` takes it as a signed one, hence the two bounds; the second half of the
word is what `truncates_to_chunk_end` is about.

`OfferInv` adds that until UDC is written no host is there, so that the daemon can
only be opening its endpoints or waiting for its first command, and is past them if
the marker exists. `SentInv` relates the daemon's buffer to what the client has
sent, chunk by chunk, for as long as the client that sends is the one the daemon
receives from, and says at which places the buffer is the client's whole piece.

`FlashingInv` says of a flash in progress where in the piece it is: the offset of the file is
the beginning of the next chunk, or within it with the rest of it left to write (`InPlace`). So every
truncation is to the end of a chunk, and since chunks come in order, which is an induction over
the chunks of a piece, all data of this piece up to the offset and all of the pieces before is below it.
`AnswerInv` carries that from the flash over the OKAY to the client, past a file that other clients
leave alone meanwhile. `TailInv` is about the other end: while nothing has failed and no truncation was
refused, the file ends with the last of the data written so far, or, inside a chunk, with the end of that chunk.

**Scrolling.** `ViewportProofs`, for every screen, font, width, set of texts and length of
lists, from `ScreenAssumption` (the font has a height and a line has room for a character, no text is empty):

| Theorem | States |
|---|---|
| `ViewWithinList` | `Spec => []TypeOK` |
| `SelectionDrawn` | `Spec => []SelectedInView` |
| `MenuEndsOnScreen` | `Spec => []EndsOnScreen` |
| `RoomUsed` | `Spec => []RoomIsUsed` |
| `ScrollingNeeded` | `Spec => ScrollsOnlyIfNeeded` |

`MenuEndsOnScreen` is for every extra text, and says of one with more than a line only that the items and
the dividers leave a line free. The proof has two parts. One is that a text is drawn as high as it was measured, for every length,
though one is a division and the other goes from line to line: an induction over the length. With it,
the sums over the items agree. The other is that these sums grow with each item, so that the item at which a
search ends separates those that fit from those that do not. `Fits` says of a view that it holds the
selection, that all of it fits unless it is one item, and that the next item would not fit; `ViewInv`
adds the types. `RenderFits` is the lemma that `renderMenu()` makes such a view, in either of its two cases.

**The mounts.** `MountTreeProofs`, for every set of first-stage mounts in any order, of
partitions and of skipped paths, from `MountsAssumption`, the last three also from
`DeliveryAssumption`, and for every set of files to override, from `OverridesAssumption`:

| Theorem | States |
|---|---|
| `MountTypesCorrect` | `Spec => []TypeOK` |
| `ListStaysCurrent` | `Spec => []ListIsCurrent` |
| `SystemStaysFree` | `Spec => []SystemFreed` |
| `FirstStageArrives` | `Spec => []FirstStageDelivered` |
| `NullDeviceStays` | `Spec => []NullDeviceAtHand` |
| `TargetFindsAll` | `Spec => []TargetFindsItsOwn` |

`MountsInv` says, for each place of the script, which mounts are where (`Journey`). While
mounts are being moved off `/` that is `Phase`: each is at its own place or at that place below the new root, no
two are at the same, what was copied is not listed again, what is listed belongs to the first stage and is
mounted, and no listed path is below another (`Apart`), which is what "Move operates on subtrees"
(`main.cpp:43`) is for: the move of one listed mount takes along what is below it, and
no other listed mount is. That `GetMountsToMove` makes such a list is an induction over the table, and so
is what `Kept` keeps of one. `SystemAt` says where mounts of the original system are: at `/` until the first
`pivot_root`, then at `/paralloid_oldroot`, and nowhere from the recursive `umount` on.

`Delivery` follows a single mount: in each of the three moves it has arrived, or it waits at
its old place with its top-level mount still in the list (`Comes`), which will take it along to
a directory that is there to be mounted on. `NullAt` is about two: `/sys/selinux` comes behind `/sys` in the
table and so is never listed itself; `/sys` is bound and not moved, so that the
original stays where it was until the script's own `/dev` is mounted.

`OwnInv` keeps account of the whole table for the system that is booted. Until the menu, whatever is not of
the first stage is at one of the few places the script put it (`BeforeTarget`), so that nothing but the first
stage waits below `/target_tmp` and nothing is below `/target`. From then on (`OwnReady`) every entry that is at a
path of the system, or waits below `/target_tmp` to be moved there (`At`), is of the first stage or one of
the system's own; no path has two; each of its own is there; and one that still waits is still listed. A move
leaves each entry at its path (`AtMoved`), so only the two ways to prepare the target have to be accounted for: what is
mounted is at paths no first-stage mount has, and what `umount` takes is what `skip_mount.cfg` names, since nothing is
mounted within a partition (`NothingWithin`). The overrides of an image join the table
only then, each at a path that is none of these (`OverridesAs`, `BootEntries`), and the last `pivot_root` shows these entries, the
overrides and no other.

**The event loop.** `EventsProofs`, for every set of nodes, every number of devices and keys,
and every size of the table:

| Theorem | States |
|---|---|
| `KeysCorrect` | `Spec => []KeysActOnce` |
| `EventTypesCorrect` | `Spec => []TypeOK` |

`LoopInv` follows a device that cannot be found twice: it is to be read by
`readdir()`, or queued, or about to be looked at, or in the table, never two of
these (`InOnePlace`), and never twice in the table (`OneSlot`). So its keys
are all read from one descriptor, in the order they were pressed and after what was
handled (`KeyInv`), and where `epoll_wait()` reported a key there is one as long as the
device is there (`PolledInv`). It needs types as well (`LoopTypeOK`), but not the sizes of the counters.

`TypeOK` is proved on top of it, with `TypesInv`. That every device is one of the
`MaxPlugs` follows from the set of the devices so far (`SoFar`), which grows by one whenever
something is plugged in, and from every queued name being one of theirs (`PlugInv`). That the
two counters add up to the table and stay within their parts of `ev_fdinfo` needs to know
where there is still room: `ev_init()` leaves its loop when the devices' part is
full, and the descriptor of inotify is added when the other part is empty (`CountInv`).

**The drawing.** `DisplayProofs` and `FrameProofs`, for every hardware the menu may find and any
number of contents, from `DisplayAssumption` (the mark of hardware already looked at is
no hardware), `MonitorCorrect` also from `HardwareAssumption` (devices, connectors and
modes come in lists):

| Theorem | States |
|---|---|
| `ScreenTypesCorrect` | `Spec => []TypeOK` |
| `BackendImplemented` | `Spec => ImplementsBackend` |
| `MenuShownAtLast` | `Spec => []ShownIsLatest` |
| `ExitShowsMessage` | `Spec => []ExitLeavesNoMenu` |
| `MonitorCorrect` | `Spec => []MainMonitorChosen` |

What a flip does depends on what is shown, on `gr_draw` and on the backend's own account of
which buffer is current; these agree only at some places. `Stage` names the eight
places where a thread can be, outside `gr_flip()` or at one of the calls inside it, with what the
thread has still to do and what holds of the buffers there: `Ready` (drawing goes to the
surface that is not shown), `Polling`, `Turning`, `Posted` and `Syncing`, and
`Following` from the end of `Flip()` to the assignment to `gr_draw`. `Starting` is the ADF
backend before its first flip, with a surface posted by `Init()` and nothing shown:
drawing there would break the contract, but the two flips of `gr_init()` come first. `FlipInv` says that, as
long as nothing was disturbed, one thread is at such a place and the other has nothing to do.
It was checked by TLC before it was proved. Every step preserves it and is, under
the mapping, a step of `MinuiBackend` or a stutter (`Simulates`). No more is promised by `FlipInv` once a
signal came in the middle of a routine: `FrameInv` says how the code recovers.

`FrameInv` cannot rely on what `FlipInv` says: a disturbance may leave `gr_draw` at the buffer on the
screen, the index of the backend at the other one, page flips pending that nobody waits for, and a
frame half drawn. It speaks of two surfaces only: `Target`, the one the backend will flip, and
`Latest`, the one the screen shows once every pending flip is done. A flip makes `Target` the
`Latest`, in whatever order flips and refreshes come, so the only thing to be repaired is that
`gr_draw` is not the `Target`, and the assignment at the end of any undisturbed `gr_flip()` repairs it
(`Coherent`). So after one undisturbed routine (`Steady`) what is drawn is what will be flipped, and
after the second one what was flipped is a frame drawn from its beginning. The calls that are left
of a routine act as its program counter: `Rendering` has a disjunct for each of the ten suffixes of
`Render`, `Leaving` for each of the eight of `Exit`, `Starts` for those of the start, with the ink
and the strokes on `gr_draw` there; `InFlip` and `Flipped` say the same inside `gr_flip()`; `Resting`
says what has been promised between two routines. `Place` is their disjunction, and `Orderly` says that
one thread is at a place and the other has nothing to do. That holds whenever no routine is under way
that was disturbed (`calm >= 0`). `FbdevShows`, which holds always, is what is special about
fbdev: its flips are never pending, and without room for two screens it shows the first. For the boot message, `Wiped` carries over the second clear
that the buffer already flipped is blank, which is why neither buffer keeps a menu. `FrameInv` was checked by
TLC over the instance of `display` before it was proved; then each kind of call has a lemma, which takes
one suffix to the next.

`MonitorCorrect` needs no state: it is about what `DrmInit` returns for lists of any
length. `First` is the least of a set of positions, which exists because `<` is
well-founded on `Nat`. So the first `k` for which a usable connector has the `k`-th
type of `ConnectorPriority` is the best rank among the usable ones, and the first preferred
mode is found if there is one.

**Inductions.** The theorems of the library about induction take an operator as a parameter, which
the provers cannot instantiate. Where an induction is needed it is stated about sets: a set of
numbers that has 0 and with each number the next is all of `Nat` (`NatInduct`), from the fact that `<` is
well-founded; what a recursive function computes is then compared with a function that
is proved to exist.

**Only model-checked.** All liveness, which is out of the prover's reach, and so the
fairness part of `ImplementsBootChoice`. Every invariant that a run checks is proved.

## What is not modelled, and why

- Of the drawing library: pixel formats, the shapes of glyphs, blanking, rotation,
  and what only other programs call (`gr_blit`, `gr_texticon`, the other
  `res_create_*` and localised bitmaps).
- `ev_exit()` and the iterators over keys in `minui/events.cpp`: nothing calls
  them. Failures of `epoll_ctl()` and of memory there. `ParalloidUI` has
  `ev_wait()` and `ev_dispatch()` as the menu sees them: no event, or some.
- The functions of the gadget other than fastboot, its identifiers, and the
  set-up of `android_usb` on old kernels: fixed sequences that nothing interleaves with.
- Of the overrides, what the files that cover others contain, their labels and the loop device of
  the userdata image: only the booted system reads them. `MountTree` has the mounts.
- What becomes of a piece whose flash is cut off when the script kills the daemon: `FlashedDataKept` is
  about the pieces a client was told of.
- Endpoint descriptors carry no state. libsparse is the list of chunks it reports.
- The build, busybox and other external projects.

## Plan

Done, in this order: `BootChoice`, `ParalloidUI`, `BootHandover` and its proofs
first, because nothing matters more than booting what was chosen; then
`Flashing` and `FastbootSession`; then `Viewport`, `MountTree` and `Events`;
then `UsbGadget`, composed with `FastbootSession`, and the drawing; then `MenuProofs`,
`FastbootProofs`, `EventsProofs`, `DisplayProofs`, `ViewportProofs`,
`MountTreeProofs` and `FrameProofs`.

Next modules:

1. An abstract image store that `FastbootSession` implements.
2. `Display` inside `ParalloidUI`, so that a crash of one is a crash of the other.

Next proofs: those that come with these modules. The step from `FastbootSession` to the image
store rests on the invariant of `FlashedDataStays`; that of the composed `Display` on `FrameInv`,
whose disturbances would then be the handler of `ParalloidUI`.
