------------------------------ MODULE Display -------------------------------
(***************************************************************************)
(* The screen of the boot menu: the routines of native/jni/paralloid_ui/   *)
(* ui.cpp that draw, over the double buffers of native/jni/minui.          *)
(*                                                                         *)
(* A routine is the list of calls it makes, executed one by one.  Two      *)
(* threads of control draw: "main" and the SIGHUP handler "hup", which     *)
(* runs to its end wherever it interrupts main.  Both use the same         *)
(* gr_draw, gr_current and backend.                                        *)
(***************************************************************************)
EXTENDS DisplaySetup

CONSTANTS
  Hardware,    \* the hardware a menu may find
  Unknown,     \* hardware once it has been looked at
  MaxVersion   \* bound: contents of the menu that are drawn

ASSUME DisplayAssumption == Unknown \notin Hardware /\ MaxVersion \in Nat \ {0}

(* libdrm reports devices, their connectors and the modes of these as      *)
(* lists.                                                                  *)
IsList(s) == s \in Seq({s[i] : i \in DOMAIN s})

ASSUME HardwareAssumption ==
  \A h \in Hardware :
    /\ IsList(h.drm)
    /\ \A d \in DOMAIN h.drm :
         /\ IsList(h.drm[d].connectors)
         /\ \A i \in DOMAIN h.drm[d].connectors : IsList(h.drm[d].connectors[i].modes)

Surfaces == {"a", "b"}   \* GRSurfaceDrms, gr_framebuffer, surfaces: 0 and 1
Null == "null"
Threads == {"main", "hup"}

Other(s) == IF s = "a" THEN "b" ELSE "a"

VARIABLES
  hardware,
  backend,   \* "none" until gr_init() chooses "adf", "drm", "fbdev" or "memory"
  menu,      \* UI::menu is not null
  version,   \* of title, items and selection
  todo,      \* for each thread, the calls it has still to make
  dead,      \* why the process crashed, or "no"
  ink,       \* gr_current
  gr_draw,
  surface,   \* what has been drawn on each surface since it was cleared
  current,   \* current_buffer, current_surface or displayed_buffer
  flag,      \* ongoing_flip of each thread
  fence,     \* the surfaces with a fence_fd
  shown,     \* the surface the hardware displays
  pending,   \* flips it has been asked for
  events,    \* completed flips to be read from the DRM descriptor
  disturbed, \* history: a signal has come in the middle of something, or an ioctl failed
  calm       \* history: routines since then that nothing disturbed, up to 2

inkVars == <<ink, gr_draw, surface>>
flipVars == <<current, flag, fence>>
kernelVars == <<shown, pending, events>>
menuVars == <<hardware, backend, menu, version>>
history == <<disturbed, calm>>
vars == <<menuVars, todo, dead, inkVars, flipVars, kernelVars, history>>

-----------------------------------------------------------------------------
(* The routines. *)

(* UI::render(): other items are drawn like the title and the extra text. *)
Render == << <<"color", "none">>, <<"clear", "">>,
             <<"color", "white">>, <<"draw", "title">>,
             <<"draw", "bar">>, <<"color", "black">>, <<"draw", "selected">>,
             <<"color", "white">>, <<"draw", "extra">>, <<"flip", "">> >>

ExitOneBuffer == << <<"color", "none">>, <<"clear", "">>,
                    <<"color", "white">>, <<"draw", "message">>,
                    <<"flip", "">>, <<"exit", "">> >>  \* a mutant: the other buffer is not cleared

(* UI::exit() *)
Exit == << <<"color", "none">>, <<"clear", "">>, <<"flip", "">>, <<"clear", "">>,
           <<"color", "white">>, <<"draw", "message">>,
           <<"flip", "">>, <<"exit", "">> >>

(* The rest of UI::init() after a backend is found, and main(), which does *)
(* not ask whether one was. *)
Startup(b, usable) ==
  (IF b = "none" THEN <<>>
   ELSE << <<"flip", "">>, <<"flip", "">>, <<"font", IF usable THEN "found" ELSE "none">> >>)
    \o << <<"menu", "">> >> \o Render

Blank == [ground |-> "none", strokes |-> {}]

(* A frame as it should be: all parts, of one version, in their colours. *)
Frame(v) ==
  [ground |-> "none",
   strokes |-> {<<"title", "white", v>>, <<"bar", "white", v>>,
                <<"selected", "black", v>>, <<"extra", "white", v>>}]

Init ==
  /\ hardware \in Hardware /\ backend = "none" /\ menu = FALSE /\ version = 1
  /\ todo = [t \in Threads |-> <<>>] /\ dead = "no"
  /\ ink = "white" /\ gr_draw = Null /\ surface = [s \in Surfaces |-> Blank]
  /\ current = "a" /\ flag = [t \in Threads |-> FALSE] /\ fence = {}
  /\ shown = Null /\ pending = <<>> /\ events = <<>>
  /\ disturbed = FALSE /\ calm = 2

-----------------------------------------------------------------------------
Idle == todo["main"] = <<>> /\ todo["hup"] = <<>>

Runs(t) == dead = "no" /\ todo[t] # <<>> /\ (t = "main" => todo["hup"] = <<>>)

(* The next call of thread t. *)
At(t, op) == Runs(t) /\ Head(todo[t])[1] = op
Arg(t) == Head(todo[t])[2]

(* The call is replaced by the calls it makes. *)
Continue(t, calls) == todo' = [todo EXCEPT ![t] = calls \o Tail(@)]

(* One more routine has ended. *)
Ended == IF todo' = [t \in Threads |-> <<>>] THEN 1 ELSE 0

Calm ==
  /\ UNCHANGED disturbed
  /\ calm' = IF calm = 2 THEN 2 ELSE calm + Ended

Disturb == disturbed' = TRUE /\ calm' = Ended - 1

Die(why) == dead' = why /\ UNCHANGED todo

(* What the Init() of backend b has set up: that of ADF ends with a        *)
(* Flip(), whose post may fail like any other.                             *)
Chosen(b, usable, posted) ==
  /\ backend' = IF b = "crash" THEN "none" ELSE b
  /\ todo' = [todo EXCEPT !["main"] = IF b = "crash" THEN <<>>
                                      ELSE Startup(b, usable)]
  /\ dead' = IF b = "crash" THEN "monitor" ELSE "no"
  /\ gr_draw' = CASE b = "drm" -> "a" [] b \in {"none", "crash"} -> Null [] OTHER -> "b"
  /\ current' = IF b = "adf" THEN "b" ELSE "a"
  /\ fence' = IF b = "adf" /\ posted THEN {"a"} ELSE {}
  /\ pending' = IF b = "adf" /\ posted THEN << <<"a", "none">> >> ELSE <<>>
  /\ shown' = CASE b = "drm" -> "b" [] b \in {"fbdev", "memory"} -> "a" [] OTHER -> Null
  /\ IF posted THEN UNCHANGED history ELSE disturbed' = TRUE /\ calm' = -1
  /\ UNCHANGED <<menu, version, ink, surface, flag, events>>

(* gr_init(), up to its two flips. *)
GrInit ==
  /\ hardware # Unknown /\ hardware' = Unknown
  /\ \E b \in {Backend(hardware)}, posted \in BOOLEAN :
       (posted \/ b = "adf") /\ Chosen(b, FontUsable(hardware), posted)

(* UI::init() looks for a font unless gr_init() returned an error. *)
FindFont ==
  /\ At("main", "font")
  /\ IF Arg("main") = "none" /\ gr_draw # Null
     THEN Die("font")
     ELSE Continue("main", <<>>) /\ UNCHANGED dead
  /\ Calm /\ UNCHANGED <<menuVars, inkVars, flipVars, kernelVars>>

(* UI::switchMenu(main_menu) *)
SwitchMenu ==
  /\ At("main", "menu")
  /\ menu' = TRUE /\ Continue("main", <<>>) /\ Calm
  /\ UNCHANGED <<hardware, backend, version, dead, inkVars, flipVars, kernelVars>>

-----------------------------------------------------------------------------
(* Drawing. *)

(* gr_color() *)
GrColor(t) ==
  /\ At(t, "color")
  /\ ink' = Arg(t) /\ Continue(t, <<>>) /\ Calm
  /\ UNCHANGED <<menuVars, dead, gr_draw, surface, flipVars, kernelVars>>

NotCleared == [surface[gr_draw] EXCEPT !.ground = ink]  \* a mutant: what was drawn stays

(* All pixels take the ink. *)
Cleared == [ground |-> ink, strokes |-> {}]

(* gr_fill() and gr_text() blend the ink, if it has any. *)
Drawn(part) ==
  IF ink = "none" THEN surface[gr_draw]
  ELSE [surface[gr_draw] EXCEPT !.strokes = @ \cup {<<part, ink, version>>}]

(* What a call draws on gr_draw, which it dereferences. *)
Paint(t, content) ==
  /\ IF gr_draw = Null
     THEN Die(IF backend = "none" THEN "display" ELSE "surface") /\ UNCHANGED surface
     ELSE surface' = [surface EXCEPT ![gr_draw] = content] /\ Continue(t, <<>>)
          /\ UNCHANGED dead
  /\ Calm /\ UNCHANGED <<menuVars, ink, gr_draw, flipVars, kernelVars>>

GrClear(t) == At(t, "clear") /\ Paint(t, Cleared)

GrDraw(t) == At(t, "draw") /\ Paint(t, Drawn(Arg(t)))

-----------------------------------------------------------------------------
(* gr_flip(). *)

Flipping(t, b) == At(t, "flip") /\ backend = b /\ UNCHANGED <<menuVars, dead, ink>>

(* MinuiBackendDrm::Flip(): while a flip is pending drmModePageFlip() is   *)
(* refused; a null surface goes to gr_draw.                                *)
PageFlip(t) ==
  /\ Flipping(t, "drm")
  /\ \/ /\ pending = <<>>
        /\ pending' = << <<current, t>> >> /\ flag' = [flag EXCEPT ![t] = TRUE]
        /\ Continue(t, << <<"poll", "">>, <<"turn", "">>, <<"return", "">> >>)
        /\ Calm /\ UNCHANGED gr_draw
     \/ /\ Continue(t, <<>>) /\ gr_draw' = Null
        /\ Disturb /\ UNCHANGED <<pending, flag>>
  /\ UNCHANGED <<surface, current, fence, shown, events>>

(* poll() returns when there is an event. *)
Poll(t) ==
  /\ At(t, "poll") /\ events # <<>>
  /\ Continue(t, << <<"handle", "">> >>) /\ Calm
  /\ UNCHANGED <<menuVars, dead, inkVars, flipVars, kernelVars>>

NeverCompleted(f, es) == {f}  \* a mutant: the handler leaves the flag alone

(* page_flip_complete() of every event clears the flag it points to; that  *)
(* of a Flip() which has returned may now be the flag of another.          *)
Completed(f, es) ==
  {[t \in Threads |-> f[t] /\ \A i \in DOMAIN es : es[i] # t]} \cup
  (IF \E i \in DOMAIN es : es[i] = "gone" THEN {[t \in Threads |-> FALSE]} ELSE {})

(* drmHandleEvent(), and the condition of the loop. *)
HandleEvent(t) ==
  /\ At(t, "handle") /\ events # <<>>
  /\ events' = <<>> /\ flag' \in Completed(flag, events)
  /\ Continue(t, IF flag'[t] THEN << <<"poll", "">> >> ELSE <<>>) /\ Calm
  /\ UNCHANGED <<menuVars, dead, inkVars, current, fence, shown, pending>>

KeepBuffer(s) == s  \* a mutant: Flip() hands out the buffer it has just shown
NoModulo(s) == IF s = "a" THEN "b" ELSE "c"  \* a mutant: the index is not wrapped around

(* The surface to draw on next. *)
Swapped(s) == Other(s)

(* current_buffer = 1 - current_buffer, or current_surface + 1: then the   *)
(* ADF backend waits for the fence of the surface.                         *)
Turn(t) ==
  /\ At(t, "turn")
  /\ current' = Swapped(current) /\ flag' = [flag EXCEPT ![t] = FALSE]
  /\ Continue(t, IF backend = "adf" THEN << <<"sync", current'>> >> ELSE <<>>) /\ Calm
  /\ UNCHANGED <<menuVars, dead, inkVars, fence, kernelVars>>

(* MinuiBackendFbdev::Flip(): the pan may fail, and nobody looks; without  *)
(* room for two screens the surface is copied to the one there is.         *)
FbSwap(t) ==
  /\ Flipping(t, "fbdev")
  /\ current' = Swapped(current) /\ Continue(t, << <<"return", "">> >>)
  /\ \/ shown' = Swapped(current) /\ Calm
     \/ UNCHANGED shown /\ Disturb
  /\ UNCHANGED <<gr_draw, surface, flag, fence, pending, events>>

FbCopy(t) ==
  /\ Flipping(t, "memory")
  /\ surface' = [surface EXCEPT !["a"] = surface["b"]]
  /\ Continue(t, << <<"return", "">> >>) /\ Calm
  /\ UNCHANGED <<gr_draw, flipVars, kernelVars>>

(* MinuiBackendAdf::Flip(): a post that fails has no fence. *)
Post(t) ==
  /\ Flipping(t, "adf")
  /\ Continue(t, << <<"turn", "">>, <<"return", "">> >>)
  /\ \/ pending' = Append(pending, <<current, "none">>) /\ fence' = fence \cup {current} /\ Calm
     \/ UNCHANGED <<pending, fence>> /\ Disturb
  /\ UNCHANGED <<gr_draw, surface, current, flag, shown, events>>

(* A post is complete once it has left the screen. *)
OffScreen(s) == shown # s /\ \A i \in DOMAIN pending : pending[i][1] # s

Signalled(s) == s \in fence => OffScreen(s)

(* Sync(), which goes on after three seconds. *)
Sync(t) ==
  /\ At(t, "sync")
  /\ fence' = fence \ {Arg(t)} /\ Continue(t, <<>>)
  /\ \/ Signalled(Arg(t)) /\ Calm
     \/ ~Signalled(Arg(t)) /\ Disturb
  /\ UNCHANGED <<menuVars, dead, inkVars, current, flag, kernelVars>>

(* Flip() returns a surface, *)
Return(t) ==
  /\ At(t, "return")
  /\ Continue(t, << <<"assign", CASE backend = "fbdev" -> Other(current)
                                  [] backend = "memory" -> "b"
                                  [] OTHER -> current>> >>)
  /\ Calm /\ UNCHANGED <<menuVars, dead, inkVars, flipVars, kernelVars>>

(* which becomes gr_draw. *)
Assign(t) ==
  /\ At(t, "assign")
  /\ gr_draw' = Arg(t) /\ Continue(t, <<>>) /\ Calm
  /\ UNCHANGED <<menuVars, dead, ink, surface, flipVars, kernelVars>>

(* gr_exit(): removing the framebuffers may turn the screen off. *)
GrExit ==
  /\ At("main", "exit")
  /\ backend' = "none" /\ Continue("main", <<>>) /\ Calm
  /\ shown' \in (IF backend = "drm" THEN {shown, Null} ELSE {shown})
  /\ UNCHANGED <<hardware, menu, version, dead, inkVars, flipVars, pending, events>>

-----------------------------------------------------------------------------
(* The display refreshes: it shows the next surface and completes its flip. *)
Refresh ==
  /\ pending # <<>>
  /\ shown' = Head(pending)[1] /\ pending' = Tail(pending)
  /\ events' = IF backend = "drm" THEN Append(events, Head(pending)[2]) ELSE events
  /\ UNCHANGED <<menuVars, todo, dead, inkVars, flipVars, history>>

(* What is still outstanding for the Flip() of main has no flag any more. *)
Orphaned(q) == [i \in DOMAIN q |-> IF q[i] = "main" THEN "gone" ELSE q[i]]
OrphanedFlips(q) == [i \in DOMAIN q |-> IF q[i][2] = "main" THEN <<q[i][1], "gone">> ELSE q[i]]

(* sighup_handler(): without a menu it draws nothing.  When main is inside *)
(* poll() the call fails with EINTR, which ends the loop.                  *)
Sighup ==
  /\ dead = "no" /\ hardware = Unknown /\ todo["hup"] = <<>>
  /\ menu => version < MaxVersion
  /\ \E interrupts \in BOOLEAN :
       /\ interrupts => todo["main"] # <<>> /\ Head(todo["main"])[1] = "poll"
       /\ menu \/ interrupts
       /\ todo' = [main |-> IF interrupts THEN Tail(todo["main"]) ELSE todo["main"],
                   hup |-> IF menu THEN Render ELSE <<>>]
       /\ pending' = IF interrupts THEN OrphanedFlips(pending) ELSE pending
       /\ events' = IF interrupts THEN Orphaned(events) ELSE events
  /\ version' = IF menu THEN version + 1 ELSE version
  /\ IF todo["main"] = <<>> THEN UNCHANGED history ELSE disturbed' = TRUE /\ calm' = -1
  /\ UNCHANGED <<hardware, backend, menu, dead, inkVars, flipVars, shown>>

(* A key or the countdown changes the menu and draws it. *)
Redraw ==
  /\ dead = "no" /\ Idle /\ menu /\ version < MaxVersion
  /\ version' = version + 1 /\ todo' = [todo EXCEPT !["main"] = Render]
  /\ UNCHANGED <<hardware, backend, menu, dead, inkVars, flipVars, kernelVars, history>>

(* boot_target(), after which nothing is drawn. *)
UiExit ==
  /\ dead = "no" /\ Idle /\ menu
  /\ menu' = FALSE /\ todo' = [todo EXCEPT !["main"] = Exit]
  /\ UNCHANGED <<hardware, backend, version, dead, inkVars, flipVars, kernelVars, history>>

Call(t) ==
  \/ GrColor(t) \/ GrClear(t) \/ GrDraw(t)
  \/ PageFlip(t) \/ Poll(t) \/ HandleEvent(t) \/ Turn(t)
  \/ FbSwap(t) \/ FbCopy(t) \/ Post(t) \/ Sync(t)
  \/ Return(t) \/ Assign(t)

Next ==
  \/ GrInit \/ FindFont \/ SwitchMenu \/ GrExit
  \/ \E t \in Threads : Call(t)
  \/ Refresh \/ Sighup \/ Redraw \/ UiExit

Fairness ==
  /\ WF_vars(FindFont \/ SwitchMenu \/ GrExit \/ \E t \in Threads : Call(t))
  /\ WF_vars(Refresh)

Spec == Init /\ [][Next]_vars /\ Fairness

-----------------------------------------------------------------------------
Calls == {<<op, "">> : op \in {"clear", "flip", "exit", "menu", "poll", "handle", "turn", "return"}}
  \cup ({"color"} \X {"none", "white", "black"}) \cup ({"font"} \X {"found", "none"})
  \cup ({"draw"} \X {"title", "bar", "selected", "extra", "message"})
  \cup ({"sync", "assign"} \X Surfaces)

Owners == Threads \cup {"gone", "none"}

Strokes ==
  {"title", "bar", "selected", "extra", "message"} \X {"white", "black"} \X (1..MaxVersion)

(* Type correctness; of the DRM backend no two flips are pending. *)
TypeOK ==
  /\ backend \in {"none", "adf", "drm", "fbdev", "memory"}
  /\ menu \in BOOLEAN /\ version \in 1..MaxVersion
  /\ \A t \in Threads : todo[t] \in Seq(Calls)
  /\ dead \in {"no", "monitor", "font", "display", "surface"}
  /\ ink \in {"none", "white", "black"} /\ gr_draw \in Surfaces \cup {Null}
  /\ \A s \in Surfaces : /\ surface[s].ground \in {"none", "white", "black"}
                        /\ surface[s].strokes \subseteq Strokes
  /\ current \in Surfaces /\ flag \in [Threads -> BOOLEAN] /\ fence \subseteq Surfaces
  /\ shown \in Surfaces \cup {Null}
  /\ pending \in Seq(Surfaces \X Owners) /\ (backend = "drm" => Len(pending) <= 1)
  /\ events \in Seq(Owners)
  /\ disturbed \in BOOLEAN /\ calm \in -1..2

(* The monitor that MinuiBackendDrm::Init() chooses is connected and has   *)
(* modes; no internal panel is passed over for another screen, and no      *)
(* preferred mode for another mode.  Every other screen of the device that *)
(* was on is turned off, the chosen one is not.                            *)
Rank(c) ==
  IF \E k \in DOMAIN ConnectorPriority : ConnectorPriority[k] = c.type
  THEN CHOOSE k \in DOMAIN ConnectorPriority : ConnectorPriority[k] = c.type
  ELSE Len(ConnectorPriority) + 1

MainMonitorChosen ==
  hardware # Unknown =>
    LET found == DrmInit(hardware.drm) IN
    found.result = "ok" =>
      LET cs == hardware.drm[found.device].connectors
          main == cs[found.connector]
      IN  /\ main.connected
          /\ \A c \in {cs[i] : i \in DOMAIN cs} :
               c.connected /\ c.modes # <<>> => Rank(main) <= Rank(c)
          /\ found.mode \in DOMAIN main.modes
          /\ (\E m \in DOMAIN main.modes : main.modes[m]) => main.modes[found.mode]
          /\ {cs[i].crtc : i \in DOMAIN cs} \subseteq {0, found.crtc} \cup found.disabled
          /\ found.crtc \notin found.disabled

(* Whatever a signal or a failed ioctl has done to the two buffers, to     *)
(* gr_draw and to current_buffer: if the menu survives it, then once two   *)
(* more routines have drawn undisturbed, the screen shows the menu as it   *)
(* is, complete and not a frame behind.                                    *)
ShownIsLatest ==
  Idle /\ dead = "no" /\ menu /\ pending = <<>> /\ calm >= 2 =>
    shown # Null /\ surface[shown] = Frame(version)

(* After UI::exit() there is no menu in either buffer, so that a display   *)
(* that flips back on its own does not show one (ui.cpp:94-98), and the    *)
(* boot message is on the screen: unless UI::exit() or the routine before  *)
(* it was disturbed.  One undisturbed routine is not enough: after a       *)
(* disturbance the first flip of UI::exit() may hand out the buffer that   *)
(* was just cleared (ExitClearsBothBuffers).                               *)
Message == [ground |-> "none", strokes |-> {<<"message", "white", version>>}]

ExitLeavesNoMenu ==
  hardware = Unknown /\ ~menu /\ dead = "no" /\ Idle /\ calm >= 2 =>
    /\ \A s \in Surfaces : surface[s].strokes \subseteq Message.strokes
    /\ shown # Null /\ pending = <<>> => surface[shown] = Message

(* What the comment in UI::exit() says: "Switch to the other buffer and    *)
(* clear it too" (ui.cpp:94), whatever happened before.  Not so: a SIGHUP  *)
(* between the return of a Flip() and the assignment to gr_draw            *)
(* (graphics.cpp:341), or a flip that failed, sets gr_draw and the buffer  *)
(* on the screen a frame apart, and an undisturbed UI::exit() then clears  *)
(* one buffer twice.                                                       *)
ExitClearsBothBuffers ==
  hardware = Unknown /\ ~menu /\ dead = "no" /\ Idle /\ calm >= 1 =>
    \A s \in Surfaces : surface[s].strokes \subseteq Message.strokes

(* Until something disturbs them, the three backends keep to the contract  *)
(* of graphics.h: nothing is seen of a frame before its flip, drawing goes *)
(* on only once that flip is on the screen, and no flip shows anything but *)
(* the surface just drawn.                                                 *)
Content(s) == IF s = Null THEN Blank ELSE surface[s]

Contract == INSTANCE MinuiBackend WITH
  canvas <- Content(gr_draw),
  posted <- IF pending = <<>> THEN Content(shown) ELSE surface[pending[Len(pending)][1]],
  screen <- Content(shown),
  trusted <- ~disturbed /\ (hardware # Unknown \/ backend # "none")

ImplementsBackend == Contract!Spec

(* A routine that nothing disturbs comes to its end: no Flip() waits for   *)
(* ever, and the process only crashes if there is no display or no font.   *)
RoutinesEnd ==
  (todo["main"] # <<>>) ~>
    (todo["main"] = <<>> \/ disturbed \/ dead \in {"monitor", "font", "display"})
=============================================================================
