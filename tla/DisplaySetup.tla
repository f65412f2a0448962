---------------------------- MODULE DisplaySetup ----------------------------
(***************************************************************************)
(* What the drawing library finds when the menu starts, as functions of    *)
(* the hardware: the Init() of the three backends of native/jni/minui,     *)
(* gr_init_font() and UI::init().                                          *)
(*                                                                         *)
(* hardware is a record: adf and drm are the devices in the order they are *)
(* tried, fb is what /dev/fb0 has room for, font and large are the two     *)
(* font files, and wide says that forty characters fit on a line.          *)
(***************************************************************************)
EXTENDS Integers, Sequences, FiniteSets

(* The least of a set of positions, 0 when there is none. *)
First(S) == IF S = {} THEN 0 ELSE CHOOSE i \in S : \A j \in S : i <= j

-----------------------------------------------------------------------------
(* ADF: a device that opens has room for 0, 1 or 2 buffers.                *)

(* InterfaceInit(): one surface would do, n_surfaces = 1, but the error of *)
(* the second allocation is what it returns.                               *)
InterfaceInit(buffers) == buffers >= 2

(* DeviceInit() of the first device that succeeds. *)
AdfDevice(devices) ==
  First({i \in DOMAIN devices : devices[i].opens /\ InterfaceInit(devices[i].buffers)})

-----------------------------------------------------------------------------
(* DRM: a connector has a type, a list of modes (TRUE for preferred), the  *)
(* CRTC its encoder drives it from (0 for none) and, for each encoder, the *)
(* CRTCs it could use.                                                     *)

Attached(c) == c.connected /\ c.modes # <<>>

FirstConnected(cs) == First({i \in DOMAIN cs : Attached(cs[i])})

FirstOfType(cs, type) == First({i \in DOMAIN cs : Attached(cs[i]) /\ cs[i].type = type})

ConnectorPriority == <<"LVDS", "eDP", "DSI">>

FirstConnectedOnly(cs) == FirstConnected(cs)  \* a mutant: the internal panels are not looked for

(* FindMainMonitor() *)
FindMainMonitor(cs) ==
  LET k == First({p \in DOMAIN ConnectorPriority : FirstOfType(cs, ConnectorPriority[p]) # 0})
  IN  IF k # 0 THEN FirstOfType(cs, ConnectorPriority[k]) ELSE FirstConnected(cs)

(* Its mode_index *)
SelectedMode(c) ==
  LET preferred == First({m \in DOMAIN c.modes : c.modes[m]})
  IN  IF preferred # 0 THEN preferred ELSE 1

(* find_crtc_for_connector(), 0 for null *)
FindCrtc(c) ==
  LET e == First({k \in DOMAIN c.encoders : c.encoders[k] # {}})
  IN  IF c.crtc # 0 THEN c.crtc ELSE IF e # 0 THEN First(c.encoders[e]) ELSE 0

(* DisableNonMainCrtcs() dereferences the CRTC of every connector. *)
NullCrtc(cs) == \E i \in DOMAIN cs : FindCrtc(cs[i]) = 0

DisabledCrtcs(cs, main) == {FindCrtc(cs[i]) : i \in DOMAIN cs} \ {main}

(* The device MinuiBackendDrm::Init() stays with; usable is one that opens *)
(* and has dumb buffers and resources.                                     *)
DrmDevice(devices) ==
  First({d \in DOMAIN devices : devices[d].usable /\ FirstConnected(devices[d].connectors) # 0})

(* How Init() ends: with the main monitor, in an error, or in a crash. *)
DrmInit(devices) ==
  LET d == DrmDevice(devices)
      cs == devices[d].connectors
      m == FindMainMonitor(cs)
  IN  IF d = 0 THEN [result |-> "error"]
      ELSE IF FindCrtc(cs[m]) = 0 THEN [result |-> "error"]
      ELSE IF NullCrtc(cs) THEN [result |-> "crash"]
      ELSE IF devices[d].buffers < 2 \/ ~devices[d].enables THEN [result |-> "error"]
      ELSE [result |-> "ok", device |-> d, connector |-> m, mode |-> SelectedMode(cs[m]),
            crtc |-> FindCrtc(cs[m]), disabled |-> DisabledCrtcs(cs, FindCrtc(cs[m]))]

-----------------------------------------------------------------------------
(* fbdev: "none", or the memory holds a "single" or a "double" screen. *)
FbdevBackend(fb) ==
  IF fb = "none" THEN "none" ELSE IF fb = "single" THEN "memory" ELSE "fbdev"

(* gr_init(): the backend that is used, "none", or "crash". *)
Backend(hardware) ==
  LET drm == DrmInit(hardware.drm).result
  IN  IF AdfDevice(hardware.adf) # 0 THEN "adf"
      ELSE IF drm = "ok" THEN "drm"
      ELSE IF drm = "crash" THEN "crash"
      ELSE FbdevBackend(hardware.fb)

-----------------------------------------------------------------------------
(* Fonts. *)

(* The error code of PngHandler(); gray, paletted and RGB images pass. *)
PngError(file) ==
  CASE file = "missing" -> -1
    [] file = "short"   -> -2
    [] file = "no_png"  -> -3
    [] file = "damaged" -> -6
    [] file = "alpha"   -> -7
    [] OTHER            -> 0

Channels(file) == IF file \in {"gray", "cut_off"} THEN 1 ELSE 3

(* res_create_alpha_surface() *)
ResCreateAlphaSurface(file) ==
  IF PngError(file) # 0 THEN PngError(file) ELSE IF Channels(file) # 1 THEN -7 ELSE 0

(* An error while rows are read jumps to the setjmp() of a constructor     *)
(* that has returned.                                                      *)
RowsFail(file) == ResCreateAlphaSurface(file) = 0 /\ file = "cut_off"

(* gr_init_font(); a font that fails to load leaves the destination alone. *)
GrInitFont(file, old) == IF ResCreateAlphaSurface(file) = 0 THEN file ELSE old

(* UI::init(): without any font the width it divides by is zero; it tries  *)
(* the large one where forty characters of the small one fit.              *)
FontUsable(hardware) ==
  /\ ~RowsFail(hardware.font)
  /\ GrInitFont(hardware.font, "none") # "none"
  /\ hardware.wide => ~RowsFail(hardware.large)
=============================================================================
