------------------------------ MODULE MCDisplay ------------------------------
(* Hardware for TLC: every backend with every font, and every pair of      *)
(* connectors of a few kinds.                                              *)
EXTENDS Display

Connector(type, connected, modes, crtc, encoders) ==
  [type |-> type, connected |-> connected, modes |-> modes, crtc |-> crtc, encoders |-> encoders]

(* A connector that is off has modes all the same; a CRTC it is driven     *)
(* from, the encoder it could use, or neither.                             *)
States == ({TRUE} \X {<<>>, <<FALSE>>, <<FALSE, TRUE>>}) \cup {<<FALSE, <<FALSE>>>>}
Routes == ((0..2) \X {<<>>}) \cup {<<0, <<{}, {1, 2}>>>>}

Connectors ==
  {Connector(type, s[1], s[2], r[1], r[2]) :
     type \in {"eDP", "DSI", "HDMIA"}, s \in States, r \in Routes}

Device(usable, connectors, buffers, enables) ==
  [usable |-> usable, connectors |-> connectors, buffers |-> buffers, enables |-> enables]

Panel == Connector("DSI", TRUE, <<FALSE, TRUE>>, 1, << >>)

Machine(adf, drm, fb, font) ==
  [adf |-> adf, drm |-> drm, fb |-> fb, font |-> font, large |-> "gray", wide |-> FALSE]

Monitors ==
  {Machine(<<>>, <<Device(FALSE, <<Panel>>, 2, TRUE), Device(TRUE, <<c, d>>, 2, TRUE)>>, "none", "gray") :
     c \in Connectors, d \in Connectors}

Backends ==
  {Machine(adf, drm, fb, "gray") :
     adf \in {<<>>} \cup {<<[opens |-> TRUE, buffers |-> 1], [opens |-> o, buffers |-> 2]>> : o \in BOOLEAN},
     drm \in {<<>>} \cup {<<Device(TRUE, <<Panel>>, n, e)>> : n \in 1..2, e \in BOOLEAN},
     fb \in {"none", "single", "double"}}

Fonts ==
  {[Machine(<<>>, <<>>, "double", font) EXCEPT !.large = large, !.wide = wide] :
     font \in {"missing", "short", "no_png", "damaged", "alpha", "rgb", "cut_off", "gray"},
     large \in {"missing", "cut_off", "gray"}, wide \in BOOLEAN}

MCHardware == Monitors \cup Backends \cup Fonts
=============================================================================
