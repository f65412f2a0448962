--------------------------- MODULE MCBootHandover ---------------------------
(* Values of BootHandover's constants for TLC: one image on each storage.  *)
EXTENDS BootHandover, TLC

CONSTANTS u1, s1  \* an image on userdata, an image on the sdcard

MCStorageOf == (u1 :> "userdata") @@ (s1 :> "sdcard")
MCImagesOn  == [userdata |-> <<u1>>, sdcard |-> <<s1>>]

(* The smaller instance of the liveness run: the card holds no image. *)
MCStorageOfOne == u1 :> "userdata"
MCImagesOnOne  == [userdata |-> <<u1>>, sdcard |-> <<>>]
=============================================================================
