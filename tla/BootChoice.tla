----------------------------- MODULE BootChoice -----------------------------
(***************************************************************************)
(* What the boot menu and the boot script promise together: one target is  *)
(* chosen, at most once; from then on nothing touches a userdata image but *)
(* the preparation of that target, which tries to make the one it lacks;   *)
(* and the target that was chosen is the one that is booted.  How the      *)
(* choice travels from one process to the other is left to BootHandover.   *)
(***************************************************************************)
CONSTANT Images

VARIABLES
  chosen,    \* the target handed over, or "none"
  prepared,  \* the chosen target's userdata image was looked after
  ready,     \* the images that have a userdata image
  booted     \* the target whose init has taken over, or "none"

vars == <<chosen, prepared, ready, booted>>

Init == chosen = "none" /\ prepared = FALSE /\ ready \in SUBSET Images /\ booted = "none"

(* Until the choice the userdata images are the user's to manage. *)
Manage ==
  /\ chosen = "none"
  /\ ready' \in SUBSET Images
  /\ UNCHANGED <<chosen, prepared, booted>>

Choose(t) ==
  /\ chosen = "none"
  /\ chosen' = t
  /\ UNCHANGED <<prepared, ready, booted>>

(* Making the missing image of the chosen target may fail. *)
Prepare ==
  /\ chosen # "none" /\ ~prepared
  /\ prepared' = TRUE
  /\ ready' \in {ready, ready \cup ({chosen} \cap Images)}
  /\ UNCHANGED <<chosen, booted>>

Boot ==
  /\ prepared /\ booted = "none"
  /\ booted' = chosen
  /\ UNCHANGED <<chosen, prepared, ready>>

Next == Manage \/ (\E t \in Images \cup {"internal"} : Choose(t)) \/ Prepare \/ Boot

Spec == Init /\ [][Next]_vars /\ WF_vars(Prepare) /\ WF_vars(Boot)
=============================================================================
