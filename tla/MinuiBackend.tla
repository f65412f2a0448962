---------------------------- MODULE MinuiBackend ----------------------------
(***************************************************************************)
(* What graphics.h promises of a drawing backend: Flip() causes the        *)
(* current drawing surface to be displayed and returns a new one.  What is *)
(* drawn in between is not seen, and drawing goes on only once the screen  *)
(* shows what was flipped.  Nothing is promised once trusted is given up.  *)
(***************************************************************************)
VARIABLES
  canvas,   \* what is on the drawing surface
  posted,   \* what was on it at the last Flip()
  screen,   \* what is displayed
  trusted

abstractVars == <<canvas, posted, screen, trusted>>

Init == posted = screen /\ trusted = TRUE

(* Drawing, or another surface to draw on. *)
Draw == posted = screen /\ UNCHANGED <<posted, screen>>

(* Flip(), which the display follows at once or at its next refresh. *)
Flip == posted' = canvas /\ screen' \in {screen, canvas} /\ UNCHANGED canvas

Refresh == screen' = posted /\ UNCHANGED <<canvas, posted>>

GiveUp == trusted' = FALSE

Next == GiveUp \/ (UNCHANGED trusted /\ (Draw \/ Flip \/ Refresh))

Spec == Init /\ [][Next]_abstractVars
=============================================================================
