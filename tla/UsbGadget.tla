----------------------------- MODULE UsbGadget -----------------------------
(***************************************************************************)
(* How the fastboot function gets onto the USB connection: the end of the  *)
(* gadget set-up in files/init, and what the kernel and the host make of   *)
(* it.  The functions added before it are not modelled.                    *)
(*                                                                         *)
(* FunctionFS is active while minfastbootd holds its control endpoint and  *)
(* has written the descriptors.  A function that is added before that is   *)
(* ignored (files/init:131), and so is one added after UDC is written      *)
(* (files/init:144).                                                       *)
(***************************************************************************)
EXTENDS Integers

CONSTANT FfsWaitLimit   \* polls for /dev/.ffs_ready; 10 in files/init

ASSUME WaitAssumption == FfsWaitLimit \in Nat \ {0}

VARIABLES
  setup,    \* the script: "wait", "add", "udc", "done" or "removed"
  waited,   \* ffs_wait_count
  gaveUp,   \* history: the wait ended without the marker
  ready,    \* /dev/.ffs_ready exists
  active,   \* FunctionFS has its descriptors
  offered,  \* ffs.fastboot is part of the configuration, and not ignored
  bound,    \* the gadget has a controller
  link,     \* the USB connection: "up" or "down"
  torn      \* a transfer was waiting when the connection went down

scriptVars == <<setup, waited, gaveUp, offered>>
gadgetVars == <<scriptVars, ready, active, bound, link, torn>>

(* FunctionFS is mounted and minfastbootd started. *)
GadgetInit ==
  /\ setup = "wait" /\ waited = 0 /\ gaveUp = FALSE /\ ready = FALSE
  /\ active = FALSE /\ offered = FALSE /\ bound = FALSE
  /\ link = "down" /\ torn = FALSE

-----------------------------------------------------------------------------
(* The script. *)

FfsWait ==
  /\ setup = "wait" /\ ~ready
  /\ waited' = waited + 1
  /\ setup' = IF waited' >= FfsWaitLimit THEN "add" ELSE setup
  /\ gaveUp' = (setup' = "add")
  /\ UNCHANGED <<offered, ready, active, bound, link, torn>>

FfsReady ==
  /\ setup = "wait" /\ ready
  /\ setup' = "add" /\ waited' = 0
  /\ UNCHANGED <<gaveUp, offered, ready, active, bound, link, torn>>

(* addGadget ffs.fastboot *)
AddGadget ==
  /\ setup = "add"
  /\ setup' = "udc" /\ offered' = active
  /\ UNCHANGED <<waited, gaveUp, ready, active, bound, link, torn>>

WriteUdc ==
  /\ setup = "udc"
  /\ setup' = "done" /\ bound' = TRUE
  /\ UNCHANGED <<waited, gaveUp, offered, ready, active, link, torn>>

(* The end: files/init unmounts FunctionFS, whose daemon it has killed, and *)
(* takes the gadget apart.                                                 *)
RemoveGadget ==
  /\ setup = "done" /\ setup' = "removed"
  /\ active' = FALSE /\ offered' = FALSE /\ bound' = FALSE
  /\ link' = "down" /\ torn' = FALSE
  /\ UNCHANGED <<waited, gaveUp, ready>>

Script == FfsWait \/ FfsReady \/ AddGadget \/ WriteUdc

-----------------------------------------------------------------------------
(* FunctionFS and the host. *)

(* The last endpoint is closed: the kernel may unbind the gadget, and      *)
(* nobody writes UDC again.                                                *)
FfsClosed ==
  /\ active' = FALSE /\ link' = "down" /\ torn' = FALSE
  /\ bound' \in {bound, FALSE}

(* A host, with the cable in, configures the device.  A transfer that the  *)
(* last disconnection tore has failed long before.                         *)
Enumerate ==
  /\ link = "down" /\ bound /\ offered /\ active /\ ~torn
  /\ link' = "up"
  /\ UNCHANGED <<scriptVars, ready, active, bound, torn>>

(* The cable is pulled, while the daemon transfers something or not. *)
Disconnect(transferring) ==
  /\ link = "up"
  /\ link' = "down" /\ torn' = transferring
  /\ UNCHANGED <<scriptVars, ready, active, bound>>

GadgetTypeOK ==
  /\ setup \in {"wait", "add", "udc", "done", "removed"} /\ waited \in 0..FfsWaitLimit
  /\ gaveUp \in BOOLEAN /\ ready \in BOOLEAN /\ active \in BOOLEAN
  /\ offered \in BOOLEAN /\ bound \in BOOLEAN
  /\ link \in {"up", "down"} /\ torn \in BOOLEAN
=============================================================================
