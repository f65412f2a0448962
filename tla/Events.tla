------------------------------- MODULE Events -------------------------------
(***************************************************************************)
(* The event loop of native/jni/minui/events.cpp as the boot menu runs it: *)
(* the input devices it finds when it starts, those that appear later, and *)
(* the keys read from them.  Devices come and go at any time, and with     *)
(* them their nodes in /dev/input.                                         *)
(***************************************************************************)
EXTENDS Integers, Sequences, FiniteSets, SequencesExt

CONSTANTS
  KeyNodes,      \* names of nodes in /dev/input: event nodes of devices with keys,
  SensorNodes,   \* of devices the menu has no use for,
  OtherNodes,    \* and nodes with a name that does not start with "event"
  MAX_DEVICES, MAX_MISC_FDS,
  MaxPlugs,      \* bound: devices in all
  MaxKeys        \* bound: keys pressed in all

EventNodes == KeyNodes \union SensorNodes
Nodes      == EventNodes \union OtherNodes

ASSUME EventsAssumption ==
  /\ KeyNodes \cap SensorNodes = {} /\ EventNodes \cap OtherNodes = {}
  /\ IsFiniteSet(Nodes)
  /\ MAX_DEVICES \in Nat \ {0} /\ MAX_MISC_FDS \in Nat \ {0}
  /\ MaxPlugs \in Nat /\ MaxKeys \in Nat

VARIABLES
  \* the input devices; a node is plugged in for the gen-th time
  plugged, gen,
  inotify,    \* the names in the queue of the inotify descriptor
  \* events.cpp
  pc,
  listing,    \* the names readdir() will still return
  table,      \* ev_fdinfo, up to g_ev_count
  devCount,   \* g_ev_dev_count
  miscCount,  \* g_ev_misc_count
  polled,     \* what ev_dispatch() still has to look at
  batch,      \* the names inotify_cb() still has to look at
  \* history
  pressed,    \* the device of each key
  handled,    \* the keys the menu was given, in order
  twice,      \* devices whose node the program may come across twice
  passed      \* devices still there that it left aside

world   == <<plugged, gen, inotify, listing, pressed, twice>>
program == <<pc, table, devCount, miscCount, polled, batch, handled, passed>>
vars    == <<world, program>>

(* A device is a node and the time it was plugged in. *)
Device(n)  == <<n, gen[n]>>
Present(d) == d[1] \in plugged /\ gen[d[1]] = d[2]
Inotify    == <<"inotify", 0>>

(* A descriptor: whose it is, the keys not yet read from it, and whether   *)
(* the epoll set has it.                                                   *)
Descriptor(d) == [dev |-> d, keys |-> <<>>, watched |-> TRUE]

(* should_add_input_device() *)
ShouldAdd(n) == n \in KeyNodes

(* The devices there have been, when node n was plugged in g[n] times. *)
SoFar(g)   == UNION {{n} \X (1..g[n]) : n \in Nodes}
Plugged(g) == Cardinality(SoFar(g))

Init ==
  /\ plugged \in SUBSET Nodes
  /\ gen = [n \in Nodes |-> IF n \in plugged THEN 1 ELSE 0]
  /\ Plugged(gen) <= MaxPlugs
  /\ inotify = <<>> /\ listing = {} /\ pc = "start"
  /\ table = <<>> /\ devCount = 0 /\ miscCount = 0
  /\ polled = {} /\ batch = <<>>
  /\ pressed = <<>> /\ handled = <<>> /\ twice = {} /\ passed = {}

-----------------------------------------------------------------------------
(* ev_init()                                                               *)

WatchedLate == pc \notin {"start", "scan"}  \* a mutant: inotify_add_watch() comes last

(* The inotify descriptor has its watch. *)
Watching == pc # "start"

(* Without a directory there is nothing to watch, and nobody looks at what *)
(* ev_init() returns.                                                      *)
AddWatch ==
  /\ pc = "start"
  /\ IF \A n \in Nodes : gen[n] = 0
       THEN pc' = "failed" /\ UNCHANGED listing
       ELSE pc' = "scan" /\ listing' = plugged
  /\ UNCHANGED <<plugged, gen, inotify, pressed, twice, table, devCount, miscCount,
                 polled, batch, handled, passed>>

(* readdir() returns one more name. *)
ScanNode ==
  /\ pc = "scan"
  /\ \E n \in listing :
       /\ listing' = listing \ {n}
       /\ IF ShouldAdd(n)
            THEN /\ table' = Append(table, Descriptor(Device(n)))
                 /\ devCount' = devCount + 1
                 /\ IF devCount' = MAX_DEVICES
                      THEN pc' = "watch" /\ passed' = passed \union {Device(m) : m \in listing'}
                      ELSE UNCHANGED <<pc, passed>>
            ELSE UNCHANGED <<table, devCount, pc, passed>>
  /\ UNCHANGED <<plugged, gen, inotify, pressed, twice, miscCount, polled, batch, handled>>

ScanEnd ==
  /\ pc = "scan" /\ listing = {}
  /\ pc' = "watch"
  /\ UNCHANGED <<world, table, devCount, miscCount, polled, batch, handled, passed>>

OneTooMany == miscCount > MAX_MISC_FDS  \* a mutant: off by one

TableFull == miscCount = MAX_MISC_FDS

(* ev_add_fd(): a descriptor that finds no room is closed. *)
EvAddFd(d) ==
  \/ /\ TableFull
     /\ passed' = passed \union {d}
     /\ UNCHANGED <<table, miscCount>>
  \/ /\ ~TableFull
     /\ table' = Append(table, Descriptor(d)) /\ miscCount' = miscCount + 1
     /\ UNCHANGED passed

AddInotify ==
  /\ pc = "watch"
  /\ EvAddFd(Inotify)
  /\ pc' = "wait"
  /\ UNCHANGED <<world, devCount, polled, batch, handled>>

-----------------------------------------------------------------------------
(* ev_wait() and ev_dispatch()                                             *)

(* What epoll_wait() says of a descriptor that has something to say. *)
Readable(i) == IF table[i].dev = Inotify THEN inotify # <<>> ELSE table[i].keys # <<>>
HungUp(i)   == table[i].dev # Inotify /\ ~Present(table[i].dev)
Ready       == {i \in DOMAIN table : table[i].watched /\ (Readable(i) \/ HungUp(i))}

EvWait ==
  /\ pc = "wait" /\ Ready # {}
  /\ polled' = {[slot |-> i, in |-> Readable(i), hup |-> HungUp(i)] : i \in Ready}
  /\ pc' = "dispatch"
  /\ UNCHANGED <<world, table, devCount, miscCount, batch, handled, passed>>

(* Nothing within 500 ms, or no epoll set at all; the loop goes on. *)
TimeOut ==
  /\ pc = "failed" \/ (pc = "wait" /\ Ready = {})
  /\ UNCHANGED vars

Drained(keys) == <<>>   \* a mutant: more than one event is read, and one handled

AfterRead(keys) == Tail(keys)

StillWatched == TRUE    \* a mutant: no EPOLL_CTL_DEL

AfterHup == FALSE

(* onInputEvent() with ev_get_input(): one event is read, or, when the     *)
(* device is gone and epoll_wait() knew, its watch is deleted.  Neither    *)
(* descriptor nor slot is ever given back.                                 *)
DispatchInput ==
  /\ pc = "dispatch"
  /\ \E p \in polled :
       LET fd == table[p.slot] IN
       /\ fd.dev # Inotify
       /\ polled' = polled \ {p}
       /\ \/ /\ p.in /\ Present(fd.dev)
             /\ handled' = Append(handled, Head(fd.keys))
             /\ table' = [table EXCEPT ![p.slot].keys = AfterRead(@)]
          \/ /\ ~(p.in /\ Present(fd.dev)) /\ p.hup
             /\ table' = [table EXCEPT ![p.slot].watched = AfterHup]
             /\ UNCHANGED handled
          \/ /\ ~(p.in /\ Present(fd.dev)) /\ ~p.hup
             /\ UNCHANGED <<table, handled>>
  /\ UNCHANGED <<world, pc, devCount, miscCount, batch, passed>>

(* inotify_cb() up to its loop: everything that is queued is read. *)
DispatchInotify ==
  /\ pc = "dispatch"
  /\ \E p \in polled : table[p.slot].dev = Inotify /\ polled' = polled \ {p}
  /\ batch' = inotify /\ inotify' = <<>>
  /\ pc' = "names"
  /\ UNCHANGED <<plugged, gen, listing, pressed, twice, table, devCount, miscCount,
                 handled, passed>>

DispatchDone ==
  /\ pc = "dispatch" /\ polled = {}
  /\ pc' = "wait"
  /\ UNCHANGED <<world, table, devCount, miscCount, polled, batch, handled, passed>>

(* One round of the loop of inotify_cb(). *)
LookAtName ==
  /\ pc = "names" /\ batch # <<>>
  /\ \/ /\ Head(batch) \in EventNodes \ plugged  \* openat() fails: break
        /\ batch' = <<>>
        /\ passed' = passed \union {Device(n) : n \in Range(Tail(batch))}
        /\ UNCHANGED <<table, miscCount>>
     \/ /\ Head(batch) \in OtherNodes \union plugged /\ ~ShouldAdd(Head(batch))
        /\ batch' = Tail(batch)
        /\ UNCHANGED <<table, miscCount, passed>>
     \/ /\ Head(batch) \in plugged /\ ShouldAdd(Head(batch))
        /\ batch' = Tail(batch)
        /\ EvAddFd(Device(Head(batch)))
  /\ UNCHANGED <<world, pc, devCount, polled, handled>>

NamesDone ==
  /\ pc = "names" /\ batch = <<>>
  /\ pc' = "dispatch"
  /\ UNCHANGED <<world, table, devCount, miscCount, polled, batch, handled, passed>>

Step ==
  \/ AddWatch \/ ScanNode \/ ScanEnd \/ AddInotify
  \/ EvWait \/ DispatchInput \/ DispatchInotify \/ DispatchDone
  \/ LookAtName \/ NamesDone

-----------------------------------------------------------------------------
(* The devices and the user.                                               *)

(* A mutant: IN_CREATE | IN_ATTRIB, and mdev sets the owner of a new node. *)
NotedTwice(queue, n) == queue \o <<n, n>>

(* The kernel drops an event that repeats the last one in the queue. *)
Noted(queue, n) == IF queue # <<>> /\ Last(queue) = n THEN queue ELSE Append(queue, n)

(* A directory that is being read may or may not show a new entry. *)
Plug(n) ==
  /\ n \notin plugged /\ Plugged(gen) < MaxPlugs
  /\ plugged' = plugged \union {n}
  /\ gen' = [gen EXCEPT ![n] = @ + 1]
  /\ inotify' = IF Watching THEN Noted(inotify, n) ELSE inotify
  /\ listing' \in IF pc = "scan" THEN {listing, listing \union {n}} ELSE {listing}
  /\ twice' = IF pc = "scan" \/ n \in Range(inotify \o batch)
                THEN twice \union {<<n, gen'[n]>>} ELSE twice
  /\ UNCHANGED <<program, pressed>>

(* What was not read of its keys cannot be read any more. *)
Unplug(n) ==
  /\ n \in plugged
  /\ plugged' = plugged \ {n} /\ listing' = listing \ {n}
  /\ table' = [i \in DOMAIN table |->
                 IF table[i].dev = Device(n) THEN [table[i] EXCEPT !.keys = <<>>] ELSE table[i]]
  /\ passed' = passed \ {Device(n)}
  /\ UNCHANGED <<gen, inotify, pressed, twice, pc, devCount, miscCount, polled, batch,
                 handled>>

Listened(d) == \E i \in DOMAIN table : table[i].dev = d

(* Every descriptor of the device gets the key; without one it is lost. *)
Press(n) ==
  /\ n \in plugged /\ Listened(Device(n)) /\ Len(pressed) < MaxKeys
  /\ pressed' = Append(pressed, Device(n))
  /\ table' = [i \in DOMAIN table |->
                 IF table[i].dev = Device(n)
                   THEN [table[i] EXCEPT !.keys = Append(@, Len(pressed'))] ELSE table[i]]
  /\ UNCHANGED <<plugged, gen, inotify, listing, twice, pc, devCount, miscCount, polled,
                 batch, handled, passed>>

Next ==
  \/ Step \/ TimeOut
  \/ \E n \in Nodes : Plug(n) \/ Unplug(n) \/ Press(n)

Spec == Init /\ [][Next]_vars /\ WF_vars(Step)
-----------------------------------------------------------------------------
Devices == Nodes \X (1..MaxPlugs)

(* Type correctness; g_ev_count (the length of the table) is the sum of    *)
(* the other two counters, and none exceeds its part of ev_fdinfo.         *)
TypeOK ==
  /\ plugged \subseteq Nodes /\ gen \in [Nodes -> 0..MaxPlugs]
  /\ inotify \in Seq(Nodes) /\ batch \in Seq(Nodes) /\ listing \subseteq plugged
  /\ pc \in {"start", "scan", "watch", "wait", "dispatch", "names", "failed"}
  /\ table \in Seq([dev : Devices \union {Inotify}, keys : Seq(1..MaxKeys),
                    watched : BOOLEAN])
  /\ devCount \in 0..MAX_DEVICES /\ miscCount \in 0..MAX_MISC_FDS
  /\ Len(table) = devCount + miscCount
  /\ \A p \in polled : p.slot \in DOMAIN table
  /\ pressed \in Seq(Devices) /\ handled \in Seq(1..MaxKeys)
  /\ twice \subseteq Devices /\ passed \subseteq Devices

(* The menu is given the keys of a device in the order they were pressed   *)
(* and each of them once (ev_get_input(), events.cpp:254), unless the      *)
(* device appeared between inotify_add_watch() and the end of readdir()    *)
(* (events.cpp:155-188), or while its name was still queued from before:   *)
(* then it is opened twice and every key counts twice.                     *)
KeysActOnce ==
  \A i, j \in DOMAIN handled :
    i < j /\ pressed[handled[i]] = pressed[handled[j]] /\ pressed[handled[i]] \notin twice
      => handled[i] < handled[j]

(* A keyboard that stays plugged in is listened to, whenever it appeared,  *)
(* unless it found the table full, came behind a failing openat()          *)
(* (events.cpp:127), or there was no /dev/input when the menu started.     *)
KeyboardsFound ==
  \A d \in KeyNodes \X (1..MaxPlugs) :
    <>[]Present(d) => <>(Listened(d) \/ d \in passed \/ pc = "failed")

(* Every key of a device that is listened to is handled, unless the device *)
(* is gone before: ev_get_input() reads one event each time, and what is   *)
(* left makes the next ev_wait() return.                                   *)
Unread(k) == \E i \in DOMAIN table : k \in Range(table[i].keys)
Gone(k)   == k \in DOMAIN pressed /\ ~Present(pressed[k])

KeysHandled == \A k \in 1..MaxKeys : Unread(k) ~> k \in Range(handled) \/ Gone(k)

(* A device that is gone does not keep the loop busy: its descriptor       *)
(* leaves the epoll set (events.cpp:261), although it keeps its slot.      *)
Busy(i) == i \in DOMAIN table /\ table[i].watched /\ HungUp(i)

HangUpsEnd == \A i \in 1..MAX_DEVICES + MAX_MISC_FDS : Busy(i) ~> ~Busy(i)
=============================================================================
