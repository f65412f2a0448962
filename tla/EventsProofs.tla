---------------------------- MODULE EventsProofs ----------------------------
(***************************************************************************)
(* Proofs about Events, for every set of nodes, every size of ev_fdinfo,   *)
(* and however often devices come and go: each key acts once, in order     *)
(* (KeysActOnce), and the table keeps to its types and its size (TypeOK).  *)
(***************************************************************************)
EXTENDS Events, TLAPS, FiniteSetTheorems

AnyDevice == Nodes \X (Nat \ {0})
Entries   == [dev : AnyDevice \union {Inotify}, keys : Seq(Nat), watched : BOOLEAN]

(* The types that the argument about keys needs; the rest, and the sizes   *)
(* of the counters, are in TypesInv below.                                 *)
LoopTypeOK ==
  /\ plugged \subseteq Nodes /\ gen \in [Nodes -> Nat]
  /\ \A n \in plugged : gen[n] # 0
  /\ inotify \in Seq(Nodes) /\ batch \in Seq(Nodes) /\ listing \subseteq plugged
  /\ table \in Seq(Entries)
  /\ pressed \in Seq(AnyDevice) /\ handled \in Seq(Nat)
  /\ \A i \in DOMAIN table : table[i].dev \in AnyDevice => table[i].dev[2] <= gen[table[i].dev[1]]
  /\ \A h \in DOMAIN handled : handled[h] \in DOMAIN pressed
  /\ pc = "start" => table = <<>> /\ inotify = <<>> /\ batch = <<>>

Single(s, n) == \A a, b \in DOMAIN s : s[a] = n /\ s[b] = n => a = b
In(s, n)     == \E a \in DOMAIN s : s[a] = n

(* A device that is there and cannot be found twice is in one place at     *)
(* most: to be read by readdir(), queued, about to be looked at, or in the *)
(* table.                                                                  *)
InOnePlace ==
  \A n \in plugged : Device(n) \notin twice =>
    /\ Single(inotify, n) /\ Single(batch, n)
    /\ n \in listing => ~In(inotify, n) /\ ~In(batch, n) /\ ~Listened(Device(n))
    /\ In(inotify, n) => ~In(batch, n) /\ ~Listened(Device(n))
    /\ In(batch, n) => ~Listened(Device(n))

(* No device that cannot be found twice is in the table twice.             *)
OneSlot ==
  \A i, j \in DOMAIN table :
    table[i].dev \in AnyDevice \ twice /\ table[j].dev = table[i].dev => i = j

SourceInv == InOnePlace /\ OneSlot

(* What is unread of a descriptor was pressed on its device, in that       *)
(* order, and after everything that was handled of it.                     *)
KeyInv ==
  \A i \in DOMAIN table : table[i].dev \in AnyDevice =>
    /\ \A a \in DOMAIN table[i].keys :
         table[i].keys[a] \in DOMAIN pressed /\ pressed[table[i].keys[a]] = table[i].dev
    /\ \A a, b \in DOMAIN table[i].keys : a < b => table[i].keys[a] < table[i].keys[b]
    /\ table[i].dev \notin twice =>
         \A h \in DOMAIN handled : pressed[handled[h]] = table[i].dev =>
           \A a \in DOMAIN table[i].keys : handled[h] < table[i].keys[a]

(* What epoll_wait() said of a device is still so if the device is there.  *)
PolledInv ==
  /\ \A p \in polled : p.slot \in DOMAIN table
  /\ \A p, q \in polled : p.slot = q.slot => p = q
  /\ \A p \in polled :
       p.in /\ table[p.slot].dev \in AnyDevice /\ Present(table[p.slot].dev)
         => table[p.slot].keys # <<>>

LoopInv == LoopTypeOK /\ SourceInv /\ KeyInv /\ PolledInv /\ KeysActOnce

-----------------------------------------------------------------------------
LEMMA LoopInit == Init => LoopInv
<1> SUFFICES ASSUME Init PROVE LoopInv
  OBVIOUS
<1>1. /\ inotify = <<>> /\ batch = <<>> /\ table = <<>> /\ handled = <<>> /\ pressed = <<>>
      /\ listing = {} /\ polled = {} /\ plugged \subseteq Nodes
      /\ gen \in [Nodes -> Nat] /\ \A n \in plugged : gen[n] # 0
  BY DEF Init
<1>2. LoopTypeOK
  BY <1>1 DEF LoopTypeOK
<1>3. SourceInv
  BY <1>1 DEF SourceInv, InOnePlace, OneSlot, Single, In
<1>4. KeyInv /\ PolledInv /\ KeysActOnce
  BY <1>1 DEF KeyInv, PolledInv, KeysActOnce
<1>5. QED
  BY <1>2, <1>3, <1>4 DEF LoopInv

-----------------------------------------------------------------------------
(* Steps that add a descriptor to the table, or leave it alone.            *)

LEMMA DeviceFacts ==
  ASSUME LoopTypeOK
  PROVE  /\ \A n \in plugged : Device(n) \in AnyDevice /\ n \in Nodes
         /\ Inotify \notin AnyDevice
         /\ \A d \in AnyDevice : Present(d) <=> d[1] \in plugged /\ d = Device(d[1])
  BY DEF LoopTypeOK, Device, Inotify, AnyDevice, Present

Grows ==
  \A i \in DOMAIN table : i \in DOMAIN table' /\ table'[i] = table[i]

Fresh ==
  \A i \in DOMAIN table' : i \notin DOMAIN table => table'[i].keys = <<>>

LEMMA TableGrows ==
  ASSUME LoopTypeOK, NEW d, d = Inotify \/ \E n \in plugged : d = Device(n),
         table' = Append(table, Descriptor(d))
  PROVE  /\ Grows /\ Fresh
         /\ DOMAIN table' = DOMAIN table \union {Len(table) + 1}
         /\ Len(table) + 1 \notin DOMAIN table
         /\ table'[Len(table) + 1].dev = d
         /\ table' \in Seq(Entries)
<1>1. table \in Seq(Entries)
  BY DEF LoopTypeOK
<1>2. d \in AnyDevice \union {Inotify}
  BY DeviceFacts
<1>3. Descriptor(d) \in Entries
  BY <1>2 DEF Descriptor, Entries
<1>4. /\ Descriptor(d).dev = d /\ Descriptor(d).keys = <<>>
  BY DEF Descriptor
<1> DEFINE e == Descriptor(d)
<1> HIDE DEF e
<1>5. table \in Seq(Entries) /\ e \in Entries
  BY <1>1, <1>3 DEF e
<1>6. /\ Append(table, e) \in Seq(Entries) /\ DOMAIN table = 1..Len(table) /\ Len(table) \in Nat
      /\ DOMAIN Append(table, e) = 1..Len(table) + 1
      /\ \A i \in 1..Len(table) : Append(table, e)[i] = table[i]
      /\ Append(table, e)[Len(table) + 1] = e
  BY <1>5
<1>7. table' = Append(table, e) /\ e.dev = d /\ e.keys = <<>>
  BY <1>4 DEF e
<1>8. DOMAIN table' = DOMAIN table \union {Len(table) + 1} /\ Len(table) + 1 \notin DOMAIN table
  BY <1>6, <1>7
<1>9. Grows
  BY <1>6, <1>7, <1>8 DEF Grows
<1>10. Fresh
  BY <1>6, <1>7, <1>8 DEF Fresh
<1>11. QED
  BY <1>6, <1>7, <1>8, <1>9, <1>10

LEMMA KeysKept ==
  ASSUME KeyInv, KeysActOnce, Grows, Fresh, UNCHANGED <<pressed, handled, twice>>
  PROVE  KeyInv' /\ KeysActOnce'
<1>1. ASSUME NEW i \in DOMAIN table', i \in DOMAIN table
      PROVE  table'[i] = table[i]
  BY <1>1 DEF Grows
<1>2. ASSUME NEW i \in DOMAIN table', i \notin DOMAIN table
      PROVE  DOMAIN table'[i].keys = {}
  BY <1>2 DEF Fresh
<1>3. KeyInv'
  BY <1>1, <1>2 DEF KeyInv
<1>4. KeysActOnce'
  BY DEF KeysActOnce
<1>5. QED
  BY <1>3, <1>4

LEMMA PolledKept ==
  ASSUME PolledInv, Grows, polled' \subseteq polled, UNCHANGED <<plugged, gen>>
  PROVE  PolledInv'
  BY DEF PolledInv, Grows, Present

(* The table does not change. *)
LEMMA TableKept == UNCHANGED table => Grows /\ Fresh
  BY DEF Grows, Fresh

LEMMA ListenedGrows ==
  ASSUME LoopTypeOK, NEW d, d = Inotify \/ \E n \in plugged : d = Device(n),
         table' = Append(table, Descriptor(d))
  PROVE  \A e : Listened(e)' <=> Listened(e) \/ e = d
  BY TableGrows DEF Listened, Grows

(* A descriptor for a device that has none yet, or for the inotify queue.  *)
LEMMA OneSlotMore ==
  ASSUME LoopTypeOK, OneSlot, NEW d, d = Inotify \/ \E n \in plugged : d = Device(n),
         table' = Append(table, Descriptor(d)), UNCHANGED twice,
         d \in AnyDevice \ twice => ~Listened(d)
  PROVE  OneSlot'
<1> SUFFICES ASSUME NEW i \in DOMAIN table', NEW j \in DOMAIN table',
                    table'[i].dev \in AnyDevice \ twice, table'[j].dev = table'[i].dev
             PROVE  i = j
  BY DEF OneSlot
<1>1. /\ DOMAIN table' = DOMAIN table \union {Len(table) + 1}
      /\ table'[Len(table) + 1].dev = d
      /\ \A k \in DOMAIN table : table'[k] = table[k]
  BY TableGrows DEF Grows
<1>2. CASE i \in DOMAIN table /\ j \in DOMAIN table
  BY <1>1, <1>2 DEF OneSlot
<1>3. CASE i = Len(table) + 1 \/ j = Len(table) + 1
  BY <1>1, <1>3 DEF Listened
<1>4. QED
  BY <1>1, <1>2, <1>3

LEMMA TypeMore ==
  ASSUME LoopTypeOK, NEW d, d = Inotify \/ \E n \in plugged : d = Device(n),
         table' = Append(table, Descriptor(d)), UNCHANGED gen
  PROVE  \A i \in DOMAIN table' : table'[i].dev \in AnyDevice =>
           table'[i].dev[2] <= gen'[table'[i].dev[1]]
<1>1. /\ DOMAIN table' = DOMAIN table \union {Len(table) + 1}
      /\ table'[Len(table) + 1].dev = d
      /\ \A k \in DOMAIN table : table'[k] = table[k]
  BY TableGrows DEF Grows
<1>2. ASSUME d \in AnyDevice
      PROVE  d[2] <= gen[d[1]]
  <2>1. PICK n \in plugged : d = <<n, gen[n]>>
    BY <1>2, DeviceFacts DEF Device
  <2>2. gen[n] \in Nat
    BY DEF LoopTypeOK
  <2>3. QED
    BY <2>1, <2>2
<1>3. QED
  BY <1>1, <1>2 DEF LoopTypeOK

-----------------------------------------------------------------------------
LEMMA AddWatchStep == LoopInv /\ AddWatch => LoopInv'
<1> SUFFICES ASSUME LoopInv, AddWatch PROVE LoopInv'
  OBVIOUS
<1>1. /\ table = <<>> /\ inotify = <<>> /\ batch = <<>> /\ pc' # "start"
      /\ listing' \subseteq plugged
      /\ UNCHANGED <<plugged, gen, inotify, pressed, twice, table, batch, polled, handled>>
  BY DEF LoopInv, LoopTypeOK, AddWatch
<1>2. LoopTypeOK'
  BY <1>1 DEF LoopInv, LoopTypeOK
<1>3. SourceInv'
  BY <1>1 DEF SourceInv, InOnePlace, OneSlot, Single, In, Listened
<1>4. KeyInv' /\ KeysActOnce'
  BY <1>1, TableKept, KeysKept DEF LoopInv
<1>5. PolledInv'
  BY <1>1, TableKept, PolledKept DEF LoopInv
<1>6. QED
  BY <1>2, <1>3, <1>4, <1>5 DEF LoopInv

(* Steps that change nothing but the place the program is at, and what it  *)
(* still has to look at.                                                   *)
LEMMA OnwardStep ==
  ASSUME LoopInv, pc' # "start", polled' \subseteq polled,
         UNCHANGED <<plugged, gen, inotify, listing, pressed, twice, table, batch, handled>>
  PROVE  LoopInv'
<1>1. LoopTypeOK'
  BY DEF LoopInv, LoopTypeOK
<1>2. SourceInv'
  BY DEF LoopInv, SourceInv, InOnePlace, OneSlot, Single, In, Listened, Device
<1>3. KeyInv' /\ KeysActOnce'
  BY TableKept, KeysKept DEF LoopInv
<1>4. PolledInv'
  BY TableKept, PolledKept DEF LoopInv
<1>5. QED
  BY <1>1, <1>2, <1>3, <1>4 DEF LoopInv

LEMMA ScanNodeStep == LoopInv /\ ScanNode => LoopInv'
<1> SUFFICES ASSUME LoopInv, ScanNode PROVE LoopInv'
  OBVIOUS
<1> USE DEF LoopInv
<1>1. PICK n \in listing :
        /\ listing' = listing \ {n}
        /\ pc' # "start"
        /\ table' = Append(table, Descriptor(Device(n))) \/ UNCHANGED table
  BY DEF ScanNode
<1>2. /\ UNCHANGED <<plugged, gen, inotify, pressed, twice, polled, batch, handled>>
      /\ n \in plugged
  BY DEF ScanNode, LoopTypeOK
<1>3. CASE table' = Append(table, Descriptor(Device(n)))
  <2>1. LoopTypeOK'
    BY <1>1, <1>2, <1>3, TableGrows, TypeMore DEF LoopTypeOK
  <2>2. InOnePlace'
    BY <1>1, <1>2, <1>3, ListenedGrows DEF SourceInv, InOnePlace, Single, In, Device
  <2>3. OneSlot'
    BY <1>1, <1>2, <1>3, OneSlotMore DEF SourceInv, InOnePlace
  <2>4. Grows /\ Fresh
    BY <1>2, <1>3, TableGrows
  <2>5. KeyInv' /\ KeysActOnce' /\ PolledInv'
    BY <1>2, <2>4, KeysKept, PolledKept
  <2>6. QED
    BY <2>1, <2>2, <2>3, <2>5 DEF SourceInv
<1>4. CASE UNCHANGED table
  <2>1. LoopTypeOK'
    BY <1>1, <1>2, <1>4 DEF LoopTypeOK
  <2>2. SourceInv'
    BY <1>1, <1>2, <1>4 DEF SourceInv, InOnePlace, OneSlot, Single, In, Listened, Device
  <2>3. KeyInv' /\ KeysActOnce' /\ PolledInv'
    BY <1>2, <1>4, TableKept, KeysKept, PolledKept
  <2>4. QED
    BY <2>1, <2>2, <2>3
<1>5. QED
  BY <1>1, <1>3, <1>4

LEMMA AddInotifyStep == LoopInv /\ AddInotify => LoopInv'
<1> SUFFICES ASSUME LoopInv, AddInotify PROVE LoopInv'
  OBVIOUS
<1> USE DEF LoopInv
<1>1. /\ pc' # "start"
      /\ UNCHANGED <<plugged, gen, inotify, listing, pressed, twice, polled, batch, handled>>
      /\ table' = Append(table, Descriptor(Inotify)) \/ UNCHANGED table
  BY DEF AddInotify, EvAddFd, world
<1>2. CASE table' = Append(table, Descriptor(Inotify))
  <2>1. LoopTypeOK'
    BY <1>1, <1>2, TableGrows, TypeMore DEF LoopTypeOK
  <2>2. InOnePlace'
    BY <1>1, <1>2, ListenedGrows, DeviceFacts DEF SourceInv, InOnePlace, Single, In, Device
  <2>3. OneSlot'
    BY <1>1, <1>2, OneSlotMore, DeviceFacts DEF SourceInv
  <2>4. Grows /\ Fresh
    BY <1>2, TableGrows
  <2>5. KeyInv' /\ KeysActOnce' /\ PolledInv'
    BY <1>1, <2>4, KeysKept, PolledKept
  <2>6. QED
    BY <2>1, <2>2, <2>3, <2>5 DEF SourceInv
<1>3. CASE UNCHANGED table
  BY <1>1, <1>3, OnwardStep
<1>4. QED
  BY <1>1, <1>2, <1>3

-----------------------------------------------------------------------------
LEMMA EvWaitStep == LoopInv /\ EvWait => LoopInv'
<1> SUFFICES ASSUME LoopInv, EvWait PROVE LoopInv'
  OBVIOUS
<1> USE DEF LoopInv
<1>1. /\ pc' # "start"
      /\ UNCHANGED <<plugged, gen, inotify, listing, pressed, twice, table, batch, handled>>
      /\ polled' = {[slot |-> i, in |-> Readable(i), hup |-> HungUp(i)] : i \in Ready}
  BY DEF EvWait, world
<1>2. LoopTypeOK'
  BY <1>1 DEF LoopTypeOK
<1>3. SourceInv'
  BY <1>1 DEF SourceInv, InOnePlace, OneSlot, Single, In, Listened, Device
<1>4. KeyInv' /\ KeysActOnce'
  BY <1>1, TableKept, KeysKept
<1>5. ASSUME NEW p \in polled'
      PROVE  /\ p.slot \in DOMAIN table
             /\ p = [slot |-> p.slot, in |-> Readable(p.slot), hup |-> HungUp(p.slot)]
  BY <1>1, <1>5 DEF Ready
<1>6. PolledInv'
  <2>1. \A p \in polled' : p.slot \in DOMAIN table'
    BY <1>1, <1>5
  <2>2. \A p, q \in polled' : p.slot = q.slot => p = q
    BY <1>5
  <2>3. ASSUME NEW p \in polled', p.in, table[p.slot].dev \in AnyDevice
        PROVE  table[p.slot].keys # <<>>
    <3>1. Readable(p.slot)
      BY <1>5, <2>3
    <3>2. QED
      BY <2>3, <3>1, DeviceFacts DEF Readable
  <2>4. QED
    BY <1>1, <2>1, <2>2, <2>3 DEF PolledInv
<1>7. QED
  BY <1>2, <1>3, <1>4, <1>6

LEMMA DispatchInotifyStep == LoopInv /\ DispatchInotify => LoopInv'
<1> SUFFICES ASSUME LoopInv, DispatchInotify PROVE LoopInv'
  OBVIOUS
<1> USE DEF LoopInv
<1>1. /\ pc' # "start" /\ batch' = inotify /\ inotify' = <<>>
      /\ UNCHANGED <<plugged, gen, listing, pressed, twice, table, handled>>
      /\ polled' \subseteq polled
  BY DEF DispatchInotify
<1>2. LoopTypeOK'
  BY <1>1 DEF LoopTypeOK
<1>3. SourceInv'
  BY <1>1 DEF SourceInv, InOnePlace, OneSlot, Single, In, Listened, Device
<1>4. KeyInv' /\ KeysActOnce' /\ PolledInv'
  BY <1>1, TableKept, KeysKept, PolledKept
<1>5. QED
  BY <1>2, <1>3, <1>4

(* What is left of a sequence without its head.                            *)
LEMMA TailFacts ==
  ASSUME NEW S, NEW s \in Seq(S), s # <<>>
  PROVE  /\ 1 \in DOMAIN s /\ Head(s) = s[1] /\ Head(s) \in S /\ Tail(s) \in Seq(S)
         /\ \A a \in DOMAIN Tail(s) : a \in Int /\ a + 1 \in DOMAIN s /\ 1 < a + 1
                                     /\ Tail(s)[a] = s[a + 1]
<1>1. /\ Len(s) \in Nat /\ Len(s) # 0 /\ DOMAIN s = 1..Len(s)
  OBVIOUS
<1>2. /\ Head(s) = s[1] /\ 1 \in DOMAIN s /\ s[1] \in S
  BY <1>1
<1>3. /\ Tail(s) \in Seq(S) /\ Len(Tail(s)) = Len(s) - 1
      /\ \A a \in 1..Len(s) - 1 : Tail(s)[a] = s[a + 1]
  BY <1>1
<1>4. DOMAIN Tail(s) = 1..Len(s) - 1
  BY <1>3
<1>5. QED
  BY <1>1, <1>2, <1>3, <1>4

LEMMA InTail ==
  ASSUME NEW S, NEW s \in Seq(S), s # <<>>
  PROVE  /\ In(s, Head(s))
         /\ \A n : In(Tail(s), n) => In(s, n)
         /\ \A n : Single(s, n) => Single(Tail(s), n)
         /\ Single(s, Head(s)) => ~In(Tail(s), Head(s))
<1>1. In(s, Head(s)) /\ \A n : In(Tail(s), n) => In(s, n)
  BY TailFacts DEF In
<1>2. ASSUME NEW n, Single(s, n), NEW a \in DOMAIN Tail(s), NEW b \in DOMAIN Tail(s),
             Tail(s)[a] = n, Tail(s)[b] = n
      PROVE  a = b
  <2>1. /\ a \in Int /\ b \in Int /\ a + 1 \in DOMAIN s /\ b + 1 \in DOMAIN s
        /\ s[a + 1] = n /\ s[b + 1] = n
    BY <1>2, TailFacts
  <2>2. a + 1 = b + 1
    BY <1>2, <2>1 DEF Single
  <2>3. QED
    BY <2>1, <2>2
<1>3. ASSUME Single(s, Head(s)), NEW a \in DOMAIN Tail(s), Tail(s)[a] = Head(s)
      PROVE  FALSE
  <2>1. a \in Int /\ a + 1 \in DOMAIN s /\ 1 < a + 1 /\ s[a + 1] = s[1] /\ 1 \in DOMAIN s
        /\ Head(s) = s[1]
    BY <1>3, TailFacts
  <2>2. a + 1 = 1
    BY <1>3, <2>1 DEF Single
  <2>3. QED
    BY <2>1, <2>2
<1>4. QED
  BY <1>1, <1>2, <1>3 DEF Single, In

LEMMA LookAtNameStep == LoopInv /\ LookAtName => LoopInv'
<1> SUFFICES ASSUME LoopInv, LookAtName PROVE LoopInv'
  OBVIOUS
<1> USE DEF LoopInv
<1>1. /\ UNCHANGED <<plugged, gen, inotify, listing, pressed, twice, polled, handled>>
      /\ pc' # "start" /\ batch # <<>> /\ batch \in Seq(Nodes)
      /\ batch' = <<>> \/ batch' = Tail(batch)
  BY DEF LookAtName, EvAddFd, world, LoopTypeOK
<1>2. /\ batch' \in Seq(Nodes)
      /\ \A n : In(batch', n) => In(batch, n)
      /\ \A n : Single(batch, n) => Single(batch', n)
  <2>1. CASE batch' = <<>>
    BY <2>1 DEF In, Single
  <2>2. CASE batch' = Tail(batch)
    <3>1. \A n : (In(Tail(batch), n) => In(batch, n)) /\ (Single(batch, n) => Single(Tail(batch), n))
      BY <1>1, InTail
    <3>2. Tail(batch) \in Seq(Nodes)
      BY <1>1
    <3>3. QED
      BY <2>2, <3>1, <3>2 DEF In, Single
  <2>3. QED
    BY <1>1, <2>1, <2>2
<1>3. CASE UNCHANGED table
  <2>1. LoopTypeOK'
    BY <1>1, <1>2, <1>3 DEF LoopTypeOK
  <2>2. InOnePlace'
    BY <1>1, <1>2, <1>3 DEF SourceInv, InOnePlace, Listened, Device
  <2>3. OneSlot'
    BY <1>1, <1>3 DEF SourceInv, OneSlot
  <2>4. KeyInv' /\ KeysActOnce' /\ PolledInv'
    BY <1>1, <1>3, TableKept, KeysKept, PolledKept
  <2>5. QED
    BY <2>1, <2>2, <2>3, <2>4 DEF SourceInv
<1>4. CASE ~UNCHANGED table
  <2>1. PICK n : n = Head(batch)
    OBVIOUS
  <2>2. /\ n \in plugged /\ batch' = Tail(batch)
        /\ table' = Append(table, Descriptor(Device(n)))
    BY <1>4, <2>1 DEF LookAtName, EvAddFd
  <2>3. In(batch, n) /\ (Single(batch, n) => ~In(batch', n))
    BY <1>1, <2>1, <2>2, InTail
  <2>4. Device(n) \notin twice =>
          ~In(batch', n) /\ n \notin listing /\ ~In(inotify, n) /\ ~Listened(Device(n))
    BY <2>2, <2>3 DEF SourceInv, InOnePlace
  <2>5. LoopTypeOK'
    BY <1>1, <1>2, <2>2, TableGrows, TypeMore DEF LoopTypeOK
  <2>6. \A e : Listened(e)' <=> Listened(e) \/ e = Device(n)
    BY <2>2, ListenedGrows
  <2>7. \A m : Device(m) = Device(n) => m = n
    BY DEF Device
  <2>8. InOnePlace'
    <3> SUFFICES ASSUME NEW m \in plugged, Device(m) \notin twice
                 PROVE  /\ Single(inotify, m) /\ Single(batch', m)
                        /\ m \in listing => ~In(inotify, m) /\ ~In(batch', m) /\ ~Listened(Device(m))'
                        /\ In(inotify, m) => ~In(batch', m) /\ ~Listened(Device(m))'
                        /\ In(batch', m) => ~Listened(Device(m))'
      BY <1>1 DEF InOnePlace, Device
    <3>1. Device(m)' = Device(m)
      BY <1>1 DEF Device
    <3>2. Listened(Device(m))' <=> Listened(Device(m)) \/ m = n
      BY <1>1, <2>6, <2>7 DEF Device, Listened
    <3>3. QED
      BY <1>2, <2>4, <3>2 DEF SourceInv, InOnePlace
  <2>9. OneSlot'
    BY <1>1, <2>2, <2>4, OneSlotMore DEF SourceInv
  <2>10. Grows /\ Fresh
    BY <2>2, TableGrows
  <2>11. KeyInv' /\ KeysActOnce' /\ PolledInv'
    BY <1>1, <2>10, KeysKept, PolledKept
  <2>12. QED
    BY <2>5, <2>8, <2>9, <2>11 DEF SourceInv
<1>5. QED
  BY <1>3, <1>4

(* Steps that change no device and no key in the table.                    *)
LEMMA EntriesKept ==
  ASSUME LoopInv, pc' = pc, DOMAIN table' = DOMAIN table,
         \A i \in DOMAIN table : table'[i].dev = table[i].dev,
         table' \in Seq(Entries),
         UNCHANGED <<plugged, gen, inotify, listing, pressed, twice, batch>>,
         handled' \in Seq(Nat), \A h \in DOMAIN handled' : handled'[h] \in DOMAIN pressed
  PROVE  LoopTypeOK' /\ SourceInv'
<1> USE DEF LoopInv
<1>1. LoopTypeOK'
  <2>1. table = <<>> => table' = <<>>
    OBVIOUS
  <2>2. QED
    BY <2>1 DEF LoopTypeOK
<1>2. \A e : Listened(e)' <=> Listened(e)
  BY DEF Listened
<1>3. InOnePlace'
  BY <1>2 DEF SourceInv, InOnePlace, Single, In, Device
<1>4. OneSlot'
  BY DEF SourceInv, OneSlot
<1>5. QED
  BY <1>1, <1>3, <1>4 DEF SourceInv

(* One entry of the table changes.                                         *)
LEMMA EntryFacts ==
  ASSUME LoopTypeOK, NEW i \in DOMAIN table
  PROVE  /\ table[i] \in Entries
         /\ table[i].dev \in AnyDevice \union {Inotify}
         /\ table[i].keys \in Seq(Nat) /\ table[i].watched \in BOOLEAN
         /\ \A e \in Entries :
              /\ [table EXCEPT ![i] = e] \in Seq(Entries)
              /\ DOMAIN [table EXCEPT ![i] = e] = DOMAIN table
              /\ [table EXCEPT ![i] = e][i] = e
              /\ \A j \in DOMAIN table : j # i => [table EXCEPT ![i] = e][j] = table[j]
<1>1. table \in Seq(Entries)
  BY DEF LoopTypeOK
<1>2. table[i] \in Entries
  BY <1>1
<1>3. /\ table[i].dev \in AnyDevice \union {Inotify}
      /\ table[i].keys \in Seq(Nat) /\ table[i].watched \in BOOLEAN
  BY <1>2 DEF Entries
<1>4. ASSUME NEW e \in Entries
      PROVE  /\ [table EXCEPT ![i] = e] \in Seq(Entries)
             /\ DOMAIN [table EXCEPT ![i] = e] = DOMAIN table
             /\ [table EXCEPT ![i] = e][i] = e
             /\ \A j \in DOMAIN table : j # i => [table EXCEPT ![i] = e][j] = table[j]
  BY <1>1, <1>4
<1>5. QED
  BY <1>2, <1>3, <1>4

LEMMA AppendFacts ==
  ASSUME NEW S, NEW s \in Seq(S), NEW e \in S
  PROVE  /\ Append(s, e) \in Seq(S) /\ Len(s) \in Nat
         /\ DOMAIN s = 1..Len(s) /\ DOMAIN Append(s, e) = 1..Len(s) + 1
         /\ Append(s, e)[Len(s) + 1] = e
         /\ \A a \in DOMAIN s : Append(s, e)[a] = s[a]
  OBVIOUS

LEMMA DispatchInputStep == LoopInv /\ DispatchInput => LoopInv'
<1> SUFFICES ASSUME LoopInv, DispatchInput PROVE LoopInv'
  OBVIOUS
<1> USE DEF LoopInv
<1>1. PICK p \in polled :
        /\ table[p.slot].dev # Inotify
        /\ polled' = polled \ {p}
        /\ \/ /\ p.in /\ Present(table[p.slot].dev)
              /\ handled' = Append(handled, Head(table[p.slot].keys))
              /\ table' = [table EXCEPT ![p.slot].keys = Tail(@)]
           \/ /\ table' = [table EXCEPT ![p.slot].watched = FALSE]
              /\ UNCHANGED handled
           \/ UNCHANGED <<table, handled>>
  BY DEF DispatchInput, AfterRead, AfterHup
<1>2. UNCHANGED <<plugged, gen, inotify, listing, pressed, twice, pc, batch>>
  BY DEF DispatchInput, world
<1>3. PICK i : i = p.slot
  OBVIOUS
<1>4. /\ i \in DOMAIN table /\ table[i].dev \in AnyDevice /\ table[i].keys \in Seq(Nat)
      /\ table[i] \in Entries /\ handled \in Seq(Nat)
  <2>1. i \in DOMAIN table /\ table[i].dev # Inotify /\ handled \in Seq(Nat)
    BY <1>1, <1>3 DEF LoopTypeOK, PolledInv
  <2>2. QED
    BY <2>1, EntryFacts
<1>5. CASE UNCHANGED <<table, handled>>
  <2>1. LoopTypeOK'
    BY <1>2, <1>5 DEF LoopTypeOK
  <2>2. SourceInv'
    BY <1>2, <1>5 DEF SourceInv, InOnePlace, OneSlot, Single, In, Listened, Device
  <2>3. KeyInv' /\ KeysActOnce' /\ PolledInv'
    BY <1>1, <1>2, <1>5, TableKept, KeysKept, PolledKept
  <2>4. QED
    BY <2>1, <2>2, <2>3
<1>6. CASE table' = [table EXCEPT ![i].watched = FALSE] /\ UNCHANGED handled
  <2> DEFINE e == [table[i] EXCEPT !.watched = FALSE]
  <2>1. e \in Entries /\ e.dev = table[i].dev /\ e.keys = table[i].keys
    BY <1>4 DEF Entries
  <2>2. /\ DOMAIN table' = DOMAIN table
        /\ table' \in Seq(Entries)
        /\ table'[i] = e /\ \A j \in DOMAIN table : j # i => table'[j] = table[j]
    <3> HIDE DEF e
    <3>1. table' = [table EXCEPT ![i] = e]
      BY <1>6 DEF e
    <3>2. QED
      BY <1>4, <2>1, <3>1, EntryFacts
  <2>3. \A j \in DOMAIN table : table'[j].dev = table[j].dev /\ table'[j].keys = table[j].keys
    BY <2>1, <2>2
  <2>4. LoopTypeOK' /\ SourceInv'
    BY <1>2, <1>4, <1>6, <2>2, <2>3, EntriesKept DEF LoopTypeOK
  <2>5. KeyInv'
    BY <1>2, <1>6, <2>2, <2>3 DEF KeyInv
  <2>6. KeysActOnce'
    BY <1>2, <1>6 DEF KeysActOnce
  <2>7. PolledInv'
    BY <1>1, <1>2, <2>2, <2>3 DEF PolledInv, Present
  <2>8. QED
    BY <2>4, <2>5, <2>6, <2>7
<1>7. CASE /\ p.in /\ Present(table[i].dev)
           /\ handled' = Append(handled, Head(table[i].keys))
           /\ table' = [table EXCEPT ![i].keys = Tail(@)]
  <2>1. PICK keys : keys = table[i].keys
    OBVIOUS
  <2>2. PICK k : k = Head(keys)
    OBVIOUS
  <2>3. keys \in Seq(Nat) /\ keys # <<>>
    BY <1>1, <1>3, <1>4, <1>7, <2>1 DEF PolledInv
  <2>4. /\ 1 \in DOMAIN keys /\ k = keys[1] /\ k \in Nat /\ Tail(keys) \in Seq(Nat)
        /\ \A a \in DOMAIN Tail(keys) : a \in Int /\ a + 1 \in DOMAIN keys /\ 1 < a + 1
                                      /\ Tail(keys)[a] = keys[a + 1]
    BY <2>2, <2>3, TailFacts
  <2>5. /\ DOMAIN table' = DOMAIN table
        /\ table' \in Seq(Entries)
        /\ table'[i].keys = Tail(keys)
        /\ \A j \in DOMAIN table : j # i => table'[j] = table[j]
        /\ \A j \in DOMAIN table : table'[j].dev = table[j].dev
    <3> DEFINE e == [table[i] EXCEPT !.keys = Tail(keys)]
    <3>1. e \in Entries /\ e.dev = table[i].dev /\ e.keys = Tail(keys)
      BY <1>4, <2>4 DEF Entries
    <3>2. table' = [table EXCEPT ![i] = e]
      BY <1>7, <2>1
    <3> HIDE DEF e
    <3>3. QED
      BY <1>4, <3>1, <3>2, EntryFacts
  <2>6. k \in DOMAIN pressed /\ pressed[k] = table[i].dev
    BY <1>4, <2>1, <2>4 DEF KeyInv
  <2>7. /\ handled' \in Seq(Nat) /\ DOMAIN handled' = 1..Len(handled) + 1
        /\ DOMAIN handled = 1..Len(handled) /\ Len(handled) \in Nat
        /\ handled'[Len(handled) + 1] = k
        /\ \A h \in DOMAIN handled : handled'[h] = handled[h]
    BY <1>4, <1>7, <2>1, <2>2, <2>4, AppendFacts
  <2>8. \A h \in DOMAIN handled' : handled'[h] \in DOMAIN pressed
    <3>1. \A h \in DOMAIN handled : handled[h] \in DOMAIN pressed
      BY DEF LoopTypeOK
    <3>2. \A h \in DOMAIN handled' : h \in DOMAIN handled \/ h = Len(handled) + 1
      BY <2>7
    <3>3. QED
      BY <2>6, <2>7, <3>1, <3>2
  <2>9. LoopTypeOK' /\ SourceInv'
    BY <1>2, <2>5, <2>7, <2>8, EntriesKept
  <2>10. KeyInv'
    <3> SUFFICES ASSUME NEW j \in DOMAIN table, table[j].dev \in AnyDevice
                 PROVE  /\ \A a \in DOMAIN table'[j].keys :
                             /\ table'[j].keys[a] \in DOMAIN pressed
                             /\ pressed[table'[j].keys[a]] = table[j].dev
                        /\ \A a, b \in DOMAIN table'[j].keys :
                             a < b => table'[j].keys[a] < table'[j].keys[b]
                        /\ table[j].dev \notin twice =>
                             \A h \in DOMAIN handled' : pressed[handled'[h]] = table[j].dev =>
                               \A a \in DOMAIN table'[j].keys : handled'[h] < table'[j].keys[a]
      BY <1>2, <2>5 DEF KeyInv
    <3>1. CASE j = i
      <4>1. \A a \in DOMAIN Tail(keys) :
              Tail(keys)[a] \in DOMAIN pressed /\ pressed[Tail(keys)[a]] = table[i].dev
        BY <1>4, <2>1, <2>4 DEF KeyInv
      <4>2. \A a, b \in DOMAIN keys : a < b => keys[a] < keys[b]
        BY <1>4, <2>1 DEF KeyInv
      <4>3. \A a, b \in DOMAIN Tail(keys) : a < b => Tail(keys)[a] < Tail(keys)[b]
        BY <2>4, <4>2
      <4>4. \A a \in DOMAIN Tail(keys) : k < Tail(keys)[a]
        BY <2>4, <4>2
      <4>5. ASSUME table[i].dev \notin twice, NEW h \in DOMAIN handled',
                   pressed[handled'[h]] = table[i].dev, NEW a \in DOMAIN Tail(keys)
            PROVE  handled'[h] < Tail(keys)[a]
        <5>1. CASE h \in DOMAIN handled
          <6>1. handled'[h] = handled[h] /\ pressed[handled[h]] = table[i].dev
            BY <2>7, <4>5, <5>1
          <6>2. \A b \in DOMAIN keys : handled[h] < keys[b]
            BY <1>4, <2>1, <4>5, <5>1, <6>1 DEF KeyInv
          <6>3. QED
            BY <2>4, <4>5, <6>1, <6>2
        <5>2. CASE h = Len(handled) + 1
          <6>1. handled'[h] = k
            BY <2>7, <5>2
          <6>2. k < Tail(keys)[a]
            BY <4>4
          <6>3. QED
            BY <6>1, <6>2
        <5>3. QED
          BY <2>7, <5>1, <5>2
      <4>6. QED
        BY <2>5, <3>1, <4>1, <4>3, <4>5
    <3>2. CASE j # i
      <4>1. table'[j] = table[j]
        BY <2>5, <3>2
      <4>2. ASSUME table[j].dev \notin twice, NEW h \in DOMAIN handled',
                   pressed[handled'[h]] = table[j].dev
            PROVE  h \in DOMAIN handled
        BY <1>4, <2>6, <2>7, <3>2, <4>2 DEF SourceInv, OneSlot
      <4>3. QED
        BY <2>7, <4>1, <4>2 DEF KeyInv
    <3>3. QED
      BY <3>1, <3>2
  <2>11. KeysActOnce'
    <3> SUFFICES ASSUME NEW g \in DOMAIN handled', NEW h \in DOMAIN handled', g < h,
                        pressed[handled'[g]] = pressed[handled'[h]],
                        pressed[handled'[g]] \notin twice
                 PROVE  handled'[g] < handled'[h]
      BY <1>2 DEF KeysActOnce
    <3>1. g \in DOMAIN handled
      BY <2>7
    <3>2. CASE h \in DOMAIN handled
      BY <2>7, <3>1, <3>2 DEF KeysActOnce
    <3>3. CASE h = Len(handled) + 1
      <4>1. handled'[g] = handled[g] /\ handled'[h] = keys[1] /\ pressed[keys[1]] = table[i].dev
        BY <2>4, <2>6, <2>7, <3>1, <3>3
      <4>2. \A a \in DOMAIN keys : handled[g] < keys[a]
        BY <1>4, <2>1, <3>1, <4>1 DEF KeyInv
      <4>3. QED
        BY <2>4, <4>1, <4>2
    <3>4. QED
      BY <2>7, <3>2, <3>3
  <2>12. PolledInv'
    <3>1. \A q \in polled' : q \in polled /\ q.slot # i
      BY <1>1, <1>3 DEF PolledInv
    <3>2. QED
      BY <1>1, <1>2, <2>5, <3>1 DEF PolledInv, Present
  <2>13. QED
    BY <2>9, <2>10, <2>11, <2>12
<1>8. QED
  BY <1>1, <1>3, <1>5, <1>6, <1>7

-----------------------------------------------------------------------------
LEMMA PlugStep == LoopInv => \A n \in Nodes : Plug(n) => LoopInv'
<1> SUFFICES ASSUME LoopInv, NEW n \in Nodes, Plug(n) PROVE LoopInv'
  OBVIOUS
<1> USE DEF LoopInv
<1> DEFINE new == <<n, gen[n] + 1>>
<1>1. /\ n \notin plugged /\ plugged' = plugged \union {n}
      /\ gen' = [gen EXCEPT ![n] = @ + 1]
      /\ inotify' = inotify \/ inotify' = Append(inotify, n)
      /\ pc = "start" => inotify' = inotify
      /\ listing' \subseteq listing \union {n}
      /\ pc # "scan" => listing' = listing
      /\ UNCHANGED <<pc, table, batch, polled, handled, pressed>>
  BY DEF Plug, program, Noted, Watching
<1>2. /\ gen' \in [Nodes -> Nat] /\ gen'[n] = gen[n] + 1 /\ gen[n] \in Nat
      /\ \A m \in Nodes : m # n => gen'[m] = gen[m]
  BY <1>1 DEF LoopTypeOK
<1>3. /\ twice \subseteq twice'
      /\ new \notin twice' => pc # "scan" /\ n \notin Range(inotify \o batch)
  BY <1>2 DEF Plug
<1>4. /\ plugged \subseteq Nodes /\ listing \subseteq plugged
      /\ inotify \in Seq(Nodes) /\ batch \in Seq(Nodes)
  BY DEF LoopTypeOK
<1>5. n \notin Range(inotify \o batch) => ~In(inotify, n) /\ ~In(batch, n)
  <2>1. /\ \A a \in DOMAIN inotify : a \in DOMAIN (inotify \o batch) /\ (inotify \o batch)[a] = inotify[a]
        /\ \A a \in DOMAIN batch : Len(inotify) + a \in DOMAIN (inotify \o batch)
                                /\ (inotify \o batch)[Len(inotify) + a] = batch[a]
    BY <1>4
  <2>2. QED
    BY <2>1 DEF Range, In
<1>6. /\ \A m : m # n => (In(inotify', m) <=> In(inotify, m))
      /\ \A m : m # n => (Single(inotify, m) => Single(inotify', m))
      /\ ~In(inotify, n) => Single(inotify', n)
      /\ inotify' \in Seq(Nodes)
  <2>1. CASE inotify' = inotify
    BY <1>4, <2>1 DEF In, Single
  <2>2. CASE inotify' = Append(inotify, n)
    <3>1. /\ inotify' \in Seq(Nodes) /\ Len(inotify) \in Nat /\ inotify'[Len(inotify) + 1] = n
          /\ DOMAIN inotify' = DOMAIN inotify \union {Len(inotify) + 1}
          /\ \A a \in DOMAIN inotify : inotify'[a] = inotify[a]
      BY <1>4, <2>2, AppendFacts
    <3>2. QED
      BY <3>1 DEF In, Single
  <2>3. QED
    BY <1>1, <2>1, <2>2
<1>7. \A i \in DOMAIN table : table[i].dev \in AnyDevice =>
        /\ table[i].dev[2] <= gen[table[i].dev[1]] /\ table[i].dev # new
        /\ Present(table[i].dev)' => Present(table[i].dev)
  <2> SUFFICES ASSUME NEW i \in DOMAIN table, table[i].dev \in AnyDevice
               PROVE  /\ table[i].dev[2] <= gen[table[i].dev[1]] /\ table[i].dev # new
                      /\ Present(table[i].dev)' => Present(table[i].dev)
    OBVIOUS
  <2>1. table[i].dev[2] <= gen[table[i].dev[1]] /\ table[i].dev[1] \in Nodes /\ table[i].dev[2] \in Nat
    BY DEF LoopTypeOK, AnyDevice
  <2>2. table[i].dev # new
    BY <1>2, <2>1
  <2>3. Present(table[i].dev)' => Present(table[i].dev)
    BY <1>1, <1>2, <2>1 DEF Present
  <2>4. QED
    BY <2>1, <2>2, <2>3
<1>8. LoopTypeOK'
  <2>1. \A i \in DOMAIN table : table[i].dev \in AnyDevice => table[i].dev[2] <= gen'[table[i].dev[1]]
    <3> SUFFICES ASSUME NEW i \in DOMAIN table, table[i].dev \in AnyDevice
                 PROVE  table[i].dev[2] <= gen'[table[i].dev[1]]
      OBVIOUS
    <3>1. table[i].dev[1] \in Nodes /\ table[i].dev[2] \in Nat
      BY DEF AnyDevice
    <3>2. QED
      BY <1>2, <1>7, <3>1
  <2>2. \A m \in plugged' : gen'[m] # 0
    BY <1>1, <1>2, <1>4 DEF LoopTypeOK
  <2>3. listing' \subseteq plugged' /\ plugged' \subseteq Nodes
    BY <1>1, <1>4
  <2>4. QED
    BY <1>1, <1>2, <1>4, <1>6, <2>1, <2>2, <2>3 DEF LoopTypeOK
<1>9. InOnePlace'
  <2> SUFFICES ASSUME NEW m \in plugged', Device(m)' \notin twice'
               PROVE  /\ Single(inotify', m) /\ Single(batch, m)
                      /\ m \in listing' => ~In(inotify', m) /\ ~In(batch, m) /\ ~Listened(Device(m)')
                      /\ In(inotify', m) => ~In(batch, m) /\ ~Listened(Device(m)')
                      /\ In(batch, m) => ~Listened(Device(m)')
    BY <1>1 DEF InOnePlace, Listened, Device
  <2>1. CASE m = n
    <3>1. Device(m)' = new
      BY <1>2, <2>1 DEF Device
    <3>2. ~In(inotify, n) /\ ~In(batch, n) /\ n \notin listing'
      BY <1>1, <1>3, <1>4, <1>5, <3>1
    <3>3. ~Listened(new)
      <4>1. new \in AnyDevice
        BY <1>2 DEF AnyDevice
      <4>2. QED
        BY <1>7, <4>1 DEF Listened
    <3>4. Single(batch, n)
      BY <3>2 DEF Single, In
    <3>5. QED
      BY <1>6, <2>1, <3>1, <3>2, <3>3, <3>4
  <2>2. CASE m # n
    <3>1. m \in plugged /\ Device(m)' = Device(m)
      BY <1>1, <1>2, <1>4, <2>2 DEF Device
    <3>2. Device(m) \notin twice /\ (m \in listing' => m \in listing)
      BY <1>1, <1>3, <2>2, <3>1
    <3>3. QED
      BY <1>6, <2>2, <3>1, <3>2 DEF SourceInv, InOnePlace
  <2>3. QED
    BY <2>1, <2>2
<1>10. OneSlot'
  BY <1>1, <1>3 DEF SourceInv, OneSlot
<1>11. KeyInv'
  BY <1>1, <1>3 DEF KeyInv
<1>12. KeysActOnce'
  BY <1>1, <1>3 DEF KeysActOnce
<1>13. PolledInv'
  BY <1>1, <1>7 DEF PolledInv, Present
<1>14. QED
  BY <1>8, <1>9, <1>10, <1>11, <1>12, <1>13 DEF SourceInv

LEMMA UnplugStep == LoopInv => \A n \in Nodes : Unplug(n) => LoopInv'
<1> SUFFICES ASSUME LoopInv, NEW n \in Nodes, Unplug(n) PROVE LoopInv'
  OBVIOUS
<1> USE DEF LoopInv
<1>1. /\ n \in plugged /\ plugged' = plugged \ {n} /\ listing' = listing \ {n}
      /\ table' = [i \in DOMAIN table |->
                    IF table[i].dev = Device(n) THEN [table[i] EXCEPT !.keys = <<>>] ELSE table[i]]
      /\ UNCHANGED <<gen, inotify, pressed, twice, pc, polled, batch, handled>>
  BY DEF Unplug
<1>2. DOMAIN table' = DOMAIN table /\ DOMAIN table = 1..Len(table) /\ Len(table) \in Nat
  BY <1>1 DEF LoopTypeOK
<1>3. ASSUME NEW i \in DOMAIN table
      PROVE  /\ table'[i] \in Entries /\ table'[i].dev = table[i].dev
             /\ table[i].dev = Device(n) => table'[i].keys = <<>>
             /\ table[i].dev # Device(n) => table'[i] = table[i]
  <2>1. table[i] \in Entries
    BY EntryFacts
  <2>2. CASE table[i].dev = Device(n)
    <3>1. table'[i] = [table[i] EXCEPT !.keys = <<>>]
      BY <1>1, <2>2
    <3>2. <<>> \in Seq(Nat)
      OBVIOUS
    <3>3. QED
      BY <2>1, <2>2, <3>1, <3>2 DEF Entries
  <2>3. CASE table[i].dev # Device(n)
    BY <1>1, <2>1, <2>3
  <2>4. QED
    BY <2>2, <2>3
<1>4. table' \in Seq(Entries)
  <2>1. table' \in [1..Len(table) -> Entries]
    BY <1>1, <1>2, <1>3
  <2>2. QED
    BY <1>2, <2>1
<1>5. LoopTypeOK'
  <2>1. table = <<>> => table' = <<>>
    BY <1>2, <1>4
  <2>2. \A i \in DOMAIN table' : table'[i].dev \in AnyDevice =>
          table'[i].dev[2] <= gen'[table'[i].dev[1]]
    BY <1>1, <1>2, <1>3 DEF LoopTypeOK
  <2>3. QED
    BY <1>1, <1>4, <2>1, <2>2 DEF LoopTypeOK
<1>6. SourceInv'
  <2>1. \A e : Listened(e)' <=> Listened(e)
    BY <1>2, <1>3 DEF Listened
  <2>2. InOnePlace'
    BY <1>1, <2>1 DEF SourceInv, InOnePlace, Single, In, Device
  <2>3. OneSlot'
    BY <1>1, <1>2, <1>3 DEF SourceInv, OneSlot
  <2>4. QED
    BY <2>2, <2>3 DEF SourceInv
<1>7. KeyInv'
  <2> SUFFICES ASSUME NEW i \in DOMAIN table, table[i].dev \in AnyDevice
               PROVE  /\ \A a \in DOMAIN table'[i].keys :
                           /\ table'[i].keys[a] \in DOMAIN pressed
                           /\ pressed[table'[i].keys[a]] = table[i].dev
                      /\ \A a, b \in DOMAIN table'[i].keys :
                           a < b => table'[i].keys[a] < table'[i].keys[b]
                      /\ table[i].dev \notin twice =>
                           \A h \in DOMAIN handled : pressed[handled[h]] = table[i].dev =>
                             \A a \in DOMAIN table'[i].keys : handled[h] < table'[i].keys[a]
    BY <1>1, <1>2, <1>3 DEF KeyInv
  <2>1. CASE table[i].dev = Device(n)
    BY <1>3, <2>1
  <2>2. CASE table[i].dev # Device(n)
    <3>1. table'[i] = table[i]
      BY <1>3, <2>2
    <3>2. QED
      BY <3>1 DEF KeyInv
  <2>3. QED
    BY <2>1, <2>2
<1>8. KeysActOnce'
  BY <1>1 DEF KeysActOnce
<1>9. PolledInv'
  <2>1. ASSUME NEW p \in polled, p.in, table[p.slot].dev \in AnyDevice,
               table[p.slot].dev[1] \in plugged',
               gen[table[p.slot].dev[1]] = table[p.slot].dev[2]
        PROVE  table'[p.slot].keys # <<>>
    <3>1. p.slot \in DOMAIN table
      BY DEF PolledInv
    <3>2. Present(table[p.slot].dev) /\ table[p.slot].dev[1] # n
      BY <1>1, <2>1 DEF Present
    <3>3. table'[p.slot] = table[p.slot]
      BY <1>3, <3>1, <3>2 DEF Device
    <3>4. QED
      BY <2>1, <3>2, <3>3 DEF PolledInv
  <2>2. ASSUME NEW p \in polled
        PROVE  p.slot \in DOMAIN table' /\ table'[p.slot].dev = table[p.slot].dev
    BY <1>2, <1>3 DEF PolledInv
  <2>3. QED
    BY <1>1, <2>1, <2>2 DEF PolledInv, Present
<1>10. QED
  BY <1>5, <1>6, <1>7, <1>8, <1>9

LEMMA PressStep == LoopInv => \A n \in Nodes : Press(n) => LoopInv'
<1> SUFFICES ASSUME LoopInv, NEW n \in Nodes, Press(n) PROVE LoopInv'
  OBVIOUS
<1> USE DEF LoopInv
<1> DEFINE last == Len(pressed) + 1
<1>1. /\ n \in plugged /\ pressed' = Append(pressed, Device(n))
      /\ table' = [i \in DOMAIN table |->
                    IF table[i].dev = Device(n)
                      THEN [table[i] EXCEPT !.keys = Append(@, Len(pressed'))] ELSE table[i]]
      /\ UNCHANGED <<plugged, gen, inotify, listing, twice, pc, polled, batch, handled>>
  BY DEF Press
<1>2. /\ pressed' \in Seq(AnyDevice) /\ Len(pressed) \in Nat /\ Len(pressed') = last
      /\ DOMAIN pressed' = DOMAIN pressed \union {last} /\ last \notin DOMAIN pressed
      /\ \A k \in DOMAIN pressed : pressed'[k] = pressed[k] /\ k \in Nat /\ k < last
      /\ pressed'[last] = Device(n)
  <2>1. Device(n) \in AnyDevice /\ pressed \in Seq(AnyDevice)
    BY <1>1, DeviceFacts DEF LoopTypeOK
  <2>2. QED
    BY <1>1, <2>1, AppendFacts
<1>3. DOMAIN table' = DOMAIN table /\ DOMAIN table = 1..Len(table) /\ Len(table) \in Nat
  BY <1>1 DEF LoopTypeOK
<1>4. ASSUME NEW i \in DOMAIN table
      PROVE  /\ table'[i] \in Entries /\ table'[i].dev = table[i].dev
             /\ table[i].dev = Device(n) => table'[i].keys = Append(table[i].keys, last)
             /\ table[i].dev # Device(n) => table'[i] = table[i]
  <2>1. table[i] \in Entries /\ table[i].keys \in Seq(Nat)
    BY EntryFacts
  <2>2. CASE table[i].dev = Device(n)
    <3>1. table'[i] = [table[i] EXCEPT !.keys = Append(table[i].keys, last)]
      BY <1>1, <1>2, <2>2
    <3>2. Append(table[i].keys, last) \in Seq(Nat)
      BY <1>2, <2>1
    <3>3. QED
      BY <2>1, <2>2, <3>1, <3>2 DEF Entries
  <2>3. CASE table[i].dev # Device(n)
    BY <1>1, <2>1, <2>3
  <2>4. QED
    BY <2>2, <2>3
<1>5. table' \in Seq(Entries)
  <2>1. table' \in [1..Len(table) -> Entries]
    BY <1>1, <1>3, <1>4
  <2>2. QED
    BY <1>3, <2>1
<1>6. \A h \in DOMAIN handled :
        /\ handled[h] \in DOMAIN pressed /\ pressed'[handled[h]] = pressed[handled[h]]
        /\ handled[h] < last
  BY <1>2 DEF LoopTypeOK
<1>7. LoopTypeOK'
  <2>1. table = <<>> => table' = <<>>
    BY <1>3, <1>5
  <2>2. \A i \in DOMAIN table' : table'[i].dev \in AnyDevice =>
          table'[i].dev[2] <= gen'[table'[i].dev[1]]
    BY <1>1, <1>3, <1>4 DEF LoopTypeOK
  <2>3. \A h \in DOMAIN handled : handled[h] \in DOMAIN pressed'
    BY <1>2, <1>6
  <2>4. QED
    BY <1>1, <1>2, <1>5, <2>1, <2>2, <2>3 DEF LoopTypeOK
<1>8. SourceInv'
  <2>1. \A e : Listened(e)' <=> Listened(e)
    BY <1>3, <1>4 DEF Listened
  <2>2. InOnePlace'
    BY <1>1, <2>1 DEF SourceInv, InOnePlace, Single, In, Device
  <2>3. OneSlot'
    BY <1>1, <1>3, <1>4 DEF SourceInv, OneSlot
  <2>4. QED
    BY <2>2, <2>3 DEF SourceInv
<1>9. KeyInv'
  <2> SUFFICES ASSUME NEW i \in DOMAIN table, table[i].dev \in AnyDevice
               PROVE  /\ \A a \in DOMAIN table'[i].keys :
                           /\ table'[i].keys[a] \in DOMAIN pressed'
                           /\ pressed'[table'[i].keys[a]] = table[i].dev
                      /\ \A a, b \in DOMAIN table'[i].keys :
                           a < b => table'[i].keys[a] < table'[i].keys[b]
                      /\ table[i].dev \notin twice =>
                           \A h \in DOMAIN handled : pressed[handled[h]] = table[i].dev =>
                             \A a \in DOMAIN table'[i].keys : handled[h] < table'[i].keys[a]
    BY <1>1, <1>3, <1>4, <1>6, SMTT(30) DEF KeyInv
  <2>1. PICK keys : keys = table[i].keys
    OBVIOUS
  <2>2. /\ \A a \in DOMAIN keys : /\ keys[a] \in DOMAIN pressed' /\ pressed'[keys[a]] = table[i].dev
                                /\ keys[a] \in Nat /\ keys[a] < last
        /\ \A a, b \in DOMAIN keys : a < b => keys[a] < keys[b]
        /\ table[i].dev \notin twice =>
             \A h \in DOMAIN handled : pressed[handled[h]] = table[i].dev =>
               \A a \in DOMAIN keys : handled[h] < keys[a]
    BY <1>2, <2>1 DEF KeyInv
  <2>3. CASE table[i].dev = Device(n)
    <3>1. PICK keys2 : keys2 = table'[i].keys
      OBVIOUS
    <3>2. /\ DOMAIN keys = 1..Len(keys) /\ DOMAIN keys2 = 1..Len(keys) + 1 /\ Len(keys) \in Nat
          /\ keys2[Len(keys) + 1] = last /\ \A a \in DOMAIN keys : keys2[a] = keys[a]
      <4>1. keys \in Seq(Nat) /\ last \in Nat /\ keys2 = Append(keys, last)
        BY <1>2, <1>4, <2>1, <2>3, <3>1, EntryFacts
      <4>2. QED
        BY <4>1, AppendFacts
    <3>3. \A a \in DOMAIN keys2 : keys2[a] \in DOMAIN pressed' /\ pressed'[keys2[a]] = table[i].dev
      BY <1>2, <2>2, <2>3, <3>2
    <3>4. \A a, b \in DOMAIN keys2 : a < b => keys2[a] < keys2[b]
      BY <2>2, <3>2
    <3>5. ASSUME table[i].dev \notin twice, NEW h \in DOMAIN handled,
                 pressed[handled[h]] = table[i].dev, NEW a \in DOMAIN keys2
          PROVE  handled[h] < keys2[a]
      BY <1>6, <2>2, <3>2, <3>5
    <3>6. QED
      BY <3>1, <3>3, <3>4, <3>5
  <2>4. CASE table[i].dev # Device(n)
    <3>1. table'[i].keys = keys
      BY <1>4, <2>1, <2>4
    <3>2. QED
      BY <2>2, <3>1
  <2>5. QED
    BY <2>3, <2>4
<1>10. KeysActOnce'
  BY <1>1, <1>6 DEF KeysActOnce
<1>11. PolledInv'
  <2>1. ASSUME NEW i \in DOMAIN table, table[i].keys # <<>>
        PROVE  table'[i].keys # <<>>
    <3>1. CASE table[i].dev = Device(n)
      <4>1. table[i].keys \in Seq(Nat) /\ table'[i].keys = Append(table[i].keys, last)
        BY <1>4, <3>1, EntryFacts
      <4>2. QED
        BY <1>2, <4>1
    <3>2. CASE table[i].dev # Device(n)
      BY <1>4, <2>1, <3>2
    <3>3. QED
      BY <3>1, <3>2
  <2>2. ASSUME NEW p \in polled
        PROVE  p.slot \in DOMAIN table /\ table'[p.slot].dev = table[p.slot].dev
    BY <1>4 DEF PolledInv
  <2>3. \A p \in polled : p.in /\ table[p.slot].dev \in AnyDevice /\ Present(table[p.slot].dev)
                         => table'[p.slot].keys # <<>>
    BY <2>1, <2>2 DEF PolledInv
  <2>4. \A p, q \in polled : p.slot = q.slot => p = q
    BY DEF PolledInv
  <2>5. polled' = polled /\ DOMAIN table' = DOMAIN table
    BY <1>1, <1>3
  <2>6. ASSUME NEW p \in polled
        PROVE  Present(table[p.slot].dev) <=> Present(table[p.slot].dev)'
    BY <1>1, <2>2 DEF Present
  <2>7. QED
    BY <2>2, <2>3, <2>4, <2>5, <2>6 DEF PolledInv
<1>12. QED
  BY <1>7, <1>8, <1>9, <1>10, <1>11

-----------------------------------------------------------------------------
LEMMA LoopStutter == LoopInv /\ UNCHANGED vars => LoopInv'
<1> SUFFICES ASSUME LoopInv, UNCHANGED vars PROVE LoopInv'
  OBVIOUS
<1> USE DEF LoopInv
<1>1. UNCHANGED <<plugged, gen, inotify, listing, pressed, twice, pc, table, polled, batch, handled>>
  BY DEF vars, world, program
<1>2. LoopTypeOK'
  BY <1>1 DEF LoopTypeOK
<1>3. SourceInv'
  BY <1>1 DEF SourceInv, InOnePlace, OneSlot, Single, In, Listened, Device
<1>4. KeyInv' /\ KeysActOnce' /\ PolledInv'
  BY <1>1, TableKept, KeysKept, PolledKept
<1>5. QED
  BY <1>2, <1>3, <1>4

LEMMA LoopStep == LoopInv /\ [Next]_vars => LoopInv'
<1> SUFFICES ASSUME LoopInv, [Next]_vars PROVE LoopInv'
  OBVIOUS
<1>1. CASE AddWatch
  BY <1>1, AddWatchStep
<1>2. CASE ScanNode
  BY <1>2, ScanNodeStep
<1>3. CASE ScanEnd
  <2>1. /\ pc' # "start"
        /\ UNCHANGED <<plugged, gen, inotify, listing, pressed, twice, table, batch, polled, handled>>
    BY <1>3 DEF ScanEnd, world
  <2>2. QED
    BY <2>1, OnwardStep
<1>4. CASE AddInotify
  BY <1>4, AddInotifyStep
<1>5. CASE EvWait
  BY <1>5, EvWaitStep
<1>6. CASE DispatchInput
  BY <1>6, DispatchInputStep
<1>7. CASE DispatchInotify
  BY <1>7, DispatchInotifyStep
<1>8. CASE DispatchDone \/ NamesDone
  <2>1. /\ pc' # "start"
        /\ UNCHANGED <<plugged, gen, inotify, listing, pressed, twice, table, batch, polled, handled>>
    BY <1>8 DEF DispatchDone, NamesDone, world
  <2>2. QED
    BY <2>1, OnwardStep
<1>9. CASE LookAtName
  BY <1>9, LookAtNameStep
<1>10. CASE TimeOut \/ UNCHANGED vars
  BY <1>10, LoopStutter DEF TimeOut
<1>11. CASE \E n \in Nodes : Plug(n) \/ Unplug(n) \/ Press(n)
  BY <1>11, PlugStep, UnplugStep, PressStep
<1>12. QED
  BY <1>1, <1>2, <1>3, <1>4, <1>5, <1>6, <1>7, <1>8, <1>9, <1>10, <1>11 DEF Next, Step

(* The menu is given the keys of a device in the order they were pressed,  *)
(* each of them once, however devices come and go and however small the    *)
(* table is, unless the device may have been opened twice: ev_init()       *)
(* (events.cpp:155-188), inotify_cb() (events.cpp:105-145) and             *)
(* ev_get_input() (events.cpp:254).                                        *)
THEOREM KeysCorrect == Spec => []KeysActOnce
<1>1. LoopInv => KeysActOnce
  BY DEF LoopInv
<1>2. QED
  BY LoopInit, LoopStep, <1>1, PTL DEF Spec

-----------------------------------------------------------------------------
(* Types and counters.                                                     *)

Slots == [dev : Devices \union {Inotify}, keys : Seq(1..MaxKeys), watched : BOOLEAN]

(* Every device there is or was is one of those so far; a name that is     *)
(* queued is one of theirs.                                                *)
PlugInv ==
  /\ IsFiniteSet(SoFar(gen)) /\ Plugged(gen) <= MaxPlugs
  /\ \A n \in Nodes : In(inotify, n) \/ In(batch, n) => gen[n] # 0
  /\ pressed \in Seq(Devices) /\ twice \subseteq Devices /\ passed \subseteq Devices

(* Before the loop there is room for what is added next.                   *)
CountInv ==
  /\ pc \in {"start", "scan", "watch", "wait", "dispatch", "names", "failed"}
  /\ devCount \in 0..MAX_DEVICES /\ miscCount \in 0..MAX_MISC_FDS
  /\ Len(table) = devCount + miscCount
  /\ pc \in {"start", "scan"} => devCount < MAX_DEVICES
  /\ pc \in {"start", "scan", "watch"} => miscCount = 0

SlotInv == table \in Seq(Slots) /\ handled \in Seq(1..MaxKeys)

TypesInv == PlugInv /\ CountInv /\ SlotInv

LEMMA GenBound ==
  ASSUME NEW g \in [Nodes -> Nat], IsFiniteSet(SoFar(g)), Plugged(g) <= MaxPlugs, NEW n \in Nodes
  PROVE  g[n] \in 0..MaxPlugs
<1>1. g[n] \in Nat /\ MaxPlugs \in Nat
  BY EventsAssumption
<1>2. PICK f : f = [k \in 1..g[n] |-> <<n, k>>]
  OBVIOUS
<1>3. f \in Injection(1..g[n], SoFar(g))
  <2>1. f \in [1..g[n] -> SoFar(g)]
    BY <1>2 DEF SoFar
  <2>2. \A a, b \in 1..g[n] : f[a] = f[b] => a = b
    BY <1>2
  <2>3. QED
    BY <2>1, <2>2 DEF Injection, IsInjective
<1>4. Cardinality(1..g[n]) <= Cardinality(SoFar(g))
  BY <1>3, FS_Injection
<1>5. Cardinality(1..g[n]) = g[n]
  BY <1>1, FS_Interval
<1>6. Cardinality(SoFar(g)) \in Nat
  BY FS_CardinalityType
<1>7. QED
  BY <1>1, <1>4, <1>5, <1>6 DEF Plugged

LEMMA DeviceIn ==
  ASSUME LoopTypeOK, PlugInv, NEW n \in Nodes, gen[n] # 0
  PROVE  Device(n) \in Devices
<1>1. gen[n] \in 0..MaxPlugs
  BY GenBound DEF PlugInv, LoopTypeOK
<1>2. gen[n] \in 1..MaxPlugs
  BY <1>1, EventsAssumption
<1>3. QED
  BY <1>2 DEF Device, Devices

LEMMA SlotMore ==
  ASSUME SlotInv, NEW d \in Devices \union {Inotify}, table' = Append(table, Descriptor(d))
  PROVE  table' \in Seq(Slots) /\ Len(table') = Len(table) + 1
<1>1. table \in Seq(Slots)
  BY DEF SlotInv
<1>2. Descriptor(d) \in Slots
  <2>1. <<>> \in Seq(1..MaxKeys) /\ TRUE \in BOOLEAN
    OBVIOUS
  <2>2. QED
    BY <2>1 DEF Descriptor, Slots
<1>3. QED
  BY <1>1, <1>2

(* The devices so far, and with them types and names, do not change.       *)
LEMMA PlugKept ==
  ASSUME PlugInv, UNCHANGED <<gen, pressed, twice>>, passed' \subseteq Devices,
         \A n \in Nodes : In(inotify', n) \/ In(batch', n) => In(inotify, n) \/ In(batch, n)
  PROVE  PlugInv'
  BY DEF PlugInv, SoFar, Plugged

LEMMA QueuesKept ==
  ASSUME UNCHANGED <<inotify, batch>>
  PROVE  \A n \in Nodes : In(inotify', n) \/ In(batch', n) => In(inotify, n) \/ In(batch, n)
  BY DEF In

(* Steps that leave devices, descriptors and keys alone.                   *)
LEMMA QuietTypes ==
  ASSUME TypesInv, UNCHANGED <<gen, inotify, batch, pressed, twice, passed, table, handled>>,
         CountInv'
  PROVE  TypesInv'
<1>1. PlugInv'
  BY PlugKept, QueuesKept DEF TypesInv, PlugInv
<1>2. SlotInv'
  BY DEF TypesInv, SlotInv
<1>3. QED
  BY <1>1, <1>2 DEF TypesInv

LEMMA QuietStepTypes ==
  ASSUME TypesInv, AddWatch \/ ScanEnd \/ EvWait \/ DispatchDone \/ NamesDone
  PROVE  TypesInv'
<1>1. UNCHANGED <<gen, inotify, batch, pressed, twice, passed, table, handled, devCount, miscCount>>
  BY DEF AddWatch, ScanEnd, EvWait, DispatchDone, NamesDone, world
<1>2. \/ pc = "start" /\ pc' \in {"scan", "failed"}
      \/ pc = "scan" /\ pc' = "watch"
      \/ pc' \in {"wait", "dispatch"}
  BY DEF AddWatch, ScanEnd, EvWait, DispatchDone, NamesDone
<1>3. CountInv'
  BY <1>1, <1>2 DEF TypesInv, CountInv
<1>4. QED
  BY <1>1, <1>3, QuietTypes

LEMMA StutterTypes ==
  ASSUME TypesInv, UNCHANGED vars
  PROVE  TypesInv'
<1>1. UNCHANGED <<gen, inotify, batch, pressed, twice, passed, table, handled, devCount, miscCount, pc>>
  BY DEF vars, world, program
<1>2. CountInv'
  BY <1>1 DEF TypesInv, CountInv
<1>3. QED
  BY <1>1, <1>2, QuietTypes

LEMMA ScanNodeTypes ==
  ASSUME LoopInv, TypesInv, ScanNode
  PROVE  TypesInv'
<1> USE DEF TypesInv
<1>1. PICK n \in listing :
        /\ listing' = listing \ {n}
        /\ IF ShouldAdd(n)
             THEN /\ table' = Append(table, Descriptor(Device(n)))
                  /\ devCount' = devCount + 1
                  /\ IF devCount' = MAX_DEVICES
                       THEN pc' = "watch" /\ passed' = passed \union {Device(m) : m \in listing'}
                       ELSE UNCHANGED <<pc, passed>>
             ELSE UNCHANGED <<table, devCount, pc, passed>>
  BY DEF ScanNode
<1>2. /\ pc = "scan" /\ miscCount = 0 /\ devCount \in 0..MAX_DEVICES /\ devCount < MAX_DEVICES
      /\ UNCHANGED <<gen, inotify, pressed, twice, miscCount, batch, handled>>
  BY DEF ScanNode, CountInv
<1>3. \A m \in listing : Device(m) \in Devices
  BY DeviceIn DEF LoopInv, LoopTypeOK
<1>4. PlugInv'
  <2>1. passed' \subseteq Devices
    BY <1>1, <1>3 DEF PlugInv
  <2>2. QED
    BY <1>2, <2>1, PlugKept, QueuesKept
<1>5. SlotInv' /\ CountInv'
  <2>1. CASE ShouldAdd(n)
    <3>1. table' \in Seq(Slots) /\ Len(table') = Len(table) + 1
      <4>1. PICK d \in Devices \union {Inotify} : d = Device(n)
        BY <1>3
      <4>2. QED
        BY <1>1, <2>1, <4>1, SlotMore
    <3>2. SlotInv'
      BY <1>2, <3>1 DEF SlotInv
    <3>3. /\ devCount' = devCount + 1
          /\ pc' = "watch" \/ (pc' = pc /\ devCount' # MAX_DEVICES)
      <4>1. CASE devCount' = MAX_DEVICES
        BY <1>1, <2>1, <4>1
      <4>2. CASE devCount' # MAX_DEVICES
        BY <1>1, <2>1, <4>2
      <4>3. QED
        BY <1>1, <2>1, <4>1, <4>2
    <3>4. CountInv'
      BY <1>2, <3>1, <3>3, EventsAssumption DEF CountInv
    <3>5. QED
      BY <3>2, <3>4
  <2>2. CASE ~ShouldAdd(n)
    BY <1>1, <1>2, <2>2 DEF SlotInv, CountInv
  <2>3. QED
    BY <2>1, <2>2
<1>6. QED
  BY <1>4, <1>5

LEMMA AddInotifyTypes ==
  ASSUME LoopInv, TypesInv, AddInotify
  PROVE  TypesInv'
<1> USE DEF TypesInv
<1>1. /\ pc = "watch" /\ pc' = "wait" /\ miscCount = 0
      /\ UNCHANGED <<gen, inotify, pressed, twice, devCount, batch, handled>>
  BY DEF AddInotify, CountInv, world
<1>2. table' = Append(table, Descriptor(Inotify)) /\ miscCount' = miscCount + 1 /\ UNCHANGED passed
  BY <1>1, EventsAssumption DEF AddInotify, EvAddFd, TableFull
<1>3. PlugInv'
  <2>1. passed' \subseteq Devices
    BY <1>2 DEF PlugInv
  <2>2. QED
    BY <1>1, <2>1, PlugKept, QueuesKept
<1>4. table' \in Seq(Slots) /\ Len(table') = Len(table) + 1
  BY <1>2, SlotMore
<1>5. SlotInv' /\ CountInv'
  BY <1>1, <1>2, <1>4, EventsAssumption DEF SlotInv, CountInv
<1>6. QED
  BY <1>3, <1>5

LEMMA DispatchInotifyTypes ==
  ASSUME LoopInv, TypesInv, DispatchInotify
  PROVE  TypesInv'
<1>1. /\ pc' = "names" /\ batch' = inotify /\ inotify' = <<>>
      /\ UNCHANGED <<gen, pressed, twice, passed, table, handled, devCount, miscCount>>
  BY DEF DispatchInotify
<1>2. PlugInv'
  <2>1. \A n \in Nodes : In(inotify', n) \/ In(batch', n) => In(inotify, n) \/ In(batch, n)
    BY <1>1 DEF In
  <2>2. passed' \subseteq Devices
    BY <1>1 DEF TypesInv, PlugInv
  <2>3. QED
    BY <1>1, <2>1, <2>2, PlugKept DEF TypesInv
<1>3. CountInv' /\ SlotInv'
  BY <1>1 DEF TypesInv, CountInv, SlotInv
<1>4. QED
  BY <1>2, <1>3 DEF TypesInv

LEMMA LookAtNameTypes ==
  ASSUME LoopInv, TypesInv, LookAtName
  PROVE  TypesInv'
<1> USE DEF TypesInv
<1>1. /\ pc = "names" /\ pc' = "names" /\ batch \in Seq(Nodes) /\ batch # <<>>
      /\ UNCHANGED <<gen, inotify, pressed, twice, devCount, handled>>
      /\ batch' = <<>> \/ batch' = Tail(batch)
  BY DEF LookAtName, EvAddFd, world, LoopInv, LoopTypeOK
<1>2. \A n \in Nodes : In(batch', n) => In(batch, n)
  <2>1. CASE batch' = <<>>
    BY <2>1 DEF In
  <2>2. CASE batch' = Tail(batch)
    BY <1>1, <2>2, InTail
  <2>3. QED
    BY <1>1, <2>1, <2>2
<1>3. \A n \in Nodes : In(batch, n) => Device(n) \in Devices
  BY DeviceIn DEF PlugInv, LoopInv
<1>4. Head(batch) \in Nodes /\ Device(Head(batch)) \in Devices
  BY <1>1, <1>3, TailFacts, InTail
<1>5. \A n \in Range(Tail(batch)) : n \in Nodes /\ In(batch, n)
  <2>1. Tail(batch) \in Seq(Nodes)
    BY <1>1, TailFacts
  <2>2. \A n \in Range(Tail(batch)) : n \in Nodes /\ In(Tail(batch), n)
    BY <2>1 DEF Range, In
  <2>3. QED
    BY <1>1, <2>2, InTail
<1>6. \/ /\ UNCHANGED <<table, miscCount>>
         /\ \/ passed' = passed \union {Device(n) : n \in Range(Tail(batch))}
            \/ passed' = passed
            \/ passed' = passed \union {Device(Head(batch))}
      \/ /\ miscCount # MAX_MISC_FDS /\ passed' = passed
         /\ table' = Append(table, Descriptor(Device(Head(batch)))) /\ miscCount' = miscCount + 1
  BY DEF LookAtName, EvAddFd, TableFull
<1>7. PlugInv'
  <2>1. {Device(n) : n \in Range(Tail(batch))} \subseteq Devices
    BY <1>3, <1>5
  <2>2. passed' \subseteq Devices
    BY <1>4, <1>6, <2>1 DEF PlugInv
  <2>3. \A n \in Nodes : In(inotify', n) \/ In(batch', n) => In(inotify, n) \/ In(batch, n)
    BY <1>1, <1>2 DEF In
  <2>4. QED
    BY <1>1, <2>2, <2>3, PlugKept
<1>8. SlotInv' /\ CountInv'
  <2>1. CASE UNCHANGED <<table, miscCount>>
    BY <1>1, <2>1 DEF SlotInv, CountInv
  <2>2. CASE /\ miscCount # MAX_MISC_FDS /\ miscCount' = miscCount + 1
             /\ table' = Append(table, Descriptor(Device(Head(batch))))
    <3>1. table' \in Seq(Slots) /\ Len(table') = Len(table) + 1
      <4>1. PICK d \in Devices \union {Inotify} : d = Device(Head(batch))
        BY <1>4
      <4>2. QED
        BY <2>2, <4>1, SlotMore
    <3>2. SlotInv'
      BY <1>1, <3>1 DEF SlotInv
    <3>3. CountInv'
      BY <1>1, <2>2, <3>1, EventsAssumption DEF CountInv
    <3>4. QED
      BY <3>2, <3>3
  <2>3. QED
    BY <1>6, <2>1, <2>2
<1>9. QED
  BY <1>7, <1>8

(* A descriptor's keys or its watch change.                                *)
LEMMA SlotChanged ==
  ASSUME SlotInv, NEW T, T = table, DOMAIN table' = DOMAIN T,
         \A i \in DOMAIN T : table'[i] \in Slots, table' = [i \in DOMAIN T |-> table'[i]]
  PROVE  table' \in Seq(Slots) /\ Len(table') = Len(table)
<1>1. T \in Seq(Slots)
  BY DEF SlotInv
<1>2. PICK n \in Nat : n = Len(T) /\ DOMAIN T = 1..n
  BY <1>1
<1>3. table' \in [1..n -> Slots]
  BY <1>2
<1>4. table' \in Seq(Slots) /\ DOMAIN table' = 1..n
  BY <1>2, <1>3
<1>5. Len(table') = n
  BY <1>2, <1>4
<1>6. QED
  BY <1>2, <1>4, <1>5

LEMMA SlotFacts ==
  ASSUME SlotInv, NEW i \in DOMAIN table
  PROVE  table[i] \in Slots /\ table[i].keys \in Seq(1..MaxKeys) /\ table[i].watched \in BOOLEAN
<1>1. table[i] \in Slots
  BY DEF SlotInv
<1>2. QED
  BY <1>1 DEF Slots

LEMMA DispatchInputTypes ==
  ASSUME LoopInv, TypesInv, DispatchInput
  PROVE  TypesInv'
<1> USE DEF TypesInv
<1>1. /\ UNCHANGED <<gen, inotify, batch, pressed, twice, passed, pc, devCount, miscCount>>
  BY DEF DispatchInput, world
<1>2. PICK p \in polled :
        LET fd == table[p.slot] IN
        /\ fd.dev # Inotify
        /\ \/ /\ p.in /\ Present(fd.dev)
              /\ handled' = Append(handled, Head(fd.keys))
              /\ table' = [table EXCEPT ![p.slot].keys = AfterRead(@)]
           \/ /\ table' = [table EXCEPT ![p.slot].watched = AfterHup]
              /\ UNCHANGED handled
           \/ UNCHANGED <<table, handled>>
  BY DEF DispatchInput
<1>3. PICK k \in DOMAIN table : k = p.slot
  BY DEF LoopInv, PolledInv
<1>4. table[k] \in Slots /\ table[k].keys \in Seq(1..MaxKeys) /\ table[k].watched \in BOOLEAN
  BY SlotFacts
<1>5. PlugInv'
  <2>1. passed' \subseteq Devices
    BY <1>1 DEF PlugInv
  <2>2. QED
    BY <1>1, <2>1, PlugKept, QueuesKept
<1>6. SlotInv' /\ Len(table') = Len(table)
  <2>1. CASE /\ p.in /\ Present(table[k].dev)
             /\ handled' = Append(handled, Head(table[k].keys))
             /\ table' = [table EXCEPT ![k].keys = Tail(@)]
    <3>1. table[k].keys # <<>>
      <4>1. table[k].dev \in AnyDevice
        <5>1. table[k].dev # Inotify
          BY <1>2, <1>3
        <5>2. table[k] \in Entries
          BY DEF LoopInv, LoopTypeOK
        <5>3. QED
          BY <5>1, <5>2 DEF Entries
      <4>2. QED
        BY <1>3, <2>1, <4>1 DEF LoopInv, PolledInv
    <3>2. Head(table[k].keys) \in 1..MaxKeys /\ Tail(table[k].keys) \in Seq(1..MaxKeys)
      BY <1>4, <3>1, TailFacts
    <3>3. handled' \in Seq(1..MaxKeys)
      BY <2>1, <3>2 DEF SlotInv
    <3>4. [table[k] EXCEPT !.keys = Tail(@)] \in Slots
      BY <1>4, <3>2 DEF Slots
    <3>5. table' \in Seq(Slots) /\ Len(table') = Len(table)
      BY <2>1, <3>4 DEF SlotInv
    <3>6. QED
      BY <3>3, <3>5 DEF SlotInv
  <2>2. CASE table' = [table EXCEPT ![k].watched = FALSE] /\ UNCHANGED handled
    <3>1. [table[k] EXCEPT !.watched = FALSE] \in Slots
      BY <1>4 DEF Slots
    <3>2. table' \in Seq(Slots) /\ Len(table') = Len(table)
      BY <2>2, <3>1 DEF SlotInv
    <3>3. QED
      BY <2>2, <3>2 DEF SlotInv
  <2>3. CASE UNCHANGED <<table, handled>>
    BY <2>3 DEF SlotInv
  <2>4. QED
    BY <1>2, <1>3, <2>1, <2>2, <2>3 DEF AfterRead, AfterHup
<1>7. CountInv'
  BY <1>1, <1>6 DEF CountInv
<1>8. QED
  BY <1>5, <1>6, <1>7

LEMMA UnplugTypes ==
  ASSUME LoopInv, TypesInv, NEW n \in Nodes, Unplug(n)
  PROVE  TypesInv'
<1> USE DEF TypesInv
<1>1. /\ UNCHANGED <<gen, inotify, batch, pressed, twice, handled, pc, devCount, miscCount>>
      /\ passed' = passed \ {Device(n)}
      /\ table' = [i \in DOMAIN table |->
                     IF table[i].dev = Device(n) THEN [table[i] EXCEPT !.keys = <<>>] ELSE table[i]]
  BY DEF Unplug
<1>2. PlugInv'
  <2>1. passed' \subseteq Devices
    BY <1>1 DEF PlugInv
  <2>2. QED
    BY <1>1, <2>1, PlugKept, QueuesKept
<1>3. \A i \in DOMAIN table : table'[i] \in Slots
  <2>1. TAKE i \in DOMAIN table
  <2>2. table[i] \in Slots /\ <<>> \in Seq(1..MaxKeys)
    BY SlotFacts
  <2>3. [table[i] EXCEPT !.keys = <<>>] \in Slots
    BY <2>2 DEF Slots
  <2>4. QED
    BY <1>1, <2>2, <2>3
<1>4. table' \in Seq(Slots) /\ Len(table') = Len(table)
  BY <1>1, <1>3, SlotChanged
<1>5. SlotInv' /\ CountInv'
  BY <1>1, <1>4 DEF SlotInv, CountInv
<1>6. QED
  BY <1>2, <1>5

LEMMA OneMore ==
  ASSUME NEW g \in [Nodes -> Nat], NEW n \in Nodes, NEW h, h = [g EXCEPT ![n] = @ + 1],
         IsFiniteSet(SoFar(g)), Plugged(g) < MaxPlugs
  PROVE  IsFiniteSet(SoFar(h)) /\ Plugged(h) <= MaxPlugs
<1>1. PICK d : d = <<n, g[n] + 1>>
  OBVIOUS
<1>2. SoFar(h) = SoFar(g) \union {d}
  <2>1. \A e : e \in SoFar(g) <=> \E m \in Nodes : \E k \in 1..g[m] : e = <<m, k>>
    BY DEF SoFar
  <2>2. \A e : e \in SoFar(h) <=> \E m \in Nodes : \E k \in 1..h[m] : e = <<m, k>>
    BY DEF SoFar
  <2>3. /\ h[n] = g[n] + 1 /\ g[n] \in Nat /\ 1..h[n] = 1..g[n] \union {g[n] + 1}
        /\ \A m \in Nodes : m # n => h[m] = g[m]
    OBVIOUS
  <2>4. SoFar(g) \subseteq SoFar(h)
    <3>1. SUFFICES ASSUME NEW e \in SoFar(g) PROVE e \in SoFar(h)
      OBVIOUS
    <3>2. PICK m \in Nodes : \E k \in 1..g[m] : e = <<m, k>>
      BY <2>1
    <3>3. PICK k \in 1..g[m] : e = <<m, k>>
      BY <3>2
    <3>4. k \in 1..h[m]
      BY <2>3
    <3>5. QED
      BY <2>2, <3>3, <3>4
  <2>5. d \in SoFar(h)
    BY <1>1, <2>2, <2>3
  <2>6. ASSUME NEW m \in Nodes, NEW k \in 1..h[m] PROVE <<m, k>> \in SoFar(g) \union {d}
    <3>1. CASE k \in 1..g[m]
      BY <2>1, <3>1
    <3>2. CASE k \notin 1..g[m]
      <4>1. m = n /\ k = g[n] + 1
        BY <2>3, <3>2
      <4>2. QED
        BY <1>1, <4>1
    <3>3. QED
      BY <3>1, <3>2
  <2>7. ASSUME NEW e \in SoFar(h) PROVE e \in SoFar(g) \union {d}
    <3>1. PICK m \in Nodes : \E k \in 1..h[m] : e = <<m, k>>
      BY <2>2
    <3>2. QED
      BY <2>6, <3>1
  <2>8. QED
    BY <2>4, <2>5, <2>7
<1>3. PICK S : S = SoFar(g)
  OBVIOUS
<1>4. /\ IsFiniteSet(S \union {d})
      /\ Cardinality(S \union {d}) = IF d \in S THEN Cardinality(S) ELSE Cardinality(S) + 1
  BY <1>3, FS_AddElement
<1>5. Cardinality(S) \in Nat
  BY <1>3, FS_CardinalityType
<1>6. Cardinality(S) < MaxPlugs /\ MaxPlugs \in Nat
  BY <1>3, EventsAssumption DEF Plugged
<1>7. Cardinality(S \union {d}) <= MaxPlugs
  BY <1>4, <1>5, <1>6
<1>8. QED
  BY <1>2, <1>3, <1>4, <1>7 DEF Plugged

LEMMA NotedNames ==
  ASSUME NEW q \in Seq(Nodes), NEW n \in Nodes
  PROVE  \A m : In(Noted(q, n), m) => In(q, m) \/ m = n
<1>1. ASSUME NEW m, In(Append(q, n), m) PROVE In(q, m) \/ m = n
  <2>1. PICK a \in DOMAIN Append(q, n) : Append(q, n)[a] = m
    BY <1>1 DEF In
  <2>2. DOMAIN q = 1..Len(q) /\ DOMAIN Append(q, n) = 1..Len(q) + 1 /\ Len(q) \in Nat
    OBVIOUS
  <2>3. CASE a = Len(q) + 1
    BY <2>1, <2>3
  <2>4. CASE a # Len(q) + 1
    <3>1. a \in DOMAIN q /\ q[a] = m
      BY <2>1, <2>2, <2>4
    <3>2. QED
      BY <3>1 DEF In
  <2>5. QED
    BY <2>3, <2>4
<1>2. QED
  BY <1>1 DEF Noted

LEMMA PlugTypes ==
  ASSUME LoopInv, TypesInv, NEW n \in Nodes, Plug(n)
  PROVE  TypesInv'
<1> USE DEF TypesInv
<1>1. /\ gen' = [gen EXCEPT ![n] = @ + 1] /\ Plugged(gen) < MaxPlugs
      /\ inotify' = Noted(inotify, n) \/ inotify' = inotify
      /\ twice' = twice \union {<<n, gen'[n]>>} \/ twice' = twice
      /\ UNCHANGED <<pc, table, devCount, miscCount, batch, handled, passed, pressed>>
  BY DEF Plug, program
<1>2. gen \in [Nodes -> Nat] /\ inotify \in Seq(Nodes)
  BY DEF LoopInv, LoopTypeOK
<1>3. PICK h : h = gen'
  OBVIOUS
<1>4. IsFiniteSet(SoFar(h)) /\ Plugged(h) <= MaxPlugs
  <2>1. IsFiniteSet(SoFar(gen)) /\ Plugged(gen) < MaxPlugs
    BY <1>1, Zenon DEF PlugInv
  <2>2. h = [gen EXCEPT ![n] = @ + 1]
    BY <1>1, <1>3, Zenon
  <2>3. PICK g \in [Nodes -> Nat] : g = gen
    BY <1>2
  <2>4. /\ IsFiniteSet(SoFar(g)) /\ Plugged(g) < MaxPlugs
        /\ h = [g EXCEPT ![n] = @ + 1]
    BY <2>1, <2>2, <2>3, Zenon
  <2>5. QED
    BY <2>4, OneMore, Zenon
<1>5. h \in [Nodes -> Nat] /\ h[n] = gen[n] + 1 /\ \A m \in Nodes : m # n => h[m] = gen[m]
  BY <1>1, <1>2, <1>3
<1>6. h[n] \in 0..MaxPlugs
  BY <1>4, <1>5, GenBound
<1>7. h[n] \in 1..MaxPlugs
  BY <1>2, <1>5, <1>6, EventsAssumption
<1>8. <<n, h[n]>> \in Devices
  <2>1. PICK k \in 1..MaxPlugs : k = h[n]
    BY <1>7
  <2>2. <<n, k>> \in Nodes \X (1..MaxPlugs)
    OBVIOUS
  <2>3. QED
    BY <2>1, <2>2, Zenon DEF Devices
<1>9. ASSUME NEW m \in Nodes, In(inotify', m) \/ In(batch', m) PROVE h[m] # 0
  <2>1. In(inotify, m) \/ In(batch, m) \/ m = n
    <3>1. CASE In(batch', m)
      BY <1>1, <3>1 DEF In
    <3>2. CASE In(inotify', m)
      BY <1>1, <1>2, <3>2, NotedNames
    <3>3. QED
      BY <1>9, <3>1, <3>2
  <2>2. CASE m = n
    BY <1>7, <2>2
  <2>3. CASE m # n
    BY <1>5, <2>1, <2>3 DEF PlugInv
  <2>4. QED
    BY <2>2, <2>3
<1>10. PlugInv'
  <2>1. twice' \subseteq Devices
    BY <1>1, <1>3, <1>8 DEF PlugInv
  <2>2. IsFiniteSet(SoFar(gen')) /\ Plugged(gen') <= MaxPlugs
    BY <1>3, <1>4
  <2>3. \A m \in Nodes : In(inotify', m) \/ In(batch', m) => gen'[m] # 0
    BY <1>3, <1>9
  <2>4. QED
    BY <1>1, <2>1, <2>2, <2>3 DEF PlugInv, SoFar, Plugged
<1>11. SlotInv' /\ CountInv'
  BY <1>1 DEF SlotInv, CountInv
<1>12. QED
  BY <1>10, <1>11

LEMMA PressTypes ==
  ASSUME LoopInv, TypesInv, NEW n \in Nodes, Press(n)
  PROVE  TypesInv'
<1> USE DEF TypesInv
<1>1. /\ n \in plugged /\ Len(pressed) < MaxKeys /\ pressed' = Append(pressed, Device(n))
      /\ table' = [i \in DOMAIN table |->
                     IF table[i].dev = Device(n)
                       THEN [table[i] EXCEPT !.keys = Append(@, Len(pressed'))] ELSE table[i]]
      /\ UNCHANGED <<gen, inotify, batch, twice, pc, devCount, miscCount, handled, passed>>
  BY DEF Press
<1>2. Device(n) \in Devices
  BY <1>1, DeviceIn DEF LoopInv, LoopTypeOK
<1>3. pressed' \in Seq(Devices) /\ Len(pressed') = Len(pressed) + 1 /\ Len(pressed) \in Nat
  BY <1>1, <1>2 DEF PlugInv
<1>4. Len(pressed') \in 1..MaxKeys
  BY <1>1, <1>3, EventsAssumption
<1>5. \A i \in DOMAIN table : table'[i] \in Slots
  <2>1. TAKE i \in DOMAIN table
  <2>2. table[i] \in Slots /\ table[i].keys \in Seq(1..MaxKeys)
    BY SlotFacts
  <2>3. Append(table[i].keys, Len(pressed')) \in Seq(1..MaxKeys)
    BY <1>4, <2>2
  <2>4. [table[i] EXCEPT !.keys = Append(@, Len(pressed'))] \in Slots
    BY <2>2, <2>3 DEF Slots
  <2>5. QED
    BY <1>1, <2>2, <2>4
<1>6. table' \in Seq(Slots) /\ Len(table') = Len(table)
  BY <1>1, <1>5, SlotChanged
<1>7. PlugInv'
  BY <1>1, <1>3 DEF PlugInv, SoFar, Plugged, In
<1>8. SlotInv' /\ CountInv'
  BY <1>1, <1>6 DEF SlotInv, CountInv
<1>9. QED
  BY <1>7, <1>8

LEMMA InitTypes ==
  ASSUME Init
  PROVE  TypesInv
<1>1. PICK g \in [Nodes -> Nat] : g = gen /\ \A n \in Nodes : g[n] \in {0, 1}
  BY DEF Init
<1>2. IsFiniteSet(SoFar(g))
  <2>1. PICK f : f = [n \in Nodes |-> <<n, 1>>]
    OBVIOUS
  <2>2. PICK T : T = {<<n, 1>> : n \in Nodes}
    OBVIOUS
  <2>3. f \in Surjection(Nodes, T)
    <3>1. f \in [Nodes -> T] /\ \A t \in T : \E n \in Nodes : f[n] = t
      BY <2>1, <2>2
    <3>2. QED
      BY <3>1 DEF Surjection
  <2>4. IsFiniteSet(T)
    BY <2>3, FS_Surjection, EventsAssumption
  <2>5. SoFar(g) \subseteq T
    <3>1. ASSUME NEW n \in Nodes, NEW k \in 1..g[n] PROVE <<n, k>> \in T
      <4>1. k = 1
        BY <1>1
      <4>2. QED
        BY <2>2, <4>1
    <3>2. QED
      BY <3>1 DEF SoFar
  <2>6. QED
    BY <2>4, <2>5, FS_Subset
<1>3. PlugInv
  BY <1>1, <1>2 DEF Init, PlugInv, In
<1>4. CountInv /\ SlotInv
  BY EventsAssumption DEF Init, CountInv, SlotInv
<1>5. QED
  BY <1>3, <1>4 DEF TypesInv

(* Descriptors, keys, devices and names keep to their types, and the two   *)
(* counters, whose sum is g_ev_count, to their parts of ev_fdinfo          *)
(* (events.cpp:47-62), however many devices come and go.                   *)
THEOREM EventTypesCorrect == Spec => []TypeOK
<1>1. Init => LoopInv /\ TypesInv
  BY LoopInit, InitTypes
<1>2. LoopInv /\ TypesInv /\ [Next]_vars => LoopInv' /\ TypesInv'
  <2>1. SUFFICES ASSUME LoopInv, TypesInv, [Next]_vars PROVE TypesInv'
    BY LoopStep
  <2>2. CASE AddWatch \/ ScanEnd \/ EvWait \/ DispatchDone \/ NamesDone
    BY <2>1, <2>2, QuietStepTypes
  <2>3. CASE ScanNode \/ AddInotify \/ DispatchInput \/ DispatchInotify \/ LookAtName
    BY <2>1, <2>3, ScanNodeTypes, AddInotifyTypes, DispatchInputTypes, DispatchInotifyTypes, LookAtNameTypes
  <2>4. CASE TimeOut \/ UNCHANGED vars
    BY <2>1, <2>4, StutterTypes DEF TimeOut
  <2>5. CASE \E n \in Nodes : Plug(n) \/ Unplug(n) \/ Press(n)
    BY <2>1, <2>5, PlugTypes, UnplugTypes, PressTypes
  <2>6. QED
    BY <2>1, <2>2, <2>3, <2>4, <2>5 DEF Next, Step
<1>3. LoopInv /\ TypesInv => TypeOK
  <2>1. SUFFICES ASSUME LoopInv, TypesInv PROVE TypeOK
    OBVIOUS
  <2>2. gen \in [Nodes -> 0..MaxPlugs]
    BY <2>1, GenBound DEF LoopInv, LoopTypeOK, TypesInv, PlugInv
  <2>3. QED
    BY <2>1, <2>2 DEF LoopInv, LoopTypeOK, PolledInv, TypesInv, PlugInv, CountInv, SlotInv, Slots, TypeOK
<1>4. QED
  BY <1>1, <1>2, <1>3, PTL DEF Spec
=============================================================================
