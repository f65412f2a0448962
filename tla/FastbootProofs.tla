--------------------------- MODULE FastbootProofs ---------------------------
(***************************************************************************)
(* Proofs about FastbootSession, for every image, however it is split and  *)
(* however long the script waits: the function the script adds is offered  *)
(* (FastbootOffered), and a client's flash command flashes what that       *)
(* client has sent (FlashesWhatWasSent).                                   *)
(***************************************************************************)
EXTENDS FastbootSession, SequenceTheorems, WellFoundedInduction, TLAPS

-----------------------------------------------------------------------------
(* The function the script adds.                                           *)

(* Before UDC is written no host is there, so that the daemon can only be  *)
(* opening its endpoints, with FunctionFS active from ep0 on, or wait for  *)
(* the first command; and it is that far when the marker exists.           *)
OpeningInv ==
  setup \in {"wait", "add", "udc"} =>
    /\ ~bound /\ link = "down" /\ ~torn
    /\ dpc \in {"control", "endpoints", "marker", "read"}
    /\ dpc \in {"endpoints", "marker", "read"} => active
    /\ ready => dpc = "read"

OfferInv ==
  /\ setup \in {"wait", "add", "udc", "done", "removed"}
  /\ OpeningInv
  /\ setup = "add" /\ ~gaveUp => ready
  /\ FastbootOffered

(* The steps of InitFunctionFs() in their order. *)
LEMMA OpeningOrder ==
  /\ Head(InitFunctionFs) = "control"
  /\ After("control") = "endpoints"
  /\ After("endpoints") = "marker"
  /\ After("marker") = "read"
<1> DEFINE position(s) == CHOOSE i \in DOMAIN InitFunctionFs : InitFunctionFs[i] = s
<1>1. /\ DOMAIN InitFunctionFs = 1..3 /\ Len(InitFunctionFs) = 3
      /\ InitFunctionFs[1] = "control" /\ InitFunctionFs[2] = "endpoints"
      /\ InitFunctionFs[3] = "marker"
  BY DEF InitFunctionFs
<1>2. position("control") = 1
  BY <1>1
<1>3. position("endpoints") = 2
  BY <1>1
<1>4. position("marker") = 3
  BY <1>1
<1>5. Head(InitFunctionFs) = "control"
  BY DEF InitFunctionFs
<1>6. QED
  BY <1>1, <1>2, <1>3, <1>4, <1>5 DEF After

LEMMA OfferInit == Init => OfferInv
  BY OpeningOrder DEF Init, GadgetInit, OfferInv, OpeningInv, FastbootOffered

(* Steps that need a host, or a command or response under way, come after  *)
(* UDC is written; what the script has done, they leave alone.             *)
LEMMA OfferKept ==
  ASSUME OfferInv, setup \in {"done", "removed"}, UNCHANGED scriptVars
  PROVE  OfferInv'
  BY DEF OfferInv, OpeningInv, FastbootOffered, scriptVars

LEMMA OfferOpening ==
  ASSUME OfferInv, OpenControl \/ OpenEndpoints \/ CreateMarker \/ OpenFails
  PROVE  OfferInv'
<1>1. CASE OpenControl
  BY <1>1, OpeningOrder
     DEF OpenControl, OpenStep, OfferInv, OpeningInv, FastbootOffered, scriptVars
<1>2. CASE OpenEndpoints
  BY <1>2, OpeningOrder
     DEF OpenEndpoints, OpenStep, OfferInv, OpeningInv, FastbootOffered, scriptVars
<1>3. CASE CreateMarker
  BY <1>3, OpeningOrder
     DEF CreateMarker, OpenStep, OfferInv, OpeningInv, FastbootOffered, scriptVars
<1>4. CASE OpenFails
  <2>1. /\ dpc \in {"control", "endpoints"} /\ dpc' = "control"
        /\ link' = "down" /\ torn' = FALSE /\ UNCHANGED <<scriptVars, ready>>
    BY <1>4, OpeningOrder DEF OpenFails, FfsClosed
  <2>2. ~bound => ~bound'
    BY <1>4, Zenon DEF OpenFails, FfsClosed
  <2>3. QED
    BY <2>1, <2>2 DEF OfferInv, OpeningInv, FastbootOffered, scriptVars
<1>5. QED
  BY <1>1, <1>2, <1>3, <1>4

LEMMA OfferServing ==
  ASSUME OfferInv,
         \/ GetVarHandler \/ OemCmdHandler \/ RebootHandler \/ DownloadHandler
         \/ ReceiveData \/ ReceiveCommand \/ FlashHandler \/ WriteStatus
         \/ StartClient \/ StartReboot \/ Unplug \/ Kill
         \/ RebootInto \/ FlashContinues \/ FlashReturns \/ TransferFails
  PROVE  OfferInv'
<1>1. CASE \/ GetVarHandler \/ OemCmdHandler \/ RebootHandler \/ DownloadHandler
           \/ ReceiveData \/ ReceiveCommand \/ FlashHandler \/ WriteStatus
           \/ StartClient \/ StartReboot \/ Unplug
  <2>1. link = "up" /\ UNCHANGED scriptVars
    BY <1>1 DEF GetVarHandler, OemCmdHandler, RebootHandler, DownloadHandler, Command,
                ReceiveData, ReceiveCommand, FlashHandler, WriteStatus, StartClient,
                StartReboot, Unplug, Disconnect, gadgetVars
  <2>2. setup \in {"done", "removed"}
    BY <2>1 DEF OfferInv, OpeningInv
  <2>3. QED
    BY <2>1, <2>2, OfferKept
<1>2. CASE RebootInto \/ FlashContinues \/ FlashReturns \/ TransferFails
  <2>1. dpc \in {"reboot", "flash"} \/ torn \/ dpc \in {"reply", "farewell"}
    BY <1>2 DEF RebootInto, FlashContinues, FlashReturns, TransferFails, ReadFails, WriteFails
  <2>2. setup \in {"done", "removed"}
    BY <2>1 DEF OfferInv, OpeningInv
  <2>3. UNCHANGED scriptVars
    BY <1>2 DEF RebootInto, FlashContinues, FlashReturns, TransferFails, gadgetVars
  <2>4. QED
    BY <2>2, <2>3, OfferKept
<1>3. CASE Kill
  BY <1>3 DEF Kill, RemoveGadget, OfferInv, OpeningInv, FastbootOffered
<1>4. QED
  BY <1>1, <1>2, <1>3

LEMMA OfferScript ==
  ASSUME OfferInv, SetUp
  PROVE  OfferInv'
<1>1. UNCHANGED dpc /\ dpc # "dead"
  BY DEF SetUp, deviceVars
<1>2. CASE FfsWait
  BY <1>1, <1>2 DEF FfsWait, OfferInv, OpeningInv, FastbootOffered
<1>3. CASE FfsReady
  BY <1>1, <1>3 DEF FfsReady, OfferInv, OpeningInv, FastbootOffered
<1>4. CASE AddGadget
  BY <1>1, <1>4 DEF AddGadget, OfferInv, OpeningInv, FastbootOffered
<1>5. CASE WriteUdc
  BY <1>1, <1>5 DEF WriteUdc, OfferInv, OpeningInv, FastbootOffered
<1>6. QED
  BY <1>2, <1>3, <1>4, <1>5 DEF SetUp, Script

LEMMA OfferStep == OfferInv /\ [Next]_vars => OfferInv'
<1> SUFFICES ASSUME OfferInv, [Next]_vars PROVE OfferInv'
  OBVIOUS
<1>1. CASE Exchange
  BY <1>1, OfferOpening, OfferServing DEF Exchange
<1>2. CASE SetUp
  BY <1>2, OfferScript
<1>3. CASE StartClient \/ StartReboot \/ Unplug \/ Kill
  BY <1>3, OfferServing
<1>4. CASE Plug
  BY <1>4 DEF Plug, Enumerate, deviceVars, scriptVars, OfferInv, OpeningInv, FastbootOffered
<1>5. CASE AbortClient \/ Mount \/ Terminated \/ UNCHANGED vars
  <2>1. UNCHANGED <<dpc, gadgetVars>>
    BY <1>5 DEF AbortClient, Mount, Terminated, vars, deviceVars
  <2>2. QED
    BY <2>1 DEF gadgetVars, scriptVars, OfferInv, OpeningInv, FastbootOffered
<1>6. QED
  BY <1>1, <1>2, <1>3, <1>4, <1>5 DEF Next

(* Whatever happens between the daemon, the script and the host, ffs.fastboot *)
(* is not ignored unless the script stopped waiting for the marker.        *)
THEOREM FunctionOffered == Spec => []FastbootOffered
<1>1. OfferInv => FastbootOffered
  BY DEF OfferInv
<1>2. QED
  BY OfferInit, OfferStep, <1>1, PTL DEF Spec

-----------------------------------------------------------------------------
(* What a flash command flashes.                                           *)

SentTypeOK ==
  /\ piece \in DOMAIN Pieces /\ buffer \in Seq(Chunks)
  /\ got \in Nat /\ sent \in Nat

(* Only a client with a connection is past its start. *)
ConnectedInv ==
  /\ torn => link = "down"
  /\ dpc # "dead" /\ link = "down" => cpc = "start"

(* The daemon has room for the piece, or refuses it. *)
RoomMade ==
  /\ dpc = "reply"
  /\ \/ replies = <<"FAIL">>
     \/ replies = <<"DATA">> /\ got = 0 /\ Len(buffer) = Len(Pieces[piece])

(* The daemon has as much of the piece as the client has sent. *)
InStep ==
  /\ dpc = "receive" /\ got = sent
  /\ sent < Len(Pieces[piece]) /\ Len(buffer) = Len(Pieces[piece])
  /\ \A k \in 1..sent : buffer[k] = Pieces[piece][k]

(* What the daemon holds at each point of a client it serves. *)
ServedInv ==
  /\ cpc = "downloadWait" => RoomMade
  /\ cpc = "send" => InStep
  /\ cpc = "sendWait" => dpc = "reply" /\ replies = <<"OKAY">> /\ buffer = Pieces[piece]
  /\ cpc = "flash" => dpc = "read" /\ buffer = Pieces[piece]
  /\ cpc = "flashWait" /\ dpc = "flash" => data = Pieces[piece]

SentInv == SentTypeOK /\ ConnectedInv /\ (dpc # "dead" => ServedInv)

LEMMA PieceType ==
  /\ 1 \in DOMAIN Pieces
  /\ \A p \in DOMAIN Pieces :
       Pieces[p] \in Seq(Chunks) /\ Len(Pieces[p]) \in Nat /\ Len(Pieces[p]) >= 1
<1>1. Pieces \in Seq(Seq(Chunks)) /\ Pieces # <<>>
  BY PiecesAssumption
<1>2. 1 \in DOMAIN Pieces
  BY <1>1, EmptySeq
<1>3. ASSUME NEW p \in DOMAIN Pieces
      PROVE  Pieces[p] \in Seq(Chunks) /\ Len(Pieces[p]) \in Nat /\ Len(Pieces[p]) >= 1
  <2>1. Pieces[p] \in Seq(Chunks) /\ Pieces[p] # <<>>
    BY <1>1, PiecesAssumption
  <2>2. QED
    BY <2>1, EmptySeq
<1>4. QED
  BY <1>2, <1>3

LEMMA GarbageType == Garbage \in Chunks
  BY LengthAssumption DEF Garbage, Chunks

LEMMA ResizedType ==
  ASSUME NEW b \in Seq(Chunks), NEW n \in Nat
  PROVE  Resized(b, n) \in Seq(Chunks) /\ Len(Resized(b, n)) = n
<1>1. \A k \in 1..n : (IF k <= Len(b) THEN b[k] ELSE Garbage) \in Chunks
  BY GarbageType
<1>2. QED
  BY <1>1 DEF Resized

LEMMA StoredType ==
  ASSUME NEW b \in Seq(Chunks), NEW k \in Nat, NEW c \in Chunks
  PROVE  Stored(b, k, c) \in Seq(Chunks)
<1>1. Stored(b, k, c) = [b EXCEPT ![k] = c]
  BY DEF Stored
<1>2. CASE k \in 1..Len(b)
  BY <1>1, <1>2, ExceptSeq
<1>3. CASE k \notin 1..Len(b)
  <2>1. [b EXCEPT ![k] = c] = b
    BY <1>3
  <2>2. QED
    BY <1>1, <1>3, <2>1
<1>4. QED
  BY <1>2, <1>3

(* One more chunk of d is stored after its first n. *)
LEMMA StoredNext ==
  ASSUME NEW b \in Seq(Chunks), NEW d \in Seq(Chunks), NEW n \in Nat,
         n < Len(d), Len(b) = Len(d), \A k \in 1..n : b[k] = d[k]
  PROVE  /\ Stored(b, n + 1, d[n + 1]) \in Seq(Chunks)
         /\ Len(Stored(b, n + 1, d[n + 1])) = Len(d)
         /\ \A k \in 1..n + 1 : Stored(b, n + 1, d[n + 1])[k] = d[k]
<1>1. n + 1 \in 1..Len(b) /\ d[n + 1] \in Chunks
  OBVIOUS
<1>2. /\ [b EXCEPT ![n + 1] = d[n + 1]] \in Seq(Chunks)
      /\ Len([b EXCEPT ![n + 1] = d[n + 1]]) = Len(b)
      /\ \A k \in 1..n + 1 : [b EXCEPT ![n + 1] = d[n + 1]][k] = d[k]
  BY <1>1
<1>3. QED
  BY <1>2 DEF Stored

LEMMA SentInit == Init => SentInv
<1> SUFFICES ASSUME Init PROVE SentInv
  OBVIOUS
<1>1. SentTypeOK
  BY PieceType DEF Init, SentTypeOK
<1>2. cpc = "start" /\ torn = FALSE
  BY DEF Init, GadgetInit
<1>3. QED
  BY <1>1, <1>2 DEF SentInv, ConnectedInv, ServedInv

(* Whoever has lost the connection, is killed or aborted is back at the    *)
(* start, where nothing is asked of the daemon.                            *)
LEMMA SentLost ==
  ASSUME SentInv, SentTypeOK', torn' => link' = "down",
         cpc' = "start" \/ dpc' = "dead"
  PROVE  SentInv'
  BY DEF SentInv, ConnectedInv, ServedInv

LEMMA SentOpening ==
  ASSUME SentInv, OpenControl \/ OpenEndpoints \/ CreateMarker \/ OpenFails
  PROVE  SentInv'
<1>1. CASE OpenFails
  <2>1. SentTypeOK' /\ cpc' = "start" /\ torn' = FALSE
    BY <1>1, PieceType DEF OpenFails, ClientLost, FfsClosed, SentInv, SentTypeOK
  <2>2. QED
    BY <2>1, SentLost
<1>2. CASE OpenControl \/ OpenEndpoints \/ CreateMarker
  <2>1. /\ dpc \in {"control", "endpoints", "marker"}
        /\ dpc' \in {"endpoints", "marker", "read"}
        /\ UNCHANGED <<buffer, got, cpc, piece, sent, link, torn>>
    BY <1>2, OpeningOrder DEF OpenControl, OpenEndpoints, CreateMarker, OpenStep, clientVars
  <2>2. cpc \notin {"downloadWait", "send", "sendWait", "flash"}
    BY <2>1 DEF SentInv, ServedInv, RoomMade, InStep
  <2>3. QED
    BY <2>1, <2>2 DEF SentInv, SentTypeOK, ConnectedInv, ServedInv
<1>3. QED
  BY <1>1, <1>2

(* Commands that leave the buffer alone. *)
LEMMA SentAsking ==
  ASSUME SentInv,
         GetVarHandler \/ OemCmdHandler \/ RebootHandler \/ StartClient \/ StartReboot
  PROVE  SentInv'
<1>1. /\ cpc' \in {"varWait", "rebootWait", "var", "reboot"} /\ link = "up"
      /\ UNCHANGED <<buffer, got, link, torn>>
  BY DEF GetVarHandler, OemCmdHandler, RebootHandler, StartClient, StartReboot, Command,
         deviceVars, gadgetVars
<1>2. \/ UNCHANGED <<piece, sent>>
      \/ piece' = 1 /\ sent' = 0
  BY DEF GetVarHandler, OemCmdHandler, RebootHandler, StartClient, StartReboot, Command
<1>3. SentTypeOK'
  BY <1>1, <1>2, PieceType DEF SentInv, SentTypeOK
<1>4. QED
  BY <1>1, <1>3 DEF SentInv, ConnectedInv, ServedInv

LEMMA SentDownload ==
  ASSUME SentInv, DownloadHandler
  PROVE  SentInv'
<1>1. /\ cpc' = "downloadWait" /\ link = "up" /\ dpc' = "reply"
      /\ UNCHANGED <<piece, sent, link, torn>>
  BY DEF DownloadHandler, Command, Respond, gadgetVars
<1>2. SentTypeOK' /\ RoomMade'
  <2>1. CASE /\ buffer' = Resized(buffer, Len(Pieces[piece])) /\ got' = 0
             /\ Respond(<<"DATA">>)
    <3>1. buffer' \in Seq(Chunks) /\ Len(buffer') = Len(Pieces[piece])
      BY <2>1, ResizedType, PieceType DEF SentInv, SentTypeOK
    <3>2. QED
      BY <2>1, <3>1, <1>1 DEF SentInv, SentTypeOK, RoomMade, Respond
  <2>2. CASE Respond(<<"FAIL">>) /\ UNCHANGED <<buffer, got>>
    BY <2>2, <1>1 DEF SentInv, SentTypeOK, RoomMade, Respond
  <2>3. QED
    BY <2>1, <2>2 DEF DownloadHandler
<1>3. QED
  BY <1>1, <1>2 DEF SentInv, ConnectedInv, ServedInv

LEMMA SentReceive ==
  ASSUME SentInv, ReceiveData
  PROVE  SentInv'
<1> DEFINE p == Pieces[piece]
<1>1. /\ link = "up" /\ dpc = "receive" /\ cpc = "send"
      /\ buffer' = Stored(buffer, got + 1, p[sent + 1])
      /\ got' = got + 1 /\ sent' = sent + 1
      /\ UNCHANGED <<piece, link, torn>>
  BY DEF ReceiveData, gadgetVars
<1>2. InStep /\ SentTypeOK
  BY <1>1 DEF SentInv, ServedInv
<1>3. p \in Seq(Chunks) /\ Len(p) \in Nat
  BY <1>2, PieceType DEF SentTypeOK
<1>4. got = sent /\ sent \in Nat /\ sent < Len(p) /\ Len(buffer) = Len(p) /\ buffer \in Seq(Chunks)
  BY <1>2 DEF InStep, SentTypeOK
<1>5. \A k \in 1..sent : buffer[k] = p[k]
  BY <1>2 DEF InStep
<1>6. /\ buffer' \in Seq(Chunks) /\ Len(buffer') = Len(p)
      /\ \A k \in 1..sent + 1 : buffer'[k] = p[k]
  <2>1. buffer' = Stored(buffer, sent + 1, p[sent + 1])
    BY <1>1, <1>4
  <2>2. QED
    BY <2>1, <1>3, <1>4, <1>5, StoredNext
<1>7. SentTypeOK'
  BY <1>1, <1>2, <1>6 DEF SentTypeOK
<1>8. CASE sent + 1 = Len(p)
  <2>1. cpc' = "sendWait" /\ dpc' = "reply" /\ replies' = <<"OKAY">>
    BY <1>1, <1>4, <1>6, <1>8 DEF ReceiveData, Complete, Respond
  <2>2. buffer' = p
    BY <1>3, <1>6, <1>8
  <2>3. QED
    BY <1>1, <1>7, <2>1, <2>2 DEF SentInv, ConnectedInv, ServedInv
<1>9. CASE sent + 1 # Len(p)
  <2>1. cpc' = "send" /\ dpc' = "receive"
    BY <1>1, <1>4, <1>6, <1>9 DEF ReceiveData, Complete
  <2>2. InStep'
    BY <1>1, <1>3, <1>4, <1>6, <1>9, <2>1 DEF InStep
  <2>3. QED
    BY <1>1, <1>7, <2>1, <2>2 DEF SentInv, ConnectedInv, ServedInv
<1>10. QED
  BY <1>8, <1>9

LEMMA SentSwallowed ==
  ASSUME SentInv, ReceiveCommand
  PROVE  SentInv'
<1>1. /\ link = "up" /\ cpc' = "varWait" /\ buffer' = Stored(buffer, got + 1, Garbage)
      /\ UNCHANGED <<got, piece, sent, link, torn>>
  BY DEF ReceiveCommand, gadgetVars
<1>2. SentTypeOK'
  BY <1>1, GarbageType, StoredType DEF SentInv, SentTypeOK
<1>3. QED
  BY <1>1, <1>2 DEF SentInv, ConnectedInv, ServedInv

LEMMA SentFlash ==
  ASSUME SentInv, FlashHandler
  PROVE  SentInv'
<1>1. /\ link = "up" /\ dpc = "read" /\ cpc = "flash" /\ cpc' = "flashWait"
      /\ UNCHANGED <<got, piece, sent, link, torn>>
  BY DEF FlashHandler, Command, gadgetVars
<1>2. buffer = Pieces[piece] /\ SentTypeOK
  BY <1>1 DEF SentInv, ServedInv
<1>3. /\ buffer' \in Seq(Chunks)
      /\ dpc' = "flash" => data' = buffer
  <2>1. CASE FlashRefused
    BY <1>2, <2>1 DEF FlashRefused, Respond, SentTypeOK
  <2>2. CASE FlashFailed
    BY <2>2 DEF FlashFailed, Respond
  <2>3. CASE FlashAccepted
    BY <2>3 DEF FlashAccepted, FlashBegin
  <2>4. QED
    BY <2>1, <2>2, <2>3 DEF FlashHandler
<1>4. QED
  BY <1>1, <1>2, <1>3 DEF SentInv, SentTypeOK, ConnectedInv, ServedInv

LEMMA SentFlashing ==
  ASSUME SentInv, FlashContinues \/ FlashReturns
  PROVE  SentInv'
<1>1. /\ dpc = "flash" /\ UNCHANGED <<buffer, got, cpc, piece, sent, link, torn>>
      /\ \/ dpc' = "flash" /\ data' = data
         \/ dpc' = "reply"
  BY DEF FlashContinues, FlashReturns, FlashStep, SkipChunk, RawChunk, WriteSome,
         Respond, deviceVars, clientVars, gadgetVars
<1>2. cpc \notin {"downloadWait", "send", "sendWait", "flash"}
  BY <1>1 DEF SentInv, ServedInv, RoomMade, InStep
<1>3. QED
  BY <1>1, <1>2 DEF SentInv, SentTypeOK, ConnectedInv, ServedInv

LEMMA SentStatus ==
  ASSUME SentInv, WriteStatus
  PROVE  SentInv'
<1> DEFINE r == Head(replies)
<1>1. /\ link = "up" /\ dpc \in {"reply", "farewell"} /\ cpc \in Waiting
      /\ ClientReads(r) /\ UNCHANGED <<buffer, got, link, torn>>
      /\ dpc' \in {"reply", "reboot", "receive", "read"}
  BY DEF WriteStatus, gadgetVars
<1>2. SentTypeOK /\ ServedInv
  BY <1>1 DEF SentInv
<1>3. SentTypeOK'
  <2>1. CASE UNCHANGED piece
    BY <1>1, <1>2, <2>1 DEF SentTypeOK, ClientReads
  <2>2. CASE piece # Len(Pieces) /\ piece' = piece + 1
    <3>1. piece + 1 \in DOMAIN Pieces
      BY <1>2, <2>2, PiecesAssumption DEF SentTypeOK
    <3>2. QED
      BY <1>1, <1>2, <2>2, <3>1 DEF SentTypeOK, ClientReads
  <2>3. QED
    BY <1>1, <2>1, <2>2 DEF ClientReads
<1>4. CASE cpc' \in {"done", "failed", "download"}
  BY <1>1, <1>3, <1>4 DEF SentInv, ConnectedInv, ServedInv
<1>5. CASE cpc' = "send"
  <2>1. r = "DATA" /\ cpc = "downloadWait" /\ sent' = 0 /\ UNCHANGED piece
    BY <1>1, <1>5 DEF ClientReads, Waiting
  <2>2. /\ dpc = "reply" /\ replies = <<"DATA">> /\ got = 0
        /\ Len(buffer) = Len(Pieces[piece])
    BY <1>2, <2>1 DEF ServedInv, RoomMade
  <2>3. dpc' = "receive"
    BY <2>2 DEF WriteStatus
  <2>4. InStep'
    BY <1>1, <1>2, <2>1, <2>2, <2>3, PieceType DEF InStep, SentTypeOK
  <2>5. QED
    BY <1>1, <1>3, <1>5, <2>4 DEF SentInv, ConnectedInv, ServedInv
<1>6. CASE cpc' = "flash"
  <2>1. r = "OKAY" /\ cpc = "sendWait" /\ UNCHANGED piece
    BY <1>1, <1>6 DEF ClientReads, Waiting
  <2>2. dpc = "reply" /\ replies = <<"OKAY">> /\ buffer = Pieces[piece]
    BY <1>2, <2>1 DEF ServedInv
  <2>3. dpc' = "read"
    BY <2>2 DEF WriteStatus
  <2>4. QED
    BY <1>1, <1>3, <1>6, <2>1, <2>2, <2>3 DEF SentInv, ConnectedInv, ServedInv
<1>7. CASE r = "INFO" /\ cpc' = cpc
  <2>1. cpc \notin {"downloadWait", "sendWait"}
    BY <1>2, <1>7 DEF ServedInv, RoomMade
  <2>2. QED
    BY <1>1, <1>3, <1>7, <2>1 DEF SentInv, ConnectedInv, ServedInv, Waiting
<1>8. QED
  BY <1>1, <1>4, <1>5, <1>6, <1>7 DEF ClientReads

LEMMA SentFails ==
  ASSUME SentInv, TransferFails, dpc # "dead"
  PROVE  SentInv'
<1>1. UNCHANGED <<cpc, piece, sent>>
  BY DEF TransferFails, clientVars
<1>2. torn \/ link = "down"
  BY DEF TransferFails, ReadFails, WriteFails
<1>3. cpc = "start"
  BY <1>2 DEF SentInv, ConnectedInv
<1>4. SentTypeOK'
  <2>1. \/ buffer' = buffer /\ got' = got
        \/ buffer' = <<>> /\ got' = 0
    BY DEF TransferFails, ReadFails, WriteFails, CloseDevice
  <2>2. CASE buffer' = buffer /\ got' = got
    BY <1>1, <2>2 DEF SentInv, SentTypeOK
  <2>3. CASE buffer' = <<>> /\ got' = 0
    BY <1>1, <2>3 DEF SentInv, SentTypeOK
  <2>4. QED
    BY <2>1, <2>2, <2>3
<1>5. torn' = FALSE
  BY DEF TransferFails, ReadFails, WriteFails, CloseDevice, FfsClosed
<1>6. QED
  BY <1>1, <1>3, <1>4, <1>5, SentLost

LEMMA SentAround ==
  ASSUME SentInv,
         \/ SetUp \/ Plug \/ AbortClient \/ Unplug \/ Mount \/ Kill \/ RebootInto
         \/ UNCHANGED vars
  PROVE  SentInv'
<1>1. CASE AbortClient \/ Unplug
  <2>1. SentTypeOK' /\ cpc' = "start"
    BY <1>1, PieceType
       DEF AbortClient, Unplug, ClientLost, deviceVars, SentInv, SentTypeOK
  <2>2. torn' => link' = "down"
    BY <1>1 DEF AbortClient, Unplug, Disconnect, gadgetVars, SentInv, ConnectedInv
  <2>3. QED
    BY <2>1, <2>2, SentLost
<1>2. CASE Kill \/ RebootInto
  <2>1. SentTypeOK' /\ dpc' = "dead"
    BY <1>2 DEF Kill, RebootInto, clientVars, SentInv, SentTypeOK
  <2>2. torn' => link' = "down"
    BY <1>2 DEF Kill, RebootInto, RemoveGadget, gadgetVars, SentInv, ConnectedInv
  <2>3. QED
    BY <2>1, <2>2, SentLost
<1>3. CASE SetUp \/ Plug \/ Mount \/ UNCHANGED vars
  <2>1. UNCHANGED <<data, deviceVars, clientVars>>
    BY <1>3 DEF SetUp, Plug, Mount, vars, flashVars
  <2>2. /\ torn' => torn
        /\ \/ link' = link
           \/ ~torn' /\ link' = "up"
    <3>1. CASE SetUp
      BY <3>1 DEF SetUp, Script, FfsWait, FfsReady, AddGadget, WriteUdc
    <3>2. CASE Plug
      BY <3>2 DEF Plug, Enumerate
    <3>3. CASE Mount \/ UNCHANGED vars
      BY <3>3 DEF Mount, vars, gadgetVars
    <3>4. QED
      BY <1>3, <3>1, <3>2, <3>3
  <2>3. QED
    BY <2>1, <2>2
       DEF SentInv, SentTypeOK, ConnectedInv, ServedInv, RoomMade, InStep, deviceVars, clientVars
<1>4. QED
  BY <1>1, <1>2, <1>3

LEMMA SentStep == SentInv /\ [Next]_vars => SentInv'
<1> SUFFICES ASSUME SentInv, [Next]_vars PROVE SentInv'
  OBVIOUS
<1>1. CASE Exchange
  <2>1. TransferFails => dpc # "dead"
    BY DEF TransferFails, ReadFails, WriteFails
  <2>2. QED
    BY <1>1, <2>1, SentOpening, SentAsking, SentAround, SentDownload, SentReceive,
       SentSwallowed, SentFlash, SentFlashing, SentStatus, SentFails DEF Exchange
<1>2. CASE StartClient \/ StartReboot
  BY <1>2, SentAsking
<1>3. CASE SetUp \/ Plug \/ AbortClient \/ Unplug \/ Mount \/ Kill \/ UNCHANGED vars
  BY <1>3, SentAround
<1>4. CASE Terminated
  BY <1>4, SentAround DEF Terminated
<1>5. QED
  BY <1>1, <1>2, <1>3, <1>4 DEF Next

(* A client that waits for its flash command waits for the piece it has    *)
(* just downloaded, whatever earlier clients, failed downloads and lost    *)
(* connections have left in the daemon's buffer.                           *)
THEOREM FlashesSent == Spec => []FlashesWhatWasSent
<1>1. SentInv => FlashesWhatWasSent
  BY DEF SentInv, ServedInv, FlashesWhatWasSent
<1>2. QED
  BY SentInit, SentStep, <1>1, PTL DEF Spec

-----------------------------------------------------------------------------
(* What a flash leaves in the file.                                        *)

(* A response ends with a status that is not INFO.                         *)
Statuses == {"OKAY", "FAIL", "INFO", "DATA"}

IsResponse(r) == r \in Seq(Statuses) /\ r # <<>> /\ r[Len(r)] # "INFO"

ReplyTypeOK ==
  /\ replies \in Seq(Statuses)
  /\ dpc \in {"reply", "farewell"} => IsResponse(replies)

(* The offset at which the k-th chunk begins, or the list ends.            *)
Start(chunks, k) ==
  IF k <= Len(chunks) THEN chunks[k].at ELSE EndOf(chunks[Len(chunks)])

(* A flash is at a place of the piece that its chunks are meant for.       *)
InPlace ==
  /\ next \in 1..Len(data) + 1
  /\ \/ step = "chunk" /\ pos = Start(data, next)
     \/ /\ step = "write" /\ next <= Len(data) /\ data[next].kind = "raw"
        /\ pos \in data[next].at .. EndOf(data[next]) - 1
        /\ left = [k \in 1..EndOf(data[next]) - pos |-> pos + k]

(* The data of chunks below offset n is in the file.                       *)
InFile(chunks, n) ==
  \A b \in DataIn(chunks) : b <= n => b <= Len(file) /\ file[b] = b

(* A flash begins only for a client that waits for it, and outlives it     *)
(* only while no other command is read.                                    *)
FlashingInv ==
  dpc = "flash" =>
    /\ \E p \in DOMAIN Pieces : data = Pieces[p]
    /\ InPlace
    /\ cpc = "flashWait" \/ (cpc \in {"start", "var"} /\ piece = 1)

FileTypeOK == FlashTypeOK /\ FlashingInv

(* The client waits for a flash, or for an answer that says OKAY only if   *)
(* the data of its piece is in the file.                                   *)
Promised == replies \in {<<"OKAY">>, <<"INFO", "OKAY">>}
Refused  == replies \in {<<"FAIL">>, <<"INFO", "FAIL">>}

AnswerInv ==
  cpc = "flashWait" /\ dpc # "dead" =>
    \/ dpc = "flash" /\ InFile(data, pos)
    \/ dpc = "reply" /\ Refused
    \/ dpc = "reply" /\ Promised /\ InFile(Pieces[piece], ImageLength)

DataInv == FlashedDataKept /\ AnswerInv

(* What the client in progress has had written to the file.                *)
Settled == UNION {DataOf(p) : p \in Acknowledged}

Done ==
  Settled \cup IF cpc # "flashWait" THEN {}
               ELSE IF dpc = "flash" THEN {b \in DataOf(piece) : b <= pos} ELSE DataOf(piece)

EndsWith(D) == D # {} => Len(file) \in D /\ \A b \in D : b <= Len(file)

(* A flash has failed, as its client knows or is going to be told.         *)
Broken ==
  \/ cpc = "failed"
  \/ cpc = "flashWait" /\ dpc # "flash" /\ ~(dpc = "reply" /\ Promised)

(* The file ends with the last data so written, except that a chunk has    *)
(* its end before its data.                                                *)
TailInv ==
  kind = "file" /\ ~kept /\ ~Broken =>
    IF cpc = "flashWait" /\ dpc = "flash" /\ step = "write"
    THEN Len(file) = EndOf(data[next]) ELSE EndsWith(Done)

-----------------------------------------------------------------------------
(* Pieces and the operations on files.                                     *)

LEMMA NatInduct ==
  ASSUME NEW S, 0 \in S, \A n \in Nat : n \in S => n + 1 \in S
  PROVE  Nat \subseteq S
<1> SUFFICES ASSUME NEW m \in Nat \ S PROVE FALSE
  OBVIOUS
<1>1. PICK R : R = OpToRel(<, Nat)
  OBVIOUS
<1>2. IsWellFoundedOn(R, Nat)
  BY <1>1, NatLessThanWellFounded
<1>3. PICK x \in Nat \ S : \A y \in Nat \ S : ~(<<y, x>> \in R)
  <2>1. PICK T : T = Nat \ S
    OBVIOUS
  <2>2. T \subseteq Nat /\ T # {}
    BY <2>1
  <2>3. \E x \in T : \A y \in T : ~(<<y, x>> \in R)
    BY <1>2, <2>2, WFMin
  <2>4. QED
    BY <2>1, <2>3
<1>4. \A y \in Nat \ S : ~(y < x)
  BY <1>1, <1>3 DEF OpToRel
<1>5. x # 0 /\ x - 1 \in Nat
  BY <1>3
<1>6. x - 1 \in S
  BY <1>4, <1>5
<1>7. QED
  BY <1>3, <1>5, <1>6

LEMMA ChunkType ==
  \A c \in Chunks : /\ c.kind \in {"raw", "skip"} /\ c.at \in 0..ImageLength
                    /\ c.len \in 1..ImageLength /\ EndOf(c) = c.at + c.len
                    /\ c.at \in Nat /\ EndOf(c) \in Nat /\ c.at < EndOf(c)
  BY LengthAssumption DEF Chunks, EndOf

(* The chunks of a piece.                                                  *)
LEMMA ChunkFacts ==
  ASSUME NEW p \in DOMAIN Pieces, NEW d, d = Pieces[p]
  PROVE  /\ d \in Seq(Chunks) /\ Len(d) \in Nat /\ Len(d) >= 1
         /\ \A j \in 1..Len(d) : d[j] \in Chunks /\ EndOf(d[j]) <= ImageLength
         /\ d[1].at = 0
<1>1. d \in Seq(Chunks) /\ Len(d) \in Nat /\ Len(d) >= 1 /\ DOMAIN d = 1..Len(d)
  BY PieceType
<1>2. \A j \in DOMAIN d : EndOf(d[j]) <= ImageLength
  BY PiecesInOrder
<1>3. d[1].at = 0
  BY PiecesInOrder
<1>4. QED
  BY <1>1, <1>2, <1>3

LEMMA ChunkNext ==
  ASSUME NEW p \in DOMAIN Pieces, NEW d, d = Pieces[p], NEW j \in 1..Len(d), j < Len(d)
  PROVE  d[j + 1].at = EndOf(d[j])
<1>1. DOMAIN d = 1..Len(d) /\ Len(d) \in Nat
  BY PieceType
<1>2. j \in DOMAIN d /\ j + 1 \in DOMAIN d
  BY <1>1
<1>3. QED
  BY <1>2, PiecesInOrder

LEMMA ChunkOrder ==
  ASSUME NEW p \in DOMAIN Pieces, NEW d, d = Pieces[p],
         NEW i \in 1..Len(d), NEW j \in 1..Len(d), i < j
  PROVE  EndOf(d[i]) <= d[j].at
<1> DEFINE S == {n \in Nat : \A k \in 1..Len(d) :
                   k + n + 1 <= Len(d) => EndOf(d[k]) <= d[k + n + 1].at}
<1>1. Len(d) \in Nat /\ \A k \in 1..Len(d) : d[k].at \in Nat /\ EndOf(d[k]) \in Nat /\ d[k].at < EndOf(d[k])
  BY ChunkFacts, ChunkType
<1>2. \A k \in 1..Len(d) : k < Len(d) => d[k + 1].at = EndOf(d[k])
  BY ChunkNext
<1>3. 0 \in S
  BY <1>1, <1>2
<1>4. ASSUME NEW n \in Nat, n \in S PROVE n + 1 \in S
  <2>1. SUFFICES ASSUME NEW k \in 1..Len(d), k + (n + 1) + 1 <= Len(d)
                 PROVE  EndOf(d[k]) <= d[k + (n + 1) + 1].at
    OBVIOUS
  <2>2. PICK m \in 1..Len(d) : m = k + n + 1 /\ m < Len(d)
    <3> HIDE DEF S
    <3>1. PICK l \in Nat : l = Len(d)
      BY <1>1
    <3>2. k \in Nat /\ k >= 1 /\ k + n + 1 < l
      BY <2>1, <3>1
    <3>3. k + n + 1 \in 1..l
      BY <3>2
    <3>4. QED
      BY <3>1, <3>2, <3>3
  <2>3. EndOf(d[k]) <= d[m].at
    <3>1. \A x \in 1..Len(d) : x + n + 1 <= Len(d) => EndOf(d[x]) <= d[x + n + 1].at
      BY <1>4
    <3>2. k + n + 1 <= Len(d)
      BY <1>1, <2>2
    <3>3. EndOf(d[k]) <= d[k + n + 1].at
      BY <3>1, <3>2
    <3>4. QED
      BY <2>2, <3>3
  <2>4. d[m + 1].at = EndOf(d[m]) /\ m + 1 \in 1..Len(d)
    BY <1>1, <1>2, <2>2
  <2>5. EndOf(d[k]) <= d[m + 1].at
    <3>1. PICK a \in Nat, b \in Nat, u \in Nat :
            a = EndOf(d[k]) /\ b = d[m].at /\ u = EndOf(d[m]) /\ b < u
      BY <1>1
    <3>2. a <= u
      BY <2>3, <3>1
    <3>3. QED
      BY <2>4, <3>1, <3>2
  <2>6. m + 1 = k + (n + 1) + 1
    BY <1>1, <2>2
  <2>7. QED
    BY <2>5, <2>6
<1>5. Nat \subseteq S
  <2> HIDE DEF S
  <2>1. QED
    BY <1>3, <1>4, NatInduct
<1>6. \A n \in Nat : n \in S
  <2> HIDE DEF S
  <2>1. QED
    BY <1>5
<1>7. PICK n \in Nat : n = j - i - 1
  BY <1>1
<1>8. i + n + 1 = j
  BY <1>1, <1>7
<1>9. i + n + 1 <= Len(d) => EndOf(d[i]) <= d[i + n + 1].at
  BY <1>6
<1>10. QED
  BY <1>1, <1>8, <1>9

LEMMA DataFacts ==
  ASSUME NEW d \in Seq(Chunks)
  PROVE  /\ \A b \in DataIn(d) :
              b \in Nat /\ \E j \in 1..Len(d) : /\ d[j].kind = "raw" /\ d[j].at < b
                                               /\ b <= EndOf(d[j])
         /\ \A j \in 1..Len(d) : \A b \in Nat :
              d[j].kind = "raw" /\ d[j].at < b /\ b <= EndOf(d[j]) => b \in DataIn(d)
<1>1. \A j \in 1..Len(d) : d[j] \in Chunks
  OBVIOUS
<1>2. ASSUME NEW b \in DataIn(d)
      PROVE  b \in Nat /\ \E j \in 1..Len(d) : /\ d[j].kind = "raw" /\ d[j].at < b
                                              /\ b <= EndOf(d[j])
  <2>1. PICK j \in 1..Len(d) : d[j].kind = "raw" /\ \E k \in 1..d[j].len : b = d[j].at + k
    BY DEF DataIn
  <2>2. PICK k \in 1..d[j].len : b = d[j].at + k
    BY <2>1
  <2>3. PICK c \in Chunks : c = d[j]
    BY <1>1
  <2>4. c.at \in Nat /\ c.len \in Nat /\ EndOf(c) = c.at + c.len
    BY <2>3, ChunkType, LengthAssumption
  <2>5. b \in Nat /\ c.at < b /\ b <= EndOf(c)
    BY <2>2, <2>3, <2>4
  <2>6. QED
    BY <2>1, <2>3, <2>5
<1>3. ASSUME NEW j \in 1..Len(d), NEW b \in Nat, d[j].kind = "raw", d[j].at < b, b <= EndOf(d[j])
      PROVE  b \in DataIn(d)
  <2>1. b - d[j].at \in 1..d[j].len /\ b = d[j].at + (b - d[j].at)
    BY <1>1, <1>3, ChunkType
  <2>2. b \in {d[j].at + k : k \in 1..d[j].len}
    BY <2>1
  <2>3. QED
    BY <1>3, <2>2 DEF DataIn
<1>4. QED
  BY <1>2, <1>3

Entries == -1..ImageLength + 1

LEMMA TruncatedFacts ==
  ASSUME NEW f \in Seq(Entries), NEW n \in Nat
  PROVE  /\ Truncated(f, n) \in Seq(Entries) /\ Len(Truncated(f, n)) = n
         /\ \A b \in 1..n : b <= Len(f) => Truncated(f, n)[b] = f[b]
<1>1. Truncated(f, n) = [b \in 1..n |-> IF b <= Len(f) THEN f[b] ELSE Zero]
  BY DEF Truncated
<1>2. \A b \in 1..n : (IF b <= Len(f) THEN f[b] ELSE Zero) \in Entries
  BY LengthAssumption DEF Entries, Zero
<1>3. [b \in 1..n |-> IF b <= Len(f) THEN f[b] ELSE Zero] \in Seq(Entries)
  BY <1>2
<1>4. QED
  BY <1>1, <1>3

LEMMA WrittenFacts ==
  ASSUME NEW f \in Seq(Entries), NEW p \in Nat, NEW d \in Seq(Entries)
  PROVE  /\ Written(f, p, d) \in Seq(Entries)
         /\ Len(Written(f, p, d)) = IF p + Len(d) > Len(f) THEN p + Len(d) ELSE Len(f)
         /\ \A b \in 1..p : b <= Len(f) => Written(f, p, d)[b] = f[b]
         /\ \A b \in p + 1..p + Len(d) : Written(f, p, d)[b] = d[b - p]
<1> DEFINE n == IF p + Len(d) > Len(f) THEN p + Len(d) ELSE Len(f)
           e(b) == IF b \in p + 1..p + Len(d) THEN d[b - p]
                   ELSE IF b <= Len(f) THEN f[b] ELSE Zero
<1>1. n \in Nat /\ n >= p + Len(d) /\ n >= Len(f)
  OBVIOUS
<1>2. Written(f, p, d) = [b \in 1..n |-> e(b)]
  BY DEF Written
<1>3. \A b \in 1..n : e(b) \in Entries
  <2>1. ASSUME NEW b \in 1..n PROVE e(b) \in Entries
    <3>1. CASE b \in p + 1..p + Len(d)
      BY <3>1
    <3>2. CASE b \notin p + 1..p + Len(d) /\ b <= Len(f)
      BY <3>2
    <3>3. CASE b \notin p + 1..p + Len(d) /\ ~(b <= Len(f))
      BY <3>3, LengthAssumption DEF Entries, Zero
    <3>4. QED
      BY <3>1, <3>2, <3>3
  <2>2. QED
    BY <2>1
<1>4. [b \in 1..n |-> e(b)] \in Seq(Entries) /\ Len([b \in 1..n |-> e(b)]) = n
  <2> HIDE DEF e, n
  <2>1. QED
    BY <1>1, <1>3
<1>5. /\ \A b \in 1..p : b <= Len(f) => b \in 1..n /\ e(b) = f[b]
      /\ \A b \in p + 1..p + Len(d) : b \in 1..n /\ e(b) = d[b - p]
  BY <1>1
<1>6. QED
  <2> HIDE DEF e
  <2>1. QED
    BY <1>2, <1>4, <1>5

LEMMA TruncateLengthFacts ==
  ASSUME NEW p \in Nat, NEW n \in Nat
  PROVE  /\ TruncateLength(p, n) \in Int /\ TruncateLength(p, n) <= p + n
         /\ p + n < WORD => TruncateLength(p, n) = p + n \/ TruncateLength(p, n) < 0
         /\ 2 * (p + n) < WORD => TruncateLength(p, n) = p + n
<1> DEFINE m == (p + n) % WORD
<1>1. m \in 0..WORD - 1
  BY LengthAssumption
<1>2. m <= p + n
  BY LengthAssumption
<1>3. p + n < WORD => m = p + n
  BY LengthAssumption
<1>4. TruncateLength(p, n) = IF 2 * m < WORD THEN m ELSE m - WORD
  BY DEF TruncateLength
<1>5. QED
  <2> HIDE DEF m
  <2>1. QED
    BY <1>1, <1>2, <1>3, <1>4, LengthAssumption

-----------------------------------------------------------------------------
(* The steps of a flash.                                                   *)

(* The blocks up to offset n are in g what they are in f.                  *)
Keeps(f, g, n) == \A b \in 1..n : b <= Len(f) => b <= Len(g) /\ g[b] = f[b]

(* What is flashed is the piece p.                                         *)
Flashing(p) == p \in DOMAIN Pieces /\ data = Pieces[p] /\ FlashTypeOK /\ InPlace

LEMMA FlashingFacts ==
  ASSUME NEW p, Flashing(p)
  PROVE  /\ data \in Seq(Chunks) /\ Len(data) \in Nat /\ Len(data) >= 1
         /\ next \in Nat /\ next >= 1 /\ next <= Len(data) + 1 /\ pos \in Nat
         /\ file \in Seq(Entries) /\ Len(file) \in Nat /\ Len(file) <= MaxLength
         /\ next <= Len(data) =>
              /\ data[next] \in Chunks /\ EndOf(data[next]) <= ImageLength
              /\ data[next].at \in Nat /\ data[next].len \in Nat
              /\ EndOf(data[next]) \in Nat /\ EndOf(data[next]) = data[next].at + data[next].len
              /\ data[next].at < EndOf(data[next])
              /\ data[next].at <= pos /\ pos <= EndOf(data[next])
<1>1. p \in DOMAIN Pieces /\ data = Pieces[p]
  BY DEF Flashing
<1>2. /\ data \in Seq(Chunks) /\ Len(data) \in Nat /\ Len(data) >= 1
      /\ \A j \in 1..Len(data) : data[j] \in Chunks /\ EndOf(data[j]) <= ImageLength
  BY <1>1, ChunkFacts
<1>3. next \in 1..Len(data) + 1
  BY DEF Flashing, InPlace
<1>4. pos \in Nat /\ file \in Seq(Entries) /\ Len(file) \in Nat /\ Len(file) <= MaxLength
  BY LengthAssumption DEF Flashing, FlashTypeOK, Entries
<1>5. ASSUME next <= Len(data)
      PROVE  /\ data[next] \in Chunks /\ EndOf(data[next]) <= ImageLength
             /\ data[next].at \in Nat /\ data[next].len \in Nat
             /\ EndOf(data[next]) \in Nat /\ EndOf(data[next]) = data[next].at + data[next].len
             /\ data[next].at < EndOf(data[next])
             /\ data[next].at <= pos /\ pos <= EndOf(data[next])
  <2>1. PICK c \in Chunks : c = data[next] /\ EndOf(c) <= ImageLength
    BY <1>2, <1>3, <1>5
  <2>2. /\ c.at \in Nat /\ c.len \in Nat /\ EndOf(c) \in Nat
        /\ EndOf(c) = c.at + c.len /\ c.at < EndOf(c)
    BY ChunkType, LengthAssumption
  <2>3. c.at <= pos /\ pos <= EndOf(c)
    <3>1. CASE pos = Start(data, next)
      BY <1>5, <2>1, <2>2, <3>1 DEF Start
    <3>2. CASE pos \in c.at .. EndOf(c) - 1
      BY <2>2, <3>2
    <3>3. QED
      BY <2>1, <3>1, <3>2 DEF Flashing, InPlace
  <2>4. QED
    BY <2>1, <2>2, <2>3
<1>6. QED
  BY <1>2, <1>3, <1>4, <1>5

(* Where the chunk after the next one begins, or the list ends.            *)
LEMMA StartNext ==
  ASSUME NEW p, Flashing(p), next <= Len(data)
  PROVE  next + 1 \in 1..Len(data) + 1 /\ Start(data, next + 1) = EndOf(data[next])
<1>1. /\ next \in 1..Len(data) /\ Len(data) \in Nat /\ p \in DOMAIN Pieces /\ data = Pieces[p]
  BY FlashingFacts DEF Flashing
<1>2. CASE next < Len(data)
  <2>1. data[next + 1].at = EndOf(data[next])
    BY <1>1, <1>2, ChunkNext
  <2>2. QED
    BY <1>1, <1>2, <2>1 DEF Start
<1>3. CASE next = Len(data)
  BY <1>1, <1>3 DEF Start
<1>4. QED
  BY <1>1, <1>2, <1>3

(* Data of the piece is at its chunks: none within a chunk to skip, none   *)
(* behind the last one.                                                    *)
LEMMA DataAround ==
  ASSUME NEW p, Flashing(p), NEW b \in DataIn(data)
  PROVE  /\ b \in Nat
         /\ next <= Len(data) /\ data[next].kind = "skip" /\ b <= EndOf(data[next]) =>
              b <= data[next].at
         /\ next > Len(data) => b <= Start(data, next)
<1>1. /\ data \in Seq(Chunks) /\ Len(data) \in Nat /\ next \in Nat /\ next >= 1
      /\ next <= Len(data) + 1 /\ p \in DOMAIN Pieces /\ data = Pieces[p]
  BY FlashingFacts DEF Flashing
<1>2. PICK j \in 1..Len(data) : data[j].kind = "raw" /\ data[j].at < b /\ b <= EndOf(data[j])
  BY <1>1, DataFacts
<1>3. b \in Nat
  BY <1>1, DataFacts
<1>4. \A k \in 1..Len(data) : data[k].at \in Nat /\ EndOf(data[k]) \in Nat /\ data[k].at < EndOf(data[k])
  BY <1>1, ChunkType
<1>5. ASSUME next <= Len(data), data[next].kind = "skip", b <= EndOf(data[next])
      PROVE  b <= data[next].at
  <2>1. j # next /\ next \in 1..Len(data)
    BY <1>1, <1>2, <1>5
  <2>2. CASE j < next
    <3>1. EndOf(data[j]) <= data[next].at
      BY <1>1, <2>1, <2>2, ChunkOrder
    <3>2. QED
      BY <1>2, <1>3, <1>4, <2>1, <3>1
  <2>3. CASE next < j
    <3>1. EndOf(data[next]) <= data[j].at
      BY <1>1, <2>1, <2>3, ChunkOrder
    <3>2. QED
      BY <1>2, <1>3, <1>4, <1>5, <2>1, <3>1
  <2>4. QED
    BY <1>1, <2>1, <2>2, <2>3
<1>6. ASSUME next > Len(data)
      PROVE  b <= Start(data, next)
  <2>1. Start(data, next) = EndOf(data[Len(data)])
    BY <1>1, <1>6 DEF Start
  <2>2. CASE j = Len(data)
    BY <1>2, <2>1, <2>2
  <2>3. CASE j < Len(data)
    <3>1. Len(data) \in 1..Len(data)
      BY <1>1
    <3>2. EndOf(data[j]) <= data[Len(data)].at
      BY <1>1, <2>3, <3>1, ChunkOrder
    <3>3. QED
      BY <1>2, <1>3, <1>4, <2>1, <3>1, <3>2
  <2>4. QED
    BY <1>1, <2>2, <2>3
<1>7. QED
  BY <1>3, <1>5, <1>6

LEMMA SkipStep ==
  ASSUME NEW p, Flashing(p), SkipChunk
  PROVE  /\ Flashing(p)' /\ UNCHANGED <<kind, file, kept, data>> /\ step' = "chunk" /\ pos' >= pos
         /\ \A b \in DataIn(data) : b <= pos' => b <= pos
<1>1. /\ step = "chunk" /\ next <= Len(data) /\ data[next].kind = "skip"
      /\ pos' = pos + data[next].len /\ next' = next + 1
      /\ UNCHANGED <<kind, file, data, left, step, kept>>
  BY DEF SkipChunk
<1>2. /\ next \in Nat /\ data[next].at \in Nat /\ data[next].len \in Nat /\ EndOf(data[next]) \in Nat
      /\ EndOf(data[next]) <= ImageLength /\ EndOf(data[next]) = data[next].at + data[next].len
  BY <1>1, FlashingFacts
<1>3. pos = data[next].at
  BY <1>1 DEF Flashing, InPlace, Start
<1>4. pos' = EndOf(data[next])
  BY <1>1, <1>2, <1>3
<1>5. next' \in 1..Len(data) + 1 /\ pos' = Start(data, next')
  BY <1>1, <1>4, StartNext
<1>6. InPlace'
  BY <1>1, <1>5 DEF InPlace
<1>7. FlashTypeOK'
  BY <1>1, <1>2, <1>4, LengthAssumption DEF Flashing, FlashTypeOK
<1>8. \A b \in DataIn(data) : b <= pos' => b <= pos
  BY <1>1, <1>3, <1>4, DataAround
<1>9. QED
  BY <1>1, <1>2, <1>3, <1>4, <1>6, <1>7, <1>8 DEF Flashing

LEMMA FileTypes ==
  /\ FlashTypeOK <=>
       /\ kind \in {"file", "device"}
       /\ file \in Seq(Entries) /\ Len(file) <= MaxLength
       /\ pos \in 0..ImageLength /\ data \in Seq(Chunks) /\ next \in Nat
       /\ left \in Seq(1..ImageLength + 1)
       /\ step \in {"idle", "chunk", "write"} /\ kept \in BOOLEAN
  /\ \A f : Len(f) <= ImageLength => Len(f) <= MaxLength
  BY LengthAssumption DEF FlashTypeOK, Entries, MaxLength

LEMMA LeftType ==
  ASSUME NEW q \in Nat, NEW e \in Nat, q <= e, e <= ImageLength, NEW l,
         l = [k \in 1..e - q |-> q + k]
  PROVE  /\ l \in Seq(1..ImageLength + 1) /\ l \in Seq(Nat)
         /\ Len(l) = e - q /\ \A k \in 1..e - q : l[k] = q + k
<1>1. PICK m \in Nat : m = e - q
  OBVIOUS
<1>2. \A k \in 1..m : q + k \in 1..ImageLength + 1 /\ q + k \in Nat
  BY <1>1, LengthAssumption
<1>3. l = [k \in 1..m |-> q + k]
  BY <1>1
<1>4. QED
  BY <1>1, <1>2, <1>3

LEMMA RawStep ==
  ASSUME NEW p, Flashing(p), RawChunk
  PROVE  /\ Flashing(p)' /\ UNCHANGED <<kind, data, next, pos>> /\ step' = "write"
         /\ pos = data[next].at /\ (kept => kept')
         /\ ImageLength < WORD => Keeps(file, file', pos)
         /\ 2 * ImageLength < WORD /\ kind = "file" /\ ~kept' => Len(file') = EndOf(data[next])
<1>1. /\ step = "chunk" /\ next <= Len(data) /\ data[next].kind = "raw"
      /\ \/ file' = Ftruncated(file, TruncateLength(pos, data[next].len)) /\ UNCHANGED kept
         \/ UNCHANGED file /\ kept' = TRUE
      /\ left' = Blocks(data[next]) /\ step' = "write"
      /\ UNCHANGED <<kind, pos, data, next>>
  BY DEF RawChunk
<1>2. /\ next \in Nat /\ data[next].at \in Nat /\ data[next].len \in Nat /\ EndOf(data[next]) \in Nat
      /\ EndOf(data[next]) <= ImageLength /\ EndOf(data[next]) = data[next].at + data[next].len
      /\ data[next].at < EndOf(data[next]) /\ pos \in Nat
      /\ file \in Seq(Entries) /\ Len(file) \in Nat /\ Len(file) <= MaxLength
  BY <1>1, FlashingFacts
<1>3. pos = data[next].at
  BY <1>1 DEF Flashing, InPlace, Start
<1>4. PICK e \in Nat : e = EndOf(data[next])
  BY <1>2
<1>5. /\ e = pos + data[next].len /\ pos < e /\ e <= ImageLength
  BY <1>2, <1>3, <1>4
<1>6. left' = [k \in 1..e - pos |-> pos + k]
  <2>1. data[next].len = e - pos
    BY <1>2, <1>5
  <2>2. QED
    BY <1>1, <1>3, <2>1 DEF Blocks
<1>7. left' \in Seq(1..ImageLength + 1)
  <2>1. pos \in Nat /\ e \in Nat /\ pos <= e /\ e <= ImageLength
    BY <1>2, <1>4, <1>5
  <2>2. QED
    BY <1>6, <2>1, LeftType, Zenon
<1>8. InPlace'
  <2>1. next \in 1..Len(data) + 1 /\ pos \in data[next].at .. e - 1
    BY <1>2, <1>3, <1>5 DEF Flashing, InPlace
  <2>2. QED
    BY <1>1, <1>4, <1>6, <2>1 DEF InPlace
<1>9. PICK t : t = TruncateLength(pos, data[next].len)
  OBVIOUS
<1>10. /\ t \in Int /\ t <= e /\ (e < WORD => t = e \/ t < 0) /\ (2 * e < WORD => t = e)
  BY <1>2, <1>5, <1>9, TruncateLengthFacts
<1>11. CASE file' = file
  <2>1. FlashTypeOK'
    BY <1>1, <1>7, <1>11 DEF Flashing, FlashTypeOK
  <2>2. Keeps(file, file', pos)
    BY <1>11 DEF Keeps
  <2>3. ~(2 * ImageLength < WORD /\ kind = "file" /\ ~kept') \/ Len(file') = e
    <3>1. SUFFICES ASSUME 2 * ImageLength < WORD, kind = "file", ~kept'
                   PROVE  Len(file') = e
      OBVIOUS
    <3>2. file' = Ftruncated(file, t)
      BY <1>1, <1>9, <3>1
    <3>3. t = e
      BY <1>5, <1>10, <3>1, LengthAssumption
    <3>4. file' = Truncated(file, e)
      BY <1>4, <3>1, <3>2, <3>3 DEF Ftruncated
    <3>5. QED
      BY <1>2, <1>4, <3>4, TruncatedFacts
  <2>4. QED
    BY <1>1, <1>3, <1>4, <1>8, <2>1, <2>2, <2>3 DEF Flashing
<1>12. CASE file' = Truncated(file, t) /\ t \in Nat /\ UNCHANGED kept
  <2>1. /\ file' \in Seq(Entries) /\ Len(file') = t
        /\ \A b \in 1..t : b <= Len(file) => file'[b] = file[b]
    BY <1>2, <1>12, TruncatedFacts
  <2>2. Len(file') <= MaxLength
    BY <1>5, <1>10, <2>1, LengthAssumption DEF MaxLength
  <2>3. FlashTypeOK'
    BY <1>1, <1>7, <1>12, <2>1, <2>2, FileTypes DEF Flashing, FlashTypeOK, Entries
  <2>4. ImageLength < WORD => Keeps(file, file', pos)
    <3>1. SUFFICES ASSUME ImageLength < WORD PROVE Keeps(file, file', pos)
      OBVIOUS
    <3>2. t = e
      BY <1>5, <1>10, <1>12, <3>1, LengthAssumption
    <3>3. QED
      BY <1>2, <1>5, <2>1, <3>2 DEF Keeps
  <2>5. 2 * ImageLength < WORD => Len(file') = e
    BY <1>5, <1>10, <2>1, LengthAssumption
  <2>6. QED
    BY <1>1, <1>3, <1>4, <1>8, <1>12, <2>3, <2>4, <2>5 DEF Flashing
<1>13. file' = file \/ (file' = Truncated(file, t) /\ t \in Nat /\ UNCHANGED kept)
  BY <1>1, <1>9, <1>10 DEF Ftruncated
<1>14. QED
  BY <1>11, <1>12, <1>13

LEMMA WriteStep ==
  ASSUME NEW p, Flashing(p), WriteSome
  PROVE  /\ Flashing(p)' /\ UNCHANGED <<kind, kept, data>>
         /\ pos' \in Nat /\ pos < pos' /\ pos' <= EndOf(data[next])
         /\ Keeps(file, file', pos)
         /\ \A b \in pos + 1..pos' : b <= Len(file') /\ file'[b] = b
         /\ Len(file') = IF pos' > Len(file) THEN pos' ELSE Len(file)
         /\ data[next].kind = "raw" /\ data[next].at <= pos /\ next <= Len(data) /\ step = "write"
         /\ \/ step' = "write" /\ next' = next
            \/ step' = "chunk" /\ pos' = EndOf(data[next])
<1>1. step = "write"
  BY DEF WriteSome
<1>2. /\ next <= Len(data) /\ data[next].kind = "raw"
      /\ pos \in data[next].at .. EndOf(data[next]) - 1
      /\ left = [k \in 1..EndOf(data[next]) - pos |-> pos + k]
  BY <1>1 DEF Flashing, InPlace
<1>3. /\ next \in Nat /\ data[next].at \in Nat /\ EndOf(data[next]) \in Nat
      /\ EndOf(data[next]) <= ImageLength /\ pos \in Nat
      /\ file \in Seq(Entries) /\ Len(file) \in Nat /\ Len(file) <= MaxLength
  BY <1>2, FlashingFacts
<1>4. PICK e \in Nat : e = EndOf(data[next])
  BY <1>3
<1>5. /\ pos < e /\ e <= ImageLength /\ left = [k \in 1..e - pos |-> pos + k]
      /\ data[next].at <= pos
  BY <1>2, <1>3, <1>4
<1>6. left \in Seq(Nat) /\ Len(left) = e - pos /\ \A k \in 1..e - pos : left[k] = pos + k
  BY <1>3, <1>5, LeftType
<1>7. PICK n \in 1..Len(left) :
        /\ file' = Written(file, pos, SubSeq(left, 1, n))
        /\ pos' = pos + n
        /\ left' = SubSeq(left, n + 1, Len(left))
        /\ IF n = Len(left) THEN step' = "chunk" /\ next' = next + 1
                            ELSE UNCHANGED <<step, next>>
  BY DEF WriteSome
<1>8. UNCHANGED <<kind, data, kept>>
  BY DEF WriteSome
<1>9. n \in Nat /\ n >= 1 /\ n <= e - pos
  BY <1>6, <1>7
<1>10. PICK d : d = SubSeq(left, 1, n)
  OBVIOUS
<1>11. d \in Seq(Entries) /\ Len(d) = n /\ \A k \in 1..n : d[k] = pos + k
  <2>1. d = [k \in 1..n |-> left[k]]
    BY <1>6, <1>9, <1>10
  <2>2. \A k \in 1..n : left[k] = pos + k /\ pos + k \in Entries
    BY <1>3, <1>5, <1>6, <1>9, LengthAssumption DEF Entries
  <2>3. QED
    BY <1>9, <2>1, <2>2
<1>12. /\ file' \in Seq(Entries)
       /\ Len(file') = IF pos + n > Len(file) THEN pos + n ELSE Len(file)
       /\ \A b \in 1..pos : b <= Len(file) => file'[b] = file[b]
       /\ \A b \in pos + 1..pos + n : file'[b] = d[b - pos]
  <2>1. file' = Written(file, pos, d)
    BY <1>7, <1>10
  <2>2. /\ file' \in Seq(Entries)
        /\ Len(file') = IF pos + Len(d) > Len(file) THEN pos + Len(d) ELSE Len(file)
        /\ \A b \in 1..pos : b <= Len(file) => file'[b] = file[b]
        /\ \A b \in pos + 1..pos + Len(d) : file'[b] = d[b - pos]
    <3>1. file \in Seq(Entries) /\ pos \in Nat /\ d \in Seq(Entries)
      BY <1>3, <1>11
    <3>2. /\ Written(file, pos, d) \in Seq(Entries)
          /\ Len(Written(file, pos, d)) = IF pos + Len(d) > Len(file) THEN pos + Len(d) ELSE Len(file)
          /\ \A b \in 1..pos : b <= Len(file) => Written(file, pos, d)[b] = file[b]
          /\ \A b \in pos + 1..pos + Len(d) : Written(file, pos, d)[b] = d[b - pos]
      BY <3>1, WrittenFacts, Zenon
    <3>3. QED
      BY <2>1, <3>2
  <2>3. QED
    BY <1>11, <2>2
<1>13. Keeps(file, file', pos)
  BY <1>3, <1>9, <1>12 DEF Keeps
<1>14. \A b \in pos + 1..pos + n : b <= Len(file') /\ file'[b] = b
  BY <1>3, <1>9, <1>11, <1>12
<1>15. Len(file') <= MaxLength
  BY <1>3, <1>5, <1>9, <1>12, LengthAssumption DEF MaxLength
<1>16. left' \in Seq(1..ImageLength + 1) /\ left' = [k \in 1..e - pos' |-> pos' + k]
  <2>1. left' = [k \in 1..e - (pos + n) |-> (pos + n) + k]
    <3>1. left' = [k \in 1..Len(left) - n |-> left[n + k]]
      BY <1>6, <1>7, <1>9
    <3>2. \A k \in 1..Len(left) - n : left[n + k] = (pos + n) + k
      BY <1>3, <1>6, <1>9
    <3>3. Len(left) - n = e - (pos + n)
      BY <1>3, <1>6, <1>9
    <3>4. QED
      BY <3>1, <3>2, <3>3
  <2>2. pos + n \in Nat /\ pos + n <= e
    BY <1>3, <1>5, <1>9
  <2>3. left' \in Seq(1..ImageLength + 1)
    BY <1>5, <2>1, <2>2, LeftType
  <2>4. QED
    BY <1>7, <2>1, <2>3
<1>17. FlashTypeOK'
  <2>1. pos' \in 0..ImageLength
    BY <1>3, <1>4, <1>5, <1>7, <1>9, LengthAssumption
  <2>2. next' \in Nat /\ step' \in {"idle", "chunk", "write"}
    <3>1. CASE n = Len(left)
      BY <1>3, <1>7, <3>1
    <3>2. CASE n # Len(left)
      BY <1>1, <1>3, <1>7, <3>2
    <3>3. QED
      BY <3>1, <3>2
  <2>3. QED
    BY <1>8, <1>12, <1>15, <1>16, <2>1, <2>2 DEF Flashing, FlashTypeOK, Entries
<1>18. /\ pos' \in Nat /\ pos < pos' /\ pos' <= EndOf(data[next])
       /\ \A b \in pos + 1..pos' : b <= Len(file') /\ file'[b] = b
       /\ Len(file') = IF pos' > Len(file) THEN pos' ELSE Len(file)
  <2>1. pos' = pos + n
    BY <1>7
  <2>2. pos' \in Nat /\ pos < pos' /\ pos' <= e
    BY <1>3, <1>9, <2>1
  <2>3. Len(file') = IF pos' > Len(file) THEN pos' ELSE Len(file)
    BY <1>12, <2>1
  <2>4. \A b \in pos + 1..pos' : b <= Len(file') /\ file'[b] = b
    BY <1>14, <2>1
  <2>5. QED
    BY <1>4, <2>2, <2>3, <2>4
<1>19. /\ InPlace'
       /\ \/ step' = "write" /\ next' = next
          \/ step' = "chunk" /\ pos' = EndOf(data[next])
  <2>1. CASE n = Len(left)
    <3>1. step' = "chunk" /\ next' = next + 1 /\ pos' = e
      BY <1>3, <1>6, <1>7, <1>9, <2>1
    <3>2. InPlace'
      BY <1>2, <1>4, <1>8, <3>1, StartNext DEF InPlace
    <3>3. QED
      BY <1>4, <3>1, <3>2
  <2>2. CASE n # Len(left)
    <3>1. step' = "write" /\ next' = next
      BY <1>1, <1>7, <2>2
    <3>2. n # e - pos
      BY <1>6, <2>2
    <3>3. pos' < e /\ data[next].at <= pos'
      BY <1>3, <1>5, <1>7, <1>9, <3>2
    <3>4. next' <= Len(data') /\ data'[next'].kind = "raw" /\ next' \in 1..Len(data') + 1
      <4>1. next \in 1..Len(data) + 1
        BY DEF Flashing, InPlace
      <4>2. QED
        BY <1>2, <1>8, <3>1, <4>1
    <3>5. pos' \in data'[next'].at .. EndOf(data'[next']) - 1
      BY <1>3, <1>4, <1>8, <1>18, <3>1, <3>3
    <3>6. InPlace'
      BY <1>4, <1>8, <1>16, <3>1, <3>4, <3>5 DEF InPlace
    <3>7. QED
      BY <3>1, <3>6
  <2>3. QED
    BY <2>1, <2>2
<1>20. Flashing(p)'
  BY <1>8, <1>17, <1>19 DEF Flashing
<1>21. QED
  BY <1>1, <1>2, <1>5, <1>8, <1>13, <1>18, <1>19, <1>20

-----------------------------------------------------------------------------
(* Responses.                                                              *)

LEMMA ShortResponses ==
  /\ \A r \in Statuses \ {"INFO"} : IsResponse(<<r>>)
  /\ IsResponse(<<"INFO", "FAIL">>)
  /\ \A k : IsResponse(FlashReplies(k))
<1>1. \A r \in Statuses \ {"INFO"} : IsResponse(<<r>>)
  BY DEF IsResponse, Statuses
<1>2. IsResponse(<<"INFO", "FAIL">>) /\ IsResponse(<<"INFO", "OKAY">>)
  BY DEF IsResponse, Statuses
<1>3. \A k : IsResponse(FlashReplies(k))
  <2>1. IsResponse(<<"OKAY">>)
    BY <1>1 DEF Statuses
  <2>2. QED
    BY <1>2, <2>1 DEF FlashReplies
<1>4. QED
  BY <1>1, <1>2, <1>3

LEMMA LongResponses ==
  ASSUME NEW n \in Nat
  PROVE  IsResponse([k \in 1..n |-> "INFO"] \o <<"OKAY">>)
<1>1. PICK s : s = [k \in 1..n |-> "INFO"]
  OBVIOUS
<1>2. s \in Seq(Statuses) /\ Len(s) = n
  BY <1>1 DEF Statuses
<1>3. s \o <<"OKAY">> \in Seq(Statuses) /\ Len(s \o <<"OKAY">>) = n + 1
      /\ (s \o <<"OKAY">>)[n + 1] = "OKAY"
  BY <1>2 DEF Statuses
<1>4. s \o <<"OKAY">> # <<>>
  BY <1>3
<1>5. QED
  BY <1>1, <1>3, <1>4 DEF IsResponse

LEMMA RestOfResponse ==
  ASSUME NEW r, IsResponse(r)
  PROVE  /\ Tail(r) \in Seq(Statuses)
         /\ Tail(r) # <<>> => IsResponse(Tail(r))
         /\ Head(r) = "INFO" => Tail(r) # <<>>
<1>1. r \in Seq(Statuses) /\ r # <<>> /\ Len(r) \in Nat /\ Len(r) >= 1 /\ r[Len(r)] # "INFO"
  BY DEF IsResponse
<1>2. /\ Tail(r) \in Seq(Statuses) /\ Len(Tail(r)) = Len(r) - 1
      /\ \A k \in 1..Len(r) - 1 : Tail(r)[k] = r[k + 1]
  BY <1>1
<1>3. ASSUME Tail(r) # <<>> PROVE IsResponse(Tail(r))
  <2>1. Len(r) - 1 \in 1..Len(r) - 1
    BY <1>1, <1>2, <1>3
  <2>2. Tail(r)[Len(r) - 1] = r[Len(r)]
    BY <1>1, <1>2, <2>1
  <2>3. QED
    BY <1>1, <1>2, <1>3, <2>2 DEF IsResponse
<1>4. ASSUME Head(r) = "INFO" PROVE Tail(r) # <<>>
  <2>1. Len(r) # 1
    BY <1>1, <1>4
  <2>2. Len(Tail(r)) # 0
    BY <1>1, <1>2, <2>1
  <2>3. QED
    BY <1>2, <2>2, EmptySeq
<1>5. QED
  BY <1>2, <1>3, <1>4

LEMMA ReplyInit == Init => ReplyTypeOK
  BY OpeningOrder DEF Init, ReplyTypeOK

(* A step either gives a whole response, or goes on with it, or has none.  *)
LEMMA ReplyStep == ReplyTypeOK /\ [Next]_vars => ReplyTypeOK'
<1> SUFFICES ASSUME ReplyTypeOK, [Next]_vars PROVE ReplyTypeOK'
  OBVIOUS
<1>1. ASSUME NEW r, Respond(r), IsResponse(r) PROVE ReplyTypeOK'
  BY <1>1 DEF Respond, ReplyTypeOK, IsResponse
<1>2. CASE GetVarHandler \/ OemCmdHandler \/ DownloadHandler \/ ReceiveCommand
  <2>1. CASE GetVarHandler
    BY <2>1, <1>1, ShortResponses DEF GetVarHandler, Statuses
  <2>2. CASE OemCmdHandler
    BY <2>2, <1>1, LongResponses, PiecesAssumption DEF OemCmdHandler
  <2>3. CASE DownloadHandler
    BY <2>3, <1>1, ShortResponses DEF DownloadHandler, Statuses
  <2>4. CASE ReceiveCommand
    BY <2>4, <1>1, ShortResponses DEF ReceiveCommand, Statuses
  <2>5. QED
    BY <1>2, <2>1, <2>2, <2>3, <2>4
<1>3. CASE RebootHandler
  <2>1. replies' = <<"OKAY">> /\ IsResponse(<<"OKAY">>)
    BY <1>3, ShortResponses DEF RebootHandler, Statuses
  <2>2. QED
    BY <2>1 DEF ReplyTypeOK, IsResponse
<1>4. CASE ReceiveData
  <2>1. CASE Respond(<<"OKAY">>)
    BY <2>1, <1>1, ShortResponses DEF Statuses
  <2>2. CASE UNCHANGED <<dpc, replies>>
    BY <2>2 DEF ReplyTypeOK
  <2>3. QED
    BY <1>4, <2>1, <2>2 DEF ReceiveData
<1>5. CASE FlashHandler
  <2>1. CASE FlashRefused
    <3>1. PICK r \in {<<"FAIL">>, <<"INFO", "FAIL">>} : Respond(r)
      BY <2>1 DEF FlashRefused
    <3>2. IsResponse(r)
      BY ShortResponses DEF Statuses
    <3>3. QED
      BY <1>1, <3>1, <3>2
  <2>2. CASE FlashFailed
    BY <2>2, <1>1, ShortResponses DEF FlashFailed, Statuses
  <2>3. CASE FlashAccepted
    BY <2>3 DEF FlashAccepted, ReplyTypeOK
  <2>4. QED
    BY <1>5, <2>1, <2>2, <2>3 DEF FlashHandler
<1>6. CASE FlashReturns
  BY <1>6, <1>1, ShortResponses DEF FlashReturns, Statuses
<1>7. CASE WriteStatus
  <2>1. dpc \in {"reply", "farewell"} /\ replies' = Tail(replies)
    BY <1>7 DEF WriteStatus
  <2>2. IsResponse(replies)
    BY <2>1 DEF ReplyTypeOK
  <2>3. Tail(replies) = <<>> => dpc' \in {"reboot", "receive", "read"}
    BY <1>7 DEF WriteStatus
  <2>4. QED
    BY <2>1, <2>2, <2>3, RestOfResponse DEF ReplyTypeOK
<1>8. CASE TransferFails
  <2>1. CASE replies' = <<>> /\ dpc' = Head(InitFunctionFs)
    BY <2>1, OpeningOrder DEF ReplyTypeOK
  <2>2. CASE Respond(<<"FAIL">>)
    BY <2>2, <1>1, ShortResponses DEF Statuses
  <2>3. CASE /\ replies' = Tail(replies)
             /\ \/ dpc = "reply" /\ Head(replies) = "INFO" /\ UNCHANGED dpc
                \/ dpc = "farewell" /\ dpc' = "reboot"
    <3>1. IsResponse(replies)
      BY <2>3 DEF ReplyTypeOK
    <3>2. QED
      BY <2>3, <3>1, RestOfResponse DEF ReplyTypeOK
  <2>4. QED
    BY <1>8, <2>1, <2>2, <2>3 DEF TransferFails, ReadFails, WriteFails, CloseDevice
<1>9. CASE OpenControl \/ OpenEndpoints \/ CreateMarker \/ OpenFails \/ RebootInto \/ Kill
  <2>1. replies' = replies /\ dpc' \notin {"reply", "farewell"}
    BY <1>9, OpeningOrder DEF OpenControl, OpenEndpoints, CreateMarker, OpenStep, OpenFails,
                              RebootInto, Kill
  <2>2. QED
    BY <2>1 DEF ReplyTypeOK
<1>10. CASE \/ FlashContinues \/ SetUp \/ Plug \/ StartClient \/ StartReboot
            \/ AbortClient \/ Unplug \/ Mount \/ Terminated \/ UNCHANGED vars
  <2>1. UNCHANGED <<dpc, replies>>
    BY <1>10 DEF FlashContinues, SetUp, Plug, StartClient, StartReboot, AbortClient, Unplug,
                 Mount, Terminated, vars, deviceVars
  <2>2. QED
    BY <2>1 DEF ReplyTypeOK
<1>11. QED
  BY <1>2, <1>3, <1>4, <1>5, <1>6, <1>7, <1>8, <1>9, <1>10 DEF Next, Exchange

-----------------------------------------------------------------------------
(* The place of a flash, and the types of the file.                        *)

Accepts == FlashHandler /\ FlashAccepted

placeVars == <<kind, file, pos, data, next, left, step>>

(* All other steps leave the file alone, and those that may be taken during *)
(* a flash are those of a client that starts, or is gone.                  *)
LEMMA Elsewhere ==
  ASSUME [Next]_vars, ~FlashContinues, ~FlashReturns, ~Accepts
  PROVE  /\ UNCHANGED placeVars
         /\ kept' = kept \/ (kept' = FALSE /\ cpc' = "var" /\ piece' = 1)
         /\ dpc' = "flash" =>
              /\ dpc = "flash"
              /\ \/ cpc' = cpc /\ piece' = piece
                 \/ cpc' \in {"start", "var"} /\ piece' = 1
                 \/ cpc = "done" /\ cpc' = "reboot"
<1>1. CASE GetVarHandler \/ OemCmdHandler \/ RebootHandler \/ DownloadHandler
  BY <1>1 DEF GetVarHandler, OemCmdHandler, RebootHandler, DownloadHandler, Respond,
              flashVars, placeVars
<1>2. CASE ReceiveData \/ ReceiveCommand
  BY <1>2 DEF ReceiveData, ReceiveCommand, Respond, flashVars, placeVars
<1>3. CASE FlashHandler
  BY <1>3 DEF FlashHandler, FlashRefused, FlashFailed, Accepts, Respond, flashVars, placeVars
<1>4. CASE WriteStatus
  BY <1>4 DEF WriteStatus, flashVars, placeVars
<1>5. CASE TransferFails
  BY <1>5, OpeningOrder
     DEF TransferFails, ReadFails, WriteFails, CloseDevice, Respond, flashVars, placeVars
<1>6. CASE OpenControl \/ OpenEndpoints \/ CreateMarker \/ OpenFails
  BY <1>6, OpeningOrder
     DEF OpenControl, OpenEndpoints, CreateMarker, OpenStep, OpenFails, flashVars, placeVars
<1>7. CASE RebootInto \/ Kill
  BY <1>7 DEF RebootInto, Kill, flashVars, placeVars
<1>8. CASE StartClient
  BY <1>8 DEF StartClient, deviceVars, placeVars
<1>9. CASE StartReboot
  BY <1>9 DEF StartReboot, deviceVars, flashVars, placeVars
<1>10. CASE AbortClient \/ Unplug
  BY <1>10 DEF AbortClient, Unplug, ClientLost, deviceVars, flashVars, placeVars
<1>11. CASE SetUp \/ Plug \/ Mount \/ Terminated \/ UNCHANGED vars
  BY <1>11 DEF SetUp, Plug, Mount, Terminated, vars, deviceVars, clientVars, flashVars, placeVars
<1>12. QED
  BY <1>1, <1>2, <1>3, <1>4, <1>5, <1>6, <1>7, <1>8, <1>9, <1>10, <1>11 DEF Next, Exchange

LEMMA FileKept ==
  ASSUME FlashTypeOK, UNCHANGED placeVars, kept' \in BOOLEAN
  PROVE  FlashTypeOK'
  BY DEF FlashTypeOK, placeVars

LEMMA FlashStarts ==
  ASSUME SentInv, FlashTypeOK, Accepts
  PROVE  /\ Flashing(piece)' /\ pos' = 0 /\ step' = "chunk"
         /\ dpc' = "flash" /\ cpc' = "flashWait" /\ cpc = "flash"
         /\ UNCHANGED <<kind, file, kept, piece>>
<1>1. /\ dpc = "read" /\ cpc = "flash" /\ cpc' = "flashWait" /\ dpc' = "flash"
      /\ data' = buffer /\ next' = 1 /\ pos' = 0 /\ step' = "chunk"
      /\ UNCHANGED <<kind, file, left, kept, piece>>
  BY DEF Accepts, FlashHandler, FlashAccepted, FlashBegin, Command
<1>2. data' = Pieces[piece] /\ piece \in DOMAIN Pieces
  BY <1>1 DEF SentInv, ServedInv, SentTypeOK
<1>3. /\ data' \in Seq(Chunks) /\ Len(data') \in Nat /\ Len(data') >= 1
      /\ data'[1].at = 0
  BY <1>2, ChunkFacts
<1>4. InPlace'
  <2>1. 1 \in 1..Len(data') + 1 /\ pos' = Start(data', 1)
    BY <1>1, <1>3 DEF Start
  <2>2. QED
    BY <1>1, <2>1 DEF InPlace
<1>5. FlashTypeOK'
  BY <1>1, <1>3, LengthAssumption DEF FlashTypeOK
<1>6. QED
  BY <1>1, <1>2, <1>4, <1>5 DEF Flashing

(* Every step of a flash in progress.                                      *)
LEMMA FlashGoesOn ==
  ASSUME FileTypeOK, FlashContinues
  PROVE  /\ \E p \in DOMAIN Pieces : Flashing(p) /\ Flashing(p)'
         /\ dpc = "flash" /\ UNCHANGED <<dpc, replies, kind, data, cpc, piece>>
<1>1. dpc = "flash" /\ UNCHANGED <<dpc, replies, cpc, piece>> /\ FlashStep
  BY DEF FlashContinues, deviceVars, clientVars
<1>2. PICK p \in DOMAIN Pieces : Flashing(p)
  BY <1>1 DEF FileTypeOK, FlashingInv, Flashing
<1>3. Flashing(p)' /\ UNCHANGED <<kind, data>>
  BY <1>1, <1>2, SkipStep, RawStep, WriteStep DEF FlashStep
<1>4. QED
  BY <1>1, <1>2, <1>3

LEMMA FlashStops ==
  ASSUME FlashTypeOK, FlashReturns
  PROVE  /\ FlashTypeOK' /\ UNCHANGED <<kind, file, kept, cpc, piece>>
         /\ dpc = "flash" /\ dpc' = "reply"
         /\ replies' = <<"FAIL">> \/ (FlashDone /\ replies' = FlashReplies(kind))
<1>1. /\ dpc = "flash" /\ dpc' = "reply" /\ UNCHANGED <<kind, file, kept, cpc, piece>>
      /\ replies' = <<"FAIL">> \/ (FlashDone /\ replies' = FlashReplies(kind))
      /\ step' = "idle" /\ data' = <<>> /\ next' = 1 /\ pos' = 0 /\ left' = <<>>
  BY DEF FlashReturns, Respond, FlashEnd, clientVars
<1>2. data' \in Seq(Chunks) /\ left' \in Seq(1..ImageLength + 1)
  BY <1>1
<1>3. FlashTypeOK'
  BY <1>1, <1>2, LengthAssumption DEF FlashTypeOK
<1>4. QED
  BY <1>1, <1>3

LEMMA FileInit == Init => FileTypeOK
<1> SUFFICES ASSUME Init PROVE FileTypeOK
  OBVIOUS
<1>1. /\ kind \in {"file", "device"} /\ file = [b \in 1..OldLength |-> Old]
      /\ pos = 0 /\ data = <<>> /\ next = 1 /\ left = <<>> /\ step = "idle" /\ kept = FALSE
      /\ dpc = "control"
  BY OpeningOrder DEF Init, FlashInit
<1>2. file \in Seq(Entries) /\ Len(file) = OldLength
  <2>1. Old \in Entries
    BY LengthAssumption DEF Old, Entries
  <2>2. QED
    BY <1>1, <2>1, LengthAssumption
<1>3. OldLength <= MaxLength
  BY LengthAssumption DEF MaxLength
<1>4. FlashTypeOK
  <2>1. data \in Seq(Chunks) /\ left \in Seq(1..ImageLength + 1)
    BY <1>1
  <2>2. Len(file) <= MaxLength
    BY <1>2, <1>3
  <2>3. kept \in BOOLEAN
    BY <1>1, Zenon
  <2>4. /\ kind \in {"file", "device"} /\ file \in Seq(Entries) /\ pos \in 0..ImageLength
        /\ next \in Nat /\ step \in {"idle", "chunk", "write"}
    BY <1>1, <1>2, LengthAssumption
  <2>5. QED
    BY <2>1, <2>2, <2>3, <2>4 DEF FlashTypeOK, Entries
<1>5. QED
  BY <1>1, <1>4 DEF FileTypeOK, FlashingInv

LEMMA FileStep == SentInv /\ FileTypeOK /\ [Next]_vars => FileTypeOK'
<1> SUFFICES ASSUME SentInv, FileTypeOK, [Next]_vars PROVE FileTypeOK'
  OBVIOUS
<1>1. CASE Accepts
  BY <1>1, FlashStarts DEF FileTypeOK, FlashingInv, Flashing
<1>2. CASE FlashContinues
  BY <1>2, FlashGoesOn DEF FileTypeOK, FlashingInv, Flashing
<1>3. CASE FlashReturns
  BY <1>3, FlashStops DEF FileTypeOK, FlashingInv
<1>4. CASE ~FlashContinues /\ ~FlashReturns /\ ~Accepts
  <2>1. /\ UNCHANGED placeVars
        /\ kept' = kept \/ (kept' = FALSE /\ cpc' = "var" /\ piece' = 1)
        /\ dpc' = "flash" =>
              /\ dpc = "flash"
              /\ \/ cpc' = cpc /\ piece' = piece
                 \/ cpc' \in {"start", "var"} /\ piece' = 1
                 \/ cpc = "done" /\ cpc' = "reboot"
    BY <1>4, Elsewhere
  <2>2. kept' \in BOOLEAN
    <3>1. kept \in BOOLEAN
      BY DEF FileTypeOK, FlashTypeOK
    <3>2. QED
      BY <2>1, <3>1
  <2>3. FlashTypeOK'
    BY <2>1, <2>2, FileKept DEF FileTypeOK
  <2>4. dpc' = "flash" => InPlace' /\ \E p \in DOMAIN Pieces : data' = Pieces[p]
    BY <2>1 DEF FileTypeOK, FlashingInv, InPlace, placeVars
  <2>5. QED
    BY <2>1, <2>3, <2>4 DEF FileTypeOK, FlashingInv
<1>5. QED
  BY <1>1, <1>2, <1>3, <1>4

-----------------------------------------------------------------------------
(* Types.                                                                  *)

GadgetInv == GadgetTypeOK /\ (setup = "wait" => waited < FfsWaitLimit)

Places ==
  {"control", "endpoints", "marker", "read", "receive", "flash", "reply", "farewell",
   "reboot", "dead"}

CountersOK ==
  /\ dpc \in Places /\ cpc \in {"start", "done", "failed"} \cup Sending \cup Waiting
  /\ runs \in 0..MaxRuns /\ faulted \in BOOLEAN /\ mounted \in BOOLEAN

LEMMA GadgetInitially == Init => GadgetInv
<1> SUFFICES ASSUME Init PROVE GadgetInv
  OBVIOUS
<1>1. /\ gaveUp \in BOOLEAN /\ ready \in BOOLEAN /\ active \in BOOLEAN
      /\ offered \in BOOLEAN /\ bound \in BOOLEAN /\ torn \in BOOLEAN
  BY Zenon DEF Init, GadgetInit
<1>2. setup = "wait" /\ link = "down" /\ waited \in 0..FfsWaitLimit /\ waited < FfsWaitLimit
  BY WaitAssumption DEF Init, GadgetInit
<1>3. QED
  BY <1>1, <1>2 DEF GadgetInv, GadgetTypeOK

LEMMA GadgetStep == GadgetInv /\ [Next]_vars => GadgetInv'
<1> SUFFICES ASSUME GadgetInv, [Next]_vars PROVE GadgetInv'
  OBVIOUS
<1>1. CASE UNCHANGED gadgetVars
  BY <1>1 DEF GadgetInv, GadgetTypeOK, gadgetVars, scriptVars
<1>2. CASE OpenControl \/ OpenEndpoints \/ CreateMarker
  <2>1. /\ UNCHANGED <<scriptVars, bound, link, torn>>
        /\ active' = TRUE \/ active' = active
        /\ ready' = TRUE \/ ready' = ready
    BY <1>2 DEF OpenControl, OpenEndpoints, CreateMarker, OpenStep, scriptVars
  <2>2. active' \in BOOLEAN /\ ready' \in BOOLEAN
    <3>1. active \in BOOLEAN /\ ready \in BOOLEAN
      BY DEF GadgetInv, GadgetTypeOK
    <3>2. QED
      BY <2>1, <3>1
  <2>3. QED
    BY <2>1, <2>2 DEF GadgetInv, GadgetTypeOK, scriptVars
<1>3. ASSUME FfsClosed, UNCHANGED <<scriptVars, ready>> PROVE GadgetInv'
  <2>1. bound' \in BOOLEAN
    BY <1>3, Zenon DEF FfsClosed, GadgetInv, GadgetTypeOK
  <2>2. QED
    BY <1>3, <2>1 DEF FfsClosed, GadgetInv, GadgetTypeOK, scriptVars
<1>4. CASE OpenFails
  BY <1>4, <1>3 DEF OpenFails
<1>5. CASE TransferFails
  <2>1. UNCHANGED <<scriptVars, ready>>
    BY <1>5 DEF TransferFails
  <2>2. FfsClosed \/ (torn' = FALSE /\ UNCHANGED <<active, bound, link>>)
    BY <1>5 DEF TransferFails, ReadFails, WriteFails, CloseDevice
  <2>3. QED
    BY <1>3, <2>1, <2>2 DEF GadgetInv, GadgetTypeOK, scriptVars
<1>6. CASE SetUp
  <2>1. CASE FfsWait
    <3>1. waited + 1 >= FfsWaitLimit \/ waited + 1 < FfsWaitLimit
      BY WaitAssumption DEF GadgetInv, GadgetTypeOK
    <3>2. waited' = waited + 1 /\ waited' \in 0..FfsWaitLimit
      BY <2>1, WaitAssumption DEF FfsWait, GadgetInv, GadgetTypeOK
    <3>3. /\ setup' = IF waited' >= FfsWaitLimit THEN "add" ELSE "wait"
          /\ UNCHANGED <<offered, ready, active, bound, link, torn>>
      BY <2>1 DEF FfsWait
    <3>4. gaveUp' \in BOOLEAN
      BY <2>1 DEF FfsWait
    <3>5. QED
      BY <3>1, <3>2, <3>3, <3>4, WaitAssumption DEF GadgetInv, GadgetTypeOK
  <2>2. CASE FfsReady
    BY <2>2, WaitAssumption DEF FfsReady, GadgetInv, GadgetTypeOK
  <2>3. CASE AddGadget
    BY <2>3 DEF AddGadget, GadgetInv, GadgetTypeOK
  <2>4. CASE WriteUdc
    BY <2>4 DEF WriteUdc, GadgetInv, GadgetTypeOK
  <2>5. QED
    BY <1>6, <2>1, <2>2, <2>3, <2>4 DEF SetUp, Script
<1>7. CASE Plug
  BY <1>7 DEF Plug, Enumerate, GadgetInv, GadgetTypeOK, scriptVars
<1>8. CASE Unplug
  <2>1. /\ link' = "down" /\ torn' \in BOOLEAN
        /\ UNCHANGED <<scriptVars, ready, active, bound>>
    BY <1>8 DEF Unplug, Disconnect
  <2>2. QED
    BY <2>1 DEF GadgetInv, GadgetTypeOK, scriptVars
<1>9. CASE Kill
  BY <1>9 DEF Kill, RemoveGadget, GadgetInv, GadgetTypeOK
<1>10. CASE \/ GetVarHandler \/ OemCmdHandler \/ RebootHandler \/ RebootInto
            \/ DownloadHandler \/ ReceiveData \/ ReceiveCommand
            \/ FlashHandler \/ FlashContinues \/ FlashReturns \/ WriteStatus
            \/ StartClient \/ StartReboot \/ AbortClient \/ Mount \/ Terminated \/ UNCHANGED vars
  <2>1. UNCHANGED gadgetVars
    BY <1>10 DEF GetVarHandler, OemCmdHandler, RebootHandler, RebootInto, DownloadHandler,
       Command, ReceiveData, ReceiveCommand, FlashHandler, FlashContinues, FlashReturns,
       WriteStatus, StartClient, StartReboot, AbortClient, Mount, Terminated, vars
  <2>2. QED
    BY <1>1, <2>1
<1>11. QED
  BY <1>2, <1>4, <1>5, <1>6, <1>7, <1>8, <1>9, <1>10 DEF Next, Exchange

LEMMA CountersInit == Init => CountersOK
<1> SUFFICES ASSUME Init PROVE CountersOK
  OBVIOUS
<1>1. faulted \in BOOLEAN /\ mounted \in BOOLEAN
  BY Zenon DEF Init
<1>2. dpc = "control" /\ cpc = "start" /\ runs \in 0..MaxRuns
  BY OpeningOrder, PiecesAssumption DEF Init
<1>3. QED
  BY <1>1, <1>2 DEF CountersOK, Places

LEMMA CountersStep == CountersOK /\ [Next]_vars => CountersOK'
<1> SUFFICES ASSUME CountersOK, [Next]_vars PROVE CountersOK'
  OBVIOUS
<1>1. dpc' \in Places
  <2>1. CASE OpenControl \/ OpenEndpoints \/ CreateMarker \/ OpenFails
    BY <2>1, OpeningOrder DEF OpenControl, OpenEndpoints, CreateMarker, OpenStep, OpenFails, Places
  <2>2. CASE TransferFails
    BY <2>2, OpeningOrder
       DEF TransferFails, ReadFails, WriteFails, CloseDevice, Respond, CountersOK, Places
  <2>3. CASE \/ GetVarHandler \/ OemCmdHandler \/ RebootHandler \/ RebootInto
             \/ DownloadHandler \/ FlashHandler
    BY <2>3 DEF GetVarHandler, OemCmdHandler, RebootHandler, RebootInto, DownloadHandler,
       FlashHandler, FlashRefused, FlashFailed, FlashAccepted, Respond, CountersOK, Places
  <2>4. CASE ReceiveData \/ ReceiveCommand \/ FlashReturns \/ WriteStatus \/ Kill
    BY <2>4 DEF ReceiveData, ReceiveCommand, FlashReturns, WriteStatus, Kill, Respond,
       CountersOK, Places
  <2>5. CASE \/ FlashContinues \/ SetUp \/ Plug \/ StartClient \/ StartReboot
             \/ AbortClient \/ Unplug \/ Mount \/ Terminated \/ UNCHANGED vars
    BY <2>5 DEF FlashContinues, SetUp, Plug, StartClient, StartReboot, AbortClient, Unplug,
       Mount, Terminated, vars, deviceVars, CountersOK
  <2>6. QED
    BY <2>1, <2>2, <2>3, <2>4, <2>5 DEF Next, Exchange
<1>2. cpc' \in {"start", "done", "failed"} \cup Sending \cup Waiting
  <2>1. CASE WriteStatus
    BY <2>1 DEF WriteStatus, ClientReads, CountersOK, Sending, Waiting
  <2>2. CASE \/ GetVarHandler \/ OemCmdHandler \/ RebootHandler \/ DownloadHandler
             \/ FlashHandler \/ ReceiveData \/ ReceiveCommand
    BY <2>2 DEF GetVarHandler, OemCmdHandler, RebootHandler, DownloadHandler, FlashHandler,
       Command, ReceiveData, ReceiveCommand, CountersOK, Sending, Waiting
  <2>3. CASE StartClient \/ StartReboot \/ AbortClient \/ Unplug \/ OpenFails
    BY <2>3 DEF StartClient, StartReboot, AbortClient, Unplug, OpenFails, ClientLost,
       CountersOK, Sending, Waiting
  <2>4. CASE \/ OpenControl \/ OpenEndpoints \/ CreateMarker \/ RebootInto \/ FlashContinues
             \/ FlashReturns \/ TransferFails \/ SetUp \/ Plug \/ Mount \/ Kill \/ Terminated
             \/ UNCHANGED vars
    BY <2>4 DEF OpenControl, OpenEndpoints, CreateMarker, OpenStep, RebootInto, FlashContinues,
       FlashReturns, TransferFails, SetUp, Plug, Mount, Kill, Terminated, vars, clientVars, CountersOK
  <2>5. QED
    BY <2>1, <2>2, <2>3, <2>4 DEF Next, Exchange
<1>3. runs' \in 0..MaxRuns
  <2>1. CASE StartClient
    BY <2>1, PiecesAssumption DEF StartClient, CountersOK
  <2>2. CASE ~StartClient
    <3>1. UNCHANGED runs
      BY <2>2 DEF Next, Exchange, OpenControl, OpenEndpoints, CreateMarker, OpenStep, OpenFails,
         GetVarHandler, OemCmdHandler, RebootHandler, RebootInto, DownloadHandler, Command,
         ReceiveData, ReceiveCommand, FlashHandler, FlashContinues, FlashReturns, WriteStatus,
         TransferFails, SetUp, Plug, StartReboot, AbortClient, Unplug, Mount, Kill, Terminated,
         vars, clientVars
    <3>2. QED
      BY <3>1 DEF CountersOK
  <2>3. QED
    BY <2>1, <2>2
<1>4. faulted' \in BOOLEAN
  <2>1. faulted' = faulted \/ faulted' = TRUE
    BY DEF Next, Exchange, OpenControl, OpenEndpoints, CreateMarker, OpenStep, OpenFails, ClientLost,
       GetVarHandler, OemCmdHandler, RebootHandler, RebootInto, DownloadHandler, Command,
       ReceiveData, ReceiveCommand, FlashHandler, FlashContinues, FlashReturns, WriteStatus,
       TransferFails, SetUp, Plug, StartClient, StartReboot, AbortClient, Unplug, Mount, Kill,
       Terminated, vars, clientVars
  <2>2. QED
    BY <2>1 DEF CountersOK
<1>5. mounted' \in BOOLEAN
  <2>1. mounted' = mounted \/ mounted' = TRUE
    BY DEF Next, Exchange, OpenControl, OpenEndpoints, CreateMarker, OpenStep, OpenFails,
       GetVarHandler, OemCmdHandler, RebootHandler, RebootInto, DownloadHandler, Command,
       ReceiveData, ReceiveCommand, FlashHandler, FlashContinues, FlashReturns, WriteStatus,
       TransferFails, SetUp, Plug, StartClient, StartReboot, AbortClient, Unplug, Mount, Kill,
       Terminated, vars
  <2>2. QED
    BY <2>1 DEF CountersOK
<1>6. QED
  BY <1>1, <1>2, <1>3, <1>4, <1>5 DEF CountersOK

(* Whatever clients, the cable, the script and failures do, every variable *)
(* of the daemon, the file and the gadget keeps to its type; a file never  *)
(* outgrows the image that is flashed to it and what it was before.        *)
THEOREM FastbootTypesCorrect == Spec => []TypeOK
<1>1. SentInv /\ FileTypeOK /\ ReplyTypeOK /\ GadgetInv /\ CountersOK => TypeOK
  BY DEF SentInv, SentTypeOK, FileTypeOK, ReplyTypeOK, GadgetInv, CountersOK, TypeOK,
         DeviceTypeOK, Statuses, Places
<1>2. QED
  BY SentInit, SentStep, FileInit, FileStep, ReplyInit, ReplyStep, GadgetInitially, GadgetStep,
     CountersInit, CountersStep, <1>1, PTL DEF Spec

-----------------------------------------------------------------------------
(* The data of acknowledged pieces.                                        *)

Finished == {"done", "reboot", "rebootWait"}

LEMMA AckFacts ==
  ASSUME SentTypeOK
  PROVE  /\ Acknowledged \subseteq DOMAIN Pieces
         /\ cpc \notin Finished => Acknowledged = 1..piece - 1
         /\ \A q \in 1..piece - 1 : q \in DOMAIN Pieces /\ q < piece
         /\ piece \in Nat
<1>1. DOMAIN Pieces = 1..Len(Pieces) /\ Len(Pieces) \in Nat
  BY PiecesAssumption
<1>2. piece \in 1..Len(Pieces)
  BY <1>1 DEF SentTypeOK
<1>3. QED
  BY <1>1, <1>2 DEF Acknowledged, Finished

(* A piece is acknowledged by the response to its flash.                   *)
LEMMA AckStatus ==
  ASSUME SentTypeOK, WriteStatus, cpc = "flashWait", Head(replies) = "OKAY"
  PROVE  cpc' # "flashWait" /\ Acknowledged' = Acknowledged \cup {piece}
<1>1. DOMAIN Pieces = 1..Len(Pieces) /\ Len(Pieces) \in Nat /\ piece \in 1..Len(Pieces)
  BY PiecesAssumption DEF SentTypeOK
<1>2. ClientReads(Head(replies))
  BY DEF WriteStatus
<1>3. CASE piece = Len(Pieces) /\ cpc' = "done"
  <2>1. Acknowledged' = DOMAIN Pieces /\ Acknowledged = 1..piece - 1
    BY <1>3 DEF Acknowledged
  <2>2. DOMAIN Pieces = (1..piece - 1) \cup {piece}
    BY <1>1, <1>3
  <2>3. QED
    BY <1>3, <2>1, <2>2
<1>4. CASE piece # Len(Pieces) /\ cpc' = "download" /\ piece' = piece + 1
  <2>1. Acknowledged' = 1..piece' - 1 /\ Acknowledged = 1..piece - 1
    BY <1>4 DEF Acknowledged
  <2>2. 1..(piece + 1) - 1 = (1..piece - 1) \cup {piece}
    BY <1>1
  <2>3. QED
    BY <1>4, <2>1, <2>2
<1>5. QED
  BY <1>2, <1>3, <1>4 DEF ClientReads

(* No other step acknowledges one, and a client that starts, or is gone,   *)
(* has none.                                                               *)
LEMMA AckStep ==
  ASSUME SentInv, [Next]_vars
  PROVE  \/ Acknowledged' = Acknowledged
         \/ (Acknowledged' = {} /\ cpc' \in {"start", "var"})
         \/ /\ WriteStatus /\ cpc = "flashWait" /\ Head(replies) = "OKAY" /\ cpc' # "flashWait"
            /\ Acknowledged' = Acknowledged \cup {piece}
<1> SentTypeOK
  BY DEF SentInv
<1>1. DOMAIN Pieces = 1..Len(Pieces) /\ Len(Pieces) \in Nat /\ piece \in 1..Len(Pieces)
  BY PiecesAssumption DEF SentTypeOK
<1>2. ASSUME piece' = 1, cpc' \in {"start", "var"}
      PROVE  Acknowledged' = {}
  BY <1>2 DEF Acknowledged
<1>3. ASSUME UNCHANGED piece, cpc' \in Finished <=> cpc \in Finished
      PROVE  Acknowledged' = Acknowledged
  BY <1>1, <1>3 DEF Acknowledged, Finished
<1>4. CASE WriteStatus
  <2>1. ClientReads(Head(replies))
    BY <1>4 DEF WriteStatus
  <2>2. CASE Head(replies) = "OKAY" /\ cpc = "flashWait"
    BY <1>4, <2>2, AckStatus
  <2>3. CASE ~(Head(replies) = "OKAY" /\ cpc = "flashWait")
    <3>1. UNCHANGED piece
      BY <2>1, <2>3 DEF ClientReads
    <3>2. cpc' \in Finished <=> cpc \in Finished
      BY <2>1, <2>3 DEF ClientReads, Finished
    <3>3. QED
      BY <1>3, <3>1, <3>2
  <2>4. QED
    BY <2>2, <2>3
<1>5. CASE \/ GetVarHandler \/ OemCmdHandler \/ RebootHandler \/ DownloadHandler
           \/ FlashHandler \/ ReceiveData \/ ReceiveCommand
  <2>1. UNCHANGED piece /\ (cpc' \in Finished <=> cpc \in Finished)
    BY <1>5 DEF GetVarHandler, OemCmdHandler, RebootHandler, DownloadHandler, FlashHandler,
       Command, ReceiveData, ReceiveCommand, Finished
  <2>2. QED
    BY <1>3, <2>1
<1>6. CASE StartClient \/ AbortClient \/ Unplug \/ OpenFails
  BY <1>6, <1>2 DEF StartClient, AbortClient, Unplug, OpenFails, ClientLost
<1>7. CASE StartReboot
  BY <1>7, <1>3 DEF StartReboot, Finished
<1>8. CASE \/ OpenControl \/ OpenEndpoints \/ CreateMarker \/ RebootInto \/ FlashContinues
           \/ FlashReturns \/ TransferFails \/ SetUp \/ Plug \/ Mount \/ Kill \/ Terminated
           \/ UNCHANGED vars
  <2>1. UNCHANGED <<piece, cpc>>
    BY <1>8 DEF OpenControl, OpenEndpoints, CreateMarker, OpenStep, RebootInto, FlashContinues,
       FlashReturns, TransferFails, SetUp, Plug, Mount, Kill, Terminated, vars, clientVars
  <2>2. QED
    BY <1>3, <2>1
<1>9. QED
  BY <1>4, <1>5, <1>6, <1>7, <1>8 DEF Next, Exchange

(* What the client that waits for a flash still waits for.                 *)
LEMMA WaitStep ==
  ASSUME SentInv, AnswerInv, [Next]_vars, ~FlashContinues, ~FlashReturns, ~FlashHandler,
         cpc' = "flashWait", dpc' # "dead"
  PROVE  /\ cpc = "flashWait" /\ UNCHANGED piece /\ dpc # "dead"
         /\ \/ UNCHANGED <<dpc, replies>>
            \/ /\ dpc = "reply" /\ Head(replies) = "INFO" /\ replies' = Tail(replies)
               /\ dpc' = IF Tail(replies) # <<>> THEN "reply" ELSE "read"
<1>1. CASE WriteStatus
  <2>1. cpc = "flashWait" /\ Head(replies) = "INFO" /\ UNCHANGED piece
    BY <1>1 DEF WriteStatus, ClientReads
  <2>2. dpc = "reply"
    BY <1>1, <2>1 DEF WriteStatus, AnswerInv
  <2>3. QED
    BY <1>1, <2>1, <2>2 DEF WriteStatus
<1>2. CASE TransferFails
  <2>1. cpc = "flashWait" /\ dpc # "dead" /\ (torn \/ link = "down")
    BY <1>2 DEF TransferFails, ReadFails, WriteFails, clientVars
  <2>2. QED
    BY <2>1 DEF SentInv, ConnectedInv
<1>3. CASE OpenControl \/ OpenEndpoints \/ CreateMarker \/ RebootInto
  <2>1. cpc = "flashWait" /\ dpc \in {"control", "endpoints", "marker", "reboot"}
    BY <1>3 DEF OpenControl, OpenEndpoints, CreateMarker, OpenStep, RebootInto, clientVars
  <2>2. QED
    BY <2>1 DEF AnswerInv
<1>4. CASE \/ GetVarHandler \/ OemCmdHandler \/ RebootHandler \/ DownloadHandler
           \/ ReceiveData \/ ReceiveCommand \/ StartClient \/ StartReboot
           \/ AbortClient \/ Unplug \/ OpenFails
  <2>1. cpc' # "flashWait"
    BY <1>4 DEF GetVarHandler, OemCmdHandler, RebootHandler, DownloadHandler, Command,
       ReceiveData, ReceiveCommand, StartClient, StartReboot, AbortClient, Unplug, OpenFails,
       ClientLost
  <2>2. QED
    BY <2>1
<1>5. CASE SetUp \/ Plug \/ Mount \/ Terminated \/ UNCHANGED vars
  BY <1>5 DEF SetUp, Plug, Mount, Terminated, vars, deviceVars, clientVars
<1>6. CASE Kill
  BY <1>6 DEF Kill
<1>7. QED
  BY <1>1, <1>2, <1>3, <1>4, <1>5, <1>6 DEF Next, Exchange

(* Data of a piece is below that of the pieces after it.                   *)
LEMMA EarlierData ==
  ASSUME NEW p, Flashing(p), next <= Len(data), data[next].kind = "raw",
         NEW q \in DOMAIN Pieces, q < p, NEW b \in DataOf(q)
  PROVE  b \in Nat /\ b >= 1 /\ b <= data[next].at
<1>1. /\ data \in Seq(Chunks) /\ next \in 1..Len(data) /\ data[next].at \in Nat
      /\ EndOf(data[next]) \in Nat /\ data[next].at < EndOf(data[next])
      /\ p \in DOMAIN Pieces /\ data = Pieces[p]
  BY FlashingFacts DEF Flashing
<1>2. data[next].at + 1 \in DataIn(Pieces[p])
  BY <1>1, DataFacts
<1>3. b < data[next].at + 1
  BY <1>1, <1>2, PiecesInOrder DEF DataOf
<1>4. Pieces[q] \in Seq(Chunks) /\ \A j \in 1..Len(Pieces[q]) : Pieces[q][j] \in Chunks
  BY PieceType
<1>5. PICK j \in 1..Len(Pieces[q]) : Pieces[q][j].at < b
  BY <1>4, DataFacts DEF DataOf
<1>6. Pieces[q][j].at \in Nat
  BY <1>4, <1>5, ChunkType
<1>7. b \in Nat
  BY <1>4, DataFacts DEF DataOf
<1>8. QED
  BY <1>1, <1>3, <1>5, <1>6, <1>7

(* No data is at offset 0 or behind the image.                             *)
LEMMA DataRange ==
  ASSUME NEW p \in DOMAIN Pieces, NEW b \in DataIn(Pieces[p])
  PROVE  b \in 1..ImageLength
<1>1. PICK d : d = Pieces[p]
  OBVIOUS
<1>2. d \in Seq(Chunks) /\ \A j \in 1..Len(d) : d[j] \in Chunks /\ EndOf(d[j]) <= ImageLength
  BY <1>1, ChunkFacts
<1>3. b \in Nat /\ \E j \in 1..Len(d) : d[j].kind = "raw" /\ d[j].at < b /\ b <= EndOf(d[j])
  BY <1>1, <1>2, DataFacts
<1>4. PICK j \in 1..Len(d) : d[j].at < b /\ b <= EndOf(d[j])
  BY <1>3
<1>5. d[j].at \in Nat /\ EndOf(d[j]) \in Nat /\ EndOf(d[j]) <= ImageLength
  BY <1>2, <1>4, ChunkType
<1>6. QED
  BY <1>3, <1>4, <1>5, LengthAssumption

(* One step of a flash for which a client waits: the data that is in the   *)
(* file stays there, and that of the piece below the offset is added.      *)
LEMMA DataGoesOn ==
  ASSUME SentInv, FileTypeOK, DataInv, FlashContinues, ImageLength < WORD
  PROVE  DataInv'
<1>1. /\ dpc = "flash" /\ UNCHANGED <<dpc, cpc, piece, data>> /\ FlashStep
      /\ Acknowledged' = Acknowledged
  <2>1. dpc = "flash" /\ UNCHANGED <<dpc, cpc, piece, data>> /\ FlashStep
    BY FlashGoesOn DEF FlashContinues
  <2>2. QED
    BY <2>1 DEF Acknowledged
<1>2. CASE cpc # "flashWait"
  <2>1. cpc \in {"start", "var"} /\ piece = 1
    BY <1>1, <1>2 DEF FileTypeOK, FlashingInv
  <2>2. Acknowledged = {}
    BY <2>1 DEF Acknowledged
  <2>3. QED
    BY <1>1, <1>2, <2>2 DEF DataInv, FlashedDataKept, AnswerInv
<1>3. CASE cpc = "flashWait"
  <2>1. Flashing(piece) /\ SentTypeOK
    BY <1>1, <1>3 DEF FileTypeOK, FlashingInv, Flashing, SentInv, ServedInv, SentTypeOK
  <2>2. InFile(data, pos)
    BY <1>1, <1>3 DEF DataInv, AnswerInv
  <2>3. /\ Acknowledged = 1..piece - 1
        /\ \A q \in 1..piece - 1 : q \in DOMAIN Pieces /\ q < piece
    BY <1>3, <2>1, AckFacts DEF Finished
  <2>4. \A q \in Acknowledged : \A b \in DataOf(q) : b <= Len(file) /\ file[b] = b
    BY DEF DataInv, FlashedDataKept
  <2>5. /\ \A b \in DataIn(data) : b \in Nat /\ b >= 1
        /\ pos \in Nat /\ file \in Seq(Entries) /\ Len(file) \in Nat
    BY <2>1, DataRange, FlashingFacts DEF Flashing
  <2>6. ASSUME next <= Len(data), data[next].kind = "raw", data[next].at <= pos,
               Keeps(file, file', pos), pos' \in Nat,
               \A b \in pos + 1..pos' : b <= Len(file') /\ file'[b] = b
        PROVE  DataInv'
    <3>1. data[next].at \in Nat
      BY <2>1, <2>6, FlashingFacts
    <3>2. \A q \in Acknowledged : \A b \in DataOf(q) : b <= Len(file') /\ file'[b] = b
      <4>1. SUFFICES ASSUME NEW q \in Acknowledged, NEW b \in DataOf(q)
                     PROVE  b <= Len(file') /\ file'[b] = b
        OBVIOUS
      <4>2. q \in DOMAIN Pieces /\ q < piece
        BY <2>3
      <4>3. b \in Nat /\ b >= 1 /\ b <= data[next].at
        BY <2>1, <2>6, <4>2, EarlierData
      <4>4. b \in 1..pos
        BY <2>5, <2>6, <3>1, <4>3
      <4>5. b <= Len(file) /\ file[b] = b
        BY <2>4
      <4>6. QED
        BY <2>6, <4>4, <4>5 DEF Keeps
    <3>3. \A b \in DataIn(data) : b <= pos' => b <= Len(file') /\ file'[b] = b
      <4>1. SUFFICES ASSUME NEW b \in DataIn(data), b <= pos'
                     PROVE  b <= Len(file') /\ file'[b] = b
        OBVIOUS
      <4>2. b \in Nat /\ b >= 1
        BY <2>5
      <4>3. CASE b <= pos
        <5>1. b <= Len(file) /\ file[b] = b
          BY <2>2, <4>3 DEF InFile
        <5>2. b \in 1..pos
          BY <2>5, <4>2, <4>3
        <5>3. QED
          BY <2>6, <5>1, <5>2 DEF Keeps
      <4>4. CASE ~(b <= pos)
        <5>1. b \in pos + 1..pos'
          BY <2>5, <2>6, <4>1, <4>2, <4>4
        <5>2. QED
          BY <2>6, <5>1
      <4>5. QED
        BY <4>3, <4>4
    <3>4. InFile(data, pos)'
      BY <1>1, <3>3 DEF InFile
    <3>5. QED
      BY <1>1, <1>3, <3>2, <3>4 DEF DataInv, FlashedDataKept, AnswerInv
  <2>7. CASE SkipChunk
    <3>1. UNCHANGED <<file, data>> /\ \A b \in DataIn(data) : b <= pos' => b <= pos
      BY <2>1, <2>7, SkipStep
    <3>2. InFile(data, pos)'
      BY <2>2, <3>1 DEF InFile
    <3>3. QED
      BY <1>1, <1>3, <2>4, <3>1, <3>2 DEF DataInv, FlashedDataKept, AnswerInv
  <2>8. CASE RawChunk
    <3>1. /\ next <= Len(data) /\ data[next].kind = "raw"
          /\ pos' = pos /\ pos = data[next].at /\ Keeps(file, file', pos)
      BY <2>1, <2>8, RawStep DEF RawChunk
    <3>2. \A b \in pos + 1..pos' : FALSE
      BY <2>5, <3>1
    <3>3. QED
      BY <2>5, <2>6, <3>1, <3>2
  <2>9. CASE WriteSome
    BY <2>1, <2>6, <2>9, WriteStep
  <2>10. QED
    BY <1>1, <2>7, <2>8, <2>9 DEF FlashStep
<1>4. QED
  BY <1>2, <1>3

LEMMA FlashRepliesFacts ==
  /\ \A k : FlashReplies(k) \in {<<"OKAY">>, <<"INFO", "OKAY">>}
  /\ Head(<<"OKAY">>) = "OKAY" /\ Tail(<<"OKAY">>) = <<>>
  /\ Head(<<"FAIL">>) = "FAIL" /\ Tail(<<"FAIL">>) = <<>>
  /\ Head(<<"INFO", "OKAY">>) = "INFO" /\ Tail(<<"INFO", "OKAY">>) = <<"OKAY">>
  /\ Head(<<"INFO", "FAIL">>) = "INFO" /\ Tail(<<"INFO", "FAIL">>) = <<"FAIL">>
  /\ <<"OKAY">> # <<>> /\ <<"FAIL">> # <<>>
  BY DEF FlashReplies

(* The file, the pieces the client was told are flashed, and what it waits *)
(* for, when the step is none of a flash.                                  *)
LEMMA DataElsewhere ==
  ASSUME SentInv, DataInv, [Next]_vars, ~FlashContinues, ~FlashReturns, ~FlashHandler
  PROVE  DataInv'
<1> SentTypeOK
  BY DEF SentInv
<1>1. UNCHANGED <<file, data, pos>>
  BY Elsewhere DEF placeVars, Accepts
<1>2. FlashedDataKept'
  <2>1. CASE Acknowledged' = Acknowledged \/ Acknowledged' = {}
    BY <1>1, <2>1 DEF DataInv, FlashedDataKept
  <2>2. CASE /\ WriteStatus /\ cpc = "flashWait" /\ Head(replies) = "OKAY"
             /\ Acknowledged' = Acknowledged \cup {piece}
    <3>1. dpc \in {"reply", "farewell"}
      BY <2>2 DEF WriteStatus
    <3>2. ~Refused
      BY <2>2, FlashRepliesFacts DEF Refused
    <3>3. InFile(Pieces[piece], ImageLength)
      BY <2>2, <3>1, <3>2 DEF DataInv, AnswerInv
    <3>4. \A b \in DataOf(piece) : b <= Len(file) /\ file[b] = b
      <4>1. SUFFICES ASSUME NEW b \in DataOf(piece) PROVE b <= Len(file) /\ file[b] = b
        OBVIOUS
      <4>2. b \in DataIn(Pieces[piece]) /\ b <= ImageLength
        BY DataRange DEF DataOf, SentTypeOK
      <4>3. QED
        BY <3>3, <4>2 DEF InFile
    <3>5. QED
      BY <1>1, <2>2, <3>4 DEF DataInv, FlashedDataKept
  <2>3. QED
    BY <2>1, <2>2, AckStep
<1>3. AnswerInv'
  <2>1. SUFFICES ASSUME cpc' = "flashWait", dpc' # "dead"
                 PROVE  \/ dpc' = "flash" /\ InFile(data, pos)'
                        \/ dpc' = "reply" /\ Refused'
                        \/ dpc' = "reply" /\ Promised' /\ InFile(Pieces[piece], ImageLength)'
    BY DEF AnswerInv
  <2>2. /\ cpc = "flashWait" /\ UNCHANGED piece /\ dpc # "dead"
        /\ \/ UNCHANGED <<dpc, replies>>
           \/ /\ dpc = "reply" /\ Head(replies) = "INFO" /\ replies' = Tail(replies)
              /\ dpc' = IF Tail(replies) # <<>> THEN "reply" ELSE "read"
    BY <2>1, WaitStep DEF DataInv
  <2>3. /\ InFile(data, pos) => InFile(data, pos)'
        /\ InFile(Pieces[piece], ImageLength) => InFile(Pieces[piece], ImageLength)'
    BY <1>1, <2>2 DEF InFile
  <2>4. CASE UNCHANGED <<dpc, replies>>
    BY <2>2, <2>3, <2>4 DEF DataInv, AnswerInv, Refused, Promised
  <2>5. CASE /\ dpc = "reply" /\ Head(replies) = "INFO" /\ replies' = Tail(replies)
             /\ dpc' = IF Tail(replies) # <<>> THEN "reply" ELSE "read"
    <3>1. Refused \/ (Promised /\ InFile(Pieces[piece], ImageLength))
      BY <2>2, <2>5 DEF DataInv, AnswerInv
    <3>2. Refused => replies' = <<"FAIL">> /\ dpc' = "reply"
      BY <2>5, FlashRepliesFacts DEF Refused
    <3>3. Promised => replies' = <<"OKAY">> /\ dpc' = "reply"
      BY <2>5, FlashRepliesFacts DEF Promised
    <3>4. QED
      BY <2>3, <3>1, <3>2, <3>3 DEF Refused, Promised
  <2>6. QED
    BY <2>2, <2>4, <2>5
<1>4. QED
  BY <1>2, <1>3 DEF DataInv

LEMMA DataStarts ==
  ASSUME SentInv, FileTypeOK, DataInv, FlashHandler
  PROVE  DataInv'
<1>1. cpc = "flash" /\ cpc' = "flashWait" /\ UNCHANGED <<file, piece>>
  BY DEF FlashHandler, Command, FlashRefused, FlashFailed, FlashAccepted, FlashBegin, flashVars
<1>2. FlashedDataKept'
  BY <1>1 DEF DataInv, FlashedDataKept, Acknowledged
<1>3. CASE Accepts
  <2>1. Flashing(piece)' /\ pos' = 0 /\ dpc' = "flash"
    BY <1>3, FlashStarts DEF FileTypeOK
  <2>2. \A b \in DataIn(data') : b \in 1..ImageLength
    BY <2>1, DataRange DEF Flashing
  <2>3. InFile(data, pos)'
    BY <2>1, <2>2, LengthAssumption DEF InFile
  <2>4. QED
    BY <1>2, <2>1, <2>3 DEF DataInv, AnswerInv
<1>4. CASE FlashRefused \/ FlashFailed
  <2>1. dpc' = "reply" /\ Refused'
    BY <1>4 DEF FlashRefused, FlashFailed, Respond, Refused
  <2>2. QED
    BY <1>2, <2>1 DEF DataInv, AnswerInv
<1>5. QED
  BY <1>3, <1>4 DEF FlashHandler, Accepts

LEMMA DataReturns ==
  ASSUME SentInv, FileTypeOK, DataInv, FlashReturns
  PROVE  DataInv'
<1>1. /\ UNCHANGED <<file, cpc, piece>> /\ dpc = "flash" /\ dpc' = "reply"
      /\ replies' = <<"FAIL">> \/ (FlashDone /\ replies' = FlashReplies(kind))
  BY FlashStops DEF FileTypeOK
<1>2. FlashedDataKept'
  BY <1>1 DEF DataInv, FlashedDataKept, Acknowledged
<1>3. CASE cpc # "flashWait" \/ replies' = <<"FAIL">>
  BY <1>1, <1>2, <1>3 DEF DataInv, AnswerInv, Refused
<1>4. CASE cpc = "flashWait" /\ FlashDone /\ replies' = FlashReplies(kind)
  <2>1. Flashing(piece) /\ InFile(data, pos)
    BY <1>1, <1>4
       DEF FileTypeOK, FlashingInv, Flashing, SentInv, ServedInv, SentTypeOK, DataInv, AnswerInv
  <2>2. step = "chunk" /\ next > Len(data) /\ pos = Start(data, next)
    BY <1>4, <2>1 DEF FlashDone, Flashing, InPlace
  <2>3. \A b \in DataIn(data) : b <= pos
    BY <2>1, <2>2, DataAround
  <2>4. data = Pieces[piece]
    BY <2>1 DEF Flashing
  <2>5. InFile(Pieces[piece], ImageLength)'
    BY <1>1, <2>1, <2>3, <2>4 DEF InFile
  <2>6. Promised'
    BY <1>4, FlashRepliesFacts DEF Promised
  <2>7. QED
    BY <1>1, <1>2, <2>5, <2>6 DEF DataInv, AnswerInv
<1>5. QED
  BY <1>1, <1>3, <1>4

LEMMA DataStep ==
  SentInv /\ FileTypeOK /\ DataInv /\ [Next]_vars /\ ImageLength < WORD => DataInv'
  BY DataGoesOn, DataElsewhere, DataStarts, DataReturns

LEMMA DataInit == Init => DataInv
<1> SUFFICES ASSUME Init PROVE DataInv
  OBVIOUS
<1>1. cpc = "start" /\ piece = 1
  BY DEF Init
<1>2. Acknowledged = {}
  BY <1>1 DEF Acknowledged
<1>3. QED
  BY <1>1, <1>2 DEF DataInv, FlashedDataKept, AnswerInv

(* The data of every piece the client was told is flashed is in the file,  *)
(* through the flashes of the pieces behind it (FlashFd() starts each at   *)
(* offset 0 and truncates at every chunk), as long as the length of the    *)
(* image fits into the 32 bits that cur_pos + len is computed in.          *)
THEOREM FlashedDataStays == ImageLength < WORD => (Spec => []FlashedDataKept)
<1>1. DataInv => FlashedDataKept
  BY DEF DataInv
<1>2. ASSUME ImageLength < WORD
      PROVE  Spec => []FlashedDataKept
  <2>1. SentInv /\ FileTypeOK /\ DataInv /\ [Next]_vars => DataInv'
    BY <1>2, DataStep
  <2>2. QED
    BY SentInit, SentStep, FileInit, FileStep, DataInit, <1>1, <2>1, PTL DEF Spec
<1>3. QED
  BY <1>2
-----------------------------------------------------------------------------
(* The end of the file.                                                    *)

LEMMA EndsUnset == EndsWith({})
  BY DEF EndsWith

(* A client whose flash failed is followed by another one, if at all.      *)
LEMMA FailedStep ==
  ASSUME [Next]_vars, cpc = "failed"
  PROVE  cpc' = "failed" \/ (cpc' \in {"start", "var"} /\ piece' = 1)
<1>1. CASE \/ GetVarHandler \/ OemCmdHandler \/ RebootHandler \/ DownloadHandler \/ FlashHandler
           \/ ReceiveData \/ ReceiveCommand \/ StartReboot \/ WriteStatus
  BY <1>1 DEF GetVarHandler, OemCmdHandler, RebootHandler, DownloadHandler, FlashHandler,
     Command, ReceiveData, ReceiveCommand, StartReboot, WriteStatus, Waiting
<1>2. CASE StartClient \/ AbortClient \/ Unplug \/ OpenFails
  BY <1>2 DEF StartClient, AbortClient, Unplug, OpenFails, ClientLost
<1>3. CASE \/ OpenControl \/ OpenEndpoints \/ CreateMarker \/ RebootInto \/ FlashContinues
           \/ FlashReturns \/ TransferFails \/ SetUp \/ Plug \/ Mount \/ Kill \/ Terminated
           \/ UNCHANGED vars
  BY <1>3 DEF OpenControl, OpenEndpoints, CreateMarker, OpenStep, RebootInto, FlashContinues,
     FlashReturns, TransferFails, SetUp, Plug, Mount, Kill, Terminated, vars, clientVars
<1>4. QED
  BY <1>1, <1>2, <1>3 DEF Next, Exchange

(* The client stops waiting for a flash: it is told the result, or gone.   *)
LEMMA WaitEnds ==
  ASSUME [Next]_vars, cpc = "flashWait", cpc' # "flashWait"
  PROVE  \/ cpc' = "failed"
         \/ (cpc' \in {"start", "var"} /\ Acknowledged' = {})
         \/ WriteStatus /\ Head(replies) = "OKAY"
<1>1. CASE \/ GetVarHandler \/ OemCmdHandler \/ RebootHandler \/ DownloadHandler \/ FlashHandler
           \/ ReceiveData \/ ReceiveCommand \/ StartReboot
  BY <1>1 DEF GetVarHandler, OemCmdHandler, RebootHandler, DownloadHandler, FlashHandler,
     Command, ReceiveData, ReceiveCommand, StartReboot
<1>2. CASE StartClient \/ AbortClient \/ Unplug \/ OpenFails
  BY <1>2 DEF StartClient, AbortClient, Unplug, OpenFails, ClientLost, Acknowledged
<1>3. CASE \/ OpenControl \/ OpenEndpoints \/ CreateMarker \/ RebootInto \/ FlashContinues
           \/ FlashReturns \/ TransferFails \/ SetUp \/ Plug \/ Mount \/ Kill \/ Terminated
           \/ UNCHANGED vars
  BY <1>3 DEF OpenControl, OpenEndpoints, CreateMarker, OpenStep, RebootInto, FlashContinues,
     FlashReturns, TransferFails, SetUp, Plug, Mount, Kill, Terminated, vars, clientVars
<1>4. CASE WriteStatus
  <2>1. ClientReads(Head(replies))
    BY <1>4 DEF WriteStatus
  <2>2. QED
    BY <1>4, <2>1 DEF ClientReads
<1>5. QED
  BY <1>1, <1>2, <1>3, <1>4 DEF Next, Exchange

LEMMA TailElsewhere ==
  ASSUME SentInv, DataInv, TailInv, [Next]_vars, ~FlashContinues, ~FlashReturns, ~FlashHandler
  PROVE  TailInv'
<1>1. /\ UNCHANGED <<kind, file, data, pos, next, step>>
      /\ kept' = kept \/ (kept' = FALSE /\ cpc' = "var" /\ piece' = 1)
  BY Elsewhere DEF placeVars, Accepts
<1>2. SUFFICES ASSUME kind = "file", ~kept', ~Broken'
               PROVE  IF cpc' = "flashWait" /\ dpc' = "flash" /\ step = "write"
                      THEN Len(file) = EndOf(data[next]) ELSE EndsWith(Done')
  BY <1>1 DEF TailInv, EndsWith
<1>3. ASSUME Done' = {}, cpc' # "flashWait"
      PROVE  EndsWith(Done')
  BY <1>3, EndsUnset
<1>4. CASE Acknowledged' = {} /\ cpc' \in {"start", "var"}
  <2>1. Done' = {}
    BY <1>4 DEF Done, Settled
  <2>2. QED
    BY <1>3, <1>4, <2>1
<1>5. CASE /\ Acknowledged' = Acknowledged /\ ~(cpc' \in {"start", "var"} /\ Acknowledged' = {})
           /\ ~(WriteStatus /\ cpc = "flashWait" /\ Head(replies) = "OKAY")
  <2>1. Settled' = Settled
    BY <1>5 DEF Settled
  <2>2. CASE cpc' = "flashWait"
    <3>1. dpc' # "dead"
      BY <1>2, <2>2 DEF Broken
    <3>2. /\ cpc = "flashWait" /\ UNCHANGED piece /\ dpc # "dead"
          /\ \/ UNCHANGED <<dpc, replies>>
             \/ /\ dpc = "reply" /\ Head(replies) = "INFO" /\ replies' = Tail(replies)
                /\ dpc' = IF Tail(replies) # <<>> THEN "reply" ELSE "read"
      BY <2>2, <3>1, WaitStep DEF DataInv
    <3>3. (dpc' = "flash" <=> dpc = "flash") /\ ~Broken
      <4>1. CASE UNCHANGED <<dpc, replies>>
        BY <1>2, <2>2, <3>2, <4>1 DEF Broken, Promised
      <4>2. CASE /\ dpc = "reply" /\ Head(replies) = "INFO" /\ replies' = Tail(replies)
                 /\ dpc' = IF Tail(replies) # <<>> THEN "reply" ELSE "read"
        <5>1. Refused \/ Promised
          BY <3>2, <4>2 DEF DataInv, AnswerInv
        <5>2. ~Promised => replies' = <<"FAIL">>
          BY <4>2, <5>1, FlashRepliesFacts DEF Refused
        <5>3. Promised
          BY <1>2, <2>2, <4>2, <5>2, FlashRepliesFacts DEF Broken, Promised
        <5>4. QED
          BY <3>2, <4>2, <5>3 DEF Broken
      <4>3. QED
        BY <3>2, <4>1, <4>2
    <3>4. Done' = Done
      BY <1>1, <2>1, <2>2, <3>2, <3>3 DEF Done
    <3>5. kept' = kept
      BY <1>1, <2>2
    <3>6. QED
      BY <1>2, <2>2, <3>2, <3>3, <3>4, <3>5 DEF TailInv
  <2>3. CASE cpc' # "flashWait" /\ cpc # "flashWait"
    <3>1. Done' = Done
      BY <2>1, <2>3 DEF Done
    <3>2. CASE cpc = "failed"
      <4>1. cpc' = "failed" \/ (cpc' \in {"start", "var"} /\ piece' = 1)
        BY <3>2, FailedStep
      <4>2. cpc' \in {"start", "var"} /\ piece' = 1
        BY <1>2, <4>1 DEF Broken
      <4>3. Done' = {}
        BY <4>2 DEF Done, Settled, Acknowledged
      <4>4. QED
        BY <1>3, <2>3, <4>3
    <3>3. CASE cpc' = "var" /\ piece' = 1
      <4>1. Done' = {}
        BY <3>3 DEF Done, Settled, Acknowledged
      <4>2. QED
        BY <1>3, <2>3, <4>1
    <3>4. CASE cpc # "failed" /\ ~(cpc' = "var" /\ piece' = 1)
      BY <1>1, <1>2, <2>3, <3>1, <3>4 DEF TailInv, Broken
    <3>5. QED
      BY <3>2, <3>3, <3>4
  <2>4. CASE cpc' # "flashWait" /\ cpc = "flashWait"
    <3>1. cpc' = "failed" \/ (cpc' \in {"start", "var"} /\ Acknowledged' = {})
      BY <1>5, <2>4, WaitEnds
    <3>2. QED
      BY <1>2, <1>5, <3>1 DEF Broken
  <2>5. QED
    BY <2>2, <2>3, <2>4
<1>6. CASE WriteStatus /\ cpc = "flashWait" /\ Head(replies) = "OKAY"
  <2> cpc' # "flashWait" /\ Acknowledged' = Acknowledged \cup {piece}
    BY <1>6, AckStatus DEF SentInv
  <2>1. dpc = "reply" /\ Promised
    <3>1. dpc \in {"reply", "farewell"}
      BY <1>6 DEF WriteStatus
    <3>2. QED
      BY <1>6, <3>1, FlashRepliesFacts DEF DataInv, AnswerInv, Refused
  <2>2. ~Broken /\ kept' = kept
    <3>1. cpc' # "var"
      BY <1>6 DEF WriteStatus, ClientReads
    <3>2. QED
      BY <1>1, <1>6, <2>1, <3>1 DEF Broken
  <2>3. Done' = Settled' /\ Done = Settled \cup DataOf(piece)
    BY <1>6, <2>1 DEF Done
  <2>4. Settled' = Settled \cup DataOf(piece)
    <3>1. Settled' = UNION {DataOf(p) : p \in Acknowledged \cup {piece}}
      BY <1>6 DEF Settled, DataOf
    <3>2. UNION {DataOf(p) : p \in Acknowledged \cup {piece}} = Settled \cup DataOf(piece)
      BY DEF Settled
    <3>3. QED
      BY <3>1, <3>2
  <2>5. QED
    BY <1>2, <1>6, <2>1, <2>2, <2>3, <2>4 DEF TailInv
<1>7. QED
  BY <1>4, <1>5, <1>6, AckStep

LEMMA TailStarts ==
  ASSUME SentInv, FileTypeOK, TailInv, FlashHandler
  PROVE  TailInv'
<1>1. cpc = "flash" /\ cpc' = "flashWait" /\ UNCHANGED <<kind, file, piece, kept>>
  BY DEF FlashHandler, Command, FlashRefused, FlashFailed, FlashAccepted, FlashBegin, flashVars
<1>2. CASE Accepts
  <2>1. Flashing(piece)' /\ pos' = 0 /\ dpc' = "flash" /\ step' = "chunk"
    BY <1>2, FlashStarts DEF FileTypeOK
  <2>2. \A b \in DataOf(piece) : b \in 1..ImageLength
    BY <1>1, <2>1, DataRange DEF Flashing, DataOf
  <2>3. {b \in DataOf(piece) : b <= 0} = {}
    BY <2>2, LengthAssumption
  <2>4. Settled' = Settled
    BY <1>1 DEF Settled, Acknowledged
  <2>5. Done' = Done
    <3>1. Done' = Settled' \cup {b \in DataOf(piece) : b <= 0}
      BY <1>1, <2>1 DEF Done
    <3>2. QED
      BY <1>1, <2>3, <2>4, <3>1 DEF Done
  <2>6. ~Broken
    BY <1>1 DEF Broken
  <2>7. QED
    BY <1>1, <2>1, <2>5, <2>6 DEF TailInv, EndsWith
<1>3. CASE FlashRefused \/ FlashFailed
  <2>1. dpc' = "reply" /\ Refused'
    BY <1>3 DEF FlashRefused, FlashFailed, Respond, Refused
  <2>2. Broken'
    BY <1>1, <2>1 DEF Broken, Refused, Promised
  <2>3. QED
    BY <2>2 DEF TailInv
<1>4. QED
  BY <1>2, <1>3 DEF FlashHandler, Accepts

LEMMA TailReturns ==
  ASSUME SentInv, FileTypeOK, TailInv, FlashReturns
  PROVE  TailInv'
<1>1. /\ UNCHANGED <<kind, file, kept, cpc, piece>> /\ dpc = "flash" /\ dpc' = "reply"
      /\ replies' = <<"FAIL">> \/ (FlashDone /\ replies' = FlashReplies(kind))
  BY FlashStops DEF FileTypeOK
<1>2. Settled' = Settled
  BY <1>1 DEF Settled, Acknowledged
<1>3. CASE cpc # "flashWait"
  BY <1>1, <1>2, <1>3 DEF TailInv, Broken, Done, EndsWith
<1>4. CASE cpc = "flashWait" /\ replies' = <<"FAIL">>
  BY <1>1, <1>4, FlashRepliesFacts DEF TailInv, Broken, Promised
<1>5. CASE cpc = "flashWait" /\ FlashDone
  <2>1. Flashing(piece)
    BY <1>1, <1>5 DEF FileTypeOK, FlashingInv, Flashing, SentInv, ServedInv, SentTypeOK
  <2>2. step = "chunk" /\ next > Len(data) /\ pos = Start(data, next)
    BY <1>5, <2>1 DEF FlashDone, Flashing, InPlace
  <2>3. \A b \in DataOf(piece) : b <= pos
    BY <2>1, <2>2, DataAround DEF Flashing, DataOf
  <2>4. Done' = Settled \cup DataOf(piece)
    BY <1>1, <1>2, <1>5 DEF Done
  <2>5. Done = Settled \cup {b \in DataOf(piece) : b <= pos}
    BY <1>1, <1>5 DEF Done
  <2>6. Done' = Done
    BY <2>3, <2>4, <2>5
  <2>7. QED
    BY <1>1, <1>5, <2>2, <2>6 DEF TailInv, Broken, EndsWith
<1>6. QED
  BY <1>1, <1>3, <1>4, <1>5

(* One step of a flash: after the ftruncate() at a chunk the file has the  *)
(* length that the chunk's data then fills.                                *)
LEMMA TailGoesOn ==
  ASSUME SentInv, FileTypeOK, TailInv, FlashContinues, 2 * ImageLength < WORD
  PROVE  TailInv'
<1>1. /\ dpc = "flash" /\ UNCHANGED <<dpc, replies, cpc, piece, data, kind>> /\ FlashStep
      /\ Acknowledged' = Acknowledged
  <2>1. dpc = "flash" /\ UNCHANGED <<dpc, replies, cpc, piece, data, kind>> /\ FlashStep
    BY FlashGoesOn DEF FlashContinues
  <2>2. QED
    BY <2>1 DEF Acknowledged
<1>2. CASE cpc # "flashWait"
  <2>1. cpc \in {"start", "var"} /\ piece = 1
    BY <1>1, <1>2 DEF FileTypeOK, FlashingInv
  <2>2. Done' = {}
    BY <1>1, <2>1 DEF Done, Settled, Acknowledged
  <2>3. QED
    BY <1>1, <1>2, <2>2, EndsUnset DEF TailInv, EndsWith
<1>3. CASE cpc = "flashWait"
  <2>1. Flashing(piece) /\ SentTypeOK
    BY <1>1, <1>3 DEF FileTypeOK, FlashingInv, Flashing, SentInv, ServedInv, SentTypeOK
  <2>2. /\ Acknowledged = 1..piece - 1
        /\ \A q \in 1..piece - 1 : q \in DOMAIN Pieces /\ q < piece
    BY <1>3, <2>1, AckFacts DEF Finished
  <2>3. /\ \A b \in DataIn(data) : b \in Nat
        /\ pos \in Nat /\ DataOf(piece) = DataIn(data) /\ data \in Seq(Chunks)
    <3>1. \A b \in DataIn(data) : b \in Nat
      BY <2>1, DataRange DEF Flashing
    <3>2. QED
      BY <2>1, <3>1, FlashingFacts DEF Flashing, DataOf
  <2>4. /\ Settled' = Settled /\ ~Broken
        /\ Done = Settled \cup {b \in DataIn(data) : b <= pos}
        /\ Done' = Settled \cup {b \in DataIn(data) : b <= pos'}
    BY <1>1, <1>3, <2>3 DEF Settled, Done, Broken, DataOf
  <2>5. CASE SkipChunk
    <3>1. /\ UNCHANGED <<kind, file, kept>> /\ step' = "chunk" /\ step = "chunk" /\ pos' >= pos
          /\ \A b \in DataIn(data) : b <= pos' => b <= pos
      BY <2>1, <2>5, SkipStep DEF SkipChunk
    <3>2. Done' = Done
      <4>1. pos' \in Nat
        BY <2>1, <2>5, SkipStep, FlashingFacts, LengthAssumption DEF Flashing, FlashTypeOK
      <4>2. \A b \in DataIn(data) : b <= pos' <=> b <= pos
        BY <2>3, <3>1, <4>1
      <4>3. QED
        BY <2>4, <4>2
    <3>3. QED
      BY <1>1, <1>3, <2>4, <3>1, <3>2 DEF TailInv, EndsWith
  <2>6. CASE RawChunk
    <3>1. /\ UNCHANGED <<kind, data, next>> /\ step' = "write"
          /\ kind = "file" /\ ~kept' => Len(file') = EndOf(data[next])
      BY <2>1, <2>6, RawStep
    <3>2. QED
      BY <1>1, <1>3, <3>1 DEF TailInv
  <2>7. CASE WriteSome
    <3>1. /\ UNCHANGED <<kind, kept>> /\ pos' \in Nat /\ pos < pos' /\ pos' <= EndOf(data[next])
          /\ Len(file') = IF pos' > Len(file) THEN pos' ELSE Len(file)
          /\ data[next].kind = "raw" /\ next <= Len(data) /\ step = "write"
          /\ \/ step' = "write" /\ next' = next
             \/ step' = "chunk" /\ pos' = EndOf(data[next])
      BY <2>1, <2>7, WriteStep
    <3>2. SUFFICES ASSUME kind = "file", ~kept
                   PROVE  IF step' = "write" THEN Len(file') = EndOf(data[next'])
                          ELSE EndsWith(Done)'
      BY <1>1, <1>3, <3>1 DEF TailInv, EndsWith
    <3>3. Len(file) = EndOf(data[next])
      BY <1>1, <1>3, <2>4, <3>1, <3>2 DEF TailInv
    <3>4. EndOf(data[next]) \in Nat /\ data[next].at \in Nat /\ data[next].at < EndOf(data[next])
      BY <2>1, <3>1, FlashingFacts
    <3>5. Len(file') = EndOf(data[next])
      BY <3>1, <3>3, <3>4
    <3>6. CASE step' = "write"
      BY <3>1, <3>5, <3>6
    <3>7. CASE step' = "chunk" /\ pos' = EndOf(data[next])
      <4>1. Len(file') \in Done'
        <5>1. next \in 1..Len(data)
          BY <2>1, <3>1, FlashingFacts
        <5>2. EndOf(data[next]) \in DataIn(data)
          BY <2>3, <3>1, <3>4, <5>1, DataFacts
        <5>3. QED
          BY <2>4, <3>4, <3>5, <3>7, <5>2
      <4>2. \A b \in Settled : b <= Len(file')
        <5>1. SUFFICES ASSUME NEW q \in Acknowledged, NEW b \in DataOf(q)
                       PROVE  b <= Len(file')
          BY DEF Settled
        <5>2. q \in DOMAIN Pieces /\ q < piece
          BY <2>2
        <5>3. b \in Nat /\ b <= data[next].at
          BY <2>1, <3>1, <5>2, EarlierData
        <5>4. QED
          BY <3>4, <3>5, <5>3
      <4>3. \A b \in Done' : b <= Len(file')
        BY <2>4, <3>5, <3>7, <4>2
      <4>4. EndsWith(Done)'
        BY <4>1, <4>3 DEF EndsWith
      <4>5. QED
        BY <3>7, <4>4
    <3>8. QED
      BY <3>1, <3>6, <3>7
  <2>8. QED
    BY <1>1, <2>5, <2>6, <2>7 DEF FlashStep
<1>4. QED
  BY <1>2, <1>3

LEMMA TailStep ==
  SentInv /\ FileTypeOK /\ DataInv /\ TailInv /\ [Next]_vars /\ 2 * ImageLength < WORD => TailInv'
  BY TailGoesOn, TailElsewhere, TailStarts, TailReturns

LEMMA TailInit == Init => TailInv
<1> SUFFICES ASSUME Init PROVE TailInv
  OBVIOUS
<1>1. cpc = "start" /\ piece = 1
  BY DEF Init
<1>2. Done = {}
  BY <1>1 DEF Done, Settled, Acknowledged
<1>3. QED
  BY <1>1, <1>2, EndsUnset DEF TailInv

LEMMA TailEnds ==
  ASSUME SentTypeOK, TailInv, UNION {DataOf(p) : p \in DOMAIN Pieces} # {}
  PROVE  NoStaleTail
<1>1. SUFFICES ASSUME cpc = "done", kind = "file", ~kept
               PROVE  Len(file) = LastData
  BY DEF NoStaleTail
<1>2. PICK D : D = UNION {DataOf(p) : p \in DOMAIN Pieces}
  OBVIOUS
<1>3. Done = D
  BY <1>1, <1>2 DEF Done, Settled, Acknowledged
<1>4. Len(file) \in D /\ \A b \in D : b <= Len(file)
  BY <1>1, <1>2, <1>3 DEF TailInv, Broken, EndsWith
<1>5. \A b \in D : b \in Nat
  BY <1>2, DataRange DEF DataOf
<1>6. LastData = CHOOSE b \in D : \A c \in D : c <= b
  BY <1>2 DEF LastData
<1>7. \A b \in D : (\A c \in D : c <= b) => b = Len(file)
  BY <1>4, <1>5
<1>8. QED
  BY <1>4, <1>6, <1>7

(* A client that has flashed a whole image, of which some chunk is data,   *)
(* leaves a file that ends with the last data of that image, however long  *)
(* the file was before and however the image was split: unless the         *)
(* filesystem refused an ftruncate(), or an image of 2 GiB and more makes  *)
(* the off_t that cur_pos + len is converted to negative.                  *)
THEOREM StaleTailFreed ==
  2 * ImageLength < WORD /\ UNION {DataOf(p) : p \in DOMAIN Pieces} # {} =>
    (Spec => []NoStaleTail)
<1>1. ASSUME 2 * ImageLength < WORD, UNION {DataOf(p) : p \in DOMAIN Pieces} # {}
      PROVE  Spec => []NoStaleTail
  <2>1. SentInv /\ TailInv => NoStaleTail
    BY <1>1, TailEnds DEF SentInv
  <2>2. ImageLength < WORD
    BY <1>1, LengthAssumption
  <2>3. SentInv /\ FileTypeOK /\ DataInv /\ [Next]_vars => DataInv'
    BY <2>2, DataStep
  <2>4. SentInv /\ FileTypeOK /\ DataInv /\ TailInv /\ [Next]_vars => TailInv'
    BY <1>1, TailStep
  <2>5. QED
    BY SentInit, SentStep, FileInit, FileStep, DataInit, TailInit, <2>1, <2>3, <2>4, PTL DEF Spec
<1>2. QED
  BY <1>1
=============================================================================
