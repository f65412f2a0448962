-------------------------- MODULE FastbootSession --------------------------
(***************************************************************************)
(* minfastbootd serving fastboot clients over USB, and what that leaves on *)
(* the disk: commands.cpp, fastboot_device.cpp, usb_client.cpp and usb.cpp *)
(* of native/jni/minfastbootd, on top of Flashing and UsbGadget.           *)
(*                                                                         *)
(* Reads and writes of the USB endpoints are synchronous on both sides, so *)
(* that a packet is handed over in one step.  A client is the well-behaved *)
(* fastboot tool on the host, which asks for a variable, then downloads    *)
(* and flashes the pieces of one image in turn and may reboot the device;  *)
(* it may be aborted at any time, the cable may be pulled, and the boot    *)
(* script may kill the daemon.                                             *)
(***************************************************************************)
EXTENDS Flashing, UsbGadget

CONSTANTS
  Pieces,   \* the image as the client splits it: for each download, its chunks
  MaxRuns,  \* bound: clients run one after the other
  MaxLines  \* bound: lines of information in a response

ASSUME PiecesAssumption ==
  /\ Pieces \in Seq(Seq(Chunks)) /\ Pieces # <<>>
  /\ \A p \in DOMAIN Pieces : Pieces[p] # <<>>
  /\ MaxRuns \in Nat \ {0} /\ MaxLines \in Nat

(* The offset behind a chunk, and the blocks that the raw chunks of a list *)
(* are the data of.                                                        *)
EndOf(c) == c.at + c.len

DataIn(chunks) ==
  UNION {{c.at + k : k \in 1..c.len} :
           c \in {chunks[j] : j \in {i \in DOMAIN chunks : chunks[i].kind = "raw"}}}

(* libsparse reports a piece from its first block to its last, one chunk   *)
(* after the other, and what the client splits an image into (flashing.cpp *)
(* :40-43) it sends in the order of the image.                             *)
ASSUME PiecesInOrder ==
  \A p \in DOMAIN Pieces :
    /\ Pieces[p][1].at = 0
    /\ \A j \in DOMAIN Pieces[p] :
         /\ EndOf(Pieces[p][j]) <= ImageLength
         /\ j + 1 \in DOMAIN Pieces[p] => Pieces[p][j + 1].at = EndOf(Pieces[p][j])
    /\ \A q \in DOMAIN Pieces :
         p < q => \A b \in DataIn(Pieces[p]), c \in DataIn(Pieces[q]) : b < c

(* Bytes that are no part of the image: what resize() appends, and a       *)
(* command read in the place of data.                                      *)
Garbage == [kind |-> "raw", at |-> ImageLength, len |-> 1]

VARIABLES
  \* minfastbootd
  dpc,      \* a step of InitFunctionFs, or what it is doing: "read", "receive",
            \* "flash", "reply", "farewell", "reboot" or "dead"
  replies,  \* the responses still to be written for the current command
  buffer,   \* download_data_
  got,      \* chunks of the download that have been read
  \* the client
  cpc,      \* what it does next, or the command whose response it waits for
  piece,    \* the piece it is at
  sent,     \* chunks of that piece it has sent
  runs,     \* clients started so far
  faulted,  \* history: a client was aborted, the cable pulled, or FunctionFS failed
  \* around them
  mounted   \* the target's storage is mounted

deviceVars == <<dpc, replies, buffer, got>>
clientVars == <<cpc, piece, sent, runs, faulted>>
vars == <<flashVars, deviceVars, clientVars, gadgetVars, mounted>>

Waiting == {"varWait", "downloadWait", "sendWait", "flashWait", "rebootWait"}
Sending == {"var", "download", "send", "flash", "reboot"}

MarkerFirst == <<"marker", "control", "endpoints">>  \* a mutant: the script is told too early

(* InitFunctionFs(): ep0 with its descriptors, the two bulk endpoints, and *)
(* the marker file for the script.                                         *)
InitFunctionFs == <<"control", "endpoints", "marker">>

Init ==
  /\ FlashInit /\ GadgetInit
  /\ dpc = Head(InitFunctionFs) /\ replies = <<>> /\ buffer = <<>> /\ got = 0
  /\ cpc = "start" /\ piece = 1 /\ sent = 0 /\ runs = 0 /\ faulted = FALSE
  /\ mounted = FALSE

-----------------------------------------------------------------------------
(* minfastbootd: the command loop.                                         *)

Respond(r) == dpc' = "reply" /\ replies' = r

(* The step after s; then the first command is read. *)
After(s) ==
  LET k == CHOOSE i \in DOMAIN InitFunctionFs : InitFunctionFs[i] = s
  IN  IF k = Len(InitFunctionFs) THEN "read" ELSE InitFunctionFs[k + 1]

(* main(): a new FastbootDevice, whose transport opens the endpoints.      *)
OpenStep(s) ==
  /\ dpc = s /\ dpc' = After(s)
  /\ UNCHANGED <<flashVars, replies, buffer, got, clientVars, scriptVars, bound, link, torn, mounted>>

OpenControl == OpenStep("control") /\ active' = TRUE /\ UNCHANGED ready

OpenEndpoints == OpenStep("endpoints") /\ UNCHANGED <<active, ready>>

CreateMarker == OpenStep("marker") /\ ready' = TRUE /\ UNCHANGED active

(* A client whose connection is gone. *)
ClientLost == cpc' = "start" /\ piece' = 1 /\ sent' = 0 /\ faulted' = TRUE

(* An endpoint or the descriptors fail: without a transport no command can *)
(* be read, and main() tries again.                                        *)
OpenFails ==
  /\ dpc \in {"control", "endpoints"}
  /\ dpc' = Head(InitFunctionFs) /\ FfsClosed /\ ClientLost
  /\ UNCHANGED <<flashVars, replies, buffer, got, runs, scriptVars, ready, mounted>>

(* ExecuteCommands() returns: the FastbootDevice and its buffer are gone. *)
CloseDevice ==
  /\ dpc' = Head(InitFunctionFs) /\ replies' = <<>> /\ buffer' = <<>> /\ got' = 0
  /\ FfsClosed

(* ExecuteCommands() reads a command of the client. *)
Command(c, wait) ==
  /\ link = "up" /\ dpc = "read" /\ cpc = c
  /\ cpc' = wait
  /\ UNCHANGED <<piece, sent, runs, faulted, gadgetVars, mounted>>

(* getvar, or an unknown command. *)
GetVarHandler ==
  /\ Command("var", "varWait")
  /\ \E r \in {"OKAY", "FAIL"} : Respond(<<r>>)
  /\ UNCHANGED <<flashVars, buffer, got>>

(* oem hello has one line of information; list-images one for each storage *)
(* that exists, and those of ListImages() for each image on it.            *)
OemCmdHandler ==
  /\ Command("var", "varWait")
  /\ \E n \in 0..MaxLines : Respond([k \in 1..n |-> "INFO"] \o <<"OKAY">>)
  /\ UNCHANGED <<flashVars, buffer, got>>

(* The reboot commands: the response comes first. *)
RebootHandler ==
  /\ Command("reboot", "rebootWait")
  /\ dpc' = "farewell" /\ replies' = <<"OKAY">>
  /\ UNCHANGED <<flashVars, buffer, got>>

(* rebootInto() *)
RebootInto ==
  /\ dpc = "reboot" /\ dpc' = "dead"
  /\ UNCHANGED <<flashVars, replies, buffer, got, clientVars, gadgetVars, mounted>>

(* download_data().resize(n) *)
Resized(b, n) == [k \in 1..n |-> IF k <= Len(b) THEN b[k] ELSE Garbage]

(* DownloadHandler(), up to its DATA response. *)
DownloadHandler ==
  /\ Command("download", "downloadWait")
  /\ \/ /\ buffer' = Resized(buffer, Len(Pieces[piece])) /\ got' = 0
        /\ Respond(<<"DATA">>)
     \/ Respond(<<"FAIL">>) /\ UNCHANGED <<buffer, got>>
  /\ UNCHANGED flashVars

StoredAtStart(b, k, c) == [b EXCEPT ![1] = c]  \* a mutant: char_data is not advanced

(* The k-th chunk of a download goes into the buffer. *)
Stored(b, k, c) == [b EXCEPT ![k] = c]

OneMore(n) == n > Len(buffer)  \* a mutant: <= for < in the condition of the loop

(* bytes_read_total has come up to len. *)
Complete(n) == n = Len(buffer)

(* HandleData(true, ...) reads one more packet of the download. *)
ReceiveData ==
  /\ link = "up" /\ dpc = "receive" /\ cpc = "send"
  /\ buffer' = Stored(buffer, got + 1, Pieces[piece][sent + 1])
  /\ got' = got + 1 /\ sent' = sent + 1
  /\ cpc' = IF sent' = Len(Pieces[piece]) THEN "sendWait" ELSE cpc
  /\ IF Complete(got') THEN Respond(<<"OKAY">>) ELSE UNCHANGED <<dpc, replies>>
  /\ UNCHANGED <<flashVars, piece, runs, faulted, gadgetVars, mounted>>

(* The client of the download is gone, and the first command of the next   *)
(* one is read as a short packet of data.                                  *)
ReceiveCommand ==
  /\ link = "up" /\ dpc = "receive" /\ cpc = "var"
  /\ cpc' = "varWait"
  /\ buffer' = Stored(buffer, got + 1, Garbage)
  /\ Respond(<<"FAIL">>)
  /\ UNCHANGED <<flashVars, got, piece, sent, runs, faulted, gadgetVars, mounted>>

(* FlashTarget() and FlashPartition(), up to FlashFd().  What fails before *)
(* the buffer is taken leaves it for the next flash.                       *)
FlashRefused ==
  /\ \E r \in {<<"FAIL">>, <<"INFO", "FAIL">>} : Respond(r)
  /\ UNCHANGED <<flashVars, buffer>>

FlashFailed ==
  /\ buffer' = <<>> /\ Respond(<<"FAIL">>)
  /\ UNCHANGED flashVars

FlashAccepted ==
  /\ buffer # <<>> /\ (kind = "file" => mounted)
  /\ buffer' = <<>> /\ FlashBegin(buffer)
  /\ dpc' = "flash" /\ UNCHANGED replies

FlashHandler ==
  /\ Command("flash", "flashWait")
  /\ FlashRefused \/ FlashFailed \/ FlashAccepted
  /\ UNCHANGED got

FlashContinues ==
  /\ dpc = "flash" /\ FlashStep
  /\ UNCHANGED <<deviceVars, clientVars, gadgetVars, mounted>>

(* WriteInfo() and the OKAY of FlashHandler(). *)
FlashReplies(k) == IF k = "file" THEN <<"INFO", "OKAY">> ELSE <<"OKAY">>

(* The flash is over, or write() or lseek64() fails. *)
FlashReturns ==
  /\ dpc = "flash"
  /\ \/ FlashDone /\ Respond(FlashReplies(kind))
     \/ ~FlashDone /\ Respond(<<"FAIL">>)
  /\ FlashEnd
  /\ UNCHANGED <<buffer, got, clientVars, gadgetVars, mounted>>

-----------------------------------------------------------------------------
(* What the client makes of a status; INFO leaves it waiting. *)
ClientReads(r) ==
  \/ r = "INFO" /\ UNCHANGED <<cpc, piece, sent>>
  \/ r # "INFO" /\ cpc = "varWait" /\ cpc' = "download" /\ UNCHANGED <<piece, sent>>
  \/ /\ r = "DATA" /\ cpc = "downloadWait"
     /\ cpc' = "send" /\ sent' = 0 /\ UNCHANGED piece
  \/ r = "OKAY" /\ cpc = "sendWait" /\ cpc' = "flash" /\ UNCHANGED <<piece, sent>>
  \/ /\ r = "OKAY" /\ cpc = "flashWait"
     /\ IF piece = Len(Pieces) THEN cpc' = "done" /\ UNCHANGED piece
                               ELSE cpc' = "download" /\ piece' = piece + 1
     /\ UNCHANGED sent
  \/ r = "OKAY" /\ cpc = "rebootWait" /\ cpc' = "done" /\ UNCHANGED <<piece, sent>>
  \/ /\ \/ r = "FAIL" /\ cpc \in {"downloadWait", "sendWait", "flashWait"}
        \/ r = "OKAY" /\ cpc = "downloadWait"
        \/ r = "DATA" /\ cpc \in {"sendWait", "flashWait"}
     /\ cpc' = "failed" /\ UNCHANGED <<piece, sent>>

(* WriteStatus() *)
WriteStatus ==
  /\ link = "up" /\ dpc \in {"reply", "farewell"} /\ cpc \in Waiting
  /\ ClientReads(Head(replies))
  /\ replies' = Tail(replies)
  /\ dpc' = CASE Tail(replies) # <<>>     -> "reply"
              [] dpc = "farewell"        -> "reboot"
              [] Head(replies) = "DATA"  -> "receive"
              [] OTHER                   -> "read"
  /\ UNCHANGED <<flashVars, buffer, got, runs, faulted, gadgetVars, mounted>>

(* The cable was pulled while the daemon was reading: there is no command, *)
(* or the download has failed.                                             *)
ReadFails ==
  /\ torn
  /\ \/ dpc = "read" /\ CloseDevice
     \/ /\ dpc = "receive" /\ Respond(<<"FAIL">>) /\ torn' = FALSE
        /\ UNCHANGED <<buffer, got, active, bound, link>>

(* A response cannot be written; without a connection the kernel may also  *)
(* let the daemon wait for one.  Only RebootHandler(), and handlers with   *)
(* information, go on.                                                     *)
WriteFails ==
  /\ torn \/ link = "down"
  /\ \/ dpc = "reply" /\ Head(replies) # "INFO" /\ CloseDevice
     \/ /\ \/ dpc = "reply" /\ Head(replies) = "INFO" /\ UNCHANGED dpc
           \/ dpc = "farewell" /\ dpc' = "reboot"
        /\ replies' = Tail(replies) /\ torn' = FALSE
        /\ UNCHANGED <<buffer, got, active, bound, link>>

TransferFails ==
  /\ ReadFails \/ WriteFails
  /\ UNCHANGED <<flashVars, clientVars, scriptVars, ready, mounted>>

-----------------------------------------------------------------------------
(* Clients, the cable, the storage and the boot script.                    *)

StartClient ==
  /\ link = "up" /\ runs < MaxRuns
  /\ cpc \in {"start", "done", "failed"} /\ dpc # "dead"
  /\ cpc' = "var" /\ piece' = 1 /\ sent' = 0 /\ runs' = runs + 1
  /\ kept' = FALSE
  /\ UNCHANGED <<kind, file, pos, data, next, left, step, deviceVars, faulted, gadgetVars, mounted>>

(* fastboot reboot, when all is flashed. *)
StartReboot ==
  /\ link = "up" /\ cpc = "done" /\ dpc # "dead"
  /\ cpc' = "reboot"
  /\ UNCHANGED <<flashVars, deviceVars, piece, sent, runs, faulted, gadgetVars, mounted>>

(* The user interrupts the client; what the daemon does goes on. *)
AbortClient ==
  /\ runs < MaxRuns /\ cpc \in Waiting \cup Sending
  /\ ClientLost
  /\ UNCHANGED <<flashVars, deviceVars, runs, gadgetVars, mounted>>

Unplug ==
  /\ runs < MaxRuns /\ dpc # "dead"
  /\ Disconnect(dpc \in {"read", "receive", "reply", "farewell"}) /\ ClientLost
  /\ UNCHANGED <<flashVars, deviceVars, runs, mounted>>

Plug ==
  /\ dpc # "dead" /\ Enumerate
  /\ UNCHANGED <<flashVars, deviceVars, clientVars, mounted>>

SetUp == Script /\ dpc # "dead" /\ UNCHANGED <<flashVars, deviceVars, clientVars, mounted>>

(* files/init touches the marker of a storage it has mounted. *)
Mount ==
  /\ setup = "done" /\ dpc # "dead" /\ ~mounted /\ mounted' = TRUE
  /\ UNCHANGED <<flashVars, deviceVars, clientVars, gadgetVars>>

(* pkill -f minfastbootd, whatever it is doing. *)
Kill ==
  /\ dpc # "dead" /\ dpc' = "dead" /\ RemoveGadget
  /\ UNCHANGED <<flashVars, replies, buffer, got, clientVars, mounted>>

Terminated == dpc = "dead" /\ UNCHANGED vars

(* The steps of the daemon and of the client it serves. *)
Exchange ==
  \/ OpenControl \/ OpenEndpoints \/ CreateMarker \/ OpenFails
  \/ GetVarHandler \/ OemCmdHandler \/ RebootHandler \/ RebootInto
  \/ DownloadHandler \/ ReceiveData \/ ReceiveCommand
  \/ FlashHandler \/ FlashContinues \/ FlashReturns \/ WriteStatus \/ TransferFails

Next ==
  \/ Exchange \/ SetUp \/ Plug \/ StartClient \/ StartReboot
  \/ AbortClient \/ Unplug \/ Mount \/ Kill \/ Terminated

Fairness ==
  /\ WF_vars(Exchange) /\ WF_vars(SetUp) /\ WF_vars(Plug)
  /\ WF_vars(StartClient /\ cpc = "start")

Spec == Init /\ [][Next]_vars /\ Fairness

-----------------------------------------------------------------------------
FlashTypeOK ==
  /\ kind \in {"file", "device"}
  /\ file \in Seq(-1..ImageLength + 1) /\ Len(file) <= MaxLength
  /\ pos \in 0..ImageLength /\ data \in Seq(Chunks) /\ next \in Nat
  /\ left \in Seq(1..ImageLength + 1)
  /\ step \in {"idle", "chunk", "write"} /\ kept \in BOOLEAN

DeviceTypeOK ==
  /\ dpc \in {"control", "endpoints", "marker", "read", "receive", "flash",
              "reply", "farewell", "reboot", "dead"}
  /\ replies \in Seq({"OKAY", "FAIL", "INFO", "DATA"})
  /\ buffer \in Seq(Chunks) /\ got \in Nat
  /\ cpc \in {"start", "done", "failed"} \cup Sending \cup Waiting
  /\ piece \in DOMAIN Pieces /\ sent \in Nat /\ runs \in 0..MaxRuns
  /\ faulted \in BOOLEAN /\ mounted \in BOOLEAN

(* Type correctness of the daemon, its descriptor and the client; a file   *)
(* never outgrows the image that is flashed to it and what it was before.  *)
TypeOK == FlashTypeOK /\ GadgetTypeOK /\ DeviceTypeOK

(* The pieces the current client was told are flashed, and their data. *)
Acknowledged == IF cpc \in {"done", "reboot", "rebootWait"} THEN DOMAIN Pieces ELSE 1..piece - 1

DataOf(p) == DataIn(Pieces[p])

(* Flash commands the client was told have succeeded have put the data of  *)
(* their pieces into the file, and the flash of a later piece, its         *)
(* ftruncate() included, leaves that data alone.                           *)
FlashedDataKept ==
  \A p \in Acknowledged : \A b \in DataOf(p) : b <= Len(file) /\ file[b] = b

(* Overwriting a larger image with a smaller one frees the rest: after the *)
(* last piece the file ends with the last data of the image, unless the    *)
(* filesystem refused an ftruncate().                                      *)
LastData == CHOOSE b \in UNION {DataOf(p) : p \in DOMAIN Pieces} :
              \A c \in UNION {DataOf(p) : p \in DOMAIN Pieces} : c <= b

NoStaleTail ==
  cpc = "done" /\ kind = "file" /\ ~kept => Len(file) = LastData

(* What is flashed is what the client that waits for it has just sent: not *)
(* the rest of an earlier download, nor a command swallowed by one.        *)
FlashesWhatWasSent ==
  dpc = "flash" /\ cpc = "flashWait" => data = Pieces[piece]

(* The function that files/init adds to the gadget is one that FunctionFS  *)
(* has been initialised for, and so is not ignored (init:130-131): the     *)
(* marker the daemon creates says so, and only a daemon that is not ready  *)
(* when the wait is over is overtaken.                                     *)
FastbootOffered == setup \in {"udc", "done"} /\ ~gaveUp => offered

(* From the start of the daemon on: if nothing goes wrong a client gets    *)
(* its connection and comes to an end.                                     *)
ClientFinishes ==
  [](~faulted /\ ~gaveUp /\ dpc # "dead") => <>(cpc \in {"done", "failed"})

-----------------------------------------------------------------------------
(* What the documentation says and the code does not do.                   *)

(* flashing.cpp:28, "the same logic works for files (lseek() beyond the    *)
(* end simply extends the file)": a file that was shorter than the image   *)
(* has the length of the image after the flash.                            *)
SkipExtendsFile ==
  cpc = "done" /\ kind = "file" => Len(file) >= ImageLength

(* flashing.cpp:33, "Truncate the file to the end of the current data      *)
(* chunk": the file ends there after the ftruncate(), unless the           *)
(* filesystem refused it.                                                  *)
TruncatesToChunkEnd ==
  [][step = "chunk" /\ step' = "write" /\ kind = "file" /\ ~kept' =>
       Len(file') = pos + data[next].len]_vars
=============================================================================
