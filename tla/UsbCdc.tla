------------------------------- MODULE UsbCdc -------------------------------
(***************************************************************************)
(* The serial port on USB of the MPIOVD node                               *)
(* (src/soft/mpiovd/src/link/usb_local.c), as can_usb.c starts and stops   *)
(* it.  The driver of the kernel and the host at the other end are         *)
(* external: the host enumerates the device from its descriptors, may      *)
(* reset the bus again, and may be unplugged at any time.                  *)
(***************************************************************************)
EXTENDS Integers, Sequences, FiniteSetsExt, Functions

CONSTANTS
  Room,       (* the bytes a queue of the port has room for                *)
  MaxPlugs    (* how often the port is started                             *)

RoomAssumption == Room \in Nat \ {0} /\ MaxPlugs \in Nat \ {0}

VARIABLES
  plugged,    (* the pin of the plug                                       *)
  mgr,        (* the USB/CAN manager: can, up, term, drain, hack           *)
  pullup,     (* usbConnectBus                                             *)
  driver,     (* the state of USBD1: stop, ready, selected, active         *)
  epc,        (* the endpoints it has initialised                          *)
  iqueue, oqueue,  (* of SDU1: of each byte, in which run it was put       *)
  run,        (* how often the port was started                            *)
  host,       (* off, default, addressed, sized, described, configured     *)
  known,      (* what it has read of the configuration                     *)
  panicked    (* an assertion of the driver has failed                     *)

dev == <<mgr, pullup, driver, epc, iqueue, oqueue, run, panicked>>
vars == <<plugged, dev, host, known>>

Init ==
  /\ plugged \in BOOLEAN /\ mgr = "can" /\ pullup = FALSE
  /\ driver = "stop" /\ epc = {} /\ iqueue = <<>> /\ oqueue = <<>> /\ run = 0
  /\ host = "off" /\ known = <<>> /\ panicked = FALSE

-----------------------------------------------------------------------------
(* What the board says of itself.  Only the fields a host acts on are      *)
(* kept; a text is its number of characters.                               *)

DeviceDescriptor ==
  [bLength |-> 18, kind |-> "device", texts |-> {1, 2, 3}, configurations |-> 1]

(* The communication interface with its items, then the one of the data.   *)
Configuration ==
  << [bLength |-> 9, kind |-> "configuration", total |-> 67, interfaces |-> 2],
     [bLength |-> 9, kind |-> "interface", number |-> 0, endpoints |-> 1],
     [bLength |-> 5, kind |-> "header"],
     [bLength |-> 5, kind |-> "call_management", data |-> 1],
     [bLength |-> 4, kind |-> "abstract_control"],
     [bLength |-> 5, kind |-> "union", master |-> 0, slave |-> 1],
     [bLength |-> 7, kind |-> "endpoint", ep |-> 2, dir |-> "in", type |-> "intr", size |-> 8],
     [bLength |-> 9, kind |-> "interface", number |-> 1, endpoints |-> 2],
     [bLength |-> 7, kind |-> "endpoint", ep |-> 3, dir |-> "out", type |-> "bulk", size |-> 64],
     [bLength |-> 7, kind |-> "endpoint", ep |-> 1, dir |-> "in", type |-> "bulk", size |-> 64] >>

(* The language, the vendor, the product and the version of the kernel.    *)
Strings ==
  [k \in 0 .. 3 |-> [kind |-> "string", bLength |-> <<4, 38, 56, 8>>[k + 1],
                     chars |-> <<1, 18, 27, 3>>[k + 1]]]

Nothing == [kind |-> "none"]

get_descriptor(dtype, dindex) ==
  CASE dtype = "device" -> <<DeviceDescriptor>>
    [] dtype = "configuration" -> Configuration
    [] dtype = "string" /\ dindex < 4 -> <<Strings[dindex]>>
    [] OTHER -> <<Nothing>>

(* What a host gets that asks for n bytes: the items that end before.      *)
Ends(items) ==
  LET end[k \in 0 .. Len(items)] == IF k = 0 THEN 0 ELSE end[k - 1] + items[k].bLength
  IN end
FirstBytes(items, n) ==
  SubSeq(items, 1, Max({k \in 0 .. Len(items) : Ends(items)[k] <= n}))

-----------------------------------------------------------------------------
(* The endpoints the board uses.  An endpoint sends when it has a callback *)
(* for IN, receives when it has one for OUT, and needs a state for each.   *)

ep1config == [ep |-> 1, type |-> "bulk", dir |-> "in", size |-> 64, state |-> "in"]
ep2config == [ep |-> 2, type |-> "intr", dir |-> "in", size |-> 16, state |-> "out"]
ep3config == [ep |-> 3, type |-> "bulk", dir |-> "out", size |-> 64, state |-> "out"]

(* usb_event: of the events, only this one has a meaning.                  *)
Initialised(event) ==
  IF event = "configured" THEN epc \cup {ep1config, ep2config, ep3config} ELSE epc

Moves(dir) == {c \in epc : c.type = "bulk" /\ c.dir = dir /\ c.state = dir}

-----------------------------------------------------------------------------
(* can_usb.c.  The shell is forked after the first step, and waited for    *)
(* before the second; what it does then is UsbShells.                      *)

UsbInitLocal ==
  /\ ~panicked /\ mgr = "can" /\ plugged /\ run < MaxPlugs
  /\ mgr' = "up" /\ run' = run + 1
  /\ driver' = "ready" /\ epc' = {} /\ iqueue' = <<>> /\ oqueue' = <<>>
  /\ pullup' = TRUE
  /\ UNCHANGED <<plugged, host, known, panicked>>

TerminatesShell ==
  /\ ~panicked /\ mgr = "up" /\ ~plugged
  /\ mgr' = "term"
  /\ UNCHANGED <<plugged, pullup, driver, epc, iqueue, oqueue, run, panicked, host, known>>

(* UsbStopLocal, to its pause, ...                                         *)
DisconnectBus ==
  /\ ~panicked /\ mgr = "term"
  /\ mgr' = "drain" /\ pullup' = FALSE /\ host' = "off"
  /\ iqueue' = <<>> /\ oqueue' = <<>>
  /\ UNCHANGED <<plugged, driver, epc, run, panicked, known>>

(* ... and after it: the driver is told that it was never started, ...     *)
DirtyHack ==
  /\ ~panicked /\ mgr = "drain"
  /\ mgr' = "hack" /\ driver' = "stop"
  /\ UNCHANGED <<plugged, pullup, epc, iqueue, oqueue, run, panicked, host, known>>

(* ... for a driver in use may not be stopped.                             *)
SduStop ==
  /\ ~panicked /\ mgr = "hack"
  /\ mgr' = "can" /\ driver' = "stop"
  /\ panicked' = (driver \notin {"stop", "ready"})
  /\ UNCHANGED <<plugged, pullup, epc, iqueue, oqueue, run, host, known>>

-----------------------------------------------------------------------------
(* The shell reads and writes the queues.                                  *)

ShellReads ==
  /\ ~panicked /\ mgr \in {"up", "term"} /\ iqueue # <<>>
  /\ iqueue' = Tail(iqueue)
  /\ UNCHANGED <<plugged, mgr, pullup, driver, epc, oqueue, run, panicked, host, known>>

ShellWrites ==
  /\ ~panicked /\ mgr \in {"up", "term"} /\ Len(oqueue) < Room
  /\ oqueue' = Append(oqueue, run)
  /\ UNCHANGED <<plugged, mgr, pullup, driver, epc, iqueue, run, panicked, host, known>>

-----------------------------------------------------------------------------
(* The bus.  A line that has lost its pull-up looks like a reset too, to a *)
(* driver that runs.                                                       *)

BusReset ==
  /\ ~panicked /\ (pullup \/ mgr \in {"drain", "hack"})
  /\ driver' = "ready" /\ epc' = {}
  /\ host' = IF pullup /\ plugged THEN "default" ELSE "off"
  /\ known' = <<>>
  /\ UNCHANGED <<plugged, mgr, pullup, iqueue, oqueue, run, panicked>>

SetAddress ==
  /\ ~panicked /\ host = "default" /\ driver = "ready"
  /\ \A s \in get_descriptor("device", 0)[1].texts :
       get_descriptor("string", s)[1].kind = "string"
  /\ driver' = "selected" /\ host' = "addressed"
  /\ UNCHANGED <<plugged, mgr, pullup, epc, iqueue, oqueue, run, panicked, known>>

(* First the item with the total length, then as much.                     *)
ReadSize ==
  /\ ~panicked /\ host = "addressed"
  /\ known' = FirstBytes(get_descriptor("configuration", 0), 9) /\ host' = "sized"
  /\ UNCHANGED <<plugged, dev>>

ReadConfiguration ==
  /\ ~panicked /\ host = "sized"
  /\ known' = FirstBytes(get_descriptor("configuration", 0), known[1].total)
  /\ host' = "described"
  /\ UNCHANGED <<plugged, dev>>

SetConfiguration ==
  /\ ~panicked /\ host = "described" /\ driver = "selected"
  /\ driver' = "active" /\ epc' = Initialised("configured") /\ host' = "configured"
  /\ UNCHANGED <<plugged, mgr, pullup, iqueue, oqueue, run, panicked, known>>

Described == {known[k] : k \in {j \in DOMAIN known : known[j].kind = "endpoint"}}
Bulk(dir) == {d \in Described : d.type = "bulk" /\ d.dir = dir}

HostSends ==
  /\ ~panicked /\ host = "configured" /\ Len(iqueue) < Room
  /\ \E d \in Bulk("out"), c \in Moves("out") : c.ep = d.ep /\ d.size <= c.size
  /\ iqueue' = Append(iqueue, run)
  /\ UNCHANGED <<plugged, mgr, pullup, driver, epc, oqueue, run, panicked, host, known>>

HostReceives ==
  /\ ~panicked /\ host = "configured" /\ oqueue # <<>>
  /\ \E d \in Bulk("in"), c \in Moves("in") : c.ep = d.ep /\ c.size <= d.size
  /\ oqueue' = Tail(oqueue)
  /\ UNCHANGED <<plugged, mgr, pullup, driver, epc, iqueue, run, panicked, host, known>>

Plug ==
  /\ plugged' = ~plugged /\ host' = "off"
  /\ UNCHANGED <<dev, known>>

Next ==
  \/ UsbInitLocal \/ TerminatesShell \/ DisconnectBus \/ DirtyHack \/ SduStop
  \/ ShellReads \/ ShellWrites
  \/ BusReset \/ SetAddress \/ ReadSize \/ ReadConfiguration \/ SetConfiguration
  \/ HostSends \/ HostReceives \/ Plug

Spec == Init /\ [][Next]_vars

-----------------------------------------------------------------------------
(* can_usb.c:63-69, usb_local.c:353-364: however the cable, the host and   *)
(* the manager interleave, no driver in use is stopped, ...                *)
NeverPanics == ~panicked

(* ... what is read of the port was put there since it was started, ...    *)
NothingLeftOver ==
  \A q \in {iqueue, oqueue} : \A k \in DOMAIN q : q[k] = run

(* ... the configuration is as long and has as many parts as it says, ...  *)
DescribesItself ==
  host \in {"described", "configured"} =>
    LET parts(kind) == {k \in DOMAIN known : known[k].kind = kind}
        between(i, k) == {j \in parts("interface") : i < j /\ j < k}
        owned(i) == {k \in parts("endpoint") : i < k /\ between(i, k) = {}} IN
      /\ Ends(known)[Len(known)] = known[1].total
      /\ ExistsBijection(1 .. known[1].interfaces, parts("interface"))
      /\ \A i \in parts("interface") : ExistsBijection(1 .. known[i].endpoints, owned(i))
      /\ \E u \in parts("union") :
           {known[u].master, known[u].slave} = {known[k].number : k \in parts("interface")}
      /\ \A s \in 1 .. 3 : LET d == get_descriptor("string", s)[1] IN d.bLength = 2 + 2 * d.chars

(* ... and a host that has configured the board moves its data over        *)
(* endpoints that the board has initialised the same way.                  *)
HostAgrees ==
  host = "configured" =>
    /\ driver = "active" /\ pullup
    /\ \A dir \in {"in", "out"} :
         {<<d.ep, d.size>> : d \in Bulk(dir)} = {<<c.ep, c.size>> : c \in Moves(dir)}
    /\ {d.ep : d \in Described} = {c.ep : c \in epc}
=============================================================================
