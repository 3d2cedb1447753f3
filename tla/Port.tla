--------------------------------- MODULE Port --------------------------------
(***************************************************************************)
(* The port to POSIX and USB: main.c, with the pairing answer of hci/hci.c.*)
(* A process is started on some controller, with or without -r; the        *)
(* controller comes up; bonds are written to the TLV store named after the *)
(* address in use; SIGINT switches the controller off and, once it is off, *)
(* ends the process; a crash ends it at any point.  The stores survive.    *)
(*                                                                         *)
(* External: BTstack's HCI state machine and its TLV store (an entry is    *)
(* durable when it was stored), the controllers, and the devices that pair.*)
(***************************************************************************)
EXTENDS Naturals

CONSTANTS
  Controllers, NoController,
  Vendor,                \* Vendor[c]: "realtek", "linux_foundation" (Zephyr) or "other"
  Addresses, NoAddress,
  PublicAddress,         \* PublicAddress[c]: what gap_local_bd_addr reports
  StaticAddress,         \* StaticAddress[c]: what Zephyr firmware reports
  Devices,               \* remote devices that may be bonded
  LegacyDevices          \* those that ask for a PIN

ASSUME PortAssumption ==
  /\ NoController \notin Controllers
  /\ NoAddress \notin Addresses
  /\ Vendor \in [Controllers -> {"realtek", "linux_foundation", "other"}]
  /\ PublicAddress \in [Controllers -> Addresses]
  /\ StaticAddress \in [Controllers -> Addresses]
  /\ LegacyDevices \subseteq Devices

VARIABLES
  process,               \* running, or how the last one ended
  statics,               \* the static variables of main.c; tlv_context as the address of the
                         \* store that is open
  \* external
  hci,                   \* the controller, its state, and how far it has come up
  pin_answered,          \* devices that were given a PIN
  disk,                  \* disk[a]: the bonds in /tmp/btstack_<a>.tlv
  bonded                 \* history: the devices bonded under a since its last reset

port_vars == <<process, statics, hci, pin_answered, disk, bonded>>

Fresh == [tlv_reset |-> FALSE, static_address |-> NoAddress, using_static_address |-> FALSE,
          shutdown_triggered |-> FALSE, tlv_context |-> NoAddress]

Off == [state |-> "OFF", controller |-> NoController, chipset |-> "none",
        version_read |-> FALSE, static_read |-> "no"]

PortTypeOK ==
  /\ process \in {"running", "exited", "crashed"}
  /\ statics \in [tlv_reset : BOOLEAN, static_address : Addresses \cup {NoAddress},
                  using_static_address : BOOLEAN, shutdown_triggered : BOOLEAN,
                  tlv_context : Addresses \cup {NoAddress}]
  /\ statics.using_static_address => statics.static_address # NoAddress
  /\ hci \in [state : {"OFF", "INITIALIZING", "WORKING", "HALTING"},
              controller : Controllers \cup {NoController},
              chipset : {"none", "realtek", "zephyr"},
              version_read : BOOLEAN, static_read : {"no", "failed", "ok"}]
  /\ pin_answered \subseteq LegacyDevices
  /\ disk \in [Addresses -> SUBSET Devices]
  /\ bonded \in [Addresses -> SUBSET Devices]

PortInit ==
  /\ process = "exited"
  /\ statics = Fresh
  /\ hci = Off
  /\ pin_answered = {}
  /\ disk = [a \in Addresses |-> {}]
  /\ bonded = [a \in Addresses |-> {}]

\* The address a controller has on air.
Identity(h) == IF h.static_read = "ok" THEN StaticAddress[h.controller]
                                       ELSE PublicAddress[h.controller]

-----------------------------------------------------------------------------
\* HCI_EVENT_TRANSPORT_USB_INFO: the chipset support it selects.
usb_info(vendor) == IF vendor = "realtek" THEN "realtek" ELSE "none"

\* main: options, registrations, and HCI_POWER_ON, which opens the transport (and
\* reports the USB device) or fails.
Main(c, reset, opened) ==
  /\ process # "running"
  /\ process' = "running"
  /\ statics' = [Fresh EXCEPT !.tlv_reset = reset]
  /\ hci' = IF opened
            THEN [Off EXCEPT !.state = "INITIALIZING", !.controller = c,
                             !.chipset = usb_info(Vendor[c])]
            ELSE Off
  /\ pin_answered' = {}
  /\ UNCHANGED <<disk, bonded>>

-----------------------------------------------------------------------------
(***************************************************************************)
(* packet_handler.                                                         *)
(***************************************************************************)
\* local_version_information_handler.
LocalVersionInformation ==
  /\ hci.state = "INITIALIZING"
  /\ ~hci.version_read
  /\ hci' = [hci EXCEPT !.version_read = TRUE,
               !.chipset = IF Vendor[hci.controller] = "linux_foundation" THEN "zephyr" ELSE @]
  /\ UNCHANGED <<process, statics, pin_answered, disk, bonded>>

\* Mutation: status and length of the answer are not looked at.
ZephyrReadStaticAddress_unchecked(ok) ==
  /\ hci.state = "INITIALIZING"
  /\ hci.version_read /\ hci.chipset = "zephyr" /\ hci.static_read = "no"
  /\ hci' = [hci EXCEPT !.static_read = IF ok THEN "ok" ELSE "failed"]
  /\ statics' = [statics EXCEPT !.static_address = IF ok THEN StaticAddress[hci.controller] ELSE @,
                                !.using_static_address = TRUE]
  /\ UNCHANGED <<process, pin_answered, disk, bonded>>

\* Mutation: the address is kept and never used.
ZephyrReadStaticAddress_unused(ok) ==
  /\ hci.state = "INITIALIZING"
  /\ hci.version_read /\ hci.chipset = "zephyr" /\ hci.static_read = "no"
  /\ hci' = [hci EXCEPT !.static_read = IF ok THEN "ok" ELSE "failed"]
  /\ statics' = IF ok THEN [statics EXCEPT !.static_address = StaticAddress[hci.controller]]
                ELSE statics
  /\ UNCHANGED <<process, pin_answered, disk, bonded>>

\* A status or a length that is wrong leaves the public address in use.
ZephyrReadStaticAddress(ok) ==
  /\ hci.state = "INITIALIZING"
  /\ hci.version_read /\ hci.chipset = "zephyr" /\ hci.static_read = "no"
  /\ hci' = [hci EXCEPT !.static_read = IF ok THEN "ok" ELSE "failed"]
  /\ statics' = IF ok
                THEN [statics EXCEPT !.static_address = StaticAddress[hci.controller],
                                     !.using_static_address = TRUE]
                ELSE statics
  /\ UNCHANGED <<process, pin_answered, disk, bonded>>

local_addr == IF statics.using_static_address THEN statics.static_address
                                              ELSE PublicAddress[hci.controller]

\* Mutation: the bonds of every start are reset.
reset_tlv_always(bonds) == {}

\* unlink, with -r.
reset_tlv(bonds) == IF statics.tlv_reset THEN {} ELSE bonds

\* What the controller needs to come up: its chipset's script has run.
BroughtUp ==
  /\ hci.version_read
  /\ hci.chipset = "zephyr" => hci.static_read # "no"
  /\ Vendor[hci.controller] = "realtek" => hci.chipset = "realtek"

\* BTSTACK_EVENT_STATE, HCI_STATE_WORKING.  The user's -r is for the controller
\* that comes up.
StateWorking ==
  /\ hci.state = "INITIALIZING"
  /\ BroughtUp
  /\ hci' = [hci EXCEPT !.state = "WORKING"]
  /\ statics' = [statics EXCEPT !.tlv_context = local_addr]
  /\ disk' = [disk EXCEPT ![local_addr] = reset_tlv(@)]
  /\ bonded' = IF statics.tlv_reset THEN [bonded EXCEPT ![Identity(hci)] = {}] ELSE bonded
  /\ UNCHANGED <<process, pin_answered>>

\* BTSTACK_EVENT_STATE, HCI_STATE_OFF: the store is closed, and the process exits
\* if it was asked to (and its statics are gone).
StateOff(s) ==
  /\ hci' = Off
  /\ pin_answered' = {}
  /\ IF s.shutdown_triggered
     THEN process' = "exited" /\ statics' = Fresh
     ELSE statics' = [s EXCEPT !.tlv_context = NoAddress] /\ UNCHANGED process
  /\ UNCHANGED <<disk, bonded>>

\* hci_power_control(HCI_POWER_OFF): at once, or by way of halting, or already
\* under way; s are the statics the events find.
PowerOff(s) ==
  CASE hci.state \in {"OFF", "INITIALIZING"} -> StateOff(s)
    [] hci.state = "WORKING" ->
         /\ hci' = [hci EXCEPT !.state = "HALTING"]
         /\ statics' = s
         /\ UNCHANGED <<process, pin_answered, disk, bonded>>
    [] hci.state = "HALTING" ->
         statics' = s /\ UNCHANGED <<process, hci, pin_answered, disk, bonded>>

\* Mutation: the flag is set after the call, when the event has been handled.
trigger_shutdown_late ==
  /\ process = "running"
  /\ IF hci.state \in {"OFF", "INITIALIZING"}
     THEN /\ hci' = Off
          /\ statics' = [statics EXCEPT !.shutdown_triggered = TRUE]
          /\ UNCHANGED <<process, pin_answered, disk, bonded>>
     ELSE PowerOff([statics EXCEPT !.shutdown_triggered = TRUE])

\* SIGINT.
trigger_shutdown ==
  /\ process = "running"
  /\ PowerOff([statics EXCEPT !.shutdown_triggered = TRUE])

\* The controller has closed its connections.
Halted ==
  /\ hci.state = "HALTING"
  /\ StateOff(statics)

-----------------------------------------------------------------------------
\* hci_packet_handler: whoever asks is given "0000".
PinCodeRequest(d) ==
  /\ hci.state = "WORKING"
  /\ d \in LegacyDevices
  /\ pin_answered' = pin_answered \cup {d}
  /\ UNCHANGED <<process, statics, hci, disk, bonded>>

\* A device is bonded: BTstack stores its link key in the store that is open.
Bonded(d) ==
  /\ hci.state \in {"WORKING", "HALTING"}
  /\ d \in LegacyDevices => d \in pin_answered
  /\ disk' = IF statics.tlv_context = NoAddress THEN disk
             ELSE [disk EXCEPT ![statics.tlv_context] = @ \cup {d}]
  /\ bonded' = [bonded EXCEPT ![Identity(hci)] = @ \cup {d}]
  /\ UNCHANGED <<process, statics, hci, pin_answered>>

\* The process is killed, or the machine loses power.
Crash ==
  /\ process = "running"
  /\ process' = "crashed"
  /\ statics' = Fresh
  /\ hci' = Off
  /\ pin_answered' = {}
  /\ UNCHANGED <<disk, bonded>>

-----------------------------------------------------------------------------
ControllerEvent ==
  \/ LocalVersionInformation
  \/ \E ok \in BOOLEAN : ZephyrReadStaticAddress(ok)
  \/ StateWorking

Pairing == \E d \in Devices : PinCodeRequest(d) \/ Bonded(d)

Start == \E c \in Controllers, reset, opened \in BOOLEAN : Main(c, reset, opened)

PortNext ==
  \/ Start
  \/ ControllerEvent
  \/ Pairing
  \/ trigger_shutdown
  \/ Halted
  \/ Crash

PortSpec == PortInit /\ [][PortNext]_port_vars

-----------------------------------------------------------------------------
\* "reset bonding information stored in TLV": every address finds the bonds made
\* under it since its last reset, and no others, whatever controllers, resets,
\* failed reads, shutdowns and crashes came in between.
BondsSurvive == disk = bonded

\* While the controller works, and until it is off, the store of the address it
\* has on air is open: no link key is written elsewhere or lost.
StoreOfController ==
  hci.state \in {"WORKING", "HALTING"} => statics.tlv_context = Identity(hci)

\* SIGINT ends the process, in whatever state it finds the controller.
ShutdownEnds == statics.shutdown_triggered ~> process # "running"

=============================================================================
