------------------------------ MODULE PortProofs -----------------------------
(***************************************************************************)
(* Proofs about Port, for any controllers, addresses and devices.          *)
(***************************************************************************)
EXTENDS Port, TLAPS

\* A controller that is on was started by the process that runs, and the address
\* kept is the one it has on air.
ControllerInv ==
  /\ process # "running" => hci.state = "OFF"
  /\ hci.state # "OFF" =>
       /\ hci.controller \in Controllers
       /\ statics.using_static_address <=> hci.static_read = "ok"
       /\ hci.static_read = "ok" => statics.static_address = StaticAddress[hci.controller]

PortInv == PortTypeOK /\ ControllerInv /\ StoreOfController /\ BondsSurvive

-----------------------------------------------------------------------------
\* No process, no controller, empty stores.
LEMMA InitPortInv == PortInit => PortInv
BY PortAssumption
   DEF PortInit, PortInv, PortTypeOK, ControllerInv, StoreOfController, BondsSurvive, Fresh, Off, PortAssumption

\* The address in use is a proper one.
LEMMA IdentityFacts ==
  ASSUME PortTypeOK, ControllerInv, hci.state # "OFF"
  PROVE  /\ Identity(hci) \in Addresses
         /\ Identity(hci) # NoAddress
         /\ local_addr = Identity(hci)
BY PortAssumption DEF PortAssumption, ControllerInv, Identity, local_addr

\* The static variables of main.c, as PortTypeOK has them.
StaticsType ==
  [tlv_reset : BOOLEAN, static_address : Addresses \cup {NoAddress},
   using_static_address : BOOLEAN, shutdown_triggered : BOOLEAN,
   tlv_context : Addresses \cup {NoAddress}]

\* Once the controller is off nothing is left to hold.
LEMMA OffKeepsInv ==
  ASSUME PortInv, NEW s \in StaticsType, StateOff(s), process = "running",
         s.using_static_address => s.static_address # NoAddress
  PROVE  PortInv'
<1>1. hci' = Off /\ UNCHANGED <<disk, bonded>>
  BY DEF StateOff
<1>2. PortTypeOK'
  <2>1. Off \in [state : {"OFF", "INITIALIZING", "WORKING", "HALTING"},
                 controller : Controllers \cup {NoController},
                 chipset : {"none", "realtek", "zephyr"},
                 version_read : BOOLEAN, static_read : {"no", "failed", "ok"}]
    BY DEF Off
  <2>2. statics' \in StaticsType
    <3>1. Fresh \in StaticsType /\ [s EXCEPT !.tlv_context = NoAddress] \in StaticsType
      BY DEF Fresh, StaticsType
    <3> QED
      BY <3>1 DEF StateOff
  <2>3. process' \in {"running", "exited", "crashed"} /\ pin_answered' = {}
    BY DEF StateOff, PortInv, PortTypeOK
  <2>4. statics'.using_static_address => statics'.static_address # NoAddress
    BY DEF StateOff, Fresh, StaticsType
  <2> QED
    BY <1>1, <2>1, <2>2, <2>3, <2>4 DEF PortTypeOK, PortInv, StaticsType
<1>3. ControllerInv' /\ StoreOfController'
  BY <1>1 DEF ControllerInv, StoreOfController, Off
<1>4. BondsSurvive'
  BY <1>1 DEF PortInv, BondsSurvive
<1> QED
  BY <1>2, <1>3, <1>4 DEF PortInv

\* A process that is started has an address only once its controller reports it.
LEMMA MainKeepsInv ==
  ASSUME PortInv, NEW c \in Controllers, NEW reset \in BOOLEAN, NEW opened \in BOOLEAN,
         Main(c, reset, opened)
  PROVE  PortInv'
<1>1. usb_info(Vendor[c]) \in {"none", "realtek"}
  BY DEF usb_info
<1>2. PortTypeOK'
  BY <1>1 DEF Main, PortInv, PortTypeOK, Fresh, Off
<1>3. ControllerInv' /\ StoreOfController'
  BY DEF Main, ControllerInv, StoreOfController, Fresh, Off
<1>4. BondsSurvive'
  BY DEF Main, PortInv, BondsSurvive
<1> QED
  BY <1>2, <1>3, <1>4 DEF PortInv

\* While the controller comes up its firmware may report another address.
LEMMA BringUpKeepsInv ==
  ASSUME PortInv, LocalVersionInformation \/ \E ok \in BOOLEAN : ZephyrReadStaticAddress(ok)
  PROVE  PortInv'
<1>1. CASE LocalVersionInformation
  <2>1. PortTypeOK'
    BY <1>1 DEF LocalVersionInformation, PortInv, PortTypeOK
  <2>2. ControllerInv' /\ StoreOfController' /\ BondsSurvive'
    BY <1>1 DEF LocalVersionInformation, PortInv, PortTypeOK, ControllerInv, StoreOfController, BondsSurvive
  <2> QED
    BY <2>1, <2>2 DEF PortInv
<1>2. ASSUME NEW ok \in BOOLEAN, ZephyrReadStaticAddress(ok) PROVE PortInv'
  <2>1. StaticAddress[hci.controller] \in Addresses /\ NoAddress \notin Addresses
    BY <1>2, PortAssumption DEF ZephyrReadStaticAddress, PortInv, ControllerInv, PortAssumption
  <2>2. PortTypeOK'
    BY <1>2, <2>1 DEF ZephyrReadStaticAddress, PortInv, PortTypeOK
  <2>3. ControllerInv' /\ StoreOfController' /\ BondsSurvive'
    BY <1>2 DEF ZephyrReadStaticAddress, PortInv, PortTypeOK, ControllerInv, StoreOfController, BondsSurvive
  <2> QED
    BY <2>2, <2>3 DEF PortInv
<1> QED
  BY <1>1, <1>2

\* The store that is opened, and reset with -r, is that of the address on air.
LEMMA StateWorkingKeepsInv ==
  ASSUME PortInv, StateWorking
  PROVE  PortInv'
<1>1. /\ Identity(hci) \in Addresses /\ local_addr = Identity(hci)
      /\ hci \in [state : {"OFF", "INITIALIZING", "WORKING", "HALTING"},
                  controller : Controllers \cup {NoController},
                  chipset : {"none", "realtek", "zephyr"},
                  version_read : BOOLEAN, static_read : {"no", "failed", "ok"}]
      /\ disk \in [Addresses -> SUBSET Devices] /\ disk = bonded
  BY IdentityFacts DEF StateWorking, PortInv, PortTypeOK, BondsSurvive
<1>2. Identity(hci') = Identity(hci)
  BY <1>1 DEF StateWorking, Identity
<1>3. disk' = IF statics.tlv_reset THEN [disk EXCEPT ![Identity(hci)] = {}] ELSE disk
  BY <1>1 DEF StateWorking, reset_tlv
<1>4. PortTypeOK'
  <2>1. disk' \in [Addresses -> SUBSET Devices] /\ bonded' \in [Addresses -> SUBSET Devices]
    BY <1>1, <1>3 DEF StateWorking
  <2> QED
    BY <1>1, <2>1 DEF StateWorking, PortInv, PortTypeOK
<1>5. ControllerInv' /\ StoreOfController'
  BY <1>1, <1>2 DEF StateWorking, PortInv, PortTypeOK, ControllerInv, StoreOfController
<1>6. BondsSurvive'
  BY <1>1, <1>3 DEF StateWorking, BondsSurvive
<1> QED
  BY <1>4, <1>5, <1>6 DEF PortInv

\* SIGINT halts the controller with its store open, or finds it off.
LEMMA ShutdownKeepsInv ==
  ASSUME PortInv, trigger_shutdown
  PROVE  PortInv'
<1> DEFINE s == [statics EXCEPT !.shutdown_triggered = TRUE]
<1>1. /\ s \in StaticsType
      /\ s.using_static_address = statics.using_static_address
      /\ s.static_address = statics.static_address
      /\ s.tlv_context = statics.tlv_context
      /\ s.using_static_address => s.static_address # NoAddress
  BY DEF PortInv, PortTypeOK, StaticsType
<1>2. process = "running" /\ PowerOff(s)
  BY DEF trigger_shutdown
<1> HIDE DEF s
<1>3. CASE hci.state \in {"OFF", "INITIALIZING"}
  BY <1>1, <1>2, <1>3, OffKeepsInv DEF PowerOff
<1>4. CASE hci.state \in {"WORKING", "HALTING"}
  <2>1. /\ statics' = s
        /\ hci' = [hci EXCEPT !.state = "HALTING"]
        /\ UNCHANGED <<process, pin_answered, disk, bonded>>
    BY <1>2, <1>4 DEF PowerOff, PortInv, PortTypeOK
  <2>2. PortTypeOK'
    BY <1>1, <2>1 DEF PortInv, PortTypeOK, StaticsType
  <2>3. hci'.controller = hci.controller /\ hci'.static_read = hci.static_read
        /\ Identity(hci') = Identity(hci)
    BY <2>1 DEF PortInv, PortTypeOK, Identity
  <2>4. ControllerInv' /\ StoreOfController'
    BY <1>1, <1>2, <1>4, <2>1, <2>3 DEF PortInv, ControllerInv, StoreOfController
  <2>5. BondsSurvive'
    BY <2>1 DEF PortInv, BondsSurvive
  <2> QED
    BY <2>2, <2>4, <2>5 DEF PortInv
<1> QED
  BY <1>3, <1>4 DEF PortInv, PortTypeOK

\* A bond is stored where it belongs.
LEMMA PairingKeepsInv ==
  ASSUME PortInv, Pairing
  PROVE  PortInv'
<1>1. ASSUME NEW d \in Devices, PinCodeRequest(d) PROVE PortInv'
  <2>1. PortTypeOK'
    BY <1>1 DEF PinCodeRequest, PortInv, PortTypeOK
  <2>2. ControllerInv' /\ StoreOfController' /\ BondsSurvive'
    BY <1>1 DEF PinCodeRequest, PortInv, ControllerInv, StoreOfController, BondsSurvive
  <2> QED
    BY <2>1, <2>2 DEF PortInv
<1>2. ASSUME NEW d \in Devices, Bonded(d) PROVE PortInv'
  <2>1. statics.tlv_context = Identity(hci) /\ Identity(hci) \in Addresses
        /\ Identity(hci) # NoAddress
    BY <1>2, IdentityFacts DEF Bonded, PortInv, StoreOfController
  <2>2. disk' = [disk EXCEPT ![Identity(hci)] = @ \cup {d}]
    BY <1>2, <2>1 DEF Bonded
  <2>3. PortTypeOK'
    BY <1>2, <2>1, <2>2 DEF Bonded, PortInv, PortTypeOK
  <2>4. BondsSurvive'
    BY <1>2, <2>2 DEF Bonded, PortInv, BondsSurvive
  <2>5. ControllerInv' /\ StoreOfController'
    BY <1>2 DEF Bonded, PortInv, ControllerInv, StoreOfController
  <2> QED
    BY <2>3, <2>4, <2>5 DEF PortInv
<1> QED
  BY <1>1, <1>2 DEF Pairing

\* A crash leaves the stores as they are.
LEMMA CrashKeepsInv ==
  ASSUME PortInv, Crash
  PROVE  PortInv'
<1>1. PortTypeOK'
  BY DEF Crash, PortInv, PortTypeOK, Fresh, Off
<1>2. ControllerInv' /\ StoreOfController'
  BY DEF Crash, ControllerInv, StoreOfController, Off
<1>3. BondsSurvive'
  BY DEF Crash, PortInv, BondsSurvive
<1> QED
  BY <1>1, <1>2, <1>3 DEF PortInv

\* Every step preserves the invariant.
LEMMA NextPortInv == PortInv /\ [PortNext]_port_vars => PortInv'
<1> SUFFICES ASSUME PortInv, [PortNext]_port_vars PROVE PortInv'
  OBVIOUS
<1>1. CASE Start
  BY <1>1, MainKeepsInv DEF Start
<1>2. CASE ControllerEvent
  BY <1>2, BringUpKeepsInv, StateWorkingKeepsInv DEF ControllerEvent
<1>3. CASE Pairing
  BY <1>3, PairingKeepsInv
<1>4. CASE trigger_shutdown
  BY <1>4, ShutdownKeepsInv
<1>5. CASE Halted
  <2>1. /\ statics \in StaticsType /\ process = "running"
        /\ statics.using_static_address => statics.static_address # NoAddress
    BY <1>5 DEF Halted, PortInv, PortTypeOK, ControllerInv, StaticsType
  <2> QED
    BY <1>5, <2>1, OffKeepsInv DEF Halted
<1>6. CASE Crash
  BY <1>6, CrashKeepsInv
<1>7. CASE UNCHANGED port_vars
  BY <1>7 DEF port_vars, PortInv, PortTypeOK, ControllerInv, StoreOfController, BondsSurvive, Identity
<1> QED
  BY <1>1, <1>2, <1>3, <1>4, <1>5, <1>6, <1>7 DEF PortNext

-----------------------------------------------------------------------------
(***************************************************************************)
(* The theorems.                                                           *)
(***************************************************************************)
\* PortInv is an invariant of the process: through starts, firmware reports,
\* pairings, SIGINT and crashes, main.c knows the address that is on air.
THEOREM PortInvariance == PortSpec => []PortInv
BY InitPortInv, NextPortInv, PTL DEF PortSpec

\* Type correctness.
THEOREM PortTypeCorrect == PortSpec => []PortTypeOK
<1>1. PortInv => PortTypeOK
  BY DEF PortInv
<1> QED
  BY <1>1, PortInvariance, PTL

\* While the controller works or halts, the store of the address on air is open,
\* whatever the firmware reported and whenever SIGINT came.
THEOREM StoreFollowsController == PortSpec => []StoreOfController
<1>1. PortInv => StoreOfController
  BY DEF PortInv
<1> QED
  BY <1>1, PortInvariance, PTL

\* Over any sequence of starts, resets, shutdowns and crashes, every address keeps
\* the bonds made under it.
THEOREM BondsAreKept == PortSpec => []BondsSurvive
<1>1. PortInv => BondsSurvive
  BY DEF PortInv
<1> QED
  BY <1>1, PortInvariance, PTL

\* A store changes only as the one of the address on air: by bonds that are added
\* while the controller works, or by the reset when the controller has come up.
StoresChangeOnAir ==
  [][\A a \in Addresses : disk'[a] # disk[a] =>
       \/ /\ hci.state \in {"WORKING", "HALTING"}
          /\ a = Identity(hci) /\ statics.tlv_context = a
          /\ disk[a] \subseteq disk'[a]
       \/ /\ hci.state = "INITIALIZING" /\ hci'.state = "WORKING"
          /\ a = Identity(hci) /\ statics.tlv_reset
          /\ disk'[a] = {}]_port_vars

\* Only the store on air changes: it gains bonds, or is emptied by -r when it is opened.
THEOREM OtherStoresUntouched == PortSpec => StoresChangeOnAir
<1> DEFINE A == \A a \in Addresses : disk'[a] # disk[a] =>
       \/ /\ hci.state \in {"WORKING", "HALTING"}
          /\ a = Identity(hci) /\ statics.tlv_context = a
          /\ disk[a] \subseteq disk'[a]
       \/ /\ hci.state = "INITIALIZING" /\ hci'.state = "WORKING"
          /\ a = Identity(hci) /\ statics.tlv_reset
          /\ disk'[a] = {}
<1>1. PortInv /\ [PortNext]_port_vars => [A]_port_vars
  <2> SUFFICES ASSUME PortInv, PortNext PROVE A
    OBVIOUS
  <2>0. disk \in [Addresses -> SUBSET Devices] /\ StoreOfController
    BY DEF PortInv, PortTypeOK
  <2>1. CASE Start \/ trigger_shutdown \/ Halted \/ Crash
    BY <2>1 DEF Start, Main, trigger_shutdown, PowerOff, Halted, StateOff, Crash, PortInv, PortTypeOK
  <2>2. CASE ControllerEvent
    <3>1. CASE StateWorking
      <4>1. local_addr = Identity(hci)
        BY <3>1, IdentityFacts DEF StateWorking, PortInv
      <4>2. hci'.state = "WORKING" /\ hci.state = "INITIALIZING"
        BY <3>1 DEF StateWorking, PortInv, PortTypeOK
      <4> QED
        BY <2>0, <3>1, <4>1, <4>2 DEF StateWorking, reset_tlv
    <3> QED
      BY <2>2, <3>1 DEF ControllerEvent, LocalVersionInformation, ZephyrReadStaticAddress
  <2>3. CASE Pairing
    BY <2>0, <2>3 DEF Pairing, PinCodeRequest, Bonded, StoreOfController
  <2> QED
    BY <2>1, <2>2, <2>3 DEF PortNext
<1> QED
  BY <1>1, PortInvariance, PTL DEF PortSpec, StoresChangeOnAir

=============================================================================
