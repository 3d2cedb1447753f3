---------------------------- MODULE SinkPortProofs ---------------------------
(***************************************************************************)
(* Proofs about SinkPort, for any controllers, peers, configurations and   *)
(* buffer sizes, with and without an audio driver.  A step of the system   *)
(* is a step of Port or leaves it alone, and a step of the sink, a fresh   *)
(* sink, or one that is left alone: the invariants of the two parts carry  *)
(* over, and a third one relates the connections to the controller.        *)
(***************************************************************************)
EXTENDS SinkPort, A2dpSinkRefinement, PortProofs

\* Peers are connected only while the controller works or halts, or to a process
\* that crashed.
QuietInv ==
  process # "crashed" /\ hci.state \in {"OFF", "INITIALIZING"} => signaling = {}

\* SIGINT has reached a controller that was working, and is taking it down.
HaltingInv ==
  statics.shutdown_triggered => process = "running" /\ hci.state = "HALTING"

SystemInv == PortInv /\ Inv /\ QuietInv /\ HaltingInv

-----------------------------------------------------------------------------
\* For main.c, a step of the sink is no step at all.
LEMMA PortOfStep == [SystemNext]_system => [PortNext]_port_vars
BY DEF SystemNext, SystemStart, SinkConnects, SinkStreams, SystemHalted, PortStep, system, PortNext

\* For the sink, a process that is started is its initial state.
LEMMA FreshSink == SinkFresh => Init'
BY DEF SinkFresh, Init

\* For the sink, a step of the system is a new process, a step of its own, or none.
LEMMA SinkOfStep == [SystemNext]_system => SinkFresh \/ [Next]_vars
<1> SUFFICES ASSUME [SystemNext]_system PROVE SinkFresh \/ [Next]_vars
  OBVIOUS
<1>1. CASE SystemStart
  BY <1>1 DEF SystemStart
<1>2. CASE SinkConnects \/ SinkStreams
  BY <1>2 DEF SinkConnects, SinkStreams, Next
<1>3. CASE SystemHalted \/ PortStep \/ UNCHANGED system
  BY <1>3 DEF SystemHalted, PortStep, system
<1> QED
  BY <1>1, <1>2, <1>3 DEF SystemNext

\* A step of the sink leaves the process, its controller and its stores alone.
LEMMA PortOfSinkStep ==
  ASSUME SinkConnects \/ SinkStreams
  PROVE  /\ UNCHANGED <<process, statics, hci, pin_answered, disk, bonded>>
         /\ hci.state \in {"WORKING", "HALTING"}
BY DEF SinkConnects, SinkStreams, port_vars

\* Connections are made while the controller works, and closed before it is off.
LEMMA NextQuietInv ==
  ASSUME PortInv, QuietInv, [SystemNext]_system
  PROVE  QuietInv'
<1>0. /\ hci.state \in {"OFF", "INITIALIZING", "WORKING", "HALTING"}
      /\ hci.state # "OFF" => process = "running"
  BY DEF PortInv, PortTypeOK, ControllerInv
<1>1. CASE SystemStart
  BY <1>1 DEF SystemStart, SinkFresh, QuietInv
<1>2. CASE SinkConnects \/ SinkStreams
  BY <1>2, PortOfSinkStep DEF QuietInv
<1>3. CASE SystemHalted
  BY <1>3 DEF SystemHalted, vars, QuietInv
<1>4. CASE PortStep
  <2>1. UNCHANGED signaling
    BY <1>4 DEF PortStep, vars
  <2>2. CASE ControllerEvent
    <3>1. hci.state = "INITIALIZING" /\ process = "running"
      BY <1>0, <2>2 DEF ControllerEvent, LocalVersionInformation, ZephyrReadStaticAddress, StateWorking
    <3> QED
      BY <2>1, <3>1 DEF QuietInv
  <2>3. CASE Pairing
    BY <2>1, <2>3 DEF Pairing, PinCodeRequest, Bonded, QuietInv
  <2>4. CASE trigger_shutdown
    <3>1. process = "running" /\ PowerOff([statics EXCEPT !.shutdown_triggered = TRUE])
      BY <2>4 DEF trigger_shutdown
    <3>2. CASE hci.state \in {"OFF", "INITIALIZING"}
      BY <2>1, <3>1, <3>2 DEF QuietInv
    <3>3. CASE hci.state \in {"WORKING", "HALTING"}
      BY <2>1, <3>1, <3>3 DEF PowerOff, QuietInv, PortInv, PortTypeOK
    <3> QED
      BY <1>0, <3>2, <3>3
  <2>5. CASE Crash
    BY <2>5 DEF Crash, QuietInv
  <2> QED
    BY <1>4, <2>2, <2>3, <2>4, <2>5 DEF PortStep
<1>5. CASE UNCHANGED system
  BY <1>5 DEF system, port_vars, vars, QuietInv
<1> QED
  BY <1>1, <1>2, <1>3, <1>4, <1>5 DEF SystemNext

\* The flag is set for a process that halts, and gone with it.
LEMMA NextHaltingInv ==
  ASSUME PortInv, HaltingInv, [PortNext]_port_vars
  PROVE  HaltingInv'
<1>0. /\ statics \in StaticsType
      /\ hci.state \in {"OFF", "INITIALIZING", "WORKING", "HALTING"}
  BY DEF PortInv, PortTypeOK, StaticsType
<1>1. CASE Start
  BY <1>1 DEF Start, Main, Fresh, HaltingInv
<1>2. CASE ControllerEvent
  <2>1. ~statics.shutdown_triggered
    BY <1>2 DEF HaltingInv, ControllerEvent, LocalVersionInformation, ZephyrReadStaticAddress, StateWorking
  <2>2. statics'.shutdown_triggered = statics.shutdown_triggered
    BY <1>0, <1>2 DEF StaticsType, ControllerEvent, LocalVersionInformation, ZephyrReadStaticAddress, StateWorking
  <2> QED
    BY <2>1, <2>2 DEF HaltingInv
<1>3. CASE Pairing
  BY <1>3 DEF Pairing, PinCodeRequest, Bonded, HaltingInv
<1>4. ASSUME NEW s \in StaticsType, StateOff(s), s.shutdown_triggered PROVE HaltingInv'
  BY <1>4 DEF StateOff, Fresh, HaltingInv
<1>5. CASE trigger_shutdown
  <2> DEFINE s == [statics EXCEPT !.shutdown_triggered = TRUE]
  <2>1. s \in StaticsType /\ s.shutdown_triggered
    BY <1>0 DEF StaticsType
  <2>2. process = "running" /\ PowerOff(s)
    BY <1>5 DEF trigger_shutdown
  <2> HIDE DEF s
  <2>3. CASE hci.state \in {"OFF", "INITIALIZING"}
    BY <1>4, <2>1, <2>2, <2>3 DEF PowerOff
  <2>4. CASE hci.state \in {"WORKING", "HALTING"}
    <3>1. process' = "running" /\ hci'.state = "HALTING"
      BY <2>2, <2>4 DEF PowerOff, PortInv, PortTypeOK
    <3> QED
      BY <3>1 DEF HaltingInv
  <2> QED
    BY <1>0, <2>3, <2>4
<1>6. CASE Halted
  BY <1>0, <1>6 DEF Halted, StateOff, Fresh, HaltingInv, StaticsType
<1>7. CASE Crash
  BY <1>7 DEF Crash, Fresh, HaltingInv
<1>8. CASE UNCHANGED port_vars
  BY <1>8 DEF port_vars, HaltingInv
<1> QED
  BY <1>1, <1>2, <1>3, <1>5, <1>6, <1>7, <1>8 DEF PortNext

\* The initial states, and the process that is started.
LEMMA InitSystemInv == SystemInit => SystemInv
<1> SUFFICES ASSUME SystemInit PROVE SystemInv
  OBVIOUS
<1>1. PortInv /\ Inv
  BY InitPortInv, InitInv DEF SystemInit
<1>2. QuietInv /\ HaltingInv
  BY DEF SystemInit, PortInit, Init, Fresh, QuietInv, HaltingInv
<1> QED
  BY <1>1, <1>2 DEF SystemInv

\* A new process has the sink's invariant, whatever the last one left.
LEMMA FreshInv == SinkFresh => Inv'
<1>1. Init' => Inv'
  BY InitInv, PTL
<1> QED
  BY <1>1, FreshSink

\* Every step of the system preserves the invariant.
LEMMA NextSystemInv == SystemInv /\ [SystemNext]_system => SystemInv'
<1> SUFFICES ASSUME SystemInv, [SystemNext]_system PROVE SystemInv'
  OBVIOUS
<1>1. PortInv' /\ HaltingInv'
  BY PortOfStep, NextPortInv, NextHaltingInv DEF SystemInv
<1>2. Inv'
  BY SinkOfStep, FreshInv, NextInv DEF SystemInv
<1>3. QuietInv'
  BY NextQuietInv DEF SystemInv
<1> QED
  BY <1>1, <1>2, <1>3 DEF SystemInv

-----------------------------------------------------------------------------
(***************************************************************************)
(* The theorems.                                                           *)
(***************************************************************************)
\* main.c does not notice the sink: the process implements Port, and with it every
\* theorem of PortProofs.
THEOREM ProcessImplementsPort == SystemSpec => PortSpec
<1>1. SystemInit => PortInit
  BY DEF SystemInit
<1> QED
  BY <1>1, PortOfStep, PTL DEF SystemSpec, PortSpec

\* The bonds, and the store that is open, in the process with its sink.
THEOREM ProcessKeepsBonds == SystemSpec => [](PortTypeOK /\ StoreOfController /\ BondsSurvive)
<1>1. PortInv => PortTypeOK /\ StoreOfController /\ BondsSurvive
  BY DEF PortInv
<1> QED
  BY <1>1, ProcessImplementsPort, PortInvariance, PTL

\* The invariants of main.c and of the sink hold in every process, from its start
\* to SIGINT or a crash and over the next start.
THEOREM SystemInvariance == SystemSpec => []SystemInv
BY InitSystemInv, NextSystemInv, PTL DEF SystemSpec

\* With an audio driver, or with one peer, the driver and the wav file are used
\* correctly from any start to the exit.
THEOREM SystemUsesDriversCorrectly ==
  ASSUME HaveAudio \/ SinglePeer
  PROVE  SystemSpec => []NoMisuse
<1>1. SystemInv => NoMisuse
  BY DEF SystemInv, Inv, PlayerInv, WavInv, NoMisuse
<1> QED
  BY <1>1, SystemInvariance, PTL

\* With one peer, 'B' acts on the stream that is open, in every process.
THEOREM SystemCidFollowsStream ==
  ASSUME SinglePeer
  PROVE  SystemSpec => []CidNamesStream
<1>1. SystemInv => CidNamesStream
  BY DEF SystemInv, Inv, SinglePeerInv
<1> QED
  BY <1>1, SystemInvariance, PTL

\* With one peer every packet finds the player open, also those that arrive while
\* the controller is switched off.
THEOREM SystemPacketsFindPlayer ==
  ASSUME SinglePeer
  PROVE  SystemSpec => []MediaFindsPlayer
<1>1. SystemInv => MediaFindsPlayer
  BY DEF SystemInv, Inv, SinglePeerInv, WavInv, MediaFindsPlayer
<1> QED
  BY <1>1, SystemInvariance, PTL

\* Without a connection the player is closed: nothing is left of the stream that
\* SIGINT interrupts once the last connection is gone.
LEMMA PlayerNeedsConnection ==
  ASSUME Inv, signaling = {}
  PROVE  /\ ~media.media_initialized /\ media.audio = "closed"
         /\ HaveAudio \/ SinglePeer => media.wav = "closed"
<1>1. endpoint.state = "idle"
  BY DEF Inv, ConnectionInv
<1>2. ~media.media_initialized /\ media.audio = "closed"
  BY <1>1 DEF Inv, PlayerInv
<1> QED
  BY <1>2 DEF Inv, WavInv

\* A process that ends by SIGINT leaves a complete wav file, with an audio driver
\* or with one peer: trigger_shutdown and the OFF handler do not know of the player,
\* but the connections are closed, and the player with them, before OFF is reported.
THEOREM RecordingIsComplete ==
  ASSUME HaveAudio \/ SinglePeer
  PROVE  SystemSpec => []RecordingComplete
<1>1. SystemInv => RecordingComplete
  <2> SUFFICES ASSUME SystemInv, process = "exited" PROVE media.wav = "closed"
    BY DEF RecordingComplete
  <2>1. signaling = {}
    BY DEF SystemInv, QuietInv, PortInv, ControllerInv
  <2> QED
    BY <2>1, PlayerNeedsConnection DEF SystemInv
<1> QED
  BY <1>1, SystemInvariance, PTL

\* A controller that comes up, or is off, finds no player open and no driver
\* running: what the last process left, however it ended, is not seen again.
QuietUntilWorking ==
  process = "running" /\ hci.state \in {"OFF", "INITIALIZING"} =>
    ~media.media_initialized /\ media.audio = "closed" /\ pc = "run_loop"

\* Until its controller works, a process has no player open, whatever the last one left.
THEOREM SinkQuietUntilWorking == SystemSpec => []QuietUntilWorking
<1>1. SystemInv => QuietUntilWorking
  <2> SUFFICES ASSUME SystemInv, process = "running", hci.state \in {"OFF", "INITIALIZING"}
               PROVE  ~media.media_initialized /\ media.audio = "closed" /\ pc = "run_loop"
    BY DEF QuietUntilWorking
  <2>1. signaling = {}
    BY DEF SystemInv, QuietInv
  <2>2. ~media.media_initialized /\ media.audio = "closed"
    BY <2>1, PlayerNeedsConnection DEF SystemInv
  <2> QED
    BY <2>2 DEF SystemInv, Inv, TypeOK, PlaybackInv
<1> QED
  BY <1>1, SystemInvariance, PTL

\* The safety half of ShutdownEnds: after SIGINT a process that still runs is
\* halting, no peer connects to it any more, and it cannot be started over; what
\* is left to happen is that BTstack closes the connections and reports OFF.
ShutdownOnlyCloses ==
  /\ [](statics.shutdown_triggered => process = "running" /\ hci.state = "HALTING")
  /\ [][statics.shutdown_triggered =>
          \/ process' # "running"
          \/ statics'.shutdown_triggered /\ signaling' \subseteq signaling]_system

\* After SIGINT connections only go, and the flag stays until the process ends.
THEOREM ShutdownClosesConnections == SystemSpec => ShutdownOnlyCloses
<1> DEFINE A == statics.shutdown_triggered =>
                  \/ process' # "running"
                  \/ statics'.shutdown_triggered /\ signaling' \subseteq signaling
<1>1. SystemInv => (statics.shutdown_triggered => process = "running" /\ hci.state = "HALTING")
  BY DEF SystemInv, HaltingInv
<1>2. SystemInv /\ [SystemNext]_system => [A]_system
  <2> SUFFICES ASSUME SystemInv, SystemNext, statics.shutdown_triggered
               PROVE  \/ process' # "running"
                      \/ statics'.shutdown_triggered /\ signaling' \subseteq signaling
    OBVIOUS
  <2>0. process = "running" /\ hci.state = "HALTING" /\ statics \in StaticsType
    BY <1>1 DEF SystemInv, PortInv, PortTypeOK, StaticsType
  <2>1. CASE SystemStart \/ SinkConnects
    BY <2>0, <2>1 DEF SystemStart, Start, Main, SinkConnects
  <2>2. CASE SinkStreams
    <3>1. UNCHANGED statics
      BY <2>2, PortOfSinkStep
    <3>2. signaling' \subseteq signaling
      BY <2>2 DEF SinkStreams, A2dpEvent, SbcConfiguration, StreamEstablished, StreamFailed, StreamStarted,
                  StreamSuspended, StreamReleased, SignalingReleased, MediaPacket, Playback,
                  PlaybackRequest, ReadFrame, handle_pcm_data, PlaybackReturn, app, console, playing, stack
    <3> QED
      BY <3>1, <3>2
  <2>3. CASE SystemHalted
    BY <2>3 DEF SystemHalted, Halted, StateOff
  <2>4. CASE PortStep
    <3>1. UNCHANGED signaling
      BY <2>4 DEF PortStep, vars
    <3>2. CASE ControllerEvent
      BY <2>0, <3>2 DEF ControllerEvent, LocalVersionInformation, ZephyrReadStaticAddress, StateWorking
    <3>3. CASE Pairing
      BY <3>1, <3>3 DEF Pairing, PinCodeRequest, Bonded
    <3>4. CASE trigger_shutdown
      BY <2>0, <3>1, <3>4 DEF trigger_shutdown, PowerOff, StaticsType
    <3>5. CASE Crash
      BY <3>5 DEF Crash
    <3> QED
      BY <2>4, <3>2, <3>3, <3>4, <3>5 DEF PortStep
  <2> QED
    BY <2>1, <2>2, <2>3, <2>4 DEF SystemNext
<1> QED
  BY <1>1, <1>2, SystemInvariance, PTL DEF SystemSpec, ShutdownOnlyCloses

\* The refinement survives the process: over starts, SIGINT and crashes the sink
\* still implements FramePlayer, a new process being a player that was closed.
THEOREM SystemRefinement == SystemSpec => ImplementsFramePlayer
<1>1. SystemInit => Frames!Init
  BY InitMaps DEF SystemInit
<1>2. SystemInv /\ SystemInv' /\ [SystemNext]_system => [Frames!Next]_Frames!vars
  <2> SUFFICES ASSUME SystemInv, SystemInv', [SystemNext]_system PROVE [Frames!Next]_Frames!vars
    OBVIOUS
  <2>1. CASE SinkFresh
    <3>1. Frames!Close
      BY <2>1 DEF SinkFresh, NoMedia, Frames!Close, player_bar, queue_bar
    <3> QED
      BY <3>1 DEF Frames!Next
  <2>2. CASE [Next]_vars
    BY <2>2, NextMaps DEF SystemInv
  <2> QED
    BY <2>1, <2>2, SinkOfStep
<1> QED
  BY <1>1, <1>2, SystemInvariance, PTL DEF SystemSpec, ImplementsFramePlayer, Frames!Spec

=============================================================================
