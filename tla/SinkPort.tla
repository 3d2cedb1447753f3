------------------------------- MODULE SinkPort ------------------------------
(***************************************************************************)
(* The sink of A2dpSink inside the process of Port, with or without an     *)
(* audio driver.  The sink starts with the process; peers connect while    *)
(* the controller works; when it is switched off BTstack closes their      *)
(* connections before the state OFF is reported; a crash takes the sink    *)
(* with it, in the middle of a playback callback if it must.               *)
(***************************************************************************)
EXTENDS Port, A2dpSink

\* Whoever streams may also be bonded.
ASSUME SinkPortAssumption == Peers \subseteq Devices

system == <<port_vars, vars>>

SystemInit == PortInit /\ Init

\* Init for the process that starts: the globals of the sink are its own.
SinkFresh ==
  /\ a2dp_cid' = NoCid
  /\ device_addr' \in Peers
  /\ stream_state' = "CLOSED"
  /\ sbc_configuration' = NoConfiguration
  /\ media' = NoMedia
  /\ request_frames' = 0 /\ decoded' = 0 /\ pc' = "run_loop"
  /\ signaling' = {} /\ disconnecting' = {}
  /\ endpoint' = IdleEndpoint /\ late_bytes' = 0

SystemStart == Start /\ SinkFresh

\* Connections are accepted while the controller works.
SinkConnects ==
  /\ hci.state = "WORKING"
  /\ \/ EstablishStream
     \/ Disconnect
     \/ \E p \in Peers : SignalingConnected(p) \/ AvrcpConnected(p)
  /\ UNCHANGED port_vars

\* Streams, and the audio driver, go on until they are closed.
SinkStreams ==
  /\ hci.state \in {"WORKING", "HALTING"}
  /\ \/ A2dpEvent
     \/ \E p \in AllPackets : MediaPacket(p)
     \/ Playback
  /\ UNCHANGED port_vars

\* BTstack reports OFF when all connections are closed.
SystemHalted ==
  /\ pc = "run_loop"
  /\ signaling = {}
  /\ Halted
  /\ UNCHANGED vars

\* The run loop hands over the events of the controller; SIGINT, and the end of the
\* process, come at any point.
PortStep ==
  /\ \/ pc = "run_loop" /\ (ControllerEvent \/ Pairing)
     \/ trigger_shutdown
     \/ Crash
  /\ UNCHANGED vars

SystemNext ==
  \/ SystemStart
  \/ SinkConnects
  \/ SinkStreams
  \/ SystemHalted
  \/ PortStep

SystemSpec == SystemInit /\ [][SystemNext]_system

\* BTstack closes the connections of a controller it switches off, and reports it.
Closing ==
  /\ hci.state = "HALTING"
  /\ \E p \in Peers : SignalingReleased(p)
  /\ UNCHANGED port_vars

Decoding == (ReadFrame \/ \E r \in Resampled : handle_pcm_data(r)) /\ UNCHANGED port_vars

Returning == PlaybackReturn /\ UNCHANGED port_vars

(***************************************************************************)
(* Fairness: as in A2dpSink the run loop returns to a callback it has      *)
(* entered, and serves BTstack however often the audio timer comes first,  *)
(* hence strong fairness of Closing.                                       *)
(***************************************************************************)
SystemFairness ==
  /\ WF_system(Decoding) /\ WF_system(Returning)
  /\ SF_system(Closing)
  /\ WF_system(SystemHalted)

FairSystemSpec == SystemSpec /\ SystemFairness

-----------------------------------------------------------------------------
\* "Audio will be stored to '%s' file": a process that ends by SIGINT, at whatever
\* moment, leaves a wav file whose header was completed, though neither
\* trigger_shutdown nor the OFF handler knows of the player.
RecordingComplete == process = "exited" => media.wav = "closed"

=============================================================================
