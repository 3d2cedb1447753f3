---------------------------- MODULE VolumeControl ----------------------------
(***************************************************************************)
(* The AVRCP target role: the volume and the battery status of the sink,   *)
(* changed from the console ('t', 'T', 'V') and, the volume, by the peer   *)
(* (avrcp_target_packet_handler).  The console counts in percent, AVRCP    *)
(* and the audio driver in 0..127, and either side is rounded down from    *)
(* the other.                                                              *)
(*                                                                         *)
(* BTstack keeps a volume for each connection, which it answers when the   *)
(* peer registers for changes of the volume.  The program hands it a       *)
(* volume with every key, but none when the connection comes up.           *)
(***************************************************************************)
EXTENDS Integers

CONSTANTS
  NoVolume, NoStatus,
  StackVolume          \* external: the volume BTstack gives a new connection

ASSUME VolumeAssumption ==
  NoVolume \notin Int /\ NoStatus \notin Int /\ StackVolume \in 0..127

VARIABLES
  volume_percent,
  audio_volume,       \* as last handed to avrcp_volume_changed, NoVolume before
  battery_status,
  connected,          \* external: an AVRCP connection is up
  target_volume,      \* external: the volume the peer is answered or told
  agreed,             \* external: a volume was set on this connection, by either side
  target_battery      \* external: the battery status the peer is answered or told

vars == <<volume_percent, audio_volume, battery_status, connected,
          target_volume, agreed, target_battery>>

MAX_VOLUME == 127
AVRCP_BATTERY_STATUS_NORMAL == 0
AVRCP_BATTERY_STATUS_WARNING == 1
AVRCP_BATTERY_STATUS_FULL_CHARGE == 4
BatteryStatus == AVRCP_BATTERY_STATUS_NORMAL..AVRCP_BATTERY_STATUS_FULL_CHARGE

TypeOK ==
  /\ volume_percent \in 0..100
  /\ audio_volume \in 0..MAX_VOLUME \cup {NoVolume}
  /\ battery_status \in BatteryStatus
  /\ connected \in BOOLEAN
  /\ target_volume \in 0..MAX_VOLUME \cup {NoVolume}
  /\ agreed \in BOOLEAN
  /\ target_battery \in BatteryStatus \cup {NoStatus}

Init ==
  /\ volume_percent = 0
  /\ audio_volume = NoVolume
  /\ battery_status = AVRCP_BATTERY_STATUS_WARNING
  /\ connected = FALSE
  /\ target_volume = NoVolume
  /\ agreed = FALSE
  /\ target_battery = NoStatus

\* Mutations: the scale computed first; a scale of 128 steps, in seven bits; a
\* scale of 128 steps.
ToVolume_scale_first(percent) == percent * (MAX_VOLUME \div 100)
ToVolume_of_128(percent) == ((percent * (MAX_VOLUME + 1)) \div 100) % 128
ToPercent_of_128(volume) == (volume * 100) \div (MAX_VOLUME + 1)

ToVolume(percent) == (percent * MAX_VOLUME) \div 100
ToPercent(volume) == (volume * 100) \div MAX_VOLUME

\* Mutation: the limit is checked too late.
Louder_beyond_limit(percent) == IF percent <= 99 THEN percent + 10 ELSE 100

Louder(percent) == IF percent <= 90 THEN percent + 10 ELSE 100
Softer(percent) == IF percent >= 10 THEN percent - 10 ELSE 0

-----------------------------------------------------------------------------
\* What 't' and 'T' share: the peer is told if there is one, the driver always.
SetVolume(percent) ==
  /\ volume_percent' = percent
  /\ audio_volume' = ToVolume(percent)
  /\ target_volume' = IF connected THEN ToVolume(percent) ELSE target_volume
  /\ agreed' = connected
  /\ UNCHANGED <<battery_status, connected, target_battery>>

VolumeUp == SetVolume(Louder(volume_percent))
VolumeDown == SetVolume(Softer(volume_percent))

\* Console 'V': the next status, NORMAL after FULL_CHARGE.
NextBattery(status) ==
  IF status < AVRCP_BATTERY_STATUS_FULL_CHARGE THEN status + 1 ELSE AVRCP_BATTERY_STATUS_NORMAL

ToggleBattery ==
  /\ battery_status' = NextBattery(battery_status)
  /\ target_battery' = IF connected THEN battery_status' ELSE target_battery
  /\ UNCHANGED <<volume_percent, audio_volume, connected, target_volume, agreed>>

\* AVRCP_SUBEVENT_NOTIFICATION_VOLUME_CHANGED: the peer sets the volume.
VolumeChanged(volume) ==
  /\ connected
  /\ volume_percent' = ToPercent(volume)
  /\ audio_volume' = volume
  /\ target_volume' = volume
  /\ agreed' = TRUE
  /\ UNCHANGED <<battery_status, connected, target_battery>>

\* Mutation: a new peer is not told the battery status.
ConnectionEstablished_untold ==
  /\ ~connected
  /\ connected' = TRUE
  /\ target_volume' = StackVolume
  /\ UNCHANGED <<volume_percent, audio_volume, battery_status, agreed, target_battery>>

\* avrcp_packet_handler, as far as the target is concerned: both events are
\* offered, but only the battery status is handed over.  Who asks for the volume
\* gets BTstack's own until somebody sets it.
ConnectionEstablished ==
  /\ ~connected
  /\ connected' = TRUE
  /\ target_volume' = StackVolume
  /\ target_battery' = battery_status
  /\ UNCHANGED <<volume_percent, audio_volume, battery_status, agreed>>

ConnectionReleased ==
  /\ connected
  /\ connected' = FALSE
  /\ target_volume' = NoVolume
  /\ agreed' = FALSE
  /\ target_battery' = NoStatus
  /\ UNCHANGED <<volume_percent, audio_volume, battery_status>>

Next ==
  \/ VolumeUp
  \/ VolumeDown
  \/ ToggleBattery
  \/ \E volume \in 0..MAX_VOLUME : VolumeChanged(volume)
  \/ ConnectionEstablished
  \/ ConnectionReleased

Spec == Init /\ [][Next]_vars

-----------------------------------------------------------------------------
\* The percentage shown is never a whole step of the volume too high for the volume
\* heard, nor the volume a whole percent too high for the percentage, however often
\* one was converted into the other.
VolumeInSync ==
  audio_volume # NoVolume =>
    /\ MAX_VOLUME * volume_percent < 100 * (audio_volume + 1)
    /\ 100 * audio_volume < MAX_VOLUME * (volume_percent + 1)

\* From the first time a key or the peer sets the volume on a connection, the peer
\* knows the volume that is heard; the battery status it knows from the start.
\* (What it is answered before is BTstack's volume, right or wrong.)
PeerInformed ==
  /\ agreed => target_volume = audio_volume
  /\ connected => target_battery = battery_status

\* "volume up for 10 percent" is heard as louder unless it is as loud as can be,
\* "volume down" as softer, whatever the rounding has done before.
KeysAreHeard ==
  [][audio_volume # NoVolume =>
       /\ VolumeUp => audio_volume' > audio_volume \/ audio_volume' = MAX_VOLUME
       /\ VolumeDown => audio_volume' < audio_volume \/ audio_volume' = 0]_vars

\* A peer that answers a volume by setting that same volume takes at most one
\* percent off the display, once: the next answer changes nothing.
EchoSettles ==
  [][\A volume \in {audio_volume} \ {NoVolume} :
       VolumeChanged(volume) =>
         /\ volume_percent' \in {volume_percent, volume_percent - 1}
         /\ volume_percent = ToPercent(volume) => volume_percent' = volume_percent]_vars

=============================================================================
