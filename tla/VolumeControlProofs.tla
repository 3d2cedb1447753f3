------------------------- MODULE VolumeControlProofs -------------------------
(***************************************************************************)
(* Proofs about VolumeControl: the conversions between percent and 0..127, *)
(* and what follows for any sequence of keys and peer commands.            *)
(***************************************************************************)
EXTENDS VolumeControl, TLAPS

\* Both conversions stay in range and round down by less than one unit.
LEMMA Conversions ==
  /\ \A p \in 0..100 : /\ ToVolume(p) \in 0..MAX_VOLUME
                       /\ 100 * ToVolume(p) <= 127 * p
                       /\ 127 * p < 100 * ToVolume(p) + 100
  /\ \A v \in 0..MAX_VOLUME : /\ ToPercent(v) \in 0..100
                              /\ 127 * ToPercent(v) <= 100 * v
                              /\ 100 * v < 127 * ToPercent(v) + 127
BY DEF ToVolume, ToPercent, MAX_VOLUME

\* The keys keep the percentage in range and move it by ten or to the end.
LEMMA KeysInRange ==
  \A p \in 0..100 : /\ Louder(p) \in 0..100
                    /\ Louder(p) = 100 \/ Louder(p) = p + 10
                    /\ Softer(p) \in 0..100
                    /\ Softer(p) = 0 \/ Softer(p) = p - 10
BY DEF Louder, Softer

\* Ten percent outweigh the rounding of either conversion.
LEMMA KeysOutweighRounding ==
  ASSUME NEW p \in 0..100, NEW v \in 0..MAX_VOLUME,
         127 * p < 100 * (v + 1), 100 * v < 127 * (p + 1)
  PROVE  /\ ToVolume(Louder(p)) > v \/ ToVolume(Louder(p)) = MAX_VOLUME
         /\ ToVolume(Softer(p)) < v \/ ToVolume(Softer(p)) = 0
<1>1. ToVolume(100) = MAX_VOLUME /\ ToVolume(0) = 0
  BY DEF ToVolume, MAX_VOLUME
<1>2. ASSUME NEW l \in 0..100 PROVE l = p + 10 => ToVolume(l) > v
  <2>1. ToVolume(l) \in 0..MAX_VOLUME
    BY Conversions
  <2>2. 127 * l < 100 * ToVolume(l) + 100
    BY Conversions
  <2> QED
    BY <2>1, <2>2 DEF MAX_VOLUME
<1>3. ASSUME NEW s \in 0..100 PROVE s = p - 10 => ToVolume(s) < v
  <2>1. ToVolume(s) \in 0..MAX_VOLUME
    BY Conversions
  <2>2. 100 * ToVolume(s) <= 127 * s
    BY Conversions
  <2> QED
    BY <2>1, <2>2 DEF MAX_VOLUME
<1> QED
  BY <1>1, <1>2, <1>3, KeysInRange

\* The properties, and that nothing is agreed on without a peer: otherwise a key
\* would change the driver's volume under a peer that keeps the old one.
VolumeInv ==
  /\ TypeOK
  /\ VolumeInSync
  /\ PeerInformed
  /\ agreed => connected

\* The invariant is inductive, for every percentage and volume.
LEMMA Induction ==
  /\ Init => VolumeInv
  /\ VolumeInv /\ [Next]_vars => VolumeInv'
<1> USE VolumeAssumption DEF VolumeAssumption, VolumeInv, PeerInformed
<1>1. Init => VolumeInv
  <2>1. AVRCP_BATTERY_STATUS_WARNING \in BatteryStatus
    BY DEF BatteryStatus, AVRCP_BATTERY_STATUS_NORMAL, AVRCP_BATTERY_STATUS_WARNING,
           AVRCP_BATTERY_STATUS_FULL_CHARGE
  <2>2. Init => TypeOK
    <3>1. 0 \in 0..100
      OBVIOUS
    <3> QED
      BY <2>1, <3>1 DEF Init, TypeOK
  <2>3. Init => VolumeInSync
    <3>1. Init => audio_volume = NoVolume
      BY DEF Init
    <3> QED
      BY <3>1 DEF VolumeInSync
  <2>4. Init => PeerInformed /\ (agreed => connected)
    BY DEF Init
  <2> QED
    BY <2>2, <2>3, <2>4
<1>2. ASSUME VolumeInv, [Next]_vars PROVE VolumeInv'
  <2> USE <1>2 DEF TypeOK
  <2>1. ASSUME NEW p \in 0..100, SetVolume(p) PROVE VolumeInv'
    <3>1. /\ ToVolume(p) \in 0..MAX_VOLUME
          /\ 100 * ToVolume(p) <= 127 * p
          /\ 127 * p < 100 * ToVolume(p) + 100
      BY Conversions
    <3>2. TypeOK'
      BY <2>1, <3>1 DEF SetVolume
    <3>3. VolumeInSync'
      <4>1. volume_percent' = p /\ audio_volume' = ToVolume(p)
        BY <2>1 DEF SetVolume
      <4>2. /\ 127 * p < 100 * (ToVolume(p) + 1)
            /\ 100 * ToVolume(p) < 127 * (p + 1)
        BY <3>1 DEF MAX_VOLUME
      <4> QED
        BY <4>1, <4>2 DEF VolumeInSync, MAX_VOLUME
    <3>4. PeerInformed'
      BY <2>1 DEF SetVolume
    <3>5. agreed' => connected'
      BY <2>1 DEF SetVolume
    <3> QED
      BY <3>2, <3>3, <3>4, <3>5
  <2>2. CASE VolumeUp \/ VolumeDown
    BY <2>1, <2>2, KeysInRange DEF VolumeUp, VolumeDown
  <2>3. CASE ToggleBattery
    <3>1. NextBattery(battery_status) \in BatteryStatus
      BY DEF NextBattery, BatteryStatus, AVRCP_BATTERY_STATUS_NORMAL, AVRCP_BATTERY_STATUS_FULL_CHARGE
    <3> QED
      BY <2>3, <3>1 DEF ToggleBattery, VolumeInSync
  <2>4. ASSUME NEW v \in 0..MAX_VOLUME, VolumeChanged(v) PROVE VolumeInv'
    <3>1. /\ ToPercent(v) \in 0..100
          /\ 127 * ToPercent(v) <= 100 * v
          /\ 100 * v < 127 * ToPercent(v) + 127
      BY Conversions
    <3>2. VolumeInSync'
      <4>1. volume_percent' = ToPercent(v) /\ audio_volume' = v
        BY <2>4 DEF VolumeChanged
      <4>2. /\ 127 * ToPercent(v) < 100 * (v + 1)
            /\ 100 * v < 127 * (ToPercent(v) + 1)
        BY <3>1 DEF MAX_VOLUME
      <4> QED
        BY <4>1, <4>2 DEF VolumeInSync, MAX_VOLUME
    <3> QED
      BY <2>4, <3>1, <3>2 DEF VolumeChanged
  <2>5. CASE ConnectionEstablished
    BY <2>5 DEF ConnectionEstablished, VolumeInSync, MAX_VOLUME
  <2>6. CASE ConnectionReleased
    BY <2>6 DEF ConnectionReleased, VolumeInSync
  <2>7. CASE UNCHANGED vars
    BY <2>7 DEF vars, VolumeInSync
  <2> QED
    BY <2>2, <2>3, <2>4, <2>5, <2>6, <2>7 DEF Next
<1> QED
  BY <1>1, <1>2

\* So it holds after any sequence of keys, peer commands and reconnects.
LEMMA Invariant == Spec => []VolumeInv
BY Induction, PTL DEF Spec

\* Type correctness: no command, however late or often repeated, drives the
\* percentage out of 0..100 or the volume out of AVRCP's seven bits.
THEOREM VolumeTypeCorrect == Spec => []TypeOK
<1>1. VolumeInv => TypeOK
  BY DEF VolumeInv
<1> QED
  BY <1>1, Invariant, PTL

\* Percentage shown and volume heard stay within one step of each other, whichever
\* side set the volume and however often it was converted.
THEOREM VolumeStaysInSync == Spec => []VolumeInSync
<1>1. VolumeInv => VolumeInSync
  BY DEF VolumeInv
<1> QED
  BY <1>1, Invariant, PTL

\* A peer on whose connection the volume was set knows the volume that is heard,
\* whatever it was answered before, and every connected peer the battery status.
THEOREM PeerStaysInformed == Spec => []PeerInformed
<1>1. VolumeInv => PeerInformed
  BY DEF VolumeInv
<1> QED
  BY <1>1, Invariant, PTL

\* Volume up is heard as louder and volume down as softer, up to the ends of the
\* range: ten percent outweigh the rounding.
THEOREM KeysHeard == Spec => KeysAreHeard
<1> DEFINE Heard ==
      audio_volume # NoVolume =>
        /\ VolumeUp => audio_volume' > audio_volume \/ audio_volume' = MAX_VOLUME
        /\ VolumeDown => audio_volume' < audio_volume \/ audio_volume' = 0
<1>1. VolumeInv => Heard
  <2> SUFFICES ASSUME VolumeInv, audio_volume # NoVolume PROVE Heard
    OBVIOUS
  <2>0. /\ volume_percent \in 0..100 /\ audio_volume \in 0..MAX_VOLUME
        /\ 127 * volume_percent < 100 * (audio_volume + 1)
        /\ 100 * audio_volume < 127 * (volume_percent + 1)
    BY DEF VolumeInv, TypeOK, VolumeInSync, MAX_VOLUME
  <2>1. /\ \/ ToVolume(Louder(volume_percent)) > audio_volume
           \/ ToVolume(Louder(volume_percent)) = MAX_VOLUME
        /\ \/ ToVolume(Softer(volume_percent)) < audio_volume
           \/ ToVolume(Softer(volume_percent)) = 0
    BY <2>0, KeysOutweighRounding
  <2>2. VolumeUp => audio_volume' = ToVolume(Louder(volume_percent))
    BY DEF VolumeUp, SetVolume
  <2>3. VolumeDown => audio_volume' = ToVolume(Softer(volume_percent))
    BY DEF VolumeDown, SetVolume
  <2> QED
    BY <2>1, <2>2, <2>3
<1>2. VolumeInv => [Heard]_vars
  BY <1>1
<1> QED
  BY <1>2, Invariant, PTL DEF KeysAreHeard

\* A volume within a step of a percentage converts to it or to one percent less.
LEMMA RoundTrip ==
  ASSUME NEW p \in 0..100, NEW v \in 0..MAX_VOLUME,
         127 * p < 100 * (v + 1), 100 * v < 127 * (p + 1)
  PROVE  ToPercent(v) \in {p, p - 1}
<1>1. PICK q \in 0..100 : q = ToPercent(v)
  BY Conversions
<1>2. 127 * q <= 100 * v /\ 100 * v < 127 * q + 127
  BY <1>1, Conversions
<1>3. v \in Int
  BY DEF MAX_VOLUME
<1>4. q < p + 1
  BY <1>2, <1>3
<1>5. p < q + 2
  BY <1>2, <1>3
<1> QED
  BY <1>1, <1>4, <1>5

\* A peer that sets the volume it was told takes at most one percent off the
\* display, and nothing the second time, after any sequence of keys and commands.
THEOREM EchoesSettle == Spec => EchoSettles
<1> DEFINE Settles ==
      \A volume \in {audio_volume} \ {NoVolume} :
        VolumeChanged(volume) =>
          /\ volume_percent' \in {volume_percent, volume_percent - 1}
          /\ volume_percent = ToPercent(volume) => volume_percent' = volume_percent
<1>1. VolumeInv => Settles
  <2> SUFFICES ASSUME VolumeInv, audio_volume # NoVolume, VolumeChanged(audio_volume)
               PROVE  /\ volume_percent' \in {volume_percent, volume_percent - 1}
                      /\ volume_percent = ToPercent(audio_volume) => volume_percent' = volume_percent
    OBVIOUS
  <2>1. volume_percent' = ToPercent(audio_volume)
    BY DEF VolumeChanged
  <2>2. /\ volume_percent \in 0..100 /\ audio_volume \in 0..MAX_VOLUME
        /\ 127 * volume_percent < 100 * (audio_volume + 1)
        /\ 100 * audio_volume < 127 * (volume_percent + 1)
    BY DEF VolumeInv, TypeOK, VolumeInSync, MAX_VOLUME
  <2>3. ToPercent(audio_volume) \in {volume_percent, volume_percent - 1}
    BY <2>2, RoundTrip
  <2> QED
    BY <2>1, <2>3
<1>2. VolumeInv => [Settles]_vars
  BY <1>1
<1> QED
  BY <1>2, Invariant, PTL DEF EchoSettles

=============================================================================
