----------------------------- MODULE MCA2dpSink ------------------------------
(***************************************************************************)
(* Instances of A2dpSink for TLC: small rings and frames for the           *)
(* exhaustive run, the program's own numbers for the runs about the length *)
(* of frames.                                                              *)
(***************************************************************************)
EXTENDS A2dpSink

CONSTANTS p1, p2, c1, c2

OnePeer  == {p1}
TwoPeers == {p1, p2}
TwoConfigs == {c1, c2}
OneConfig  == {c1}

\* A packet of n frames of s bytes.
Packet(n, s) == [num_frames |-> n, bytes |-> n * s, ends |-> {k * s : k \in 1..n}]

\* Under c1 the bitpool may change, between two packets and inside one; c2 has
\* frames of one length.
MixedPackets ==
  [c \in {c1, c2} |->
     IF c = c1 THEN {Packet(1, 3), [num_frames |-> 2, bytes |-> 5, ends |-> {2, 5}]}
     ELSE {Packet(1, 3)}]

\* The length of an SBC frame of two channels, 16 blocks and 8 subbands in the
\* A2DP specification (external): header and scale factors, then the bits of the
\* blocks, coded once for each channel in dual channel mode and with a join flag
\* per subband in joint stereo mode.
DualChannel(bitpool) == 4 + 8 + (2 * 16 * bitpool + 7) \div 8
JointStereo(bitpool) == 4 + 8 + (8 + 16 * bitpool + 7) \div 8

\* The highest bitpool the capabilities advertise, and a middle one.
JointStereoPackets == [c \in {c1, c2} |-> {Packet(5, JointStereo(IF c = c1 THEN 53 ELSE 35))}]
DualChannelPackets == [c \in {c1} |-> {Packet(3, DualChannel(53))}]

\* A peer that lowers the bitpool to 20 when the radio is poor, and raises it again.
BitpoolPackets == [c \in {c1} |-> {Packet(5, JointStereo(53)), Packet(12, JointStereo(20))}]

=============================================================================
