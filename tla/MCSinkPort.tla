----------------------------- MODULE MCSinkPort ------------------------------
(***************************************************************************)
(* An instance of SinkPort: a Realtek controller and one with Zephyr       *)
(* firmware, which share a public address as cheap dongles do; one peer;   *)
(* and a ring of three bytes, which the packets overrun.                   *)
(***************************************************************************)
EXTENDS SinkPort

CONSTANTS realtek, zephyr, public, static, p1, c1

TwoControllers == {realtek, zephyr}
TwoAddresses   == {public, static}
Vendors == [c \in TwoControllers |-> IF c = realtek THEN "realtek" ELSE "linux_foundation"]
Publics == [c \in TwoControllers |-> public]
Statics == [c \in TwoControllers |-> static]

OnePeer == {p1}
OneConfig == {c1}

\* Packets of one and two frames of a byte each.
OneBytePackets ==
  [c \in OneConfig |-> {[num_frames |-> n, bytes |-> n, ends |-> 1..n] : n \in {1, 2}}]

=============================================================================
