------------------------------ MODULE MCAvrcp --------------------------------
(***************************************************************************)
(* Instances of Avrcp: one peer, and two peers whose targets differ.       *)
(***************************************************************************)
EXTENDS Avrcp

CONSTANTS p1, p2, h1

OnePeer == {p1}
TwoPeers == {p1, p2}
OneHandle == {h1}

SomeEvents == {"PLAYBACK_STATUS_CHANGED", "TRACK_CHANGED", "UIDS_CHANGED"}
MoreEvents == SomeEvents \cup {"PLAYBACK_POS_CHANGED"}

\* The second target knows nothing of UIDs.
AllOrSome == [p \in Peers |-> IF p = p1 THEN Events ELSE Events \ {"UIDS_CHANGED"}]

=============================================================================
