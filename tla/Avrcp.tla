-------------------------------- MODULE Avrcp --------------------------------
(***************************************************************************)
(* The AVRCP side of avrcp/avrcp.c: connections, the controller's events   *)
(* and the console commands that concern them, composed with the cover art *)
(* client of CoverArt, which the controller connects and disconnects.      *)
(* The application keeps one connection; BTstack (external) serves any     *)
(* number of peers and delivers the events of all of them.                 *)
(***************************************************************************)
EXTENDS Naturals

CONSTANTS
  Peers, NoCid,
  Events,                \* notification events
  Supported,             \* Supported[p]: the events p's target role supports
  Handles, NoHandle, IMAGE_SIZE, MAX_FILES  \* see CoverArt

\* Mutation: the player's UIDs are not watched.
AutoEnabled_without_uids == {"PLAYBACK_STATUS_CHANGED", "NOW_PLAYING_CONTENT_CHANGED",
                             "TRACK_CHANGED"}

\* What the handler enables once the capabilities are known, in Events.
AutoEnabled == {"PLAYBACK_STATUS_CHANGED", "NOW_PLAYING_CONTENT_CHANGED",
                "TRACK_CHANGED", "UIDS_CHANGED"}

\* What the console enables and disables ('a', 'A'; 'R', 'P').
ConsoleEvents == {"TRACK_CHANGED", "PLAYBACK_POS_CHANGED"} \cap Events

VARIABLES
  avrcp_connection,      \* avrcp_cid, playing, and notifications_supported_by_target as a set
  device_addr,
  link,                  \* external: BTstack's AVRCP connections
  cover_art, client, transfer, cover_jpg, handle_valid  \* see CoverArt

Art == INSTANCE CoverArt

art  == <<cover_art, client, transfer, cover_jpg, handle_valid>>
vars == <<avrcp_connection, device_addr, link, art>>

ASSUME AvrcpAssumption ==
  /\ Art!CoverArtAssumption
  /\ Supported \in [Peers -> SUBSET Events]

ClosedLink == [state |-> "closed", query |-> FALSE, pending |-> {}, registered |-> {}]

\* A link asks for capabilities (query), has events still to name (pending), and
\* reports the notifications registered on it.
TypeOK ==
  /\ avrcp_connection \in [avrcp_cid : Peers \cup {NoCid}, playing : BOOLEAN,
                           notifications_supported : SUBSET Events]
  /\ device_addr \in Peers
  /\ link \in [Peers -> [state : {"closed", "connecting", "open"}, query : BOOLEAN,
                         pending : SUBSET Events, registered : SUBSET Events]]
  /\ Art!TypeOK

Init ==
  /\ avrcp_connection = [avrcp_cid |-> NoCid, playing |-> FALSE, notifications_supported |-> {}]
  /\ device_addr \in Peers
  /\ link = [p \in Peers |-> ClosedLink]
  /\ Art!Init

avrcp_cid == avrcp_connection.avrcp_cid

-----------------------------------------------------------------------------
\* Console 'c': BTstack writes the cid of the connection it starts, or refuses.
Connect ==
  /\ IF link[device_addr].state = "closed"
     THEN /\ link' = [link EXCEPT ![device_addr].state = "connecting"]
          /\ avrcp_connection' = [avrcp_connection EXCEPT !.avrcp_cid = device_addr]
     ELSE UNCHANGED <<link, avrcp_connection>>
  /\ UNCHANGED <<device_addr, art>>

\* A peer connects; the application hears of it when the connection is complete.
Incoming(p) ==
  /\ link[p].state = "closed"
  /\ link' = [link EXCEPT ![p].state = "connecting"]
  /\ UNCHANGED <<avrcp_connection, device_addr, art>>

\* An A2DP stream is established (A2dpSink!StreamEstablished): from now on the
\* console and the cover art client address that peer.
A2dpStreamEstablished(p) ==
  /\ device_addr' = p
  /\ UNCHANGED <<avrcp_connection, link, art>>

-----------------------------------------------------------------------------
(***************************************************************************)
(* avrcp_packet_handler.  None of the three looks whether the event is     *)
(* about the connection avrcp_cid names.                                   *)
(***************************************************************************)
\* Mutation: the cid in the event is not kept.
ConnectionEstablished_without_cid(p) ==
  /\ link[p].state = "connecting"
  /\ link' = [link EXCEPT ![p] = [@ EXCEPT !.state = "open", !.query = TRUE,
                                           !.pending = Supported[p]]]
  /\ device_addr' = p
  /\ UNCHANGED <<avrcp_connection, art>>

ConnectionEstablished(p) ==
  /\ link[p].state = "connecting"
  /\ link' = [link EXCEPT ![p] = [@ EXCEPT !.state = "open", !.query = TRUE,
                                           !.pending = Supported[p]]]
  /\ avrcp_connection' = [avrcp_connection EXCEPT !.avrcp_cid = p]
  /\ device_addr' = p
  /\ UNCHANGED art

\* Mutation: the cid of the connection that failed is kept.
ConnectionFailed_keeping_cid(p) ==
  /\ link[p].state = "connecting"
  /\ link' = [link EXCEPT ![p] = ClosedLink]
  /\ UNCHANGED <<avrcp_connection, device_addr, art>>

ConnectionFailed(p) ==
  /\ link[p].state = "connecting"
  /\ link' = [link EXCEPT ![p] = ClosedLink]
  /\ avrcp_connection' = [avrcp_connection EXCEPT !.avrcp_cid = NoCid]
  /\ UNCHANGED <<device_addr, art>>

\* Mutation: the capabilities of the target that left are kept.
ConnectionReleased_keeping_capabilities(p) ==
  /\ link[p].state = "open"
  /\ link' = [link EXCEPT ![p] = ClosedLink]
  /\ avrcp_connection' = [avrcp_connection EXCEPT !.avrcp_cid = NoCid]
  /\ UNCHANGED <<device_addr, art>>

\* On request ('C') or not.
ConnectionReleased(p) ==
  /\ link[p].state = "open"
  /\ link' = [link EXCEPT ![p] = ClosedLink]
  /\ avrcp_connection' = [avrcp_connection EXCEPT !.avrcp_cid = NoCid,
                                                  !.notifications_supported = {}]
  /\ UNCHANGED <<device_addr, art>>

-----------------------------------------------------------------------------
(***************************************************************************)
(* avrcp_controller_packet_handler: nothing is handled while avrcp_cid is  *)
(* 0, and what is handled is taken to come from, and is answered to, the   *)
(* connection avrcp_cid names.                                             *)
(***************************************************************************)
Reachable(p) == p \in Peers /\ link[p].state = "open"

\* avrcp_controller_enable_notification, refused for a cid that is not connected
\* or an event its target does not support.
Registering(events) ==
  IF Reachable(avrcp_cid)
  THEN [link EXCEPT ![avrcp_cid].registered = @ \cup (events \cap Supported[avrcp_cid])]
  ELSE link

Capability(p, e) ==
  /\ link[p].query
  /\ e \in link[p].pending
  /\ link' = [link EXCEPT ![p].pending = @ \ {e}]
  /\ IF avrcp_cid = NoCid
     THEN UNCHANGED avrcp_connection
     ELSE avrcp_connection' = [avrcp_connection EXCEPT !.notifications_supported = @ \cup {e}]
  /\ UNCHANGED <<device_addr, art>>

\* Mutation: the cover art client is left to the console.
CapabilityDone_without_cover_art(p) ==
  /\ link[p].query
  /\ link[p].pending = {}
  /\ link' = [IF avrcp_cid = NoCid THEN link ELSE Registering(AutoEnabled)
                EXCEPT ![p].query = FALSE]
  /\ UNCHANGED <<avrcp_connection, device_addr, art>>

CapabilityDone(p) ==
  /\ link[p].query
  /\ link[p].pending = {}
  /\ IF avrcp_cid = NoCid
     THEN /\ link' = [link EXCEPT ![p].query = FALSE]
          /\ UNCHANGED art
     ELSE /\ link' = [Registering(AutoEnabled) EXCEPT ![p].query = FALSE]
          /\ Art!cover_art_connect(device_addr, Reachable(device_addr))
  /\ UNCHANGED <<avrcp_connection, device_addr>>

PlaybackStatusChanged(p, status) ==
  /\ "PLAYBACK_STATUS_CHANGED" \in link[p].registered
  /\ avrcp_cid # NoCid
  /\ avrcp_connection' = [avrcp_connection EXCEPT !.playing = (status = "PLAYING")]
  /\ UNCHANGED <<device_addr, link, art>>

UidsChanged(p) ==
  /\ "UIDS_CHANGED" \in link[p].registered
  /\ avrcp_cid # NoCid
  /\ Art!UidsChanged
  /\ UNCHANGED <<avrcp_connection, device_addr, link>>

\* The answer to 'j', get now playing info.
CoverArtInfo(p, h) ==
  /\ Reachable(p)
  /\ avrcp_cid # NoCid
  /\ Art!CoverArtInfo(h)
  /\ UNCHANGED <<avrcp_connection, device_addr, link>>

-----------------------------------------------------------------------------
\* Console 'a' and 'R'.
EnableNotification(e) ==
  /\ link' = Registering({e})
  /\ UNCHANGED <<avrcp_connection, device_addr, art>>

\* Console 'A' and 'P'.
DisableNotification(e) ==
  /\ link' = IF Reachable(avrcp_cid) THEN [link EXCEPT ![avrcp_cid].registered = @ \ {e}]
             ELSE link
  /\ UNCHANGED <<avrcp_connection, device_addr, art>>

\* Console 'd' connects to device_addr; 'D' and '@' and the client's events are
\* CoverArt's.
CoverArt ==
  /\ \/ Art!cover_art_connect(device_addr, Reachable(device_addr))
     \/ Art!Disconnect
     \/ \E ok \in BOOLEAN : Art!GetThumbnail(ok)
     \/ Art!CoverArtEvent
  /\ UNCHANGED <<avrcp_connection, device_addr, link>>

-----------------------------------------------------------------------------
Console ==
  \/ Connect
  \/ \E e \in ConsoleEvents : EnableNotification(e) \/ DisableNotification(e)

PeerEvent(p) ==
  \/ Incoming(p)
  \/ A2dpStreamEstablished(p)
  \/ ConnectionEstablished(p)
  \/ ConnectionFailed(p)
  \/ ConnectionReleased(p)
  \/ \E e \in Events : Capability(p, e)
  \/ CapabilityDone(p)
  \/ \E status \in {"PLAYING", "PAUSED"} : PlaybackStatusChanged(p, status)
  \/ UidsChanged(p)
  \/ \E h \in Handles : CoverArtInfo(p, h)

Next == Console \/ CoverArt \/ \E p \in Peers : PeerEvent(p)

Spec == Init /\ [][Next]_vars

\* A peer answers the capability query, and BTstack completes the disconnect of
\* the cover art client.
Fairness ==
  /\ \A p \in Peers : WF_vars((\E e \in Events : Capability(p, e)) \/ CapabilityDone(p))
  /\ WF_vars(client.disconnecting /\ Art!ConnectionReleased
             /\ UNCHANGED <<avrcp_connection, device_addr, link>>)

FairSpec == Spec /\ Fairness

-----------------------------------------------------------------------------
\* avrcp_cid is 0 only while nobody is connected, so the console's commands reach
\* a connected peer and the controller drops no event; the usage text relies on
\* it ("Not connected, press 'b' or 'c' to first connect AVRCP").  One peer only.
CidNamesConnection == avrcp_cid = NoCid => \A p \in Peers : link[p].state # "open"

\* "supported notifications by target": the set kept is what the connected
\* target has named so far, through refused, failed and lost connections.  One
\* peer only.
SupportedByTarget ==
  \A p \in Peers : link[p].state = "open" /\ avrcp_cid = p =>
    avrcp_connection.notifications_supported = Supported[p] \ link[p].pending

\* avrcp_cid never names a connection that is gone: the commands that go to it
\* find a connection, or one that is being set up.  The handler achieves it by
\* forgetting the cid whichever connection fails or is released.
CidNeverDangles == avrcp_cid # NoCid => link[avrcp_cid].state # "closed"

\* "image handles become invalid on player change": once a target has answered the
\* query its UIDs are watched, whatever the console enables and disables.  One peer
\* only.
UidsWatched ==
  \A p \in Peers :
    link[p].state = "open" /\ ~link[p].query /\ "UIDS_CHANGED" \in Supported[p] =>
      "UIDS_CHANGED" \in link[p].registered

\* The properties of CoverArt, while connections of both kinds come and go.
CoverArtTracked == Art!ClientTracked
FileUsedCorrectly == Art!FileUsedCorrectly
ThumbnailInFile == Art!ThumbnailInFile
UidsChangeDisconnects == Art!UidsChangeDisconnects
CompleteMeansWhole == Art!CompleteMeansWhole
RequestsValidHandle == Art!RequestsValidHandle
DisconnectCompletes == Art!DisconnectCompletes

\* A capability query on a connection that stays up ends with an attempt to
\* connect the cover art client ("trigger cover art client connection").
CoverArtIsTried ==
  \A p \in Peers : link[p].query ~> ~Reachable(p) \/ client.state # "idle"

=============================================================================
