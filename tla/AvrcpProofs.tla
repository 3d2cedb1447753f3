----------------------------- MODULE AvrcpProofs -----------------------------
(***************************************************************************)
(* Proofs about Avrcp and the cover art client in it, for any peers,       *)
(* events and handles: first what the client's handlers keep, then what    *)
(* the connections keep, then the two together.                            *)
(***************************************************************************)
EXTENDS Avrcp, TLAPS

\* BTstack's client: idle it remembers nothing; only a connected one is on its way
\* out, works on a transfer, or can have been connected when the UIDs changed.
ClientInv ==
  /\ client.state = "idle" => client.peer = NoCid
  /\ client.state # "connected" =>
       ~client.disconnecting /\ ~client.stale /\ ~transfer.running

\* The FILE* is open only during a download, and what it holds has been counted;
\* a download has no more data than the transfer has delivered.
FileInv ==
  /\ cover_art.file = "open" =>
       cover_art.download_active /\ cover_jpg.packets = cover_art.file_size
  /\ transfer.running /\ cover_art.download_active => cover_art.file_size <= transfer.sent

ArtInv ==
  /\ Art!TypeOK
  /\ Art!ClientTracked
  /\ ClientInv
  /\ FileInv
  /\ Art!FileUsedCorrectly
  /\ Art!ThumbnailInFile
  /\ Art!UidsChangeDisconnects

\* What the ranges of the counters contain.
LEMMA ImageSize ==
  /\ IMAGE_SIZE \in Nat \ {0} /\ MAX_FILES \in Nat /\ NoCid \notin Peers
  /\ 0 \in 0..IMAGE_SIZE /\ 0 \in 0..MAX_FILES
BY AvrcpAssumption DEF AvrcpAssumption, Art!CoverArtAssumption

\* Nothing is connected, transferred or open at first.
LEMMA InitArtInv == Art!Init => ArtInv
<1> SUFFICES ASSUME Art!Init PROVE ArtInv
  OBVIOUS
<1>1. Art!TypeOK
  BY ImageSize DEF Art!Init, Art!TypeOK, Art!IdleClient, Art!NoTransfer
<1>2. /\ Art!ClientTracked /\ ClientInv /\ FileInv
      /\ Art!FileUsedCorrectly /\ Art!ThumbnailInFile /\ Art!UidsChangeDisconnects
  BY DEF Art!Init, Art!ClientTracked, ClientInv, FileInv, Art!FileUsedCorrectly,
         Art!ThumbnailInFile, Art!UidsChangeDisconnects, Art!IdleClient, Art!NoTransfer
<1> QED
  BY <1>1, <1>2 DEF ArtInv

\* The parts that concern the connection, and those that concern the file.
LEMMA ArtParts ==
  ASSUME Art!TypeOK', (Art!ClientTracked /\ ClientInv /\ Art!UidsChangeDisconnects)',
         (FileInv /\ Art!FileUsedCorrectly /\ Art!ThumbnailInFile)'
  PROVE  ArtInv'
BY DEF ArtInv

\* A connection attempt that is accepted is for the cid that is kept.
LEMMA ConnectKeepsArt ==
  ASSUME ArtInv, NEW p \in Peers, NEW reachable \in BOOLEAN, Art!cover_art_connect(p, reachable)
  PROVE  ArtInv'
<1> USE DEF ArtInv, Art!rest, Art!vars
<1>1. CASE client.state = "idle" /\ reachable
  <2>0. /\ client' = [Art!IdleClient EXCEPT !.peer = p, !.state = "connecting"]
        /\ cover_art' = [cover_art EXCEPT !.cid = p]
        /\ UNCHANGED <<transfer, cover_jpg, handle_valid>>
    BY <1>1 DEF Art!cover_art_connect
  <2>1. Art!TypeOK'
    BY <2>0 DEF Art!TypeOK, Art!IdleClient
  <2>2. (Art!ClientTracked /\ ClientInv /\ Art!UidsChangeDisconnects)'
    BY <1>1, <2>0 DEF Art!TypeOK, Art!ClientTracked, ClientInv, Art!UidsChangeDisconnects, Art!IdleClient
  <2>3. (FileInv /\ Art!FileUsedCorrectly /\ Art!ThumbnailInFile)'
    BY <2>0 DEF Art!TypeOK, FileInv, Art!FileUsedCorrectly, Art!ThumbnailInFile
  <2> QED
    BY <2>1, <2>2, <2>3, ArtParts
<1>2. CASE ~(client.state = "idle" /\ reachable)
  <2>1. UNCHANGED <<cover_art, client, transfer, cover_jpg, handle_valid>>
    BY <1>2 DEF Art!cover_art_connect
  <2> QED
    BY <2>1 DEF Art!TypeOK, Art!ClientTracked, ClientInv, FileInv, Art!FileUsedCorrectly,
                Art!ThumbnailInFile, Art!UidsChangeDisconnects
<1> QED
  BY <1>1, <1>2

\* A disconnect, of the console or after a change of the UIDs, finds the client by
\* the cid that is kept.
LEMMA DisconnectKeepsArt ==
  ASSUME ArtInv, Art!Disconnect \/ Art!UidsChanged
  PROVE  ArtInv'
<1> USE DEF ArtInv, Art!rest
<1>1. UNCHANGED <<cover_art, transfer, cover_jpg>>
  BY DEF Art!Disconnect, Art!UidsChanged
<1>2. /\ client'.peer = client.peer /\ client'.state = client.state
      /\ client' \in [peer : Peers \cup {NoCid}, state : {"idle", "connecting", "connected"},
                      disconnecting : BOOLEAN, stale : BOOLEAN]
      /\ handle_valid' \in BOOLEAN
  BY DEF Art!Disconnect, Art!UidsChanged, Art!client_disconnect, Art!TypeOK
<1>3. /\ client'.state # "connected" => ~client'.disconnecting /\ ~client'.stale
      /\ client'.stale => client'.disconnecting
  BY DEF Art!Disconnect, Art!UidsChanged, Art!client_disconnect, Art!TypeOK, Art!ClientTracked,
         ClientInv, Art!UidsChangeDisconnects
<1>4. Art!TypeOK'
  BY <1>1, <1>2 DEF Art!TypeOK
<1>5. (Art!ClientTracked /\ ClientInv /\ Art!UidsChangeDisconnects)'
  BY <1>1, <1>2, <1>3 DEF Art!ClientTracked, ClientInv, Art!UidsChangeDisconnects
<1>6. (FileInv /\ Art!FileUsedCorrectly /\ Art!ThumbnailInFile)'
  BY <1>1 DEF FileInv, Art!FileUsedCorrectly, Art!ThumbnailInFile
<1> QED
  BY <1>4, <1>5, <1>6, ArtParts

\* '@' starts a download from nothing, whatever becomes of the request.
LEMMA GetThumbnailKeepsArt ==
  ASSUME ArtInv, NEW ok \in BOOLEAN, Art!GetThumbnail(ok)
  PROVE  ArtInv'
<1> USE DEF ArtInv
<1>1. /\ UNCHANGED <<client, handle_valid>>
      /\ cover_art' = [cover_art EXCEPT !.file = IF ok THEN "open" ELSE "NULL",
                                        !.download_active = TRUE, !.file_size = 0]
      /\ cover_jpg'.packets = IF ok THEN 0 ELSE cover_jpg.packets
      /\ cover_jpg'.failed = (cover_jpg.failed \/ ~ok)
      /\ cover_jpg' \in [packets : 0..IMAGE_SIZE, opens : 0..MAX_FILES, failed : BOOLEAN]
  BY ImageSize DEF Art!GetThumbnail, Art!Downloading, Art!fopen, Art!TypeOK
<1>2. /\ transfer' \in [running : BOOLEAN, handle : Handles \cup {NoHandle}, sent : 0..IMAGE_SIZE,
                        undisturbed : BOOLEAN, valid : BOOLEAN]
      /\ transfer'.running => client.state = "connected"
      /\ transfer'.running /\ transfer'.undisturbed => ok /\ transfer'.sent = 0
  <2>1. CASE ~transfer.running /\ client.state = "connected" /\ client.peer = cover_art.cid
    BY <2>1, ImageSize DEF Art!GetThumbnail, Art!get_linked_thumbnail, Art!TypeOK
  <2>2. CASE ~(~transfer.running /\ client.state = "connected" /\ client.peer = cover_art.cid)
    BY <2>2 DEF Art!GetThumbnail, Art!get_linked_thumbnail, Art!TypeOK, ClientInv
  <2> QED
    BY <2>1, <2>2
<1>3. Art!TypeOK'
  BY <1>1, <1>2, ImageSize DEF Art!TypeOK
<1>4. (Art!ClientTracked /\ ClientInv /\ Art!UidsChangeDisconnects)'
  BY <1>1, <1>2 DEF Art!TypeOK, Art!ClientTracked, ClientInv, Art!UidsChangeDisconnects
<1>5. (FileInv /\ Art!FileUsedCorrectly /\ Art!ThumbnailInFile)'
  BY <1>1, <1>2, ImageSize DEF Art!TypeOK, FileInv, Art!FileUsedCorrectly, Art!ThumbnailInFile
<1> QED
  BY <1>3, <1>4, <1>5, ArtParts

\* Connection events keep flag and cid in step, and end transfers.
LEMMA ConnectionKeepsArt ==
  ASSUME ArtInv,
         Art!ConnectionEstablished \/ Art!ConnectionFailed \/ Art!ConnectionReleased
  PROVE  ArtInv'
<1> USE DEF ArtInv, Art!rest
<1>1. CASE Art!ConnectionEstablished
  <2>1. Art!TypeOK'
    BY <1>1 DEF Art!ConnectionEstablished, Art!TypeOK
  <2>2. (Art!ClientTracked /\ ClientInv /\ Art!UidsChangeDisconnects)'
    BY <1>1 DEF Art!ConnectionEstablished, Art!TypeOK, Art!ClientTracked, ClientInv,
                Art!UidsChangeDisconnects
  <2>3. (FileInv /\ Art!FileUsedCorrectly /\ Art!ThumbnailInFile)'
    BY <1>1 DEF Art!ConnectionEstablished, Art!TypeOK, FileInv, Art!FileUsedCorrectly,
                Art!ThumbnailInFile
  <2> QED
    BY <2>1, <2>2, <2>3, ArtParts
<1>2. CASE Art!ConnectionFailed
  <2>1. Art!TypeOK'
    BY <1>2 DEF Art!ConnectionFailed, Art!TypeOK, Art!IdleClient
  <2>2. (Art!ClientTracked /\ ClientInv /\ Art!UidsChangeDisconnects)'
    BY <1>2 DEF Art!ConnectionFailed, Art!TypeOK, Art!ClientTracked, ClientInv,
                Art!UidsChangeDisconnects, Art!IdleClient
  <2>3. (FileInv /\ Art!FileUsedCorrectly /\ Art!ThumbnailInFile)'
    BY <1>2 DEF Art!ConnectionFailed, Art!TypeOK, FileInv, Art!FileUsedCorrectly,
                Art!ThumbnailInFile
  <2> QED
    BY <2>1, <2>2, <2>3, ArtParts
<1>3. CASE Art!ConnectionReleased
  <2>1. Art!TypeOK'
    BY <1>3, ImageSize DEF Art!ConnectionReleased, Art!TypeOK, Art!IdleClient, Art!NoTransfer
  <2>2. (Art!ClientTracked /\ ClientInv /\ Art!UidsChangeDisconnects)'
    BY <1>3 DEF Art!ConnectionReleased, Art!TypeOK, Art!ClientTracked, ClientInv,
                Art!UidsChangeDisconnects, Art!IdleClient, Art!NoTransfer
  <2>3. (FileInv /\ Art!FileUsedCorrectly /\ Art!ThumbnailInFile)'
    BY <1>3 DEF Art!ConnectionReleased, Art!TypeOK, FileInv, Art!FileUsedCorrectly,
                Art!ThumbnailInFile, Art!NoTransfer
  <2> QED
    BY <2>1, <2>2, <2>3, ArtParts
<1> QED
  BY <1>1, <1>2, <1>3

\* Data is written and counted once; completion closes the file.
LEMMA TransferKeepsArt ==
  ASSUME ArtInv, Art!Data \/ Art!OperationComplete
  PROVE  ArtInv'
<1> USE DEF ArtInv
<1>1. CASE Art!Data /\ cover_art.download_active
  <2>0. /\ transfer.running /\ transfer.sent < IMAGE_SIZE
        /\ transfer' = [transfer EXCEPT !.sent = @ + 1]
        /\ cover_art' = [cover_art EXCEPT !.file_size = @ + 1,
                           !.file = IF cover_art.file = "open" THEN "open" ELSE "misused"]
        /\ cover_jpg' = IF cover_art.file = "open" THEN [cover_jpg EXCEPT !.packets = @ + 1]
                        ELSE cover_jpg
        /\ UNCHANGED <<client, handle_valid>>
    BY <1>1 DEF Art!Data, Art!fwrite, Art!Used
  <2>1. /\ transfer.sent \in Nat /\ cover_art.file_size \in Nat /\ cover_jpg.packets \in Nat
        /\ cover_art.file_size <= transfer.sent
        /\ cover_art.file = "open" => cover_jpg.packets = cover_art.file_size
    BY <1>1, <2>0, ImageSize DEF Art!TypeOK, FileInv
  <2>2. Art!TypeOK'
    <3>1. cover_art.file_size + 1 \in 0..IMAGE_SIZE /\ transfer.sent + 1 \in 0..IMAGE_SIZE
          /\ (cover_art.file = "open" => cover_jpg.packets + 1 \in 0..IMAGE_SIZE)
      BY <2>0, <2>1, ImageSize
    <3> QED
      BY <2>0, <3>1 DEF Art!TypeOK
  <2>3. (Art!ClientTracked /\ ClientInv /\ Art!UidsChangeDisconnects)'
    BY <2>0 DEF Art!TypeOK, Art!ClientTracked, ClientInv, Art!UidsChangeDisconnects
  <2>4. (FileInv /\ Art!FileUsedCorrectly /\ Art!ThumbnailInFile)'
    BY <1>1, <2>0, <2>1 DEF Art!TypeOK, FileInv, Art!FileUsedCorrectly, Art!ThumbnailInFile
  <2> QED
    BY <2>2, <2>3, <2>4, ArtParts
<1>2. CASE Art!Data /\ ~cover_art.download_active
  <2>0. /\ transfer.sent < IMAGE_SIZE
        /\ transfer' = [transfer EXCEPT !.sent = @ + 1]
        /\ UNCHANGED <<cover_art, cover_jpg, client, handle_valid>>
    BY <1>2 DEF Art!Data
  <2>1. transfer.sent + 1 \in 0..IMAGE_SIZE
    BY <2>0, ImageSize DEF Art!TypeOK
  <2>2. Art!TypeOK'
    BY <2>0, <2>1 DEF Art!TypeOK
  <2>3. (Art!ClientTracked /\ ClientInv /\ Art!UidsChangeDisconnects)'
    BY <2>0 DEF Art!TypeOK, Art!ClientTracked, ClientInv, Art!UidsChangeDisconnects
  <2>4. (FileInv /\ Art!FileUsedCorrectly /\ Art!ThumbnailInFile)'
    BY <1>2, <2>0 DEF Art!TypeOK, FileInv, Art!FileUsedCorrectly, Art!ThumbnailInFile
  <2> QED
    BY <2>2, <2>3, <2>4, ArtParts
<1>3. CASE Art!OperationComplete
  <2>0. /\ transfer' = Art!NoTransfer
        /\ cover_art' = IF cover_art.download_active
                        THEN [cover_art EXCEPT !.download_active = FALSE,
                                !.file = IF cover_art.file = "open" THEN "NULL" ELSE "misused"]
                        ELSE cover_art
        /\ UNCHANGED <<client, cover_jpg, handle_valid>>
    BY <1>3 DEF Art!OperationComplete, Art!Downloaded, Art!Used
  <2>1. Art!TypeOK'
    BY <2>0, ImageSize DEF Art!TypeOK, Art!NoTransfer
  <2>2. (Art!ClientTracked /\ ClientInv /\ Art!UidsChangeDisconnects)'
    BY <2>0 DEF Art!TypeOK, Art!ClientTracked, ClientInv, Art!UidsChangeDisconnects, Art!NoTransfer
  <2>3. (FileInv /\ Art!FileUsedCorrectly /\ Art!ThumbnailInFile)'
    BY <2>0 DEF Art!TypeOK, FileInv, Art!FileUsedCorrectly, Art!ThumbnailInFile, Art!NoTransfer
  <2> QED
    BY <2>1, <2>2, <2>3, ArtParts
<1> QED
  BY <1>1, <1>2, <1>3

\* An image handle is only kept.
LEMMA CoverArtInfoKeepsArt ==
  ASSUME ArtInv, NEW h \in Handles, Art!CoverArtInfo(h)
  PROVE  ArtInv'
<1> USE DEF ArtInv
<1>0. /\ cover_art' = [cover_art EXCEPT !.image_handle = h] /\ handle_valid' = TRUE
      /\ UNCHANGED <<client, transfer, cover_jpg>>
  BY DEF Art!CoverArtInfo
<1>1. Art!TypeOK'
  BY <1>0 DEF Art!TypeOK
<1>2. (Art!ClientTracked /\ ClientInv /\ Art!UidsChangeDisconnects)'
  BY <1>0 DEF Art!TypeOK, Art!ClientTracked, ClientInv, Art!UidsChangeDisconnects
<1>3. (FileInv /\ Art!FileUsedCorrectly /\ Art!ThumbnailInFile)'
  BY <1>0 DEF Art!TypeOK, FileInv, Art!FileUsedCorrectly, Art!ThumbnailInFile
<1> QED
  BY <1>1, <1>2, <1>3, ArtParts

-----------------------------------------------------------------------------
(***************************************************************************)
(* The connections.  Any number of peers: types, and a cid that is set     *)
(* names a connection.                                                     *)
(***************************************************************************)
LinkRecord == [state : {"closed", "connecting", "open"}, query : BOOLEAN,
               pending : SUBSET Events, registered : SUBSET Events]

LinkTypes ==
  /\ avrcp_connection \in [avrcp_cid : Peers \cup {NoCid}, playing : BOOLEAN,
                           notifications_supported : SUBSET Events]
  /\ device_addr \in Peers
  /\ link \in [Peers -> LinkRecord]

LinkInv == LinkTypes /\ CidNeverDangles

\* A registration is of supported events, and changes nothing else of a link.
LEMMA RegisteringLinks ==
  ASSUME LinkTypes, NEW events
  PROVE  /\ Registering(events) \in [Peers -> LinkRecord]
         /\ \A p \in Peers : /\ Registering(events)[p].state = link[p].state
                             /\ Registering(events)[p].query = link[p].query
                             /\ Registering(events)[p].pending = link[p].pending
                             /\ link[p].registered \subseteq Registering(events)[p].registered
         /\ Reachable(avrcp_cid) =>
              events \cap Supported[avrcp_cid] \subseteq Registering(events)[avrcp_cid].registered
<1>1. CASE ~Reachable(avrcp_cid)
  BY <1>1 DEF Registering, LinkTypes
<1>2. CASE Reachable(avrcp_cid)
  <2>1. /\ avrcp_cid \in Peers /\ Supported[avrcp_cid] \subseteq Events
        /\ Registering(events) =
             [link EXCEPT ![avrcp_cid].registered = @ \cup (events \cap Supported[avrcp_cid])]
    BY <1>2, AvrcpAssumption DEF Registering, Reachable, AvrcpAssumption
  <2> QED
    BY <2>1 DEF LinkTypes, LinkRecord
<1> QED
  BY <1>1, <1>2

\* A console command leaves states, queries and connection alone, except 'c'.
LEMMA NotificationLinks ==
  ASSUME LinkTypes, NEW e \in ConsoleEvents, EnableNotification(e) \/ DisableNotification(e)
  PROVE  /\ UNCHANGED <<avrcp_connection, device_addr, art>>
         /\ link' \in [Peers -> LinkRecord]
         /\ \A p \in Peers : /\ link'[p].state = link[p].state
                             /\ link'[p].query = link[p].query
                             /\ link'[p].pending = link[p].pending
                             /\ link[p].registered \ {e} \subseteq link'[p].registered
<1>1. CASE EnableNotification(e)
  BY <1>1, RegisteringLinks DEF EnableNotification
<1>2. CASE DisableNotification(e)
  BY <1>2 DEF DisableNotification, LinkTypes, LinkRecord, Reachable
<1> QED
  BY <1>1, <1>2

\* The answer to the query is complete: states and pending events stay, the query ends.
LEMMA CapabilityDoneLinks ==
  ASSUME LinkTypes, NEW p \in Peers, CapabilityDone(p)
  PROVE  /\ UNCHANGED <<avrcp_connection, device_addr>>
         /\ link' \in [Peers -> LinkRecord]
         /\ \A q \in Peers : /\ link'[q].state = link[q].state
                             /\ link'[q].query => link[q].query
                             /\ q # p => link'[q].query = link[q].query
                             /\ link'[q].pending = link[q].pending
                             /\ link[q].registered \subseteq link'[q].registered
         /\ Reachable(avrcp_cid) =>
              AutoEnabled \cap Supported[avrcp_cid] \subseteq link'[avrcp_cid].registered
<1>0. UNCHANGED <<avrcp_connection, device_addr>>
  BY DEF CapabilityDone
<1>1. CASE avrcp_cid = NoCid
  <2>1. link' = [link EXCEPT ![p].query = FALSE] /\ link \in [Peers -> LinkRecord]
    BY <1>1 DEF CapabilityDone, LinkTypes
  <2>2. ~Reachable(avrcp_cid)
    BY <1>1, ImageSize DEF Reachable
  <2>5. /\ link' \in [Peers -> LinkRecord]
        /\ \A q \in Peers : /\ link'[q].state = link[q].state
                            /\ link'[q].pending = link[q].pending
                            /\ link'[q].registered = link[q].registered
                            /\ link'[q].query => link[q].query
                            /\ q # p => link'[q].query = link[q].query
    BY <2>1 DEF LinkRecord
  <2> QED
    BY <1>0, <2>2, <2>5
<1>2. CASE avrcp_cid # NoCid
  <2>1. PICK links : links = Registering(AutoEnabled)
    OBVIOUS
  <2>2. /\ links \in [Peers -> LinkRecord]
        /\ \A q \in Peers : /\ links[q].state = link[q].state
                            /\ links[q].query = link[q].query
                            /\ links[q].pending = link[q].pending
                            /\ link[q].registered \subseteq links[q].registered
        /\ Reachable(avrcp_cid) =>
             AutoEnabled \cap Supported[avrcp_cid] \subseteq links[avrcp_cid].registered
    BY <2>1, RegisteringLinks
  <2>3. link' = [links EXCEPT ![p].query = FALSE]
    BY <1>2, <2>1 DEF CapabilityDone
  <2>4. Reachable(avrcp_cid) => avrcp_cid \in Peers
    BY DEF Reachable
  <2>5. /\ link' \in [Peers -> LinkRecord]
        /\ \A q \in Peers : /\ link'[q].state = links[q].state
                            /\ link'[q].pending = links[q].pending
                            /\ link'[q].registered = links[q].registered
                            /\ link'[q].query => links[q].query
                            /\ q # p => link'[q].query = links[q].query
    BY <2>2, <2>3 DEF LinkRecord
  <2> QED
    BY <1>0, <2>2, <2>4, <2>5
<1> QED
  BY <1>1, <1>2

\* Nobody is connected at first, and no cid is kept.
LEMMA InitLinkInv == Init => LinkInv
BY ImageSize DEF Init, LinkInv, LinkTypes, LinkRecord, CidNeverDangles, ClosedLink, avrcp_cid

\* No step leaves a cid behind that names a closed connection: the handler forgets
\* the cid whichever connection fails or is released.
LEMMA StepKeepsLinkInv == LinkInv /\ [Next]_vars => LinkInv'
<1> SUFFICES ASSUME LinkInv, [Next]_vars PROVE LinkInv'
  OBVIOUS
<1> USE DEF LinkInv
<1>1. CASE Connect
  <2>1. CASE link[device_addr].state = "closed"
    BY <1>1, <2>1 DEF Connect, LinkTypes, LinkRecord, CidNeverDangles, avrcp_cid
  <2>2. CASE link[device_addr].state # "closed"
    BY <1>1, <2>2 DEF Connect, LinkTypes, CidNeverDangles, avrcp_cid
  <2> QED
    BY <2>1, <2>2
<1>2. ASSUME NEW e \in ConsoleEvents, EnableNotification(e) \/ DisableNotification(e)
      PROVE  LinkInv'
  BY <1>2, NotificationLinks DEF LinkTypes, CidNeverDangles, avrcp_cid
<1>3. CASE CoverArt
  BY <1>3 DEF CoverArt, LinkTypes, CidNeverDangles, avrcp_cid
<1>4. ASSUME NEW p \in Peers, PeerEvent(p)
      PROVE  LinkInv'
  <2>0. Supported[p] \subseteq Events
    BY AvrcpAssumption DEF AvrcpAssumption
  <2>1. CASE Incoming(p)
    BY <2>1 DEF Incoming, LinkTypes, LinkRecord, CidNeverDangles, avrcp_cid
  <2>2. CASE A2dpStreamEstablished(p)
    BY <2>2 DEF A2dpStreamEstablished, LinkTypes, CidNeverDangles, avrcp_cid
  <2>3. CASE ConnectionEstablished(p)
    BY <2>0, <2>3 DEF ConnectionEstablished, LinkTypes, LinkRecord, CidNeverDangles, avrcp_cid
  <2>4. CASE ConnectionFailed(p)
    BY <2>4 DEF ConnectionFailed, LinkTypes, LinkRecord, CidNeverDangles, avrcp_cid, ClosedLink
  <2>5. CASE ConnectionReleased(p)
    BY <2>5 DEF ConnectionReleased, LinkTypes, LinkRecord, CidNeverDangles, avrcp_cid, ClosedLink
  <2>6. ASSUME NEW e \in Events, Capability(p, e)
        PROVE  LinkInv'
    BY <2>6 DEF Capability, LinkTypes, LinkRecord, CidNeverDangles, avrcp_cid
  <2>7. CASE CapabilityDone(p)
    BY <2>7, CapabilityDoneLinks DEF LinkTypes, CidNeverDangles, avrcp_cid
  <2>8. ASSUME NEW status \in {"PLAYING", "PAUSED"}, PlaybackStatusChanged(p, status)
        PROVE  LinkInv'
    BY <2>8 DEF PlaybackStatusChanged, LinkTypes, CidNeverDangles, avrcp_cid
  <2>9. CASE UidsChanged(p)
    BY <2>9 DEF UidsChanged, LinkTypes, CidNeverDangles, avrcp_cid
  <2>10. ASSUME NEW h \in Handles, CoverArtInfo(p, h)
         PROVE  LinkInv'
    BY <2>10 DEF CoverArtInfo, LinkTypes, CidNeverDangles, avrcp_cid
  <2> QED
    BY <1>4, <2>1, <2>2, <2>3, <2>4, <2>5, <2>6, <2>7, <2>8, <2>9, <2>10 DEF PeerEvent
<1>5. CASE UNCHANGED vars
  BY <1>5 DEF vars, LinkTypes, CidNeverDangles, avrcp_cid
<1> QED
  BY <1>1, <1>2, <1>3, <1>4, <1>5 DEF Next, Console

\* What the AVRCP handlers do to the cover art client is CoverArt's: a step of Avrcp
\* is one of CoverArt's or leaves the client alone.
LEMMA ArtOfStep == LinkInv /\ [Next]_vars => [Art!Next]_Art!vars
<1> SUFFICES ASSUME LinkInv, [Next]_vars PROVE [Art!Next]_Art!vars
  OBVIOUS
<1>0. ASSUME UNCHANGED art PROVE [Art!Next]_Art!vars
  BY <1>0 DEF art, Art!vars, Art!rest
<1>1. device_addr \in Peers /\ Reachable(device_addr) \in BOOLEAN
  BY DEF LinkInv, LinkTypes, Reachable
<1>2. ASSUME Art!cover_art_connect(device_addr, Reachable(device_addr)) PROVE Art!Next
  BY <1>1, <1>2 DEF Art!Next
<1>3. CASE Console
  BY <1>0, <1>3 DEF Console, Connect, EnableNotification, DisableNotification
<1>4. CASE CoverArt
  BY <1>2, <1>4 DEF CoverArt, Art!Next
<1>5. ASSUME NEW p \in Peers, PeerEvent(p)
      PROVE  [Art!Next]_Art!vars
  <2>1. CASE \/ Incoming(p) \/ A2dpStreamEstablished(p) \/ ConnectionEstablished(p)
             \/ ConnectionFailed(p) \/ ConnectionReleased(p)
             \/ \E e \in Events : Capability(p, e)
             \/ \E status \in {"PLAYING", "PAUSED"} : PlaybackStatusChanged(p, status)
    BY <1>0, <2>1 DEF Incoming, A2dpStreamEstablished, ConnectionEstablished, ConnectionFailed,
                      ConnectionReleased, Capability, PlaybackStatusChanged
  <2>2. CASE CapabilityDone(p)
    BY <1>0, <1>2, <2>2 DEF CapabilityDone
  <2>3. CASE UidsChanged(p)
    BY <2>3 DEF UidsChanged, Art!Next
  <2>4. CASE \E h \in Handles : CoverArtInfo(p, h)
    BY <2>4 DEF CoverArtInfo, Art!Next
  <2> QED
    BY <1>5, <2>1, <2>2, <2>3, <2>4 DEF PeerEvent
<1>6. CASE UNCHANGED vars
  BY <1>0, <1>6 DEF vars
<1> QED
  BY <1>3, <1>4, <1>5, <1>6 DEF Next

\* Every step of the client keeps its invariant.
LEMMA StepKeepsArt == ArtInv /\ [Art!Next]_Art!vars => ArtInv'
<1> SUFFICES ASSUME ArtInv, [Art!Next]_Art!vars PROVE ArtInv'
  OBVIOUS
<1>1. CASE Art!Next
  BY <1>1, ConnectKeepsArt, DisconnectKeepsArt, GetThumbnailKeepsArt, ConnectionKeepsArt,
     TransferKeepsArt, CoverArtInfoKeepsArt DEF Art!Next, Art!CoverArtEvent
<1>2. CASE UNCHANGED Art!vars
  BY <1>2 DEF Art!vars, Art!rest, ArtInv, Art!TypeOK, Art!ClientTracked, ClientInv, FileInv,
              Art!FileUsedCorrectly, Art!ThumbnailInFile, Art!UidsChangeDisconnects
<1> QED
  BY <1>1, <1>2

-----------------------------------------------------------------------------
\* Connections and cover art client together: what holds for any number of peers.
AvrcpInv == LinkInv /\ ArtInv

\* The connections and the client keep the invariant, for any peers, handles and events.
THEOREM AvrcpInvariance == Spec => []AvrcpInv
<1>1. Init => AvrcpInv
  BY InitLinkInv, InitArtInv DEF AvrcpInv, Init
<1>2. AvrcpInv /\ [Next]_vars => AvrcpInv'
  BY StepKeepsLinkInv, ArtOfStep, StepKeepsArt DEF AvrcpInv
<1> QED
  BY <1>1, <1>2, PTL DEF Spec

\* Avrcp implements CoverArt: for the client, AVRCP is something that connects it to
\* peers, changes UIDs and hands out handles, whatever the connections do.
THEOREM ImplementsCoverArt == Spec => Art!Spec
<1>1. Init => Art!Init
  BY DEF Init
<1>2. AvrcpInv /\ [Next]_vars => [Art!Next]_Art!vars
  BY ArtOfStep DEF AvrcpInv
<1> QED
  BY <1>1, <1>2, AvrcpInvariance, PTL DEF Spec, Art!Spec

\* Every variable keeps its type.
THEOREM AvrcpTypeCorrect == Spec => []TypeOK
<1>1. AvrcpInv => TypeOK
  BY DEF AvrcpInv, LinkInv, LinkTypes, LinkRecord, ArtInv, TypeOK
<1> QED
  BY <1>1, AvrcpInvariance, PTL

\* A cid that is kept names a connection, whichever of the peers' connections fails
\* or is released.
THEOREM CidNames == Spec => []CidNeverDangles
<1>1. AvrcpInv => CidNeverDangles
  BY DEF AvrcpInv, LinkInv
<1> QED
  BY <1>1, AvrcpInvariance, PTL

\* The cover art flag and cid are those of BTstack's client.
THEOREM CoverArtIsTracked == Spec => []CoverArtTracked
<1>1. AvrcpInv => CoverArtTracked
  BY DEF AvrcpInv, ArtInv, CoverArtTracked
<1> QED
  BY <1>1, AvrcpInvariance, PTL

\* The FILE* is open when it is written to or closed, unless an fopen failed.
THEOREM FileIsUsedCorrectly == Spec => []FileUsedCorrectly
<1>1. AvrcpInv => FileUsedCorrectly
  BY DEF AvrcpInv, ArtInv, FileUsedCorrectly
<1> QED
  BY <1>1, AvrcpInvariance, PTL

\* What has arrived of an undisturbed download is in the file and counted.
THEOREM ThumbnailIsInFile == Spec => []ThumbnailInFile
<1>1. AvrcpInv => ThumbnailInFile
  BY DEF AvrcpInv, ArtInv, ThumbnailInFile
<1> QED
  BY <1>1, AvrcpInvariance, PTL

\* A client connected when the player's UIDs change is on its way out.
THEOREM UidsChangeEndsClient == Spec => []UidsChangeDisconnects
<1>1. AvrcpInv => UidsChangeDisconnects
  BY DEF AvrcpInv, ArtInv, UidsChangeDisconnects
<1> QED
  BY <1>1, AvrcpInvariance, PTL

\* The size that is reported when a download ends counts what is in the file.
ReportedSizeIsInFile ==
  cover_art.download_active /\ ~cover_jpg.failed => cover_jpg.packets = cover_art.file_size

\* The size reported when a download ends is that of what is in the file, however the
\* download went, unless an fopen failed.
THEOREM SizeIsReportedCorrectly == Spec => []ReportedSizeIsInFile
<1>1. AvrcpInv => ReportedSizeIsInFile
  BY DEF AvrcpInv, ArtInv, FileInv, Art!FileUsedCorrectly, ReportedSizeIsInFile
<1> QED
  BY <1>1, AvrcpInvariance, PTL

\* A client on its way out leaves that state only by going.
DisconnectStays ==
  [][client.disconnecting /\ ~client'.disconnecting =>
       /\ client'.state = "idle" /\ ~transfer'.running
       /\ ~cover_art'.connected /\ cover_art'.cid = NoCid]_vars

\* What the steps of the cover art client do to a client on its way out.
LEMMA OnTheWayOut ==
  ASSUME ArtInv, client.disconnecting,
         [Art!Next]_Art!vars
  PROVE  \/ client'.disconnecting
         \/ /\ client'.state = "idle" /\ ~transfer'.running
            /\ ~cover_art'.connected /\ cover_art'.cid = NoCid
<1>0. /\ client.state = "connected"
      /\ client \in [peer : Peers \cup {NoCid}, state : {"idle", "connecting", "connected"},
                     disconnecting : BOOLEAN, stale : BOOLEAN]
      /\ "connected" \in DOMAIN cover_art /\ "cid" \in DOMAIN cover_art
  BY DEF ArtInv, ClientInv, Art!TypeOK
<1>1. CASE Art!ConnectionReleased
  BY <1>1 DEF Art!ConnectionReleased, Art!IdleClient, Art!NoTransfer, ArtInv, Art!TypeOK
<1>2. CASE Art!ConnectionEstablished \/ Art!ConnectionFailed
  BY <1>0, <1>2 DEF Art!ConnectionEstablished, Art!ConnectionFailed
<1>3. CASE Art!Data \/ Art!OperationComplete
  BY <1>3 DEF Art!Data, Art!OperationComplete
<1>4. CASE \E p \in Peers, reachable \in BOOLEAN : Art!cover_art_connect(p, reachable)
  BY <1>0, <1>4 DEF Art!cover_art_connect, Art!vars
<1>5. CASE Art!Disconnect
  BY <1>0, <1>5 DEF Art!Disconnect, Art!client_disconnect
<1>6. CASE Art!UidsChanged
  BY <1>0, <1>6 DEF Art!UidsChanged, Art!client_disconnect
<1>7. CASE (\E ok \in BOOLEAN : Art!GetThumbnail(ok)) \/ (\E h \in Handles : Art!CoverArtInfo(h))
  BY <1>7 DEF Art!GetThumbnail, Art!CoverArtInfo
<1>8. CASE UNCHANGED Art!vars
  BY <1>8 DEF Art!vars
<1> QED
  BY <1>1, <1>2, <1>3, <1>4, <1>5, <1>6, <1>7, <1>8 DEF Art!Next, Art!CoverArtEvent

\* A client that is told to disconnect stays on its way out until it is gone, and
\* then the application has forgotten it: nothing in between, a new 'd' or another
\* player, takes it back.  (That it goes is DisconnectCompletes.)
THEOREM DisconnectIsFinal == Spec => DisconnectStays
<1> DEFINE Stays == client.disconnecting /\ ~client'.disconnecting =>
                      /\ client'.state = "idle" /\ ~transfer'.running
                      /\ ~cover_art'.connected /\ cover_art'.cid = NoCid
<1>1. AvrcpInv /\ [Next]_vars => [Stays]_vars
  <2> SUFFICES ASSUME AvrcpInv, Next, client.disconnecting PROVE Stays
    OBVIOUS
  <2>1. LinkInv /\ ArtInv /\ [Next]_vars
    BY DEF AvrcpInv
  <2> QED
    BY <2>1, ArtOfStep, OnTheWayOut
<1> QED
  BY <1>1, AvrcpInvariance, PTL DEF Spec, DisconnectStays

-----------------------------------------------------------------------------
(***************************************************************************)
(* One peer: what the application knows of its target.                     *)
(***************************************************************************)
OnePeer == \A p, q \in Peers : p = q

\* What is known of p: a query is asked on an open connection, about what the target
\* supports, and nothing is known of a target before.
TargetOf(p) ==
  /\ link[p].query => link[p].state = "open"
  /\ link[p].pending \subseteq Supported[p]
  /\ link[p].state = "open" =>
       /\ avrcp_cid = p
       /\ avrcp_connection.notifications_supported = Supported[p] \ link[p].pending
       /\ ~link[p].query /\ "UIDS_CHANGED" \in Supported[p] => "UIDS_CHANGED" \in link[p].registered
  /\ link[p].state # "open" => avrcp_connection.notifications_supported = {}

TargetInv == \A p \in Peers : TargetOf(p)

\* At first nothing is known, of nobody connected.
LEMMA InitTargetInv == Init => TargetInv
<1> SUFFICES ASSUME Init, NEW p \in Peers PROVE TargetOf(p)
  BY DEF TargetInv
<1>1. /\ link[p].state = "closed" /\ link[p].query = FALSE /\ link[p].pending = {}
      /\ avrcp_connection.notifications_supported = {}
  BY DEF Init, ClosedLink
<1> QED
  BY <1>1 DEF TargetOf

\* The handler's one cid and one set of notifications follow the one peer's
\* connection through every event.
LEMMA StepKeepsTargetInv ==
  ASSUME OnePeer, LinkInv, TargetInv, [Next]_vars
  PROVE  TargetInv'
<1> SUFFICES ASSUME NEW p \in Peers
             PROVE  TargetOf(p)'
  BY DEF TargetInv
<1>0. /\ TargetOf(p) /\ (\A q \in Peers : q = p) /\ p # NoCid /\ device_addr = p
      /\ Supported[p] \subseteq Events
      /\ link \in [Peers -> LinkRecord]
      /\ avrcp_connection \in [avrcp_cid : Peers \cup {NoCid}, playing : BOOLEAN,
                               notifications_supported : SUBSET Events]
  BY ImageSize, AvrcpAssumption DEF AvrcpAssumption, OnePeer, TargetInv, LinkInv, LinkTypes
<1>1. CASE Connect
  <2>1. CASE link[device_addr].state = "closed"
    BY <1>0, <1>1, <2>1 DEF Connect, LinkRecord, TargetOf, avrcp_cid
  <2>2. CASE link[device_addr].state # "closed"
    BY <1>0, <1>1, <2>2 DEF Connect, TargetOf, avrcp_cid
  <2> QED
    BY <2>1, <2>2
<1>2. ASSUME NEW e \in ConsoleEvents, EnableNotification(e) \/ DisableNotification(e)
      PROVE  TargetOf(p)'
  <2>1. /\ UNCHANGED avrcp_connection /\ link'[p].state = link[p].state
        /\ link'[p].query = link[p].query /\ link'[p].pending = link[p].pending
        /\ link[p].registered \ {e} \subseteq link'[p].registered
    BY <1>2, NotificationLinks DEF LinkInv
  <2>2. e # "UIDS_CHANGED"
    BY <1>2 DEF ConsoleEvents
  <2> QED
    BY <1>0, <2>1, <2>2 DEF TargetOf, avrcp_cid
<1>3. CASE CoverArt
  BY <1>0, <1>3 DEF CoverArt, TargetOf, avrcp_cid
<1>4. CASE PeerEvent(p)
  <2>1. CASE Incoming(p)
    BY <1>0, <2>1 DEF Incoming, LinkRecord, TargetOf, avrcp_cid
  <2>2. CASE A2dpStreamEstablished(p)
    BY <1>0, <2>2 DEF A2dpStreamEstablished, TargetOf, avrcp_cid
  <2>3. CASE ConnectionEstablished(p)
    BY <1>0, <2>3 DEF ConnectionEstablished, LinkRecord, TargetOf, avrcp_cid
  <2>4. CASE ConnectionFailed(p)
    BY <1>0, <2>4 DEF ConnectionFailed, LinkRecord, TargetOf, avrcp_cid, ClosedLink
  <2>5. CASE ConnectionReleased(p)
    BY <1>0, <2>5 DEF ConnectionReleased, LinkRecord, TargetOf, avrcp_cid, ClosedLink
  <2>6. ASSUME NEW e \in Events, Capability(p, e)
        PROVE  TargetOf(p)'
    BY <1>0, <2>6 DEF Capability, LinkRecord, TargetOf, avrcp_cid
  <2>7. CASE CapabilityDone(p)
    <3>1. link[p].query /\ link[p].pending = {}
      BY <2>7 DEF CapabilityDone
    <3>2. /\ UNCHANGED avrcp_connection /\ link'[p].state = link[p].state
          /\ link'[p].pending = link[p].pending
          /\ Reachable(avrcp_cid) =>
               AutoEnabled \cap Supported[avrcp_cid] \subseteq link'[avrcp_cid].registered
      BY <2>7, CapabilityDoneLinks DEF LinkInv
    <3>3. avrcp_cid = p /\ link[p].state = "open" /\ Reachable(avrcp_cid)
      BY <1>0, <3>1 DEF TargetOf, Reachable
    <3>4. "UIDS_CHANGED" \in Supported[p] => "UIDS_CHANGED" \in link'[p].registered
      BY <3>2, <3>3 DEF AutoEnabled
    <3> QED
      BY <1>0, <3>2, <3>3, <3>4 DEF TargetOf, avrcp_cid
  <2>8. ASSUME NEW status \in {"PLAYING", "PAUSED"}, PlaybackStatusChanged(p, status)
        PROVE  TargetOf(p)'
    BY <1>0, <2>8 DEF PlaybackStatusChanged, TargetOf, avrcp_cid
  <2>9. CASE UidsChanged(p)
    BY <1>0, <2>9 DEF UidsChanged, TargetOf, avrcp_cid
  <2>10. ASSUME NEW h \in Handles, CoverArtInfo(p, h)
         PROVE  TargetOf(p)'
    BY <1>0, <2>10 DEF CoverArtInfo, TargetOf, avrcp_cid
  <2> QED
    BY <1>4, <2>1, <2>2, <2>3, <2>4, <2>5, <2>6, <2>7, <2>8, <2>9, <2>10 DEF PeerEvent
<1>5. CASE UNCHANGED vars
  BY <1>0, <1>5 DEF vars, TargetOf, avrcp_cid
<1>6. (\E q \in Peers : PeerEvent(q)) => PeerEvent(p)
  BY <1>0
<1> QED
  BY <1>1, <1>2, <1>3, <1>4, <1>5, <1>6 DEF Next, Console

\* With one peer, the connection, its capabilities and its UIDs are known at any time.
THEOREM TargetInvariance ==
  ASSUME OnePeer
  PROVE  Spec => []TargetInv
<1>1. Init => TargetInv
  BY InitTargetInv
<1>2. LinkInv /\ TargetInv /\ [Next]_vars => TargetInv'
  BY StepKeepsTargetInv
<1>3. AvrcpInv => LinkInv
  BY DEF AvrcpInv
<1> QED
  BY <1>1, <1>2, <1>3, AvrcpInvariance, PTL DEF Spec

\* avrcp_cid is 0 only while the peer is not connected.
THEOREM CidIsKnown ==
  ASSUME OnePeer
  PROVE  Spec => []CidNamesConnection
<1>1. TargetInv => CidNamesConnection
  BY ImageSize DEF TargetInv, TargetOf, CidNamesConnection
<1> QED
  BY <1>1, TargetInvariance, PTL

\* The notifications kept are what the connected target has named so far.
THEOREM CapabilitiesAreTheTargets ==
  ASSUME OnePeer
  PROVE  Spec => []SupportedByTarget
<1>1. TargetInv => SupportedByTarget
  BY DEF TargetInv, TargetOf, SupportedByTarget
<1> QED
  BY <1>1, TargetInvariance, PTL

\* Once the query is answered the player's UIDs are watched, whatever the console does.
THEOREM UidsAreWatched ==
  ASSUME OnePeer
  PROVE  Spec => []UidsWatched
<1>1. TargetInv => UidsWatched
  BY DEF TargetInv, TargetOf, UidsWatched
<1> QED
  BY <1>1, TargetInvariance, PTL

\* A query that ends with the connection up leaves the client busy.
AnswerTriesCoverArt ==
  [][\A p \in Peers :
       link[p].query /\ ~link'[p].query /\ link'[p].state = "open" => client'.state # "idle"]_vars

\* A capability query that is answered, on a connection that is still up, has tried
\* the cover art client: it is connected, or on its way.  (That the query is answered
\* is CoverArtIsTried.)
THEOREM AnsweredQueryTriesCoverArt ==
  ASSUME OnePeer
  PROVE  Spec => AnswerTriesCoverArt
<1> DEFINE Tried(p) ==
      link[p].query /\ ~link'[p].query /\ link'[p].state = "open" => client'.state # "idle"
<1>1. AvrcpInv /\ TargetInv /\ [Next]_vars => [\A p \in Peers : Tried(p)]_vars
  <2> SUFFICES ASSUME AvrcpInv, TargetInv, Next, NEW p \in Peers,
                      link[p].query, ~link'[p].query, link'[p].state = "open"
               PROVE  client'.state # "idle"
    BY DEF Tried
  <2>0. /\ TargetOf(p) /\ (\A q \in Peers : q = p) /\ p # NoCid /\ device_addr = p
        /\ link \in [Peers -> LinkRecord] /\ LinkTypes /\ ArtInv
    BY ImageSize DEF OnePeer, TargetInv, AvrcpInv, LinkInv, LinkTypes
  <2>1. CASE Connect
    BY <2>0, <2>1 DEF Connect, LinkRecord
  <2>2. ASSUME NEW e \in ConsoleEvents, EnableNotification(e) \/ DisableNotification(e) PROVE FALSE
    BY <2>0, <2>2, NotificationLinks
  <2>3. CASE CoverArt
    BY <2>3 DEF CoverArt
  <2>4. CASE PeerEvent(p)
    <3>1. CASE Incoming(p) \/ ConnectionEstablished(p) \/ \E e \in Events : Capability(p, e)
      <4>1. link[p] \in LinkRecord /\ p \in DOMAIN link /\ link[p].state = "open"
        BY <2>0 DEF TargetOf
      <4>2. ASSUME NEW e \in Events, Capability(p, e) PROVE link'[p].query
        BY <2>0, <4>1, <4>2 DEF Capability, LinkRecord
      <4> QED
        BY <3>1, <4>1, <4>2 DEF Incoming, ConnectionEstablished
    <3>2. CASE ConnectionFailed(p) \/ ConnectionReleased(p)
      BY <2>0, <3>2 DEF ConnectionFailed, ConnectionReleased, ClosedLink
    <3>3. CASE \/ A2dpStreamEstablished(p) \/ UidsChanged(p)
               \/ \E status \in {"PLAYING", "PAUSED"} : PlaybackStatusChanged(p, status)
               \/ \E h \in Handles : CoverArtInfo(p, h)
      BY <3>3 DEF A2dpStreamEstablished, PlaybackStatusChanged, UidsChanged, CoverArtInfo
    <3>4. CASE CapabilityDone(p)
      <4>1. avrcp_cid = p /\ link[p].state = "open" /\ Reachable(device_addr)
        BY <2>0 DEF TargetOf, Reachable
      <4>2. Art!cover_art_connect(device_addr, Reachable(device_addr))
        BY <2>0, <3>4, <4>1 DEF CapabilityDone
      <4>3. CASE client.state = "idle"
        BY <4>1, <4>2, <4>3 DEF Art!cover_art_connect, Art!IdleClient
      <4>4. CASE client.state # "idle"
        BY <4>2, <4>4 DEF Art!cover_art_connect, Art!vars
      <4> QED
        BY <4>3, <4>4
    <3> QED
      BY <2>4, <3>1, <3>2, <3>3, <3>4 DEF PeerEvent
  <2> QED
    BY <2>0, <2>1, <2>2, <2>3, <2>4 DEF Next, Console
<1> QED
  BY <1>1, AvrcpInvariance, TargetInvariance, PTL DEF Spec, AnswerTriesCoverArt

=============================================================================
