------------------------------ MODULE CoverArt -------------------------------
(***************************************************************************)
(* The cover art client: avrcp/cover_art.c, the console commands 'd', 'D'  *)
(* and '@', and the two AVRCP events that concern it.  The user asks for   *)
(* the thumbnail of the last image handle received, its data is written to *)
(* cover.jpg as it arrives, and the file is closed when the operation      *)
(* completes.  A component: Avrcp composes it with the AVRCP controller,   *)
(* and the runs check it there.                                            *)
(*                                                                         *)
(* External: BTstack's cover art client (one connection, one operation at  *)
(* a time; a request it cannot serve is refused), the player at the other  *)
(* end, and stdio.                                                         *)
(***************************************************************************)
EXTENDS Naturals

CONSTANTS
  Peers, NoCid,
  Handles, NoHandle,     \* image handles; the empty handle
  IMAGE_SIZE,            \* data packets in an image
  MAX_FILES              \* bound: how often '@' opens the file

CoverArtAssumption ==
  /\ NoCid \notin Peers
  /\ NoHandle \notin Handles
  /\ IMAGE_SIZE \in Nat \ {0}
  /\ MAX_FILES \in Nat

VARIABLES
  cover_art,             \* the variables of btstack_global.c about cover art
  \* external
  client,                \* BTstack's client; stale: the player's UIDs changed while connected
  transfer,              \* the operation under way
  cover_jpg,             \* data packets in the file, and what became of its fopen calls
  handle_valid           \* the player still serves the image handle kept

rest == <<transfer, cover_jpg, handle_valid>>
vars == <<cover_art, client, transfer, cover_jpg, handle_valid>>

IdleClient == [peer |-> NoCid, state |-> "idle", disconnecting |-> FALSE, stale |-> FALSE]

\* undisturbed: its '@' opened the file, and none was pressed since; valid: the
\* player served the handle when it was asked for.
NoTransfer == [running |-> FALSE, handle |-> NoHandle, sent |-> 0,
               undisturbed |-> FALSE, valid |-> FALSE]

\* file is the FILE*, "misused" once NULL was written to or closed.
TypeOK ==
  /\ cover_art \in
       [cid             : Peers \cup {NoCid},
        connected       : BOOLEAN,
        download_active : BOOLEAN,
        file_size       : 0..IMAGE_SIZE,
        file            : {"NULL", "open", "misused"},
        image_handle    : Handles \cup {NoHandle}]
  /\ client \in [peer : Peers \cup {NoCid}, state : {"idle", "connecting", "connected"},
                 disconnecting : BOOLEAN, stale : BOOLEAN]
  /\ transfer \in [running : BOOLEAN, handle : Handles \cup {NoHandle}, sent : 0..IMAGE_SIZE,
                   undisturbed : BOOLEAN, valid : BOOLEAN]
  /\ cover_jpg \in [packets : 0..IMAGE_SIZE, opens : 0..MAX_FILES, failed : BOOLEAN]
  /\ handle_valid \in BOOLEAN

Init ==
  /\ cover_art = [cid |-> NoCid, connected |-> FALSE, download_active |-> FALSE,
                  file_size |-> 0, file |-> "NULL", image_handle |-> NoHandle]
  /\ client = IdleClient
  /\ transfer = NoTransfer
  /\ cover_jpg = [packets |-> 0, opens |-> 0, failed |-> FALSE]
  /\ handle_valid = FALSE

-----------------------------------------------------------------------------
\* cover_art_connect to a peer that BTstack can reach over AVRCP or not: BTstack
\* writes the cid of the connection it starts, or refuses.
cover_art_connect(p, reachable) ==
  IF client.state = "idle" /\ reachable
  THEN /\ client' = [IdleClient EXCEPT !.peer = p, !.state = "connecting"]
       /\ cover_art' = [cover_art EXCEPT !.cid = p]
       /\ UNCHANGED rest
  ELSE UNCHANGED vars

\* avrcp_cover_art_client_disconnect: the client after it; the release follows as
\* an event, and a cid that names no connection is refused.
client_disconnect(cid) ==
  IF client.state = "connected" /\ client.peer = cid
  THEN [client EXCEPT !.disconnecting = TRUE]
  ELSE client

\* Console 'D'.
Disconnect ==
  /\ client' = client_disconnect(cover_art.cid)
  /\ UNCHANGED <<cover_art, rest>>

\* The transfer after avrcp_cover_art_client_get_linked_thumbnail, which is
\* refused for an unknown cid and while an operation is under way.
get_linked_thumbnail(ok) ==
  IF ~transfer.running /\ client.state = "connected" /\ client.peer = cover_art.cid
  THEN [running |-> TRUE, handle |-> cover_art.image_handle, sent |-> 0,
        undisturbed |-> ok, valid |-> handle_valid]
  ELSE [transfer EXCEPT !.undisturbed = FALSE]

\* Mutation: the file is opened for appending.
fopen_appending(ok) == [packets |-> cover_jpg.packets,
                        opens   |-> cover_jpg.opens + 1,
                        failed  |-> cover_jpg.failed \/ ~ok]

\* fopen(path, "w"): an old file is emptied, or the call fails.
fopen(ok) == [packets |-> IF ok THEN 0 ELSE cover_jpg.packets,
              opens   |-> cover_jpg.opens + 1,
              failed  |-> cover_jpg.failed \/ ~ok]

\* Mutation: the size of the image before is not forgotten.
Downloading_keeping_size(ok) ==
  [cover_art EXCEPT !.file = IF ok THEN "open" ELSE "NULL", !.download_active = TRUE]

\* The variables when a download starts.
Downloading(ok) ==
  [cover_art EXCEPT !.file = IF ok THEN "open" ELSE "NULL",
                    !.download_active = TRUE, !.file_size = 0]

\* Console '@': the file is opened, unchecked, and the download marked active
\* before BTstack is asked, whether it then takes the request or not.
GetThumbnail(ok) ==
  /\ cover_jpg.opens < MAX_FILES
  /\ cover_jpg' = fopen(ok)
  /\ cover_art' = Downloading(ok)
  /\ transfer' = get_linked_thumbnail(ok)
  /\ UNCHANGED <<client, handle_valid>>

-----------------------------------------------------------------------------
(***************************************************************************)
(* cover_art_packet_handler.                                               *)
(***************************************************************************)
\* Mutation: the flag is not set.
ConnectionEstablished_unnoticed ==
  /\ client.state = "connecting"
  /\ client' = [client EXCEPT !.state = "connected"]
  /\ UNCHANGED <<cover_art, rest>>

ConnectionEstablished ==
  /\ client.state = "connecting"
  /\ client' = [client EXCEPT !.state = "connected"]
  /\ cover_art' = [cover_art EXCEPT !.connected = TRUE]
  /\ UNCHANGED rest

\* Mutation: the cid of the connection that failed is kept.
ConnectionFailed_keeping_cid ==
  /\ client.state = "connecting"
  /\ client' = IdleClient
  /\ UNCHANGED <<cover_art, rest>>

ConnectionFailed ==
  /\ client.state = "connecting"
  /\ client' = IdleClient
  /\ cover_art' = [cover_art EXCEPT !.cid = NoCid]
  /\ UNCHANGED rest

\* Mutation: the flag is not cleared.
ConnectionReleased_keeping_flag ==
  /\ client.state = "connected"
  /\ client' = IdleClient
  /\ transfer' = NoTransfer
  /\ cover_art' = [cover_art EXCEPT !.cid = NoCid]
  /\ UNCHANGED <<cover_jpg, handle_valid>>

\* The connection goes on request or by itself, with an operation under way or
\* not; a download that was active stays so.
ConnectionReleased ==
  /\ client.state = "connected"
  /\ client' = IdleClient
  /\ transfer' = NoTransfer
  /\ cover_art' = [cover_art EXCEPT !.connected = FALSE, !.cid = NoCid]
  /\ UNCHANGED <<cover_jpg, handle_valid>>

\* fwrite to the file, if it is open.
fwrite ==
  IF cover_art.file = "open" THEN [cover_jpg EXCEPT !.packets = @ + 1] ELSE cover_jpg

\* The FILE* after a call that must not get NULL.
Used(after) == IF cover_art.file = "open" THEN after ELSE "misused"

\* BIP_DATA_PACKET: to the file, or to the console when no download is active.
Data ==
  /\ transfer.running /\ transfer.handle # NoHandle
  /\ transfer.sent < IMAGE_SIZE
  /\ transfer' = [transfer EXCEPT !.sent = @ + 1]
  /\ IF cover_art.download_active
     THEN /\ cover_art' = [cover_art EXCEPT !.file_size = @ + 1, !.file = Used("open")]
          /\ cover_jpg' = fwrite
     ELSE UNCHANGED <<cover_art, cover_jpg>>
  /\ UNCHANGED <<client, handle_valid>>

\* Mutation: the download stays active.
Downloaded_staying_active == [cover_art EXCEPT !.file = Used("NULL")]

\* The variables when a download has ended.
Downloaded == [cover_art EXCEPT !.download_active = FALSE, !.file = Used("NULL")]

\* The operation completes with the image, or early with an error the handler
\* does not look at.
OperationComplete ==
  /\ transfer.running
  /\ transfer' = NoTransfer
  /\ cover_art' = IF cover_art.download_active THEN Downloaded ELSE cover_art
  /\ UNCHANGED <<client, cover_jpg, handle_valid>>

-----------------------------------------------------------------------------
(***************************************************************************)
(* The two events of avrcp_controller_packet_handler about cover art: the  *)
(* player's UIDs, image handles among them, have changed; and a handle.    *)
(***************************************************************************)
UidsChanged ==
  /\ client' = [(IF cover_art.connected THEN client_disconnect(cover_art.cid) ELSE client)
                 EXCEPT !.stale = client.state = "connected"]
  /\ handle_valid' = FALSE
  /\ UNCHANGED <<cover_art, transfer, cover_jpg>>

CoverArtInfo(h) ==
  /\ cover_art' = [cover_art EXCEPT !.image_handle = h]
  /\ handle_valid' = TRUE
  /\ UNCHANGED <<client, transfer, cover_jpg>>

-----------------------------------------------------------------------------
CoverArtEvent ==
  \/ ConnectionEstablished
  \/ ConnectionFailed
  \/ ConnectionReleased
  \/ Data
  \/ OperationComplete

\* The client by itself: any peer to connect to, reachable or not, and any handles.
Next ==
  \/ \E p \in Peers, reachable \in BOOLEAN : cover_art_connect(p, reachable)
  \/ Disconnect
  \/ UidsChanged
  \/ \E ok \in BOOLEAN : GetThumbnail(ok)
  \/ \E h \in Handles : CoverArtInfo(h)
  \/ CoverArtEvent

Spec == Init /\ [][Next]_vars

-----------------------------------------------------------------------------
\* The flag and the cid the application keeps are those of BTstack's client
\* after any mix of refused, failed, completed and lost connections.
ClientTracked ==
  /\ cover_art.connected <=> client.state = "connected"
  /\ cover_art.cid = client.peer

\* The FILE* is open whenever the handler writes to it or closes it, however
\* often '@' is pressed and wherever the connection is lost -- unless an fopen
\* has failed, which '@' does not notice.
FileUsedCorrectly ==
  ~cover_jpg.failed =>
    /\ cover_art.file # "misused"
    /\ cover_art.download_active => cover_art.file = "open"

\* What has arrived of an image is in the file and counted, as long as '@' could
\* open the file and is not pressed again before the operation completes: also
\* after a download that a lost connection or a refused request has left active.
ThumbnailInFile ==
  transfer.running /\ transfer.undisturbed =>
    /\ cover_art.download_active /\ cover_art.file = "open"
    /\ cover_art.file_size = transfer.sent
    /\ cover_jpg.packets = transfer.sent

\* "download of '%s complete, size %u bytes'": what is reported complete is an
\* image and its size.
CompleteMeansWhole ==
  [][OperationComplete /\ cover_art.download_active => cover_art.file_size = IMAGE_SIZE]_vars

\* "image handles become invalid on player change": on a connection that is not on
\* its way out, a handle the player no longer serves is not asked for.
RequestsValidHandle ==
  transfer.running /\ transfer.handle # NoHandle /\ ~client.disconnecting => transfer.valid

\* "image handles become invalid on player change": a client that was connected
\* when the player's UIDs changed is on its way out, though the handler only knows
\* its own flag and cid.
UidsChangeDisconnects == client.stale => client.disconnecting

\* A change of the player's UIDs, or 'D', ends with the client disconnected and
\* known to be.
DisconnectCompletes ==
  client.disconnecting ~> ~cover_art.connected /\ cover_art.cid = NoCid

=============================================================================
