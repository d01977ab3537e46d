----------------------------- MODULE GbPlatform -----------------------------
(***************************************************************************)
(* The SIP side of the platform, main() of gb28181_sip_mock_server.cpp:    *)
(* one loop that handles one datagram at a time and keeps a handful of     *)
(* flags for its single device.  Handle(m) is one turn of that loop.       *)
(*                                                                         *)
(* Left out: platform_queried and last_nonce, written but never read (the  *)
(* Authorization of a REGISTER is not verified), and the SDP, XML and PTZ  *)
(* texts.  A message that cannot be parsed changes nothing.                *)
(***************************************************************************)
EXTENDS GbSip

VARIABLES
    registered,
    platform_invited,  \* a pull INVITE was sent since the last registration
    invited, acked,    \* the device's own INVITE dialog
    ptx                \* datagrams sent by the last step

pctx == <<registered, platform_invited, invited, acked>>
pvars == <<pctx, ptx>>

CatalogQuery == Req("MESSAGE", "platform", "QueryCatalog")
PtzControl == Req("MESSAGE", "platform", "Control")
RecordInfoQuery == Req("MESSAGE", "platform", "QueryRecordInfo")
PlatformInvite == Req("INVITE", "platform-invite", "none")
PlaybackInvite == Req("INVITE", "platform-pb", "none")

\* A response: only the 200 of a "platform-invite" call is ACKed, while one
\* is outstanding; the rest is logged.
GetResponse(m) ==
    /\ m.type = "resp"
    /\ ptx' = IF m.code = 200 /\ platform_invited /\ m.cid = "platform-invite"
              THEN {Req("ACK", m.cid, "none")} ELSE {}
    /\ UNCHANGED pctx

\* Mutant: a REGISTER without credentials counts as Expires:0
DeregisterByDefault(m) ==
    /\ IsRequest(m, "REGISTER") /\ m.body \in {"expires0", "noauth"}
    /\ registered' = FALSE
    /\ ptx' = {Reply(m, 200, "none")}
    /\ UNCHANGED <<platform_invited, invited, acked>>

\* Mutant: answered, but the device stays registered
DeregisterUnrecorded(m) ==
    /\ IsRequest(m, "REGISTER") /\ m.body = "expires0"
    /\ ptx' = {Reply(m, 200, "none")}
    /\ UNCHANGED pctx

Deregister(m) ==
    /\ IsRequest(m, "REGISTER") /\ m.body = "expires0"
    /\ registered' = FALSE
    /\ ptx' = {Reply(m, 200, "none")}
    /\ UNCHANGED <<platform_invited, invited, acked>>

Challenge(m) ==
    /\ IsRequest(m, "REGISTER") /\ m.body = "noauth"
    /\ ptx' = {Reply(m, 401, "challenge")}
    /\ UNCHANGED pctx

\* Any Authorization will do; the platform asks for the catalog at once.
AcceptRegister(m) ==
    /\ IsRequest(m, "REGISTER") /\ m.body \notin {"expires0", "noauth"}
    /\ registered' = TRUE
    /\ platform_invited' = FALSE
    /\ ptx' = {Reply(m, 200, "none"), CatalogQuery}
    /\ UNCHANGED <<invited, acked>>

XmlResponses == {"CatalogResponse", "RecordInfoResponse", "DeviceInfoResponse",
                 "DeviceStatusResponse"}

\* What follows the 200 of a MESSAGE: the next request of the platform's own
\* script, or the response to a query of the other side.
FollowUp(m) ==
    LET On(bodies, sent) == IF m.body \in bodies THEN sent ELSE {}
        Once(bodies, sent) == IF platform_invited THEN {} ELSE On(bodies, sent)
        Own(body) == {Req("MESSAGE", "platform", body)}
    IN  On({"CatalogResponse"}, {PtzControl, RecordInfoQuery})
        \cup Once({"RecordInfoResponse"}, {PlaybackInvite})
        \cup Once({"DeviceInfoResponse", "DeviceStatusResponse"},
                  {PlatformInvite})
        \cup On({"QueryCatalog"}, Own("CatalogResponse"))
        \cup On({"QueryDeviceInfo"}, Own("DeviceInfoResponse"))
        \cup On({"QueryDeviceStatus"}, Own("DeviceStatusResponse"))

GetMessage(m) ==
    /\ registered /\ IsRequest(m, "MESSAGE")
    /\ ptx' = {Reply(m, 200, "none")} \cup FollowUp(m)
    /\ platform_invited' =
          (platform_invited \/ m.body \in XmlResponses \ {"CatalogResponse"})
    /\ UNCHANGED <<registered, invited, acked>>

\* Mutant: answered, but no call is recorded
GetInviteUnrecorded(m) ==
    /\ registered /\ IsRequest(m, "INVITE")
    /\ ptx' = {Reply(m, 200, "tag")}
    /\ UNCHANGED pctx

GetInvite(m) ==
    /\ registered /\ IsRequest(m, "INVITE")
    /\ invited' = TRUE
    /\ ptx' = {Reply(m, 200, "tag")}
    /\ UNCHANGED <<registered, platform_invited, acked>>

GetAck(m) ==
    /\ invited /\ IsRequest(m, "ACK")
    /\ acked' = TRUE
    /\ ptx' = {}
    /\ UNCHANGED <<registered, platform_invited, invited>>

\* Mutants: the media session, or the call, outlives its BYE
GetByeKeepsMedia(m) ==
    /\ registered /\ IsRequest(m, "BYE")
    /\ invited' = FALSE
    /\ ptx' = {Reply(m, 200, "none")}
    /\ UNCHANGED <<registered, platform_invited, acked>>
GetByeKeepsCall(m) ==
    /\ registered /\ IsRequest(m, "BYE")
    /\ ptx' = {Reply(m, 200, "none")}
    /\ UNCHANGED pctx

GetBye(m) ==
    /\ registered /\ IsRequest(m, "BYE")
    /\ invited' = FALSE
    /\ acked' = FALSE
    /\ ptx' = {Reply(m, 200, "none")}
    /\ UNCHANGED <<registered, platform_invited>>

\* Everything else gets a 501, an ACK without a call included.
NotImplemented(m) ==
    /\ \/ ~registered /\ m.type = "req" /\ m.method \in {"MESSAGE", "INVITE", "BYE"}
       \/ ~invited /\ IsRequest(m, "ACK")
    /\ ptx' = {Reply(m, 501, "none")}
    /\ UNCHANGED pctx

Handle(m) ==
    \/ GetResponse(m) \/ Deregister(m) \/ Challenge(m) \/ AcceptRegister(m)
    \/ GetMessage(m) \/ GetInvite(m) \/ GetAck(m) \/ GetBye(m)
    \/ NotImplemented(m)

PlatformInit ==
    /\ registered = FALSE /\ platform_invited = FALSE
    /\ invited = FALSE /\ acked = FALSE
    /\ ptx = {}

PlatformSpec == PlatformInit /\ [][\E m \in Messages : Handle(m)]_pvars

-----------------------------------------------------------------------------
\* The flags of main() and the datagrams it may send.
PlatformTypeOK ==
    /\ registered \in BOOLEAN /\ platform_invited \in BOOLEAN
    /\ invited \in BOOLEAN /\ acked \in BOOLEAN
    /\ ptx \subseteq Messages
=============================================================================
