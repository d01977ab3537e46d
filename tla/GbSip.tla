------------------------------- MODULE GbSip -------------------------------
(***************************************************************************)
(* The SIP datagrams the device (gb28181_device_stateful.cpp) and the      *)
(* platform (gb28181_sip_mock_server.cpp) exchange, reduced to the fields  *)
(* either of them branches on:                                             *)
(*   type    "req" or "resp" (is_response of the parsed message)           *)
(*   method  request method; for a response the method of its CSeq header, *)
(*           which neither side reads                                      *)
(*   code    status code of a response, 0 in a request                     *)
(*   cid     whose Call-ID it carries: "dev" for every Call-ID the device  *)
(*           makes, or one of the two names the platform puts in its own   *)
(*   body    what else the receiver looks at: the CmdType and root element *)
(*           of an XML body, Expires:0, the presence of Authorization or   *)
(*           WWW-Authenticate, a To tag                                    *)
(***************************************************************************)

Methods == {"REGISTER", "MESSAGE", "INVITE", "ACK", "BYE"}
CallIds == {"dev", "platform-pb", "platform-invite", "platform"}

RequestBodies == {"none", "noauth", "auth", "expires0", "Keepalive",
                  "QueryCatalog", "QueryRecordInfo", "Control",
                  "QueryDeviceInfo", "QueryDeviceStatus", "CatalogResponse",
                  "RecordInfoResponse", "DeviceInfoResponse",
                  "DeviceStatusResponse", "tag"}
ResponseBodies == {"none", "tag", "challenge", "badchallenge"}
Codes == {200, 401, 403, 486, 501}

Requests == [type : {"req"}, method : Methods, code : {0},
             cid : CallIds, body : RequestBodies]
Responses == [type : {"resp"}, method : Methods, code : Codes,
              cid : CallIds, body : ResponseBodies]
Messages == Requests \cup Responses

Req(method, cid, body) ==
    [type |-> "req", method |-> method, code |-> 0, cid |-> cid, body |-> body]

\* Every reply copies Via, From, To, Call-ID and CSeq of its request.
Reply(m, code, body) ==
    [type |-> "resp", method |-> m.method, code |-> code, cid |-> m.cid,
     body |-> body]

IsRequest(m, method) == m.type = "req" /\ m.method = method
IsResponse(m, codes) == m.type = "resp" /\ m.code \in codes
=============================================================================
