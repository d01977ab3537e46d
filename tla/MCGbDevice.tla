----------------------------- MODULE MCGbDevice -----------------------------
(* Small instances of GbDevice for TLC.                                    *)
EXTENDS GbDevice

\* Every datagram a branch of the device's handle_incoming tells from the others
MCInbound ==
    {Reply(Req("REGISTER", "dev", "auth"), c, "none") : c \in {200, 401, 403}}
    \cup {Reply(Req("REGISTER", "dev", "noauth"), 401, b) :
             b \in {"challenge", "badchallenge"}}
    \cup {Reply(Req("INVITE", "dev", "none"), 200, "tag"),
          Reply(Req("INVITE", "dev", "none"), 486, "none")}
    \cup {Req("MESSAGE", "platform", b) :
             b \in {"QueryCatalog", "QueryRecordInfo", "Control"}}
    \cup {Req(mt, "platform-invite", "none") : mt \in {"INVITE", "ACK", "BYE"}}
=============================================================================
