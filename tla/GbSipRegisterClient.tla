------------------------- MODULE GbSipRegisterClient -------------------------
(***************************************************************************)
(* The straight-line client, main() of gb28181_sip_register_client.cpp:    *)
(* it sends a request, waits three seconds for one datagram, whatever it   *)
(* is, and goes on.  An action is one wait and the requests that follow    *)
(* it.  Left out: texts, and whether the one media packet could be sent,   *)
(* which changes nothing afterwards.                                       *)
(***************************************************************************)
EXTENDS GbSip, Naturals, Sequences

VARIABLES
    wait,       \* what the program waits for, "closed" once it has ended
    query,      \* the index of the query in progress
    selected,   \* stream_id is a channel of the platform's catalog
    called,     \* ACK, media and BYE were sent
    ctx         \* datagrams sent by the last step, in order

cvars == <<wait, query, selected, called, ctx>>

Waits == {"register", "challenge", "accepted", "keepalive", "first", "second",
          "invited", "bye", "closed"}

Queries == <<"QueryCatalog", "QueryDeviceInfo", "QueryDeviceStatus">>
Query(n) == Req("MESSAGE", "dev", Queries[n])
Invite == Req("INVITE", "dev", "none")

FirstRegister ==
    /\ wait = "register" /\ wait' = "challenge"
    /\ ctx' = <<Req("REGISTER", "dev", "noauth")>>
    /\ UNCHANGED <<query, selected, called>>

Close ==
    /\ wait' = "closed" /\ ctx' = <<>>
    /\ UNCHANGED <<query, selected, called>>

\* bind fails.
CannotStart == wait = "register" /\ Close

GetChallenge(m) ==
    /\ wait = "challenge"
    /\ IsResponse(m, {401}) /\ m.body = "challenge"
    /\ wait' = "accepted"
    /\ ctx' = <<Req("REGISTER", "dev", "auth")>>
    /\ UNCHANGED <<query, selected, called>>

\* Mutant: any answer to the second REGISTER will do
IsAcceptedByAny(m) == m.type = "resp"

IsAccepted(m) == IsResponse(m, {200})

GetAccepted(m) ==
    /\ wait = "accepted" /\ IsAccepted(m)
    /\ wait' = "keepalive"
    /\ ctx' = <<Req("MESSAGE", "dev", "Keepalive")>>
    /\ UNCHANGED <<query, selected, called>>

\* Any datagram, or none.
Keepalive ==
    /\ wait = "keepalive" /\ wait' = "first"
    /\ query' = 1 /\ ctx' = <<Query(1)>>
    /\ UNCHANGED <<selected, called>>

\* What follows a query: the next one, or the INVITE.
Proceed(answer) ==
    /\ UNCHANGED called
    /\ \/ /\ query < Len(Queries)
          /\ query' = query + 1 /\ wait' = "first"
          /\ ctx' = answer \o <<Query(query + 1)>>
       \/ /\ query = Len(Queries)
          /\ wait' = "invited" /\ ctx' = answer \o <<Invite>>
          /\ UNCHANGED query

\* Mutant: a query waits for one datagram only
GetFirstAndProceed ==
    /\ wait = "first"
    /\ Proceed(<<>>)
    /\ UNCHANGED selected

GetFirst ==
    /\ wait = "first" /\ wait' = "second"
    /\ ctx' = <<>>
    /\ UNCHANGED <<query, selected, called>>

\* Mutant: the answer is the request with a status
AnswerEchoed(m) == [m EXCEPT !.code = 200]

Answer(m) == Reply(m, 200, "none")

\* A MESSAGE in the second place is answered; a catalog is looked into.
GetSecond(m) ==
    /\ wait = "second"
    /\ Proceed(IF IsRequest(m, "MESSAGE") THEN <<Answer(m)>> ELSE <<>>)
    /\ selected' = \/ selected
                   \/ query = 1 /\ IsRequest(m, "MESSAGE")
                                /\ m.body = "CatalogResponse"

\* Without the first of two datagrams there is no wait for the second.
QueryUnanswered ==
    /\ wait \in {"first", "second"}
    /\ Proceed(<<>>)
    /\ UNCHANGED selected

\* Mutant: ACK and media, but no BYE
CallUnended == <<Req("ACK", "dev", "none")>>

Call == <<Req("ACK", "dev", "none"), Req("BYE", "dev", "none")>>

\* Any 200 is taken for the answer to the INVITE.
GetInvited(m) ==
    /\ wait = "invited" /\ IsResponse(m, {200})
    /\ wait' = "bye" /\ called' = TRUE
    /\ ctx' = Call
    /\ UNCHANGED <<query, selected>>

Unexpected(m) ==
    /\ \/ wait = "challenge" /\ ~(IsResponse(m, {401}) /\ m.body = "challenge")
       \/ wait = "accepted" /\ ~IsAccepted(m)
       \/ wait = "invited" /\ ~IsResponse(m, {200})
       \/ wait = "bye"
    /\ Close

\* recv_sip_message returned m.
Receive(m) ==
    \/ GetChallenge(m) \/ GetAccepted(m)
    \/ Keepalive \/ GetFirst \/ GetSecond(m)
    \/ GetInvited(m) \/ Unexpected(m)

\* Mutant: the last wait has no limit
IsLimitedButBye == wait \in {"challenge", "accepted", "invited"}

EndsOnTimeout == wait \in {"challenge", "accepted", "invited", "bye"}

\* The three seconds are over.
NoAnswer ==
    \/ Keepalive \/ QueryUnanswered
    \/ EndsOnTimeout /\ Close

ClientInit ==
    /\ wait = "register" /\ query = 1
    /\ selected = FALSE /\ called = FALSE
    /\ ctx = <<>>
=============================================================================
