---------------------------- MODULE GbClientSystem ----------------------------
(***************************************************************************)
(* The straight-line client and the platform.  Their datagrams keep their  *)
(* order, but some are lost; the platform answers in time, or takes more   *)
(* than the three seconds the client waits.                                *)
(***************************************************************************)
EXTENDS GbSipRegisterClient, GbPlatform, SequencesExt

CONSTANTS
    Networks,    \* subset of {"in time", "late"}
    MaxLost,     \* bound: datagrams lost
    MaxRuns      \* bound: times the program is started

ASSUME ClientAssumption ==
    /\ Networks \subseteq {"in time", "late"}
    /\ MaxLost \in Nat /\ MaxRuns \in Nat \ {0}

VARIABLES
    network,
    to_platform, to_client,   \* datagrams under way or unread
    lost, runs

env == <<network, lost, runs>>
vars == <<cvars, pvars, env, to_platform, to_client>>

\* The replies precede what the platform sends on its own account.
RepliesFirst(s) == \A i \in 2..Len(s) : s[i].type = "req"

Send == to_platform' = to_platform \o ctx'

ClientStarts ==
    /\ FirstRegister \/ CannotStart
    /\ Send
    /\ UNCHANGED <<pvars, env, to_client>>

ClientReceives ==
    /\ wait # "closed" /\ to_client # <<>>
    /\ Receive(Head(to_client))
    /\ to_client' = Tail(to_client)
    /\ Send
    /\ UNCHANGED <<pvars, env>>

ClientTimesOut ==
    /\ to_client = <<>>
    /\ network = "late" \/ to_platform = <<>>
    /\ NoAnswer
    /\ Send
    /\ UNCHANGED <<pvars, env, to_client>>

\* Another run of the program; what its socket had not read is gone.
Again ==
    /\ wait = "closed" /\ runs < MaxRuns /\ runs' = runs + 1
    /\ wait' = "register" /\ query' = 1
    /\ selected' = FALSE /\ called' = FALSE /\ ctx' = <<>>
    /\ network = "late" \/ to_platform = <<>>
    /\ to_client' \in {<<>>} \cup (IF network = "late" THEN {to_client} ELSE {})
    /\ UNCHANGED <<pvars, network, lost, to_platform>>

PlatformHandles ==
    /\ to_platform # <<>>
    /\ Handle(Head(to_platform))
    /\ to_platform' = Tail(to_platform)
    /\ \E s \in SetToSeqs(ptx') : RepliesFirst(s) /\ to_client' = to_client \o s
    /\ UNCHANGED <<cvars, env>>

Lose ==
    /\ lost < MaxLost /\ lost' = lost + 1
    /\ \/ to_platform # <<>> /\ to_platform' = Tail(to_platform)
          /\ UNCHANGED to_client
       \/ to_client # <<>> /\ to_client' = Tail(to_client)
          /\ UNCHANGED to_platform
    /\ UNCHANGED <<cvars, pvars, network, runs>>

Init ==
    /\ ClientInit /\ PlatformInit
    /\ network \in Networks
    /\ to_platform = <<>> /\ to_client = <<>>
    /\ lost = 0 /\ runs = 1

Client == ClientStarts \/ ClientReceives \/ ClientTimesOut

Next == Client \/ Again \/ PlatformHandles \/ Lose

\* Every wait of the program ends, and the platform's loop goes on.
Fairness == WF_vars(Client) /\ WF_vars(PlatformHandles)

Spec == Init /\ [][Next]_vars /\ Fairness

-----------------------------------------------------------------------------
\* The client and the queues hold what the code can send.
ClientTypeOK ==
    /\ PlatformTypeOK
    /\ wait \in Waits /\ query \in 1..Len(Queries)
    /\ selected \in BOOLEAN /\ called \in BOOLEAN
    /\ ctx \in Seq(Messages)
    /\ to_platform \in Seq(Messages) /\ to_client \in Seq(Messages)

\* The client sends nothing but REGISTERs to a platform that does not hold
\* it for registered, whatever is lost or late.
TalksOnlyRegistered ==
    wait \notin {"register", "challenge", "accepted", "closed"} => registered

\* As long as answers come in time and once each, the 200 the client takes
\* for the answer to its INVITE is that answer, although it never looks at
\* what it answers.
CallIsAccepted ==
    [][network = "in time" /\ called' /\ ~called => invited]_vars

\* A call the client has ACKed is over when its program is, unless the BYE
\* was lost.
EndedCallIsOver ==
    wait = "closed" /\ called /\ lost = 0 /\ to_platform = <<>>
        => ~invited /\ ~acked

\* The program ends every time, whatever it gets or does not get.
ProgramEnds == []<>(wait = "closed")

\* A registered client whose every datagram arrives, in order and in time,
\* goes through the whole script.
WholeScript ==
    wait = "closed" /\ lost = 0 /\ network = "in time" /\ registered
        => called
=============================================================================
