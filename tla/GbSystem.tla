------------------------------ MODULE GbSystem ------------------------------
(***************************************************************************)
(* The device and the platform joined by UDP.  A datagram that was sent is *)
(* in to_plat or to_dev until it is delivered; the order is not kept.      *)
(* Round trips take milliseconds and the timers seconds, so no tick passes *)
(* while a datagram is in flight, except on a "late" network.  The kinds   *)
(* of network:                                                             *)
(*   "perfect"  everything arrives once                                    *)
(*   "lossy"    datagrams are lost and delivered twice                     *)
(*   "late"     datagrams are lost and stay in flight for any time         *)
(***************************************************************************)
EXTENDS GbDevice, FiniteSets

CONSTANTS
    Networks,    \* the kinds of network to look at
    Crashes,     \* how often the platform process may die
    MaxInFlight  \* bound: datagrams in flight each way, the rest is lost

ASSUME NetworkAssumption ==
    /\ Networks \subseteq {"perfect", "lossy", "late"}
    /\ Crashes \in Nat /\ MaxInFlight \in Nat \ {0}

VARIABLES
    registered, platform_invited, invited, acked, ptx,   \* see GbPlatform
    platform_up,
    crashes,           \* of the platform so far
    network,           \* never changes
    to_plat, to_dev    \* in flight

P == INSTANCE GbPlatform

flags == <<registered, platform_invited, invited, acked>>
platform == <<flags, platform_up, crashes>>
sysVars == <<vars, platform, ptx, network, to_plat, to_dev>>

\* What may be in flight once msgs were sent and gone was delivered
InFlight(queue, gone, msgs) ==
    {q \in {(queue \ g) \cup kept :
               g \in IF network = "lossy" THEN {{}, gone} ELSE {gone},
               kept \in IF network = "perfect" THEN {msgs} ELSE SUBSET msgs} :
        Cardinality(q) <= MaxInFlight}

\* A step of the device, which took gone from the network
DeviceSent(gone) ==
    /\ to_plat' \in InFlight(to_plat, {}, tx')
    /\ to_dev' \in InFlight(to_dev, gone, {})
    /\ ptx' = {}
    /\ UNCHANGED <<platform, network>>

DeviceReceives == \E m \in to_dev : Receive(m) /\ DeviceSent({m})
DeviceRuns == Loop /\ DeviceSent({})

PlatformReceives ==
    \E m \in to_plat :
      /\ platform_up
      /\ P!Handle(m)
      /\ to_plat' \in InFlight(to_plat, {m}, {})
      /\ to_dev' \in InFlight(to_dev, {}, ptx')
      /\ tx' = {}
      /\ UNCHANGED <<ctx, platform_up, crashes, network>>

\* The platform keeps nothing on disk: it comes back with its flags cleared.
PlatformDies ==
    /\ platform_up /\ crashes < Crashes
    /\ platform_up' = FALSE
    /\ crashes' = crashes + 1
    /\ registered' = FALSE /\ platform_invited' = FALSE
    /\ invited' = FALSE /\ acked' = FALSE
    /\ tx' = {} /\ ptx' = {}
    /\ UNCHANGED <<ctx, network, to_plat, to_dev>>

PlatformStarts ==
    /\ ~platform_up
    /\ platform_up' = TRUE
    /\ tx' = {} /\ ptx' = {}
    /\ UNCHANGED <<ctx, flags, crashes, network, to_plat, to_dev>>

\* What arrives at a closed socket or a dead process is gone.
Undeliverable ==
    /\ \/ /\ ~sock /\ to_dev # {}
          /\ to_dev' = {} /\ UNCHANGED to_plat
       \/ /\ ~platform_up /\ to_plat # {}
          /\ to_plat' = {} /\ UNCHANGED to_dev
    /\ tx' = {} /\ ptx' = {}
    /\ UNCHANGED <<ctx, platform, network>>

TimePasses ==
    /\ network = "late" \/ (to_plat = {} /\ to_dev = {})
    /\ Tick
    /\ ptx' = {}
    /\ UNCHANGED <<platform, network, to_plat, to_dev>>

Ended == Exited /\ to_plat = {} /\ to_dev = {} /\ UNCHANGED sysVars

SysInit ==
    /\ Init /\ P!PlatformInit
    /\ platform_up = TRUE /\ crashes = 0
    /\ network \in Networks /\ to_plat = {} /\ to_dev = {}

SysNext ==
    \/ DeviceReceives \/ DeviceRuns
    \/ PlatformReceives \/ PlatformDies \/ PlatformStarts
    \/ Undeliverable \/ TimePasses \/ Ended

SysSpec == SysInit /\ [][SysNext]_sysVars

\* Both processes run, what is in flight arrives, time passes.  Nobody has
\* to restart a platform that died.
SysFairness ==
    /\ WF_sysVars(DeviceReceives) /\ WF_sysVars(DeviceRuns)
    /\ WF_sysVars(PlatformReceives)
    /\ WF_sysVars(Undeliverable) /\ WF_sysVars(TimePasses)
FairSysSpec == SysSpec /\ SysFairness

-----------------------------------------------------------------------------
(* Properties.                                                             *)

Online == {"REGISTERED", "INVITING", "STREAMING", "BYE_PENDING"}

\* The types of both processes and of what is between them.
SysTypeOK ==
    /\ TypeOK /\ P!PlatformTypeOK
    /\ platform_up \in BOOLEAN /\ crashes \in 0 .. Crashes
    /\ network \in Networks
    /\ to_plat \subseteq Messages /\ to_dev \subseteq Messages

\* A device that thinks it is online is registered: since any 200 ends the
\* registration, no 200 may reach a registering device before the platform
\* has accepted one REGISTER, whatever is lost, repeated or late.
RegistrationAgrees == crashes = 0 /\ state \in Online => registered

\* acked says that the media session of the current call stands: whatever
\* order INVITE, ACK and BYE arrive in, it never outlives its call.
AckedOnlyInvited == acked => invited

\* Media flows only in a call the platform has accepted and not ended.
MediaAccepted == crashes = 0 /\ state = "STREAMING" => invited

\* The same, as far as the code keeps it: while answers come in time.
MediaAcceptedInTime == network # "late" => MediaAccepted

\* A cycle counts only if the platform has ended its side of the call too,
\* again while answers come in time.
CycleMeansReleased ==
    [][network # "late" /\ cycles_done' > cycles_done => ~invited]_sysVars

\* Once nothing is in flight and nothing was lost, the two agree on the
\* registration and the call.
QuietAgreement ==
    to_plat = {} /\ to_dev = {} /\ phase # "boot" =>
       /\ registered <=> state \in Online
       /\ invited <=> state = "STREAMING"
       /\ acked <=> state = "STREAMING"

\* On a network that loses nothing the device makes its calls, deregisters
\* and ends.
CompletesAndEnds == <>[](phase = "exited" /\ ~registered)

\* GB_KEEPALIVE_MISS_MAX: that many unanswered keepalives mean that the
\* platform is gone, and the device goes to IDLE to reconnect.
DeadPlatformDetected == ~platform_up ~> platform_up \/ state = "IDLE"

\* In REGISTERED the INVITE timer is served first, and the timeout of the
\* INVITE starts both timers anew: a keepalive is ever sent only where its
\* interval is the shorter one, which the one of the code is not.
KeepalivesGetSent == KeepaliveInterval < InviteAfter

\* A device whose registration the platform has forgotten registers again, but
\* only where keepalives get sent: they are refused, and counted.  The INVITE
\* is refused as well, but with a 501, which INVITING ignores until it times
\* out; with the intervals of the code the device stays away for ever.
ForgottenDeviceReturns ==
    KeepalivesGetSent =>
        (state = "REGISTERED" /\ ~registered ~> registered \/ ~platform_up)

=============================================================================
