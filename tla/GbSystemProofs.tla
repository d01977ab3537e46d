---------------------------- MODULE GbSystemProofs ----------------------------
(***************************************************************************)
(* The device and the platform together, for every network, any number of  *)
(* datagrams in flight, and all limits and timers of the device.           *)
(***************************************************************************)
EXTENDS GbSystem, GbDeviceSafety

\* The device has asked to be deregistered, or has ended after that.
Leaving == state = "DEREGISTERING" \/ (state = "IDLE" /\ stopping)

\* The device starts in IDLE, and nothing wakes it once it has stopped: no
\* timer, no datagram.
StoppedStays ==
    /\ phase = "boot" => state = "IDLE"
    /\ stopping => /\ state = "IDLE" /\ ~sock /\ phase # "boot"
                   /\ state_deadline = OFF

\* Only a platform that holds the device for registered has answered 200,
\* and only a device that leaves has asked to be deregistered.
AnswersMeanRegistered ==
    /\ \A m \in to_dev : IsResponse(m, {200}) => registered \/ Leaving
    /\ \A m \in to_plat : m.body = "expires0" => Leaving
    /\ state \in Online => registered

SysInv ==
    /\ StoppedStays
    /\ crashes \in Nat
    /\ crashes = 0 => AnswersMeanRegistered

-----------------------------------------------------------------------------
\* Whatever a network does, nothing is delivered that was not sent.
LEMMA NothingInvented ==
    ASSUME NEW queue, NEW gone, NEW msgs, NEW q \in InFlight(queue, gone, msgs)
    PROVE  q \subseteq queue \cup msgs
BY DEF InFlight

(* The steps of the device.  Quiet says of one that it sends no Expires:0  *)
(* and does not count as registered without having been so.                *)

Quiet ==
    /\ \A x \in tx' : x.body # "expires0"
    /\ UNCHANGED stopping
    /\ ~Leaving
    /\ state' # "DEREGISTERING"

LEMMA StartRegisteringQuiet ==
    ASSUME ~Leaving, ~stopping, NEW r, StartRegistering(r)
    PROVE  Quiet /\ state' \notin Online
BY DEF StartRegistering, Register, Req, Await, EnterIdleWithBackoff, Cycles,
       Quiet, Online

LEMMA SendRegisterWithAuthQuiet ==
    ASSUME ~Leaving, SendRegisterWithAuth
    PROVE  Quiet /\ state' \notin Online
BY DEF SendRegisterWithAuth, Register, Req, Await, EnterIdleWithBackoff, Cycles,
       Quiet, Online

LEMMA GiveUpQuiet ==
    ASSUME ~Leaving, ~stopping, GiveUp
    PROVE  Quiet /\ state' \notin Online
BY DEF GiveUp, EnterIdleWithBackoff, Await, Cycles, Quiet, Online

LEMMA ByeQuiet ==
    ASSUME NEW msgs, ByeSent(msgs), \A x \in msgs : x.body # "expires0"
    PROVE  /\ \A x \in tx' : x.body # "expires0"
           /\ state' # "DEREGISTERING"
BY DEF ByeSent, InDialog, Req, Await, EnterIdleWithBackoff

LEMMA StartMediaQuiet ==
    ASSUME SendAckAndStartMedia
    PROVE  /\ \A x \in tx' : x.body # "expires0"
           /\ state' # "DEREGISTERING"
<1>1. \A x \in {InDialog("ACK")} : x.body # "expires0"
    BY DEF InDialog, Req
<1> QED BY <1>1, ByeQuiet DEF SendAckAndStartMedia, EnterStreaming, Await,
                              EnterIdleWithBackoff

\* A datagram: the device becomes registered by a 200 only.
LEMMA ReceiveStep ==
    ASSUME StoppedStays, NEW m, Receive(m)
    PROVE  /\ StoppedStays'
           /\ Leaving => Leaving' /\ tx' = {}
           /\ \A x \in tx' : x.body = "expires0" => Leaving'
           /\ ~Leaving /\ state' \in Online =>
                 state \in Online \/ IsResponse(m, {200})
<1>0. ~stopping /\ sock /\ phase = "loop" /\ phase' = "loop"
    BY DEF Receive, StoppedStays
<1>a. ASSUME Quiet PROVE StoppedStays'
    BY <1>0, <1>a DEF Quiet, StoppedStays
<1>1. CASE RecvRegistering(m)
  <2>1. CASE SendRegisterWithAuth
    <3>1. Quiet /\ state' \notin Online
        BY <1>0, <1>1, <2>1, SendRegisterWithAuthQuiet DEF RecvRegistering, Leaving
    <3> QED BY <1>0, <1>a, <3>1 DEF Quiet
  <2>2. CASE IsResponse(m, {200}) /\ BackToRegistered({}) /\ UNCHANGED <<Media, Cycles>>
    <3>1. Quiet
        BY <1>0, <1>1, <2>2 DEF RecvRegistering, BackToRegistered,
           EnterRegistered, Await, Cycles, Quiet, Leaving
    <3> QED BY <1>0, <1>a, <2>2, <3>1 DEF Quiet
  <2>3. CASE GiveUp
    <3>1. Quiet /\ state' \notin Online
        BY <1>0, <1>1, <2>3, GiveUpQuiet DEF RecvRegistering, Leaving
    <3> QED BY <1>0, <1>a, <3>1 DEF Quiet
  <2> QED BY <1>1, <2>1, <2>2, <2>3 DEF RecvRegistering
<1>2. CASE RecvAuthenticating(m)
  <2>1. CASE IsResponse(m, {200}) /\ BackToRegistered({}) /\ UNCHANGED <<Media, Cycles>>
    <3>1. Quiet
        BY <1>0, <1>2, <2>1 DEF RecvAuthenticating, BackToRegistered,
           EnterRegistered, Await, Cycles, Quiet, Leaving
    <3> QED BY <1>0, <1>a, <2>1, <3>1 DEF Quiet
  <2>2. CASE GiveUp
    <3>1. Quiet /\ state' \notin Online
        BY <1>0, <1>2, <2>2, GiveUpQuiet DEF RecvAuthenticating, Leaving
    <3> QED BY <1>0, <1>a, <3>1 DEF Quiet
  <2> QED BY <1>2, <2>1, <2>2 DEF RecvAuthenticating
<1>3. CASE RecvRegistered(m)
  <2>1. \A x \in tx' : x.body # "expires0"
    <3>1. \A x \in AnswersTo(m) : x.body # "expires0"
        BY DEF AnswersTo, Reply, Req
    <3> QED BY <1>3, <3>1 DEF RecvRegistered, StartPulledMedia
  <2>2. UNCHANGED stopping /\ state' \in {"REGISTERED", "STREAMING"}
        BY <1>3 DEF RecvRegistered, StartPulledMedia, EnterStreaming, Await, Cycles
  <2> QED BY <1>0, <1>3, <1>a, <2>1, <2>2 DEF Quiet, RecvRegistered, Online,
                                             Leaving
<1>4. CASE RecvInviting(m)
  <2>1. /\ \A x \in tx' : x.body # "expires0"
        /\ state' # "DEREGISTERING"
        BY <1>4, StartMediaQuiet DEF RecvInviting, BackToRegistered,
           EnterRegistered, Await
  <2> QED BY <1>0, <1>4, <1>a, <2>1 DEF Quiet, RecvInviting, Online, Leaving,
                                       Cycles
<1>5. CASE RecvStreaming(m)
  <2>1. Quiet
        BY <1>0, <1>5 DEF RecvStreaming, BackToRegistered, EnterRegistered,
           Await, Reply, Cycles, Quiet, Leaving
  <2> QED BY <1>0, <1>5, <1>a, <2>1 DEF Quiet, RecvStreaming, Online
<1>6. CASE RecvByePending(m)
  <2>1. UNCHANGED stopping /\ state = "BYE_PENDING"
        BY <1>6 DEF RecvByePending
  <2>2. CASE state' = "DEREGISTERING"
        BY <1>0, <2>1, <2>2 DEF StoppedStays, Leaving, Online
  <2>3. CASE BackToRegistered({})
        BY <1>0, <2>1, <2>3 DEF BackToRegistered, StoppedStays, Leaving, Online
  <2> QED BY <1>6, <2>2, <2>3 DEF RecvByePending, Await
<1>7. CASE RecvDeregistering(m)
    BY <1>0, <1>7 DEF RecvDeregistering, Stop, Await, StoppedStays, Leaving
<1>8. CASE Ignore(m)
    BY <1>0, <1>8 DEF Ignore, Cycles, Timers, StoppedStays, Leaving
<1> QED BY <1>1, <1>2, <1>3, <1>4, <1>5, <1>6, <1>7, <1>8 DEF Receive

\* A turn of the loop without a datagram.
LEMMA LoopStep ==
    ASSUME "recv" \notin Faults, StoppedStays, Loop
    PROVE  /\ StoppedStays'
           /\ Leaving => Leaving'
           /\ \A x \in tx' : x.body # "expires0"
           /\ state' \in Online => state \in Online
<1>a. ASSUME Quiet, ~stopping, phase' = "loop" PROVE StoppedStays'
    BY <1>a DEF Quiet, StoppedStays
<1>b. ASSUME ~Leaving, ~stopping, phase' = "loop",
             NEW r, StartRegistering(r)
      PROVE  /\ StoppedStays' /\ state' \notin Online
             /\ \A x \in tx' : x.body # "expires0"
    BY <1>a, <1>b, StartRegisteringQuiet DEF Quiet
<1>1. CASE Boot
  <2>1. ~stopping
        BY <1>1 DEF Boot, StoppedStays
  <2>2. ~Leaving /\ phase' = "loop"
        BY <1>1, <2>1 DEF Boot, StoppedStays, Leaving
  <2> QED BY <1>1, <1>b, <2>1, <2>2 DEF Boot
<1>2. CASE Exit
    BY <1>2 DEF Exit, Cycles, Timers, StoppedStays, Leaving, Online
<1>3. CASE RecvFails
    BY <1>3 DEF RecvFails
<1>4. CASE Timeout
  <2>0. ~stopping /\ phase = "loop" /\ phase' = "loop"
        BY <1>4 DEF Timeout, TimeoutDue, Expired, StoppedStays, OFF
  <2>1. CASE TimeoutIdle \/ TimeoutAuthenticating
        BY <1>b, <2>0, <2>1 DEF TimeoutIdle, TimeoutAuthenticating, Leaving
  <2>2. CASE TimeoutRegistering
        BY <1>a, <1>b, <2>0, <2>2, GiveUpQuiet DEF TimeoutRegistering, Leaving,
           Quiet
  <2>3. CASE TimeoutRegistered
    <3>1. Quiet
        BY <2>0, <2>3 DEF TimeoutRegistered, SendInvite, SendKeepalive, Req,
           Await, EnterIdleWithBackoff, Cycles, Leaving, Quiet
    <3> QED BY <1>a, <2>0, <2>3, <3>1 DEF Quiet, TimeoutRegistered, Online
  <2>4. CASE TimeoutInviting
    <3>1. Quiet
        BY <2>0, <2>4 DEF TimeoutInviting, BackToRegistered, EnterRegistered,
           Await, Cycles, Leaving, Quiet
    <3> QED BY <1>a, <2>0, <2>4, <3>1 DEF Quiet, TimeoutInviting, Online
  <2>5. CASE TimeoutStreaming
    <3>1. Quiet
        BY <2>0, <2>5, ByeQuiet DEF TimeoutStreaming, SendBye, SendFrame,
           Cycles, Leaving, Quiet
    <3> QED BY <1>a, <2>0, <2>5, <3>1 DEF Quiet, TimeoutStreaming, Online
  <2>6. CASE TimeoutByePending
    <3>1. Quiet
        BY <2>0, <2>6 DEF TimeoutByePending, BackToRegistered, EnterRegistered,
           Await, Cycles, Leaving, Quiet
    <3> QED BY <1>a, <2>0, <2>6, <3>1 DEF Quiet, TimeoutByePending, Online
  <2>7. CASE TimeoutDeregistering
        BY <2>0, <2>7 DEF TimeoutDeregistering, Stop, Await, StoppedStays,
           Leaving, Online
  <2> QED BY <1>4, <2>1, <2>2, <2>3, <2>4, <2>5, <2>6, <2>7 DEF Timeout
<1> QED BY <1>1, <1>2, <1>3, <1>4 DEF Loop

LEMMA TickStep ==
    ASSUME StoppedStays, Tick
    PROVE  StoppedStays' /\ UNCHANGED <<state, stopping>>
BY DEF Tick, CountDown, OFF, Cycles, StoppedStays

\* The platform forgets a registration only on request, and says 200 only
\* to a registered device, or to one that has asked to be deregistered.
LEMMA HandleStep ==
    ASSUME NEW m, P!Handle(m)
    PROVE  /\ registered /\ m.body # "expires0" => registered'
           /\ \A x \in ptx' : IsResponse(x, {200}) =>
                 registered' \/ m.body = "expires0"
<1> USE DEF IsResponse, P!Reply, P!Req, P!IsRequest
<1>1. CASE P!GetResponse(m)
    BY <1>1 DEF P!GetResponse, P!pctx
<1>2. CASE P!Deregister(m)
    BY <1>2 DEF P!Deregister
<1>3. CASE P!Challenge(m)
    BY <1>3 DEF P!Challenge, P!pctx
<1>4. CASE P!AcceptRegister(m)
    BY <1>4 DEF P!AcceptRegister
<1>5. CASE P!GetMessage(m) \/ P!GetInvite(m) \/ P!GetAck(m) \/ P!GetBye(m)
  <2>1. P!GetAck(m) => ptx' = {} /\ registered' = registered
        BY DEF P!GetAck
  <2>2. ~P!GetAck(m) => registered /\ registered' = registered
        BY <1>5 DEF P!GetMessage, P!GetInvite, P!GetBye
  <2> QED BY <2>1, <2>2
<1>6. CASE P!NotImplemented(m)
    BY <1>6 DEF P!NotImplemented, P!pctx
<1> QED BY <1>1, <1>2, <1>3, <1>4, <1>5, <1>6 DEF P!Handle

-----------------------------------------------------------------------------
LEMMA SysInvInductive ==
    ASSUME "recv" \notin Faults, SysInv, [SysNext]_sysVars
    PROVE  SysInv'
<1> USE DEF SysInv
<1>1. CASE DeviceReceives
  <2>1. PICK m \in to_dev : Receive(m) /\ DeviceSent({m})
        BY <1>1 DEF DeviceReceives
  <2>2. /\ UNCHANGED <<registered, crashes>>
        /\ to_plat' \subseteq to_plat \cup tx' /\ to_dev' \subseteq to_dev
        BY <2>1, NothingInvented DEF DeviceSent, platform, flags
  <2>3. ASSUME AnswersMeanRegistered PROVE AnswersMeanRegistered'
    <3>1. Leaving => Leaving'
          BY <2>1, ReceiveStep
    <3>2. \A x \in tx' : x.body = "expires0" => Leaving'
          BY <2>1, ReceiveStep
    <3>3. state' \in Online => registered
      <4>1. CASE Leaving
            BY <3>1, <4>1 DEF Leaving, Online
      <4>2. CASE ~Leaving
            BY <2>1, <2>3, <4>2, ReceiveStep DEF AnswersMeanRegistered
      <4> QED BY <4>1, <4>2
    <3> QED BY <2>2, <2>3, <3>1, <3>2, <3>3 DEF AnswersMeanRegistered, Online
  <2> QED BY <2>1, <2>2, <2>3, ReceiveStep
<1>2. CASE DeviceRuns
  <2>1. /\ UNCHANGED <<registered, crashes>>
        /\ to_plat' \subseteq to_plat \cup tx' /\ to_dev' \subseteq to_dev
        BY <1>2, NothingInvented DEF DeviceRuns, DeviceSent, platform, flags
  <2>2. /\ StoppedStays' /\ (Leaving => Leaving')
        /\ \A x \in tx' : x.body # "expires0"
        /\ state' \in Online => state \in Online
        BY <1>2, LoopStep DEF DeviceRuns
  <2> QED BY <2>1, <2>2 DEF AnswersMeanRegistered, Online
<1>3. CASE PlatformReceives
  <2>1. PICK m \in to_plat : P!Handle(m) /\ to_plat' \in InFlight(to_plat, {m}, {})
        BY <1>3 DEF PlatformReceives
  <2>2. /\ UNCHANGED <<phase, state, stopping, sock, state_deadline, crashes>>
        /\ to_plat' \subseteq to_plat /\ to_dev' \subseteq to_dev \cup ptx'
        BY <1>3, <2>1, NothingInvented DEF PlatformReceives, ctx
  <2>3. /\ registered /\ m.body # "expires0" => registered'
        /\ \A x \in ptx' : IsResponse(x, {200}) =>
              registered' \/ m.body = "expires0"
        BY <2>1, HandleStep
  <2>4. Leaving' = Leaving /\ StoppedStays'
        BY <2>2 DEF Leaving, StoppedStays
  <2>5. ASSUME AnswersMeanRegistered PROVE AnswersMeanRegistered'
    <3>1. CASE Leaving
          BY <2>2, <2>4, <2>5, <3>1 DEF AnswersMeanRegistered, Leaving, Online
    <3>2. CASE ~Leaving
      <4>1. m.body # "expires0"
            BY <2>1, <2>5, <3>2 DEF AnswersMeanRegistered
      <4> QED BY <2>2, <2>3, <2>4, <2>5, <3>2, <4>1
              DEF AnswersMeanRegistered, Online
    <3> QED BY <3>1, <3>2
  <2> QED BY <2>2, <2>4, <2>5
<1>4. CASE PlatformDies
    BY <1>4 DEF PlatformDies, ctx, StoppedStays
<1>5. CASE PlatformStarts
    BY <1>5 DEF PlatformStarts, ctx, flags, StoppedStays, AnswersMeanRegistered,
       Leaving, Online
<1>6. CASE Undeliverable
    BY <1>6 DEF Undeliverable, ctx, platform, flags, StoppedStays,
       AnswersMeanRegistered, Leaving, Online
<1>7. CASE TimePasses
  <2>1. StoppedStays' /\ UNCHANGED <<state, stopping>>
        BY <1>7, TickStep DEF TimePasses
  <2>2. UNCHANGED <<registered, crashes, to_plat, to_dev>>
        BY <1>7 DEF TimePasses, platform, flags
  <2> QED BY <2>1, <2>2 DEF AnswersMeanRegistered, Leaving, Online
<1>8. CASE UNCHANGED sysVars
    BY <1>8 DEF sysVars, vars, ctx, platform, flags, StoppedStays,
       AnswersMeanRegistered, Leaving, Online
<1> QED BY <1>1, <1>2, <1>3, <1>4, <1>5, <1>6, <1>7, <1>8 DEF SysNext, Ended

\* Whatever is lost, repeated or late: a device that counts itself registered
\* is registered, as long as the platform has not died and the device reads
\* its socket without errors.
THEOREM RegistrationCorrect ==
    ASSUME "recv" \notin Faults
    PROVE  SysSpec => []RegistrationAgrees
<1>1. SysInit => SysInv
    BY DEF SysInit, Init, SysInv, StoppedStays, AnswersMeanRegistered, Online
<1>2. SysInv => RegistrationAgrees
    BY DEF SysInv, AnswersMeanRegistered, RegistrationAgrees
<1>3. SysInv /\ [SysNext]_sysVars => SysInv'
    BY SysInvInductive
<1> QED BY <1>1, <1>2, <1>3, PTL DEF SysSpec

\* INVITE, ACK and BYE in any order, repeated, or answered by a platform that
\* died meanwhile: the media session on the platform never outlives its call.
THEOREM CallsCorrect == SysSpec => []AckedOnlyInvited
<1>1. SysInit => AckedOnlyInvited
    BY DEF SysInit, P!PlatformInit, AckedOnlyInvited
<1>2. AckedOnlyInvited /\ [SysNext]_sysVars => AckedOnlyInvited'
  <2> SUFFICES ASSUME AckedOnlyInvited, [SysNext]_sysVars
               PROVE  AckedOnlyInvited'
      OBVIOUS
  <2>1. ASSUME NEW m, P!Handle(m) PROVE AckedOnlyInvited'
        BY <2>1 DEF P!Handle, P!IsRequest, P!GetResponse, P!Deregister, P!Challenge,
           P!AcceptRegister, P!GetMessage, P!GetInvite, P!GetAck, P!GetBye,
           P!NotImplemented, P!pctx, AckedOnlyInvited
  <2>2. CASE PlatformReceives
        BY <2>1, <2>2 DEF PlatformReceives
  <2>3. CASE PlatformDies
        BY <2>3 DEF PlatformDies, AckedOnlyInvited
  <2>4. CASE UNCHANGED flags
        BY <2>4 DEF flags, AckedOnlyInvited
  <2> QED BY <2>2, <2>3, <2>4 DEF SysNext, DeviceReceives, DeviceRuns, DeviceSent,
          PlatformStarts, Undeliverable, TimePasses, Ended, platform, sysVars
<1> QED BY <1>1, <1>2, PTL DEF SysSpec
-----------------------------------------------------------------------------
(* The types.  The two sides' type facts meet in Messages: what is in      *)
(* flight was sent by one of them.                                         *)

PlatformFlagsOK ==
    /\ registered \in BOOLEAN /\ platform_invited \in BOOLEAN
    /\ invited \in BOOLEAN /\ acked \in BOOLEAN

LEMMA PlatformMessages == P!Messages = Messages
BY DEF P!Messages, Messages, P!Requests, Requests, P!Responses, Responses,
       P!Methods, Methods, P!CallIds, CallIds, P!Codes, Codes,
       P!RequestBodies, RequestBodies, P!ResponseBodies, ResponseBodies

\* The datagrams the platform builds are messages.
LEMMA PlatformBuilds ==
    /\ \A mt \in Methods, c \in CallIds, b \in RequestBodies :
          P!Req(mt, c, b) \in Messages
    /\ \A m \in Messages, c \in Codes, b \in ResponseBodies :
          P!Reply(m, c, b) \in Messages
BY DEF P!Req, P!Reply, Messages, Requests, Responses

LEMMA FollowUpMessages ==
    ASSUME NEW m PROVE P!FollowUp(m) \subseteq Messages
<1>1. \A b \in RequestBodies : P!Req("MESSAGE", "platform", b) \in Messages
    BY PlatformBuilds DEF Methods, CallIds
<1>2. P!PlaybackInvite \in Messages /\ P!PlatformInvite \in Messages
    BY PlatformBuilds DEF P!PlaybackInvite, P!PlatformInvite, Methods, CallIds,
       RequestBodies
<1>3. P!PtzControl \in Messages /\ P!RecordInfoQuery \in Messages
    BY <1>1 DEF P!PtzControl, P!RecordInfoQuery, RequestBodies
<1>4. \A b \in {"CatalogResponse", "DeviceInfoResponse", "DeviceStatusResponse"} :
         P!Req("MESSAGE", "platform", b) \in Messages
    BY <1>1 DEF RequestBodies
<1> QED BY <1>2, <1>3, <1>4 DEF P!FollowUp

\* One turn of the platform's loop keeps its flags flags and sends messages.
LEMMA HandleType ==
    ASSUME PlatformFlagsOK, NEW m \in Messages, P!Handle(m)
    PROVE  PlatformFlagsOK' /\ ptx' \subseteq Messages
<1>0. /\ P!Reply(m, 200, "none") \in Messages /\ P!Reply(m, 200, "tag") \in Messages
      /\ P!Reply(m, 401, "challenge") \in Messages
      /\ P!Reply(m, 501, "none") \in Messages
    BY PlatformBuilds DEF Codes, ResponseBodies
<1>1. CASE P!GetResponse(m)
  <2>1. P!Req("ACK", m.cid, "none") \in Messages
        BY PlatformBuilds DEF Messages, Requests, Responses, Methods, RequestBodies
  <2>2. PlatformFlagsOK'
        BY <1>1 DEF P!GetResponse, P!pctx, PlatformFlagsOK
  <2> QED BY <1>1, <2>1, <2>2 DEF P!GetResponse
<1>2. CASE P!Deregister(m)
    BY <1>0, <1>2, Zenon DEF P!Deregister, PlatformFlagsOK
<1>3. CASE P!Challenge(m)
    BY <1>0, <1>3, Zenon DEF P!Challenge, P!pctx, PlatformFlagsOK
<1>4. CASE P!AcceptRegister(m)
  <2>1. P!CatalogQuery \in Messages
        BY PlatformBuilds DEF P!CatalogQuery, Methods, CallIds, RequestBodies
  <2>2. ptx' \subseteq Messages
        BY <1>0, <1>4, <2>1 DEF P!AcceptRegister
  <2> QED BY <1>4, <2>2 DEF P!AcceptRegister, PlatformFlagsOK
<1>5. CASE P!GetMessage(m)
  <2>1. ptx' \subseteq Messages
        BY <1>0, <1>5, FollowUpMessages DEF P!GetMessage
  <2>2. platform_invited' \in BOOLEAN
        BY <1>5 DEF P!GetMessage
  <2> QED BY <1>5, <2>1, <2>2 DEF P!GetMessage, PlatformFlagsOK
<1>6. CASE P!GetInvite(m)
    BY <1>0, <1>6 DEF P!GetInvite, PlatformFlagsOK
<1>7. CASE P!GetAck(m)
    BY <1>0, <1>7 DEF P!GetAck, PlatformFlagsOK
<1>8. CASE P!GetBye(m)
    BY <1>0, <1>8 DEF P!GetBye, PlatformFlagsOK
<1>9. CASE P!NotImplemented(m)
    BY <1>0, <1>9 DEF P!NotImplemented, P!pctx, PlatformFlagsOK
<1> QED BY <1>1, <1>2, <1>3, <1>4, <1>5, <1>6, <1>7, <1>8, <1>9 DEF P!Handle

\* A turn of the device's loop without a datagram.
LEMMA LoopType ==
    ASSUME CtxOK, phase \in {"boot", "loop", "exited"}, Loop
    PROVE  /\ CtxOK' /\ tx' \subseteq Messages
           /\ phase' \in {"boot", "loop", "exited"}
<1>1. CASE Boot
  <2>1. register_retries \in 0 .. RegisterRetryMax - 1
        BY DEF CtxOK, StateOK
  <2> QED BY <1>1, <2>1, StartRegisteringType DEF Boot
<1>2. CASE Timeout
    BY <1>2, TimeoutType DEF Timeout
<1>3. CASE RecvFails
    BY <1>3, GiveUpType DEF RecvFails
<1>4. CASE Exit
    BY <1>4, ExitType DEF Exit
<1> QED BY <1>1, <1>2, <1>3, <1>4 DEF Loop

\* The parts of SysTypeOK that the steps change separately
DeviceOK ==
    /\ CtxOK /\ phase \in {"boot", "loop", "exited"} /\ tx \subseteq Messages
PlatformOK ==
    /\ PlatformFlagsOK /\ ptx \subseteq Messages
    /\ platform_up \in BOOLEAN /\ crashes \in 0 .. Crashes
WireOK ==
    /\ network \in Networks
    /\ to_plat \subseteq Messages /\ to_dev \subseteq Messages

LEMMA SysTypeParts == SysTypeOK <=> DeviceOK /\ PlatformOK /\ WireOK
BY PlatformMessages
DEF SysTypeOK, TypeOK, P!PlatformTypeOK, DeviceOK, CtxOK, StateOK, TimersOK,
    DialogOK, MediaOK, CyclesOK, PlatformOK, PlatformFlagsOK, WireOK

LEMMA UnchangedDevice ==
    ASSUME DeviceOK, UNCHANGED ctx, tx' \subseteq Messages
    PROVE  DeviceOK'
BY DEF DeviceOK, ctx, CtxOK, StateOK, TimersOK, DialogOK, MediaOK, CyclesOK

LEMMA UnchangedPlatform ==
    ASSUME PlatformOK, UNCHANGED platform, ptx' \subseteq Messages
    PROVE  PlatformOK'
BY DEF PlatformOK, PlatformFlagsOK, platform, flags

\* A step of the device hands the network nothing but messages.
LEMMA DeviceSentType ==
    ASSUME PlatformOK, WireOK, NEW gone, DeviceSent(gone), tx' \subseteq Messages
    PROVE  PlatformOK' /\ WireOK'
<1>1. to_plat' \subseteq to_plat \cup tx' /\ to_dev' \subseteq to_dev
    BY NothingInvented DEF DeviceSent
<1>2. PlatformOK'
    BY UnchangedPlatform DEF DeviceSent
<1> QED BY <1>1, <1>2 DEF DeviceSent, WireOK

\* Type correctness of the device, the platform and the network between
\* them, for every network and every number of crashes.
THEOREM SysTypeCorrect == SysSpec => []SysTypeOK
<1>1. SysInit => SysTypeOK
  <2> SUFFICES ASSUME SysInit PROVE DeviceOK /\ PlatformOK /\ WireOK
      BY SysTypeParts
  <2>1. DeviceOK
    <3>0. /\ sock \in BOOLEAN /\ to_tag \in BOOLEAN /\ media_handle \in BOOLEAN
          /\ fp \in BOOLEAN /\ stopping \in BOOLEAN
          BY DEF SysInit, Init
    <3>1. StateOK
          BY <3>0, LimitsAssumption, TimersAssumption
          DEF SysInit, Init, StateOK, States
    <3>2. TimersOK
          BY TimersAssumption DEF SysInit, Init, TimersOK, UpTo, OFF
    <3>3. DialogOK /\ MediaOK /\ CyclesOK
          BY <3>0, LimitsAssumption DEF SysInit, Init, DialogOK, MediaOK, CyclesOK
    <3> QED BY <3>1, <3>2, <3>3 DEF SysInit, Init, DeviceOK, CtxOK
  <2>2. PlatformOK
    <3>1. PlatformFlagsOK
          BY Zenon DEF SysInit, P!PlatformInit, PlatformFlagsOK
    <3>2. platform_up \in BOOLEAN
          BY DEF SysInit
    <3> QED BY <3>1, <3>2, NetworkAssumption DEF SysInit, P!PlatformInit, PlatformOK
  <2> QED BY <2>1, <2>2 DEF SysInit, WireOK
<1>2. SysTypeOK /\ [SysNext]_sysVars => SysTypeOK'
  <2>0. (SysTypeOK <=> DeviceOK /\ PlatformOK /\ WireOK)'
      BY SysTypeParts, PTL
  <2> SUFFICES ASSUME DeviceOK, PlatformOK, WireOK, [SysNext]_sysVars
               PROVE  DeviceOK' /\ PlatformOK' /\ WireOK'
      BY <2>0, SysTypeParts
  <2>1. CASE DeviceReceives
    <3>1. PICK m \in to_dev : Receive(m) /\ DeviceSent({m})
          BY <2>1 DEF DeviceReceives
    <3>2. CtxOK' /\ tx' \subseteq Messages
          BY <3>1, ReceiveType DEF DeviceOK, WireOK
    <3>3. phase' = phase
          BY <3>1 DEF Receive
    <3>4. DeviceOK'
          BY <3>2, <3>3 DEF DeviceOK
    <3> QED BY <3>1, <3>2, <3>4, DeviceSentType
  <2>2. CASE DeviceRuns
    <3>1. DeviceOK'
          BY <2>2, LoopType DEF DeviceRuns, DeviceOK
    <3>2. DeviceSent({}) /\ tx' \subseteq Messages
          BY <2>2, <3>1 DEF DeviceRuns, DeviceOK
    <3> QED BY <3>1, <3>2, DeviceSentType
  <2>3. CASE PlatformReceives
    <3>1. PICK m \in to_plat : /\ P!Handle(m)
                               /\ to_plat' \in InFlight(to_plat, {m}, {})
          BY <2>3 DEF PlatformReceives
    <3>2. PlatformFlagsOK' /\ ptx' \subseteq Messages
          BY <3>1, HandleType DEF PlatformOK, WireOK
    <3>3. /\ to_plat' \subseteq to_plat /\ to_dev' \subseteq to_dev \cup ptx'
          /\ tx' = {} /\ UNCHANGED <<ctx, platform_up, crashes, network>>
          BY <2>3, <3>1, NothingInvented DEF PlatformReceives
    <3>4. DeviceOK'
          BY <3>3, UnchangedDevice
    <3>5. PlatformOK'
          BY <3>2, <3>3 DEF PlatformOK
    <3> QED BY <3>2, <3>3, <3>4, <3>5 DEF WireOK
  <2>4. CASE PlatformDies
    <3>1. DeviceOK' /\ WireOK'
          BY <2>4, UnchangedDevice DEF PlatformDies, WireOK
    <3>2. crashes' \in 0 .. Crashes
          BY <2>4, NetworkAssumption DEF PlatformDies, PlatformOK
    <3> QED BY <2>4, <3>1, <3>2 DEF PlatformDies, PlatformOK, PlatformFlagsOK
  <2>5. CASE PlatformStarts
    <3>1. DeviceOK' /\ WireOK'
          BY <2>5, UnchangedDevice DEF PlatformStarts, WireOK
    <3> QED BY <2>5, <3>1 DEF PlatformStarts, PlatformOK, PlatformFlagsOK, flags
  <2>6. CASE Undeliverable
    <3>1. DeviceOK' /\ PlatformOK'
          BY <2>6, UnchangedDevice, UnchangedPlatform DEF Undeliverable
    <3> QED BY <2>6, <3>1 DEF Undeliverable, WireOK
  <2>7. CASE TimePasses
    <3>1. CtxOK' /\ tx' \subseteq Messages /\ phase' = phase
          BY <2>7, TickType DEF TimePasses, DeviceOK, Tick
    <3>2. PlatformOK'
          BY <2>7, UnchangedPlatform DEF TimePasses
    <3> QED BY <2>7, <3>1, <3>2 DEF TimePasses, DeviceOK, WireOK
  <2>8. CASE UNCHANGED sysVars
    <3>1. UNCHANGED ctx /\ UNCHANGED tx /\ UNCHANGED platform /\ UNCHANGED ptx
          BY <2>8 DEF sysVars, vars
    <3>2. DeviceOK'
          BY <3>1, UnchangedDevice DEF DeviceOK
    <3>3. PlatformOK'
          BY <3>1, UnchangedPlatform DEF PlatformOK
    <3> QED BY <2>8, <3>2, <3>3 DEF sysVars, WireOK
  <2> QED BY <2>1, <2>2, <2>3, <2>4, <2>5, <2>6, <2>7, <2>8 DEF SysNext, Ended
<1> QED BY <1>1, <1>2, PTL DEF SysSpec
-----------------------------------------------------------------------------
(* The call, while answers come in time.  A network that is not "late" is  *)
(* empty at every tick, so what is in flight in a state that a timer ends  *)
(* was sent in that state.                                                 *)

NothingInFlight == to_plat = {} /\ to_dev = {}
OkIn(msgs) == \E a \in msgs : IsResponse(a, {200})

\* The other way into STREAMING, the platform's ACK, is never taken: the
\* platform ACKs calls of its own only, and makes none to this device, which
\* sends no DeviceInfo or DeviceStatus.
PullBodies == {"DeviceInfoResponse", "DeviceStatusResponse"}
NoPull ==
    /\ \A m \in to_dev : ~IsRequest(m, "ACK") /\ m.cid # "platform-invite"
    /\ \A m \in to_plat : m.cid # "platform-invite" /\ m.body \notin PullBodies

\* The INVITE waits for a tick; its 200 says that the platform has recorded
\* the call; and a BYE waits for a tick again.
CallInTime ==
    network # "late" =>
      /\ state = "REGISTERED" /\ invite_after = 0 => NothingInFlight
      /\ state = "INVITING" =>
           /\ \A m \in to_plat : IsRequest(m, "INVITE")
           /\ crashes = 0 /\ OkIn(to_dev) => invited
      /\ state = "STREAMING" =>
           /\ \A m \in to_plat : IsRequest(m, "INVITE") \/ IsRequest(m, "ACK")
           /\ crashes = 0 => invited

LEMMA ReceiveNoPull ==
    ASSUME NEW m, m.cid # "platform-invite", Receive(m)
    PROVE  \A x \in tx' : x.cid # "platform-invite" /\ x.body \notin PullBodies
<1> USE DEF PullBodies, Req
<1>1. \A x \in {Register("auth"), Register("expires0")} :
          x.cid # "platform-invite" /\ x.body \notin PullBodies
    BY DEF Register
<1>2. \A x \in AnswersTo(m) \cup {Reply(m, 200, "none")} :
          x.cid # "platform-invite" /\ x.body \notin PullBodies
    BY DEF AnswersTo, Reply
<1>3. \A mt \in Methods :
          InDialog(mt).cid # "platform-invite" /\ InDialog(mt).body \notin PullBodies
    BY DEF InDialog
<1>4. CASE RecvRegistering(m) \/ RecvAuthenticating(m)
    BY <1>1, <1>4 DEF RecvRegistering, RecvAuthenticating, SendRegisterWithAuth,
       GiveUp, BackToRegistered
<1>5. CASE RecvRegistered(m)
    BY <1>2, <1>5 DEF RecvRegistered, StartPulledMedia
<1>6. CASE RecvInviting(m)
    BY <1>3, <1>6 DEF RecvInviting, SendAckAndStartMedia, ByeSent, Methods,
       BackToRegistered
<1>7. CASE RecvStreaming(m)
    BY <1>2, <1>7 DEF RecvStreaming, BackToRegistered
<1>8. CASE RecvByePending(m) \/ RecvDeregistering(m) \/ Ignore(m)
    BY <1>1, <1>8 DEF RecvByePending, BackToRegistered, RecvDeregistering, Stop,
       Ignore
<1> QED BY <1>4, <1>5, <1>6, <1>7, <1>8 DEF Receive

LEMMA LoopNoPull ==
    ASSUME Loop
    PROVE  \A x \in tx' : x.cid # "platform-invite" /\ x.body \notin PullBodies
<1> USE DEF PullBodies, Req
<1>1. InDialog("BYE").cid # "platform-invite" /\ InDialog("BYE").body \notin PullBodies
    BY DEF InDialog
<1>2. ASSUME NEW r, StartRegistering(r)
      PROVE  \A x \in tx' : x.cid # "platform-invite" /\ x.body \notin PullBodies
    BY <1>2 DEF StartRegistering, Register
<1>3. CASE Boot
    BY <1>2, <1>3 DEF Boot
<1>4. CASE Timeout
  <2>1. CASE TimeoutIdle \/ TimeoutRegistering \/ TimeoutAuthenticating
        BY <1>2, <2>1 DEF TimeoutIdle, TimeoutRegistering, TimeoutAuthenticating,
           GiveUp
  <2>2. CASE TimeoutRegistered
        BY <2>2 DEF TimeoutRegistered, SendInvite, SendKeepalive
  <2>3. CASE TimeoutInviting \/ TimeoutByePending \/ TimeoutDeregistering
        BY <2>3 DEF TimeoutInviting, TimeoutByePending, TimeoutDeregistering,
           BackToRegistered, Stop
  <2>4. CASE TimeoutStreaming
        BY <1>1, <2>4 DEF TimeoutStreaming, SendBye, SendFrame, ByeSent
  <2> QED BY <1>4, <2>1, <2>2, <2>3, <2>4 DEF Timeout
<1>5. CASE RecvFails \/ Exit
    BY <1>5 DEF RecvFails, GiveUp, Exit
<1> QED BY <1>3, <1>4, <1>5 DEF Loop

LEMMA HandleNoPull ==
    ASSUME NEW m, m.cid # "platform-invite", m.body \notin PullBodies, P!Handle(m)
    PROVE  \A x \in ptx' : ~IsRequest(x, "ACK") /\ x.cid # "platform-invite"
<1> USE DEF PullBodies, P!Reply, P!Req, IsRequest
<1>1. CASE P!GetMessage(m)
    BY <1>1 DEF P!GetMessage, P!FollowUp, P!PtzControl, P!RecordInfoQuery,
       P!PlaybackInvite
<1>2. CASE P!AcceptRegister(m)
    BY <1>2 DEF P!AcceptRegister, P!CatalogQuery
<1>3. CASE P!GetResponse(m)
    BY <1>3 DEF P!GetResponse
<1>4. CASE \/ P!Deregister(m) \/ P!Challenge(m) \/ P!GetInvite(m) \/ P!GetAck(m)
           \/ P!GetBye(m) \/ P!NotImplemented(m)
    BY <1>4 DEF P!Deregister, P!Challenge, P!GetInvite, P!GetAck, P!GetBye,
       P!NotImplemented
<1> QED BY <1>1, <1>2, <1>3, <1>4 DEF P!Handle

LEMMA NoPullStep ==
    ASSUME NoPull, [SysNext]_sysVars
    PROVE  NoPull'
<1>1. CASE DeviceReceives
  <2>1. PICK m \in to_dev : Receive(m) /\ DeviceSent({m})
        BY <1>1 DEF DeviceReceives
  <2>2. to_plat' \subseteq to_plat \cup tx' /\ to_dev' \subseteq to_dev
        BY <2>1, NothingInvented DEF DeviceSent
  <2> QED BY <2>1, <2>2, ReceiveNoPull DEF NoPull
<1>2. CASE DeviceRuns
  <2>1. to_plat' \subseteq to_plat \cup tx' /\ to_dev' \subseteq to_dev
        BY <1>2, NothingInvented DEF DeviceRuns, DeviceSent
  <2> QED BY <1>2, <2>1, LoopNoPull DEF NoPull, DeviceRuns
<1>3. CASE PlatformReceives
  <2>1. PICK m \in to_plat : P!Handle(m) /\ to_plat' \in InFlight(to_plat, {m}, {})
        BY <1>3 DEF PlatformReceives
  <2>2. to_plat' \subseteq to_plat /\ to_dev' \subseteq to_dev \cup ptx'
        BY <1>3, <2>1, NothingInvented DEF PlatformReceives
  <2> QED BY <2>1, <2>2, HandleNoPull DEF NoPull
<1>4. CASE PlatformDies \/ PlatformStarts \/ Undeliverable \/ TimePasses
    BY <1>4 DEF PlatformDies, PlatformStarts, Undeliverable, TimePasses, NoPull
<1>5. CASE UNCHANGED sysVars
    BY <1>5 DEF sysVars, NoPull
<1> QED BY <1>1, <1>2, <1>3, <1>4, <1>5 DEF SysNext, Ended

-----------------------------------------------------------------------------
\* The ways into the three states of a call, and what is sent on them
LEMMA ReceiveInCall ==
    ASSUME NEW m, ~IsRequest(m, "ACK"), Receive(m)
    PROVE  /\ state' = "REGISTERED" =>
                \/ invite_after' = InviteAfter
                \/ state = "REGISTERED" /\ UNCHANGED invite_after
           /\ state' = "INVITING" => state = "INVITING" /\ tx' = {}
           /\ state' = "STREAMING" =>
                \/ state = "STREAMING" /\ tx' = {}
                \/ /\ state = "INVITING" /\ IsResponse(m, {200})
                   /\ tx' = {InDialog("ACK")}
<1>1. CASE RecvRegistering(m) \/ RecvAuthenticating(m)
    BY <1>1 DEF RecvRegistering, RecvAuthenticating, SendRegisterWithAuth, GiveUp,
       EnterIdleWithBackoff, BackToRegistered, EnterRegistered, Await
<1>2. CASE RecvRegistered(m)
    BY <1>2 DEF RecvRegistered, Timers
<1>3. CASE RecvInviting(m)
    BY <1>3, ByeSentState DEF RecvInviting, SendAckAndStartMedia, EnterStreaming,
       EnterIdleWithBackoff, BackToRegistered, EnterRegistered, Await
<1>4. CASE RecvStreaming(m) \/ RecvByePending(m)
    BY <1>4 DEF RecvStreaming, RecvByePending, BackToRegistered, EnterRegistered,
       Await
<1>5. CASE RecvDeregistering(m) \/ Ignore(m)
    BY <1>5 DEF RecvDeregistering, Stop, Ignore, Timers, Await
<1> QED BY <1>1, <1>2, <1>3, <1>4, <1>5 DEF Receive

LEMMA LoopInCall ==
    ASSUME Loop, phase = "boot" => state = "IDLE"
    PROVE  /\ state' = "REGISTERED" =>
                \/ invite_after' = InviteAfter
                \/ /\ state = "REGISTERED" /\ invite_after # 0
                   /\ UNCHANGED invite_after
           /\ state' = "INVITING" =>
                /\ state = "REGISTERED" /\ invite_after = 0
                /\ tx' \subseteq {Req("INVITE", "dev", "none")}
           /\ state' = "STREAMING" => state = "STREAMING" /\ tx' = {}
<1>1. ASSUME NEW r, StartRegistering(r)
      PROVE  state' \in {"REGISTERING", "IDLE"}
    BY <1>1, StartRegisteringState
<1>2. CASE Boot
    BY <1>1, <1>2 DEF Boot
<1>3. CASE Timeout
  <2>1. CASE TimeoutIdle \/ TimeoutRegistering \/ TimeoutAuthenticating
        BY <1>1, <2>1 DEF TimeoutIdle, TimeoutRegistering, TimeoutAuthenticating,
           GiveUp, EnterIdleWithBackoff, Await
  <2>2. CASE TimeoutRegistered
        BY <2>2 DEF TimeoutRegistered, SendInvite, SendKeepalive, Expired, Await,
           EnterIdleWithBackoff, Timers
  <2>3. CASE TimeoutInviting \/ TimeoutByePending \/ TimeoutDeregistering
        BY <2>3 DEF TimeoutInviting, TimeoutByePending, TimeoutDeregistering,
           BackToRegistered, EnterRegistered, Stop, Await
  <2>4. CASE TimeoutStreaming
        BY <2>4, ByeSentState DEF TimeoutStreaming, SendBye, SendFrame
  <2> QED BY <1>3, <2>1, <2>2, <2>3, <2>4 DEF Timeout
<1>4. CASE RecvFails \/ Exit
    BY <1>4 DEF RecvFails, GiveUp, EnterIdleWithBackoff, Await, Exit
<1> QED BY <1>2, <1>3, <1>4 DEF Loop

\* A platform that handles an INVITE or an ACK keeps the call, and a 200 to
\* it says that there is one.
LEMMA HandleInCall ==
    ASSUME NEW m, IsRequest(m, "INVITE") \/ IsRequest(m, "ACK"), P!Handle(m)
    PROVE  /\ invited => invited'
           /\ OkIn(ptx') => invited'
BY DEF P!Handle, P!GetResponse, P!Deregister, P!Challenge, P!AcceptRegister,
   P!GetMessage, P!GetInvite, P!GetAck, P!GetBye, P!NotImplemented, P!pctx,
   P!IsRequest, IsRequest, IsResponse, P!Reply, OkIn

BootsIdle == phase = "boot" => state = "IDLE"

LEMMA BootsIdleStep ==
    ASSUME BootsIdle, [SysNext]_sysVars
    PROVE  BootsIdle'
<1>1. CASE DeviceReceives \/ DeviceRuns \/ TimePasses
    BY <1>1 DEF DeviceReceives, DeviceRuns, TimePasses, Receive, Loop, Boot, Timeout,
       RecvFails, Exit, Tick, BootsIdle
<1>2. CASE UNCHANGED ctx
    BY <1>2 DEF ctx, BootsIdle
<1> QED BY <1>1, <1>2 DEF SysNext, PlatformReceives, PlatformDies, PlatformStarts,
        Undeliverable, Ended, sysVars, vars

LEMMA CallInTimeStep ==
    ASSUME SysTypeOK, BootsIdle, NoPull, CallInTime, [SysNext]_sysVars
    PROVE  CallInTime'
<1>0. network' = network
    BY DEF SysNext, DeviceReceives, DeviceRuns, DeviceSent, PlatformReceives,
       PlatformDies, PlatformStarts, Undeliverable, TimePasses, Ended, sysVars
<1> SUFFICES ASSUME network # "late"
             PROVE  /\ state' = "REGISTERED" /\ invite_after' = 0 => NothingInFlight'
                    /\ state' = "INVITING" =>
                         /\ \A m \in to_plat' : IsRequest(m, "INVITE")
                         /\ crashes' = 0 /\ OkIn(to_dev') => invited'
                    /\ state' = "STREAMING" =>
                         /\ \A m \in to_plat' :
                               IsRequest(m, "INVITE") \/ IsRequest(m, "ACK")
                         /\ crashes' = 0 => invited'
    BY <1>0 DEF CallInTime
<1>a. InviteAfter # 0
    BY TimersAssumption
<1>1. CASE DeviceReceives
  <2>1. PICK m \in to_dev : Receive(m) /\ DeviceSent({m})
        BY <1>1 DEF DeviceReceives
  <2>2. /\ to_plat' \subseteq to_plat \cup tx' /\ to_dev' \subseteq to_dev
        /\ UNCHANGED <<invited, crashes>>
        BY <2>1, NothingInvented DEF DeviceSent, platform, flags
  <2>3. ~IsRequest(m, "ACK")
        BY DEF NoPull
  <2>4. IsRequest(InDialog("ACK"), "ACK")
        BY DEF InDialog, Req, IsRequest
  <2>5. state' = "REGISTERED" => invite_after' # 0
        BY <1>a, <2>1, <2>3, ReceiveInCall DEF CallInTime, NothingInFlight
  <2>6. CASE state' = "INVITING"
        BY <2>1, <2>2, <2>3, <2>6, ReceiveInCall DEF CallInTime, OkIn
  <2>7. CASE state' = "STREAMING"
    <3>1. CASE state = "STREAMING" /\ tx' = {}
          BY <2>2, <2>7, <3>1 DEF CallInTime
    <3>2. CASE state = "INVITING" /\ IsResponse(m, {200}) /\ tx' = {InDialog("ACK")}
          BY <2>2, <2>4, <2>7, <3>2 DEF CallInTime, OkIn
    <3> QED BY <2>1, <2>3, <2>7, <3>1, <3>2, ReceiveInCall
  <2> QED BY <2>5, <2>6, <2>7
<1>2. CASE DeviceRuns
  <2>1. /\ to_plat' \subseteq to_plat \cup tx' /\ to_dev' \subseteq to_dev
        /\ UNCHANGED <<invited, crashes>>
        BY <1>2, NothingInvented DEF DeviceRuns, DeviceSent, platform, flags
  <2>2. Loop
        BY <1>2 DEF DeviceRuns
  <2>3. state' = "REGISTERED" => invite_after' # 0
        BY <1>a, <2>2, LoopInCall DEF BootsIdle
  <2>4. CASE state' = "INVITING"
    <3>1. NothingInFlight /\ tx' \subseteq {Req("INVITE", "dev", "none")}
          BY <2>2, <2>4, LoopInCall DEF CallInTime, BootsIdle
    <3> QED BY <2>1, <2>4, <3>1 DEF NothingInFlight, OkIn, IsRequest, Req
  <2>5. CASE state' = "STREAMING"
        BY <2>1, <2>2, <2>5, LoopInCall DEF CallInTime, BootsIdle
  <2> QED BY <2>3, <2>4, <2>5
<1>3. CASE PlatformReceives
  <2>1. PICK m \in to_plat : P!Handle(m) /\ to_plat' \in InFlight(to_plat, {m}, {})
        BY <1>3 DEF PlatformReceives
  <2>2. /\ to_plat' \subseteq to_plat /\ to_dev' \subseteq to_dev \cup ptx'
        /\ UNCHANGED <<state, invite_after, crashes>>
        BY <1>3, <2>1, NothingInvented DEF PlatformReceives, ctx
  <2>3. OkIn(to_dev') => OkIn(to_dev) \/ OkIn(ptx')
        BY <2>2 DEF OkIn
  <2>4. ~(state = "REGISTERED" /\ invite_after = 0)
        BY <2>1 DEF CallInTime, NothingInFlight
  <2> QED BY <2>1, <2>2, <2>3, <2>4, HandleInCall DEF CallInTime
<1>4. CASE PlatformDies
  <2>1. crashes' # 0
        BY <1>4 DEF PlatformDies, SysTypeOK
  <2> QED BY <1>4, <2>1 DEF PlatformDies, ctx, CallInTime, NothingInFlight
<1>5. CASE PlatformStarts
    BY <1>5 DEF PlatformStarts, ctx, flags, CallInTime, NothingInFlight
<1>6. CASE Undeliverable
    BY <1>6 DEF Undeliverable, ctx, platform, flags, CallInTime, NothingInFlight, OkIn
<1>7. CASE TimePasses
    BY <1>7 DEF TimePasses, Tick, platform, flags, CallInTime, NothingInFlight, OkIn
<1>8. CASE UNCHANGED sysVars
    BY <1>8 DEF sysVars, vars, ctx, platform, flags, CallInTime, NothingInFlight
<1> QED BY <1>1, <1>2, <1>3, <1>4, <1>5, <1>6, <1>7, <1>8 DEF SysNext, Ended

\* A device that streams does so in a call of the platform's, whatever is
\* lost or repeated and whatever fails on the device, as long as the answers
\* come in time and the platform lives.
THEOREM StreamsInCall == SysSpec => []MediaAcceptedInTime
<1>1. SysInit => BootsIdle /\ NoPull /\ CallInTime
    BY DEF SysInit, Init, BootsIdle, NoPull, CallInTime
<1>2. SysTypeOK /\ BootsIdle /\ NoPull /\ CallInTime /\ [SysNext]_sysVars
         => (BootsIdle /\ NoPull /\ CallInTime)'
    BY BootsIdleStep, NoPullStep, CallInTimeStep
<1>3. CallInTime => MediaAcceptedInTime
    BY DEF CallInTime, MediaAcceptedInTime, MediaAccepted
<1> QED BY <1>1, <1>2, <1>3, SysTypeCorrect, PTL DEF SysSpec
-----------------------------------------------------------------------------
(* The end of the call, under the same condition.  A BYE waits for a tick  *)
(* only if a session that was to start has started, and has at least one   *)
(* frame to send; otherwise the 200 of a repeated INVITE may still be on   *)
(* its way and is taken for the answer to the BYE.                         *)

SessionsStart ==
    /\ ~MediaFile /\ BuiltinFrames > 0
    /\ "rtp" \notin Faults /\ "recv" \notin Faults

ReleaseInTime ==
    network # "late" =>
      /\ state = "STREAMING" =>
           /\ streaming_until = 0 => NothingInFlight
           /\ next_frame = 0 /\ frame_index > 0 => NothingInFlight
      /\ state = "BYE_PENDING" =>
           /\ \A m \in to_plat : IsRequest(m, "BYE")
           /\ OkIn(to_dev) => ~invited

\* Without a file argument no file is open.
LEMMA NoFileStep ==
    ASSUME ~MediaFile, ~fp, [SysNext]_sysVars
    PROVE  ~fp'
<1>1. ASSUME UNCHANGED fp PROVE ~fp'
    BY <1>1
<1>2. ASSUME NEW m, Receive(m) PROVE ~fp'
    BY <1>2 DEF Receive, RecvRegistering, RecvAuthenticating, RecvRegistered,
       RecvInviting, RecvStreaming, RecvByePending, RecvDeregistering, Ignore,
       SendRegisterWithAuth, GiveUp, StartPulledMedia, SendAckAndStartMedia,
       OpenedFiles, Stop, Media
<1>3. ASSUME NEW r, StartRegistering(r) PROVE ~fp'
    BY <1>3 DEF StartRegistering, Media
<1>4. CASE Timeout
  <2>1. CASE TimeoutIdle \/ TimeoutRegistering \/ TimeoutAuthenticating
        BY <1>3, <2>1 DEF TimeoutIdle, TimeoutRegistering, TimeoutAuthenticating,
           GiveUp, Media
  <2>2. CASE TimeoutRegistered \/ TimeoutInviting \/ TimeoutDeregistering
        BY <2>2 DEF TimeoutRegistered, SendInvite, SendKeepalive, TimeoutInviting,
           TimeoutDeregistering, Stop, Media
  <2>3. CASE TimeoutStreaming \/ TimeoutByePending
        BY <2>3 DEF TimeoutStreaming, SendBye, SendFrame, TimeoutByePending
  <2> QED BY <1>4, <2>1, <2>2, <2>3 DEF Timeout
<1>5. CASE Loop
    BY <1>3, <1>4, <1>5 DEF Loop, Boot, RecvFails, GiveUp, Exit, Media
<1>6. CASE TimePasses
    BY <1>6 DEF TimePasses, Tick, Media
<1>7. CASE UNCHANGED ctx
    BY <1>1, <1>7 DEF ctx
<1> QED BY <1>2, <1>5, <1>6, <1>7 DEF SysNext, DeviceReceives, DeviceRuns,
        PlatformReceives, PlatformDies, PlatformStarts, Undeliverable, Ended,
        sysVars, vars

\* SessionReleased holds here too: no datagram of the platform's breaks it.
LEMMA SysSessionStep ==
    ASSUME SysTypeOK, BootsIdle, "recv" \notin Faults, SessionReleased,
           [SysNext]_sysVars
    PROVE  SessionReleased'
<1>0. TypeOK
    BY DEF SysTypeOK
<1>1. CASE DeviceReceives
    BY <1>0, <1>1, ReceiveSession, SessionEndings DEF DeviceReceives
<1>2. CASE DeviceRuns
  <2>1. CASE Boot
        BY <2>1, StartRegisteringState, SessionEndings
        DEF Boot, StartRegistering, Media, OutsideStreaming, BootsIdle
  <2>2. CASE Timeout
        BY <1>0, <2>2, TimeoutSession, SessionEndings
  <2>3. CASE Exit
        BY <2>3, SessionEndings DEF Exit, SessionStopped, Media
  <2> QED BY <1>2, <2>1, <2>2, <2>3 DEF DeviceRuns, Loop, RecvFails
<1>3. CASE TimePasses
    BY <1>3, SessionEndings DEF TimePasses, Tick, Media, OutsideStreaming
<1>4. CASE UNCHANGED ctx
    BY <1>4, SessionEndings DEF ctx, OutsideStreaming
<1> QED BY <1>1, <1>2, <1>3, <1>4 DEF SysNext,
        PlatformReceives, PlatformDies, PlatformStarts, Undeliverable, Ended,
        sysVars, vars

\* The ways into STREAMING and BYE_PENDING when every session starts
LEMMA ReceiveAtEnd ==
    ASSUME SysTypeOK, SessionReleased, SessionsStart,
           NEW m, ~IsRequest(m, "ACK"), Receive(m)
    PROVE  /\ state' = "STREAMING" =>
                \/ /\ state = "STREAMING"
                   /\ UNCHANGED <<streaming_until, next_frame, frame_index>>
                \/ streaming_until' = StreamingHold /\ frame_index' = 0
           /\ state' = "BYE_PENDING" => state = "BYE_PENDING" /\ tx' = {}
           /\ cycles_done' = cycles_done \/
                (state = "BYE_PENDING" /\ IsResponse(m, {200}))
<1> USE DEF Cycles
<1>1. CASE RecvRegistering(m) \/ RecvAuthenticating(m)
    BY <1>1 DEF RecvRegistering, RecvAuthenticating, SendRegisterWithAuth, GiveUp,
       EnterIdleWithBackoff, BackToRegistered, EnterRegistered, Await
<1>2. CASE RecvRegistered(m)
    BY <1>2 DEF RecvRegistered
<1>3. CASE RecvInviting(m)
  <2>1. state = "INVITING" /\ PreviousSessions = 0
        BY <1>3, LimitsAssumption
        DEF RecvInviting, PreviousSessions, AtMost, SessionReleased, SessionsStart
  <2>2. StartOutcomes = {TRUE}
        BY <2>1 DEF StartOutcomes, Outcomes, SessionsStart
  <2>3. CASE SendAckAndStartMedia
        BY <1>3, <2>2, <2>3 DEF RecvInviting, SendAckAndStartMedia, OpenSource,
           EnterStreaming, EnterIdleWithBackoff, Await
  <2>4. CASE BackToRegistered({})
        BY <1>3, <2>4 DEF RecvInviting, BackToRegistered, EnterRegistered, Await
  <2> QED BY <1>3, <2>3, <2>4 DEF RecvInviting
<1>4. CASE RecvStreaming(m) \/ RecvByePending(m)
    BY <1>4 DEF RecvStreaming, RecvByePending, BackToRegistered, EnterRegistered,
       Await
<1>5. CASE RecvDeregistering(m) \/ Ignore(m)
    BY <1>5 DEF RecvDeregistering, Stop, Ignore, Timers, Media, Await
<1> QED BY <1>1, <1>2, <1>3, <1>4, <1>5 DEF Receive

LEMMA LoopAtEnd ==
    ASSUME SysTypeOK, SessionReleased, SessionsStart, ~fp, BootsIdle, Loop
    PROVE  /\ state' = "STREAMING" =>
                /\ state = "STREAMING" /\ streaming_until # 0
                /\ UNCHANGED streaming_until /\ next_frame' = FrameInterval
           /\ state' = "BYE_PENDING" =>
                /\ state = "STREAMING" /\ tx' \subseteq {InDialog("BYE")}
                /\ streaming_until = 0 \/ (next_frame = 0 /\ frame_index > 0)
           /\ cycles_done' = cycles_done
<1> USE DEF Cycles
<1>1. ASSUME NEW r, StartRegistering(r)
      PROVE  state' \in {"REGISTERING", "IDLE"} /\ cycles_done' = cycles_done
    BY <1>1, StartRegisteringState DEF StartRegistering
<1>2. CASE Boot
    BY <1>1, <1>2 DEF Boot
<1>3. CASE Timeout
  <2>1. CASE TimeoutIdle \/ TimeoutRegistering \/ TimeoutAuthenticating
        BY <1>1, <2>1 DEF TimeoutIdle, TimeoutRegistering, TimeoutAuthenticating,
           GiveUp, EnterIdleWithBackoff, Await
  <2>2. CASE TimeoutRegistered
        BY <2>2 DEF TimeoutRegistered, SendInvite, SendKeepalive, Await,
           EnterIdleWithBackoff
  <2>3. CASE TimeoutInviting \/ TimeoutByePending \/ TimeoutDeregistering
        BY <2>3 DEF TimeoutInviting, TimeoutByePending, TimeoutDeregistering,
           BackToRegistered, EnterRegistered, Stop, Await
  <2>4. CASE TimeoutStreaming
    <3>1. EndOfSource => frame_index > 0
          BY <2>4, LimitsAssumption DEF TimeoutStreaming, EndOfSource,
             BuiltinFrameLeft, SessionReleased, SessionsStart, SysTypeOK, TypeOK
    <3>2. CASE SendBye
          BY <2>4, <3>1, <3>2, ByeSentState DEF TimeoutStreaming, SendBye, SendFrame,
             Expired, ByeSent
    <3>3. CASE SendFrame
      <4>1. state = "STREAMING" /\ UNCHANGED <<state, cycles_done, streaming_until>>
            BY <2>4, <3>3 DEF TimeoutStreaming, SendFrame
      <4>2. next_frame' = FrameInterval
            BY <3>3 DEF SendFrame
      <4>3. CASE streaming_until # 0
            BY <4>1, <4>2, <4>3
      <4>4. CASE streaming_until = 0
            BY <2>4, <4>4, <3>2, <4>1, ByeSentState DEF TimeoutStreaming, Expired, SendBye
      <4> QED BY <4>3, <4>4
    <3> QED BY <2>4, <3>2, <3>3 DEF TimeoutStreaming
  <2> QED BY <1>3, <2>1, <2>2, <2>3, <2>4 DEF Timeout
<1>4. CASE RecvFails \/ Exit
    BY <1>4 DEF RecvFails, GiveUp, EnterIdleWithBackoff, Await, Exit
<1> QED BY <1>2, <1>3, <1>4 DEF Loop

\* A platform that handles a BYE opens no call, and its 200 says that none
\* is left.
LEMMA HandleBye ==
    ASSUME NEW m, IsRequest(m, "BYE"), P!Handle(m)
    PROVE  /\ ~invited => ~invited'
           /\ OkIn(ptx') => ~invited'
BY DEF P!Handle, P!GetResponse, P!Deregister, P!Challenge, P!AcceptRegister,
   P!GetMessage, P!GetInvite, P!GetAck, P!GetBye, P!NotImplemented, P!pctx,
   P!IsRequest, IsRequest, IsResponse, P!Reply, OkIn

LEMMA ReleaseInTimeStep ==
    ASSUME SysTypeOK, BootsIdle, NoPull, SessionsStart, ~fp, SessionReleased,
           ReleaseInTime, [SysNext]_sysVars
    PROVE  ReleaseInTime'
<1>0. network' = network
    BY DEF SysNext, DeviceReceives, DeviceRuns, DeviceSent, PlatformReceives,
       PlatformDies, PlatformStarts, Undeliverable, TimePasses, Ended, sysVars
<1> SUFFICES ASSUME network # "late"
             PROVE  /\ state' = "STREAMING" =>
                         /\ streaming_until' = 0 => NothingInFlight'
                         /\ next_frame' = 0 /\ frame_index' > 0 => NothingInFlight'
                    /\ state' = "BYE_PENDING" =>
                         /\ \A m \in to_plat' : IsRequest(m, "BYE")
                         /\ OkIn(to_dev') => ~invited'
    BY <1>0 DEF ReleaseInTime
<1>a. StreamingHold # 0 /\ FrameInterval # 0
    BY TimersAssumption
<1>1. CASE DeviceReceives
  <2>1. PICK m \in to_dev : Receive(m) /\ DeviceSent({m})
        BY <1>1 DEF DeviceReceives
  <2>2. /\ to_plat' \subseteq to_plat \cup tx' /\ to_dev' \subseteq to_dev
        /\ UNCHANGED invited
        BY <2>1, NothingInvented DEF DeviceSent, platform, flags
  <2>3. ~IsRequest(m, "ACK") /\ ~NothingInFlight
        BY <2>1 DEF NoPull, NothingInFlight
  <2>4. CASE state' = "STREAMING"
    <3>1. CASE /\ state = "STREAMING"
               /\ UNCHANGED <<streaming_until, next_frame, frame_index>>
          BY <2>3, <2>4, <3>1 DEF ReleaseInTime
    <3>2. CASE streaming_until' = StreamingHold /\ frame_index' = 0
          BY <1>a, <2>4, <3>2
    <3> QED BY <2>1, <2>3, <2>4, <3>1, <3>2, ReceiveAtEnd
  <2>5. CASE state' = "BYE_PENDING"
        BY <2>1, <2>2, <2>3, <2>5, ReceiveAtEnd DEF ReleaseInTime, OkIn
  <2> QED BY <2>4, <2>5
<1>2. CASE DeviceRuns
  <2>1. /\ to_plat' \subseteq to_plat \cup tx' /\ to_dev' \subseteq to_dev
        /\ UNCHANGED invited
        BY <1>2, NothingInvented DEF DeviceRuns, DeviceSent, platform, flags
  <2>2. Loop
        BY <1>2 DEF DeviceRuns
  <2>3. state' = "STREAMING" => streaming_until' # 0 /\ next_frame' # 0
        BY <1>a, <2>2, LoopAtEnd
  <2>4. CASE state' = "BYE_PENDING"
    <3>1. NothingInFlight /\ tx' \subseteq {InDialog("BYE")}
          BY <2>2, <2>4, LoopAtEnd DEF ReleaseInTime
    <3> QED BY <2>1, <2>4, <3>1 DEF NothingInFlight, OkIn, IsRequest, InDialog, Req
  <2> QED BY <2>3, <2>4
<1>3. CASE PlatformReceives
  <2>1. PICK m \in to_plat : P!Handle(m) /\ to_plat' \in InFlight(to_plat, {m}, {})
        BY <1>3 DEF PlatformReceives
  <2>2. /\ to_plat' \subseteq to_plat /\ to_dev' \subseteq to_dev \cup ptx'
        /\ UNCHANGED <<state, streaming_until, next_frame, frame_index>>
        BY <1>3, <2>1, NothingInvented DEF PlatformReceives, ctx
  <2>3. OkIn(to_dev') => OkIn(to_dev) \/ OkIn(ptx')
        BY <2>2 DEF OkIn
  <2>4. ~NothingInFlight
        BY <2>1 DEF NothingInFlight
  <2> QED BY <2>1, <2>2, <2>3, <2>4, HandleBye DEF ReleaseInTime
<1>4. CASE PlatformDies
    BY <1>4 DEF PlatformDies, ctx, ReleaseInTime, NothingInFlight
<1>5. CASE PlatformStarts
    BY <1>5 DEF PlatformStarts, ctx, flags, ReleaseInTime, NothingInFlight
<1>6. CASE Undeliverable
    BY <1>6 DEF Undeliverable, ctx, platform, flags, ReleaseInTime, NothingInFlight,
       OkIn
<1>7. CASE TimePasses
    BY <1>7 DEF TimePasses, Tick, platform, flags, ReleaseInTime, NothingInFlight, OkIn
<1>8. CASE UNCHANGED sysVars
    BY <1>8 DEF sysVars, vars, ctx, platform, flags, ReleaseInTime, NothingInFlight
<1> QED BY <1>1, <1>2, <1>3, <1>4, <1>5, <1>6, <1>7, <1>8 DEF SysNext, Ended

\* A cycle that is counted has ended on the platform too, while answers come
\* in time and every session starts: nothing but the 200 of its own BYE can
\* be in flight when a device counts it.
THEOREM CyclesAreReleased ==
    ASSUME SessionsStart
    PROVE  SysSpec => CycleMeansReleased
<1> DEFINE EndInv == /\ BootsIdle /\ NoPull /\ ~fp /\ SessionReleased
                     /\ ReleaseInTime
<1>1. SysInit => EndInv
    BY DEF SysInit, Init, BootsIdle, NoPull, SessionReleased, ReleaseInTime
<1>2. SysTypeOK /\ EndInv /\ [SysNext]_sysVars => EndInv'
    BY BootsIdleStep, NoPullStep, NoFileStep, SysSessionStep, ReleaseInTimeStep
    DEF SessionsStart
<1>3. SysTypeOK /\ EndInv /\ [SysNext]_sysVars =>
         [network # "late" /\ cycles_done' > cycles_done => ~invited]_sysVars
  <2> SUFFICES ASSUME SysTypeOK, EndInv, SysNext, network # "late",
                      cycles_done' > cycles_done
               PROVE  ~invited
      OBVIOUS
  <2>1. cycles_done \in Nat
      BY LimitsAssumption DEF SysTypeOK, TypeOK
  <2>2. cycles_done' # cycles_done
      BY <2>1
  <2>3. CASE DeviceReceives
    <3>1. PICK m \in to_dev : Receive(m)
          BY <2>3 DEF DeviceReceives
    <3>2. ~IsRequest(m, "ACK")
          BY DEF NoPull
    <3>3. state = "BYE_PENDING" /\ IsResponse(m, {200})
          BY <2>2, <3>1, <3>2, ReceiveAtEnd
    <3> QED BY <3>3 DEF ReleaseInTime, OkIn
  <2>4. CASE DeviceRuns
      BY <2>2, <2>4, LoopAtEnd DEF DeviceRuns
  <2>5. CASE TimePasses
      BY <2>2, <2>5 DEF TimePasses, Tick, Cycles
  <2>6. CASE UNCHANGED ctx
      BY <2>2, <2>6 DEF ctx
  <2> QED BY <2>3, <2>4, <2>5, <2>6 DEF SysNext, PlatformReceives, PlatformDies,
          PlatformStarts, Undeliverable, Ended, sysVars, vars
<1> QED BY <1>1, <1>2, <1>3, SysTypeCorrect, PTL DEF SysSpec, CycleMeansReleased
-----------------------------------------------------------------------------
(* A conversation in which nothing is lost, state by state: what may be in *)
(* flight, and what the platform knows.                                    *)

NothingIsLost ==
    /\ Networks \subseteq {"perfect"} /\ Crashes = 0
    /\ "open" \notin Faults /\ "send" \notin Faults /\ "recv" \notin Faults
    /\ KeepaliveMissMax > 1

NoCall == ~invited /\ ~acked
NoAuth == Req("REGISTER", "dev", "noauth")
Auth == Req("REGISTER", "dev", "auth")
Invite == Req("INVITE", "dev", "none")
Keepalive == Req("MESSAGE", "dev", "Keepalive")

\* Late ACKs, and what the platform says to them once the call is over
Acks(msgs) == \A m \in msgs : IsRequest(m, "ACK")
Refusals(msgs) == \A m \in msgs : IsResponse(m, {501})

WhenIdle ==
    /\ ~registered /\ NoCall /\ ~sock /\ Acks(to_plat)
    /\ \/ phase = "boot" /\ ~stopping /\ NothingInFlight
       \/ phase # "boot" /\ stopping /\ state_deadline = OFF
WhenRegistering ==
    /\ ~registered /\ NoCall
    /\ \/ to_plat = {NoAuth} /\ to_dev = {}
       \/ to_plat = {} /\ to_dev = {Reply(NoAuth, 401, "challenge")}
WhenAuthenticating ==
    /\ NoCall
    /\ \/ ~registered /\ to_plat = {Auth} /\ to_dev = {}
       \/ /\ registered /\ to_plat = {} /\ Reply(Auth, 200, "none") \in to_dev
          /\ to_dev \subseteq {Reply(Auth, 200, "none"), P!CatalogQuery}
WhenRegistered ==
    /\ registered /\ NoCall
    /\ \A m \in to_plat : m.type = "req" => m.method \in {"MESSAGE", "ACK"}
    /\ \A m \in to_dev : m.type = "req" => m.method \in {"MESSAGE", "INVITE"}
    /\ invite_after = 0 \/ next_keepalive = 0 => NothingInFlight
    /\ \/ keepalive_misses = 0
       \/ keepalive_misses = 1 /\ (Keepalive \in to_plat \/ OkIn(to_dev))
WhenInviting ==
    /\ registered /\ ~acked
    /\ \/ ~invited /\ to_plat = {Invite} /\ to_dev = {}
       \/ invited /\ to_plat = {} /\ to_dev = {Reply(Invite, 200, "tag")}
WhenStreaming ==
    /\ registered /\ invited /\ to_dev = {}
    /\ Acks(to_plat) /\ (acked \/ to_plat # {})
WhenByePending ==
    /\ registered
    /\ \/ /\ invited /\ to_dev = {}
          /\ \E b \in to_plat : IsRequest(b, "BYE") /\ Acks(to_plat \ {b})
       \/ /\ NoCall /\ Acks(to_plat)
          /\ \E a \in to_dev : IsResponse(a, {200}) /\ Refusals(to_dev \ {a})
WhenDeregistering ==
    /\ NoCall
    /\ \/ /\ registered /\ Refusals(to_dev)
          /\ \E r \in to_plat : /\ IsRequest(r, "REGISTER") /\ r.body = "expires0"
                                /\ Acks(to_plat \ {r})
       \/ ~registered /\ Acks(to_plat) /\ OkIn(to_dev)

\* The states that wait for an answer; here it comes before their deadline.
Waiting == {"REGISTERING", "AUTHENTICATING", "INVITING", "BYE_PENDING",
            "DEREGISTERING"}

ByState ==
    /\ state = "IDLE" => WhenIdle
    /\ state = "REGISTERING" => WhenRegistering
    /\ state = "AUTHENTICATING" => WhenAuthenticating
    /\ state = "REGISTERED" => WhenRegistered
    /\ state = "INVITING" => WhenInviting
    /\ state = "STREAMING" => WhenStreaming
    /\ state = "BYE_PENDING" => WhenByePending
    /\ state = "DEREGISTERING" => WhenDeregistering
Awake ==
    /\ state # "IDLE" => sock /\ phase = "loop" /\ ~stopping
    /\ state \in Waiting => state_deadline > 0
Conversation ==
    /\ network = "perfect" /\ platform_up
    /\ Awake /\ ByState

LEMMA PerfectNetwork ==
    ASSUME network = "perfect",
           NEW queue, NEW gone, NEW msgs, NEW q \in InFlight(queue, gone, msgs)
    PROVE  q = (queue \ gone) \cup msgs
BY DEF InFlight

LEMMA PerfectDevice ==
    ASSUME network = "perfect", NEW gone, DeviceSent(gone)
    PROVE  /\ to_plat' = to_plat \cup tx' /\ to_dev' = to_dev \ gone
           /\ UNCHANGED <<registered, invited, acked, platform_up, network>>
BY PerfectNetwork DEF DeviceSent, platform, flags

(* The device takes a datagram, one lemma per state.                       *)

LEMMA ReceiveWhenRegistering ==
    ASSUME SysTypeOK, NothingIsLost, Conversation, state = "REGISTERING",
           NEW m \in to_dev, Receive(m), DeviceSent({m})
    PROVE  Conversation'
<1>1. /\ to_plat' = to_plat \cup tx' /\ to_dev' = to_dev \ {m}
      /\ UNCHANGED <<registered, invited, acked, platform_up, network>>
    BY PerfectDevice DEF Conversation
<1>2. /\ to_plat = {} /\ to_dev = {m} /\ m = Reply(NoAuth, 401, "challenge")
      /\ ~registered /\ NoCall
    BY DEF Conversation, ByState, WhenRegistering
<1>3. IsResponse(m, {401}) /\ ~IsResponse(m, {200}) /\ m.code = 401 /\ m.body = "challenge"
    BY <1>2 DEF Reply, IsResponse
<1>4. SendRegisterWithAuth /\ UNCHANGED phase
  <2>1. Understood(m)
        BY <1>3 DEF Understood, IsResponse
  <2>2. RecvRegistering(m)
        BY <2>1 DEF Receive, RecvAuthenticating, RecvRegistered, RecvInviting,
           RecvStreaming, RecvByePending, RecvDeregistering, Ignore
  <2> QED BY <1>3, <2>2 DEF RecvRegistering, Receive
<1>5. /\ state' = "AUTHENTICATING" /\ state_deadline' = RegisterTimeout
      /\ tx' = {Auth} /\ UNCHANGED <<sock, stopping>>
    BY <1>4 DEF SendRegisterWithAuth, Outcomes, NothingIsLost, Await, Cycles,
       Register, Auth
<1>6. WhenAuthenticating'
    BY <1>1, <1>2, <1>5 DEF WhenAuthenticating, NoCall, Auth
<1>7. Awake'
    BY <1>4, <1>5, TimersAssumption DEF Conversation, Awake
<1> QED BY <1>1, <1>5, <1>6, <1>7 DEF Conversation, ByState

LEMMA ReceiveWhenAuthenticating ==
    ASSUME SysTypeOK, NothingIsLost, Conversation, state = "AUTHENTICATING",
           NEW m \in to_dev, Receive(m), DeviceSent({m})
    PROVE  Conversation'
<1>1. /\ to_plat' = to_plat \cup tx' /\ to_dev' = to_dev \ {m}
      /\ UNCHANGED <<registered, invited, acked, platform_up, network>>
    BY PerfectDevice DEF Conversation
<1>2. /\ registered /\ NoCall /\ to_plat = {}
      /\ Reply(Auth, 200, "none") \in to_dev
      /\ to_dev \subseteq {Reply(Auth, 200, "none"), P!CatalogQuery}
    BY DEF Conversation, ByState, WhenAuthenticating
<1>3. RecvAuthenticating(m) \/ Ignore(m)
    BY DEF Receive, RecvRegistering, RecvRegistered, RecvInviting, RecvStreaming,
       RecvByePending, RecvDeregistering
<1>4. UNCHANGED phase
    BY DEF Receive
<1>5. CASE m = Reply(Auth, 200, "none")
  <2>1. IsResponse(m, {200}) /\ ~IsResponse(m, {401, 403}) /\ Understood(m)
        BY <1>5 DEF Reply, IsResponse, Understood
  <2>2. BackToRegistered({}) /\ UNCHANGED <<Media, Cycles>>
        BY <1>3, <2>1 DEF RecvAuthenticating, Ignore
  <2>3. /\ state' = "REGISTERED" /\ tx' = {} /\ UNCHANGED <<sock, stopping>>
        /\ invite_after' = InviteAfter /\ next_keepalive' = KeepaliveInterval
        /\ keepalive_misses' = 0
        BY <2>2 DEF BackToRegistered, EnterRegistered, Await, Cycles
  <2>4. to_plat' = {} /\ to_dev' \subseteq {P!CatalogQuery}
        BY <1>1, <1>2, <1>5, <2>3
  <2>5. P!CatalogQuery.method = "MESSAGE"
        BY DEF P!CatalogQuery, P!Req
  <2>6. InviteAfter # 0 /\ KeepaliveInterval # 0
        BY TimersAssumption
  <2>7. WhenRegistered'
        BY <1>1, <1>2, <2>3, <2>4, <2>5, <2>6 DEF WhenRegistered, NoCall
  <2>8. Awake'
        BY <1>4, <2>3 DEF Conversation, Awake, Waiting
  <2> QED BY <1>1, <2>3, <2>7, <2>8 DEF Conversation, ByState
<1>6. CASE m = P!CatalogQuery
  <2>1. m.type = "req"
        BY <1>6 DEF P!CatalogQuery, P!Req
  <2>2. Ignore(m)
        BY <1>3, <2>1 DEF RecvAuthenticating, IsResponse
  <2>3. tx' = {} /\ UNCHANGED <<state, sock, state_deadline, stopping>>
        BY <2>2 DEF Ignore, Timers, Cycles
  <2>4. Reply(Auth, 200, "none") \in to_dev'
        BY <1>1, <1>2, <2>1 DEF Reply
  <2>5. WhenAuthenticating'
        BY <1>1, <1>2, <2>3, <2>4 DEF WhenAuthenticating, NoCall
  <2>6. Awake'
        BY <1>4, <2>3 DEF Conversation, Awake
  <2> QED BY <1>1, <2>3, <2>5, <2>6 DEF Conversation, ByState
<1> QED BY <1>2, <1>5, <1>6

LEMMA ReceiveWhenRegistered ==
    ASSUME SysTypeOK, NothingIsLost, Conversation, NoPull, state = "REGISTERED",
           NEW m \in to_dev, Receive(m), DeviceSent({m})
    PROVE  Conversation'
<1>1. /\ to_plat' = to_plat \cup tx' /\ to_dev' = to_dev \ {m}
      /\ UNCHANGED <<registered, invited, acked, platform_up, network>>
    BY PerfectDevice DEF Conversation
<1>2. WhenRegistered /\ ~IsRequest(m, "ACK")
    BY DEF Conversation, ByState, NoPull
<1>3. RecvRegistered(m) \/ Ignore(m)
    BY DEF Receive, RecvRegistering, RecvAuthenticating, RecvInviting, RecvStreaming,
       RecvByePending, RecvDeregistering
<1>4. UNCHANGED phase
    BY DEF Receive
<1>5. invite_after # 0 /\ next_keepalive # 0
    BY <1>2 DEF WhenRegistered, NothingInFlight
<1>6. /\ \A x \in tx' : x.type = "req" => x.method \in {"MESSAGE", "ACK"}
      /\ UNCHANGED <<state, sock, stopping, invite_after, next_keepalive>>
      /\ \/ keepalive_misses' = 0
         \/ UNCHANGED keepalive_misses /\ ~IsResponse(m, {200})
  <2>1. CASE Ignore(m)
        BY <2>1 DEF Ignore, Understood, Counters, Timers, Cycles
  <2>2. \A x \in AnswersTo(m) : x.type = "req" => x.method \in {"MESSAGE", "ACK"}
        BY DEF AnswersTo, Reply, Req
  <2>3. CASE RecvRegistered(m)
        BY <1>2, <2>2, <2>3 DEF RecvRegistered, KeepaliveAnswered, IsResponse,
           Counters, Timers, Cycles
  <2> QED BY <1>3, <2>1, <2>3
<1>7. CASE UNCHANGED keepalive_misses /\ ~IsResponse(m, {200})
  <2>1. OkIn(to_dev) => OkIn(to_dev')
        BY <1>1, <1>7 DEF OkIn
  <2> QED BY <1>1, <1>2, <1>4, <1>5, <1>6, <1>7, <2>1
          DEF Conversation, ByState, Awake, Waiting, WhenRegistered, NoCall
<1>8. CASE keepalive_misses' = 0
    BY <1>1, <1>2, <1>4, <1>5, <1>6, <1>8
    DEF Conversation, ByState, Awake, Waiting, WhenRegistered, NoCall
<1> QED BY <1>6, <1>7, <1>8

\* The BYE that a step sends stands beside ACKs.
LEMMA ByeIsSent ==
    ASSUME NothingIsLost, network = "perfect", Awake, state # "IDLE",
           registered, invited,
           NEW msgs, Acks(msgs), Acks(to_plat), ByeSent(msgs),
           UNCHANGED <<phase, stopping, registered, invited, acked, platform_up,
                       network>>,
           to_plat' = to_plat \cup tx', to_dev' = {}, platform_up
    PROVE  Conversation'
<1>1. /\ tx' = msgs \cup {InDialog("BYE")} /\ UNCHANGED sock
      /\ state' = "BYE_PENDING" /\ state_deadline' = ByeTimeout
    BY DEF ByeSent, Outcomes, NothingIsLost, Await
<1>2. IsRequest(InDialog("BYE"), "BYE")
    BY DEF InDialog, Req, IsRequest
<1>3. WhenByePending'
  <2>1. InDialog("BYE") \in to_plat'
        BY <1>1
  <2>2. \A m \in to_plat' \ {InDialog("BYE")} : IsRequest(m, "ACK")
        BY <1>1 DEF Acks
  <2>3. \E b \in to_plat' : IsRequest(b, "BYE") /\ \A m \in to_plat' \ {b} : IsRequest(m, "ACK")
        BY <1>2, <2>1, <2>2
  <2> QED BY <2>3 DEF WhenByePending, Acks
<1>4. Awake'
    BY <1>1, TimersAssumption DEF Awake
<1> QED BY <1>1, <1>3, <1>4 DEF Conversation, ByState

LEMMA ReceiveWhenInviting ==
    ASSUME SysTypeOK, NothingIsLost, Conversation, state = "INVITING",
           NEW m \in to_dev, Receive(m), DeviceSent({m})
    PROVE  Conversation'
<1>1. /\ to_plat' = to_plat \cup tx' /\ to_dev' = to_dev \ {m}
      /\ UNCHANGED <<registered, invited, acked, platform_up, network>>
    BY PerfectDevice DEF Conversation
<1>2. /\ registered /\ ~acked /\ invited /\ to_plat = {} /\ to_dev = {m}
      /\ m = Reply(Invite, 200, "tag")
    BY DEF Conversation, ByState, WhenInviting
<1>3. IsResponse(m, {200}) /\ ~IsResponse(m, {486})
    BY <1>2 DEF Reply, IsResponse
<1>4. SendAckAndStartMedia /\ UNCHANGED Cycles /\ UNCHANGED phase
  <2>1. Understood(m)
        BY <1>3 DEF Understood, IsResponse
  <2>2. RecvInviting(m)
        BY <2>1 DEF Receive, RecvAuthenticating, RecvRegistered, RecvRegistering,
           RecvStreaming, RecvByePending, RecvDeregistering, Ignore
  <2> QED BY <1>3, <2>2 DEF RecvInviting, Receive
<1>5. IsRequest(InDialog("ACK"), "ACK")
    BY DEF InDialog, Req, IsRequest
<1>6. CASE EnterStreaming /\ tx' = {InDialog("ACK")}
  <2>1. state' = "STREAMING" /\ UNCHANGED sock
        BY <1>6 DEF EnterStreaming, Await
  <2>2. WhenStreaming'
        BY <1>1, <1>2, <1>5, <1>6 DEF WhenStreaming, Acks
  <2> QED BY <1>1, <1>4, <2>1, <2>2
          DEF Conversation, Awake, ByState, Waiting, Cycles
<1>7. CASE ByeSent({InDialog("ACK")})
  <2>1. Acks({InDialog("ACK")}) /\ Acks(to_plat)
        BY <1>2, <1>5 DEF Acks
  <2>2. UNCHANGED <<phase, stopping>>
        BY <1>4 DEF Cycles
  <2>3. Awake /\ platform_up /\ network = "perfect"
        BY DEF Conversation
  <2>4. to_dev' = {}
        BY <1>1, <1>2
  <2> QED BY <1>1, <1>2, <1>7, <2>1, <2>2, <2>3, <2>4, ByeIsSent
<1> QED BY <1>4, <1>6, <1>7 DEF SendAckAndStartMedia, NothingIsLost

LEMMA ReceiveWhenByePending ==
    ASSUME SysTypeOK, NothingIsLost, Conversation, state = "BYE_PENDING",
           NEW m \in to_dev, Receive(m), DeviceSent({m})
    PROVE  Conversation'
<1>1. /\ to_plat' = to_plat \cup tx' /\ to_dev' = to_dev \ {m}
      /\ UNCHANGED <<registered, invited, acked, platform_up, network>>
    BY PerfectDevice DEF Conversation
<1>2. registered /\ NoCall /\ Acks(to_plat)
    BY DEF Conversation, ByState, WhenByePending
<1>3. PICK a \in to_dev : IsResponse(a, {200}) /\ Refusals(to_dev \ {a})
    BY DEF Conversation, ByState, WhenByePending
<1>4. RecvByePending(m) \/ Ignore(m)
    BY DEF Receive, RecvRegistering, RecvAuthenticating, RecvRegistered, RecvInviting,
       RecvStreaming, RecvDeregistering
<1>5. UNCHANGED phase
    BY DEF Receive
<1>6. CASE m = a
  <2>1. RecvByePending(m)
        BY <1>3, <1>4, <1>6 DEF Ignore, Understood
  <2>2. UNCHANGED stopping /\ Refusals(to_dev')
        BY <1>1, <1>3, <1>6, <2>1 DEF RecvByePending
  <2>3. CASE /\ tx' = {Register("expires0")} /\ Await("DEREGISTERING", RegisterTimeout)
             /\ UNCHANGED sock
    <3>1. /\ IsRequest(Register("expires0"), "REGISTER")
          /\ Register("expires0").body = "expires0"
          BY DEF Register, Req, IsRequest
    <3>2. Register("expires0") \in to_plat' /\ Acks(to_plat' \ {Register("expires0")})
          BY <1>1, <1>2, <2>3 DEF Acks
    <3>3. WhenDeregistering'
          BY <1>1, <1>2, <2>2, <3>1, <3>2 DEF WhenDeregistering, NoCall, Acks, Refusals
    <3>4. Awake'
          BY <1>5, <2>2, <2>3, TimersAssumption DEF Conversation, Awake, Await
    <3> QED BY <1>1, <2>3, <3>3, <3>4 DEF Conversation, ByState, Await
  <2>4. CASE BackToRegistered({})
    <3>1. /\ state' = "REGISTERED" /\ tx' = {} /\ UNCHANGED sock
          /\ invite_after' = InviteAfter /\ next_keepalive' = KeepaliveInterval
          /\ keepalive_misses' = 0
          BY <2>4 DEF BackToRegistered, EnterRegistered, Await
    <3>2. InviteAfter # 0 /\ KeepaliveInterval # 0
          BY TimersAssumption
    <3>3. \A x \in to_plat' : x.method = "ACK"
          BY <1>1, <1>2, <3>1 DEF Acks, IsRequest
    <3>4. \A x \in to_dev' : x.type # "req"
          BY <2>2 DEF Refusals, IsResponse
    <3>5. WhenRegistered'
          BY <1>1, <1>2, <3>1, <3>2, <3>3, <3>4 DEF WhenRegistered, NoCall
    <3>6. Awake'
          BY <1>5, <2>2, <3>1 DEF Conversation, Awake, Waiting
    <3> QED BY <1>1, <3>1, <3>5, <3>6 DEF Conversation, ByState
  <2> QED BY <2>1, <2>3, <2>4 DEF RecvByePending
<1>7. CASE m # a
  <2>1. IsResponse(m, {501})
        BY <1>3, <1>7 DEF Refusals
  <2>2. Ignore(m)
        BY <1>4, <2>1 DEF RecvByePending, IsResponse
  <2>3. tx' = {} /\ UNCHANGED <<state, sock, state_deadline, stopping>>
        BY <2>2 DEF Ignore, Timers, Cycles
  <2>4. a \in to_dev' /\ Refusals(to_dev' \ {a})
        BY <1>1, <1>3, <1>7 DEF Refusals
  <2>5. WhenByePending'
        BY <1>1, <1>2, <1>3, <2>3, <2>4 DEF WhenByePending, NoCall, Acks, Refusals
  <2>6. Awake'
        BY <1>5, <2>3 DEF Conversation, Awake
  <2> QED BY <1>1, <2>3, <2>5, <2>6 DEF Conversation, ByState
<1> QED BY <1>6, <1>7

LEMMA ReceiveWhenDeregistering ==
    ASSUME SysTypeOK, NothingIsLost, Conversation, state = "DEREGISTERING",
           NEW m \in to_dev, Receive(m), DeviceSent({m})
    PROVE  Conversation'
<1>1. /\ to_plat' = to_plat \cup tx' /\ to_dev' = to_dev \ {m}
      /\ UNCHANGED <<registered, invited, acked, platform_up, network>>
    BY PerfectDevice DEF Conversation
<1>2. WhenDeregistering /\ Awake
    BY DEF Conversation, ByState
<1>3. RecvDeregistering(m) \/ Ignore(m)
    BY DEF Receive, RecvRegistering, RecvAuthenticating, RecvRegistered, RecvInviting,
       RecvStreaming, RecvByePending
<1>4. UNCHANGED phase /\ phase = "loop"
    BY DEF Receive
<1>5. CASE RecvDeregistering(m)
  <2>1. /\ IsResponse(m, {200}) /\ state' = "IDLE" /\ state_deadline' = OFF
        /\ tx' = {} /\ sock' = FALSE /\ stopping' = TRUE
        BY <1>5 DEF RecvDeregistering, Stop, Await
  <2>2. ~registered /\ NoCall /\ Acks(to_plat)
        BY <1>2, <2>1 DEF WhenDeregistering, Refusals, IsResponse
  <2>3. WhenIdle'
        BY <1>1, <1>4, <2>1, <2>2 DEF WhenIdle, NoCall, Acks
  <2> QED BY <1>1, <2>1, <2>3 DEF Conversation, ByState, Awake, Waiting
<1>6. CASE Ignore(m)
  <2>1. tx' = {} /\ UNCHANGED <<state, sock, state_deadline, stopping>>
        BY <1>6 DEF Ignore, Timers, Cycles
  <2>2. ~IsResponse(m, {200})
        BY <1>6 DEF Ignore, Understood
  <2>3. OkIn(to_dev) => OkIn(to_dev')
        BY <1>1, <2>2 DEF OkIn
  <2>4. Refusals(to_dev) => Refusals(to_dev')
        BY <1>1 DEF Refusals
  <2>5. to_plat' = to_plat
        BY <1>1, <2>1
  <2>6. WhenDeregistering'
        BY <1>1, <1>2, <2>3, <2>4, <2>5
        DEF WhenDeregistering, NoCall, Acks, Refusals, OkIn
  <2>7. Awake'
        BY <1>2, <1>4, <2>1 DEF Awake
  <2> QED BY <1>1, <2>1, <2>6, <2>7 DEF Conversation, ByState
<1> QED BY <1>3, <1>5, <1>6

LEMMA DeviceReceivesStep ==
    ASSUME SysTypeOK, NothingIsLost, NoPull, Conversation, DeviceReceives
    PROVE  Conversation'
<1>1. PICK m \in to_dev : Receive(m) /\ DeviceSent({m})
    BY DEF DeviceReceives
<1>2. state # "IDLE"
    BY <1>1 DEF Receive, Conversation, ByState, WhenIdle
<1>3. state # "STREAMING"
    BY <1>1 DEF Conversation, ByState, WhenStreaming
<1>4. state \in States
    BY DEF SysTypeOK, TypeOK
<1> QED BY <1>1, <1>2, <1>3, <1>4, ReceiveWhenRegistering, ReceiveWhenAuthenticating,
        ReceiveWhenRegistered, ReceiveWhenInviting, ReceiveWhenByePending,
        ReceiveWhenDeregistering DEF States

(* The device runs.                                                        *)

LEMMA BootStep ==
    ASSUME NothingIsLost, Conversation, BootsIdle, Boot, DeviceSent({})
    PROVE  Conversation'
<1>1. /\ to_plat' = to_plat \cup tx' /\ to_dev' = to_dev \ {}
      /\ UNCHANGED <<registered, invited, acked, platform_up, network>>
    BY PerfectDevice DEF Conversation
<1>2. /\ ~registered /\ NoCall /\ NothingInFlight /\ state = "IDLE"
      /\ ~sock /\ ~stopping
    BY DEF Boot, BootsIdle, Conversation, ByState, WhenIdle
<1>3. /\ tx' = {NoAuth} /\ sock' = TRUE /\ phase' = "loop"
      /\ state' = "REGISTERING" /\ state_deadline' = RegisterTimeout
      /\ UNCHANGED stopping
    BY <1>2 DEF Boot, StartRegistering, Outcomes, NothingIsLost, Register, NoAuth,
       Await, Cycles
<1>4. WhenRegistering'
    BY <1>1, <1>2, <1>3 DEF WhenRegistering, NothingInFlight, NoCall, NoAuth
<1>5. Awake'
    BY <1>2, <1>3, TimersAssumption DEF Awake
<1> QED BY <1>1, <1>3, <1>4, <1>5 DEF Conversation, ByState

LEMMA TimeoutStep ==
    ASSUME SysTypeOK, NothingIsLost, Conversation, Timeout, DeviceSent({})
    PROVE  Conversation'
<1>1. /\ to_plat' = to_plat \cup tx' /\ to_dev' = to_dev
      /\ UNCHANGED <<registered, invited, acked, platform_up, network>>
  <2>1. to_dev' = to_dev \ {}
        BY PerfectDevice DEF Conversation
  <2> QED BY <2>1, PerfectDevice DEF Conversation
<1>2. phase = "loop" /\ phase' = "loop" /\ TimeoutDue
    BY DEF Timeout
<1>3. state \notin Waiting
    BY <1>2 DEF Conversation, Awake, TimeoutDue, Expired, Waiting
<1>4. state # "IDLE"
    BY <1>2 DEF Conversation, ByState, WhenIdle, TimeoutDue, Expired, OFF
<1>5. /\ Awake /\ sock /\ ~stopping
    BY <1>4 DEF Conversation, Awake
<1>6. CASE TimeoutRegistered
  <2>1. state = "REGISTERED" /\ WhenRegistered
        BY <1>6 DEF TimeoutRegistered, Conversation, ByState
  <2>2. CASE invite_after = 0 /\ SendInvite
    <3>1. NothingInFlight
          BY <2>1, <2>2 DEF WhenRegistered
    <3>2. /\ tx' = {Invite} /\ state' = "INVITING" /\ state_deadline' = InviteTimeout
          /\ UNCHANGED <<sock, stopping>>
          BY <2>2 DEF SendInvite, Outcomes, NothingIsLost, Await, Cycles, Invite
    <3>3. WhenInviting'
          BY <1>1, <2>1, <3>1, <3>2
          DEF WhenRegistered, WhenInviting, NothingInFlight, NoCall, Invite
    <3>4. Awake'
          BY <1>2, <1>5, <3>2, TimersAssumption DEF Awake
    <3> QED BY <1>1, <3>2, <3>3, <3>4 DEF Conversation, ByState
  <2>3. CASE invite_after # 0 /\ next_keepalive = 0 /\ SendKeepalive
    <3>1. NothingInFlight /\ keepalive_misses = 0
          BY <2>1, <2>3 DEF WhenRegistered, NothingInFlight, OkIn
    <3>2. ~(keepalive_misses + 1 >= KeepaliveMissMax)
          BY <3>1, LimitsAssumption DEF NothingIsLost
    <3>3. /\ tx' = {Keepalive} /\ keepalive_misses' = 1
          /\ next_keepalive' = KeepaliveInterval
          /\ UNCHANGED <<state, sock, stopping, invite_after>>
          BY <2>3, <3>1, <3>2 DEF SendKeepalive, Outcomes, NothingIsLost, Cycles,
             Keepalive
    <3>4. KeepaliveInterval # 0
          BY TimersAssumption
    <3>5. Keepalive.method = "MESSAGE"
          BY DEF Keepalive, Req
    <3>6. to_plat' = {Keepalive} /\ to_dev' = {}
          BY <1>1, <3>1, <3>3 DEF NothingInFlight
    <3>7. WhenRegistered'
          BY <1>1, <2>1, <2>3, <3>3, <3>4, <3>5, <3>6
          DEF WhenRegistered, NoCall, Keepalive
    <3>8. Awake'
          BY <1>2, <1>5, <2>1, <3>3 DEF Awake, Waiting
    <3> QED BY <1>1, <2>1, <3>3, <3>7, <3>8 DEF Conversation, ByState
  <2> QED BY <1>6, <2>2, <2>3 DEF TimeoutRegistered, Expired
<1>7. CASE TimeoutStreaming
  <2>1. state = "STREAMING" /\ WhenStreaming
        BY <1>7 DEF TimeoutStreaming, Conversation, ByState
  <2>2. CASE SendBye
    <3>1. ByeSent({}) /\ UNCHANGED stopping
          BY <2>2 DEF SendBye, Cycles
    <3>2. Acks({}) /\ Acks(to_plat)
          BY <2>1 DEF WhenStreaming, Acks
    <3>3. registered /\ invited /\ to_dev' = {} /\ UNCHANGED phase
          BY <1>1, <1>2, <2>1 DEF WhenStreaming
    <3>4. platform_up /\ network = "perfect"
          BY DEF Conversation
    <3> QED BY <1>1, <1>5, <2>1, <3>1, <3>2, <3>3, <3>4, ByeIsSent
  <2>3. CASE SendFrame
    <3>1. tx' = {} /\ UNCHANGED <<state, sock, stopping>>
          BY <2>3 DEF SendFrame, Cycles
    <3>2. to_plat' = to_plat
          BY <1>1, <3>1
    <3>3. WhenStreaming'
          BY <1>1, <2>1, <3>2 DEF WhenStreaming, Acks
    <3>4. Awake'
          BY <1>2, <1>5, <2>1, <3>1 DEF Awake, Waiting
    <3> QED BY <1>1, <2>1, <3>1, <3>3, <3>4 DEF Conversation, ByState
  <2> QED BY <1>7, <2>2, <2>3 DEF TimeoutStreaming
<1> QED BY <1>3, <1>4, <1>6, <1>7 DEF Timeout, TimeoutIdle, TimeoutRegistering,
        TimeoutAuthenticating, TimeoutInviting, TimeoutByePending,
        TimeoutDeregistering, Waiting

LEMMA ExitStep ==
    ASSUME Conversation, Exit, DeviceSent({})
    PROVE  Conversation'
<1>1. /\ to_plat' = to_plat \cup tx' /\ to_dev' = to_dev \ {}
      /\ UNCHANGED <<registered, invited, acked, platform_up, network>>
    BY PerfectDevice DEF Conversation
<1>2. /\ state = "IDLE" /\ state' = "IDLE" /\ tx' = {} /\ ~sock' /\ stopping
      /\ phase' = "exited" /\ UNCHANGED <<stopping, state_deadline>>
    BY DEF Exit, Timers, Cycles
<1>3. to_plat' = to_plat
    BY <1>1, <1>2
<1>4. WhenIdle'
    BY <1>1, <1>2, <1>3 DEF Exit, Conversation, ByState, WhenIdle, NoCall, Acks
<1> QED BY <1>1, <1>2, <1>4 DEF Conversation, ByState, Awake, Waiting

(* The platform takes a datagram, again state by state of the device.      *)

\* A late ACK that finds no call, and one that does
LEMMA HandleAck ==
    ASSUME NEW m, IsRequest(m, "ACK"), P!Handle(m)
    PROVE  /\ UNCHANGED <<registered, invited>>
           /\ invited => acked' /\ ptx' = {}
           /\ ~invited => UNCHANGED acked /\ Refusals(ptx')
BY DEF P!Handle, P!GetResponse, P!Deregister, P!Challenge, P!AcceptRegister,
   P!GetMessage, P!GetInvite, P!GetAck, P!GetBye, P!NotImplemented, P!pctx,
   P!IsRequest, IsRequest, IsResponse, P!Reply, Refusals

LEMMA HandleRegister ==
    ASSUME NEW m, IsRequest(m, "REGISTER"), P!Handle(m)
    PROVE  /\ UNCHANGED <<invited, acked>>
           /\ m.body = "noauth" =>
                UNCHANGED registered /\ ptx' = {Reply(m, 401, "challenge")}
           /\ m.body = "auth" =>
                registered' /\ ptx' = {Reply(m, 200, "none"), P!CatalogQuery}
           /\ m.body = "expires0" => ~registered' /\ OkIn(ptx')
<1> USE DEF P!IsRequest, IsRequest, P!Reply, Reply
<1>1. P!Deregister(m) \/ P!Challenge(m) \/ P!AcceptRegister(m)
    BY DEF P!Handle, P!GetResponse, P!GetMessage, P!GetInvite, P!GetAck, P!GetBye,
       P!NotImplemented
<1>2. CASE P!Deregister(m)
    BY <1>2 DEF P!Deregister, OkIn, IsResponse
<1>3. CASE P!Challenge(m)
    BY <1>3 DEF P!Challenge, P!pctx
<1>4. CASE P!AcceptRegister(m)
    BY <1>4 DEF P!AcceptRegister
<1> QED BY <1>1, <1>2, <1>3, <1>4

LEMMA HandleMessage ==
    ASSUME NEW m, IsRequest(m, "MESSAGE"), registered, P!Handle(m)
    PROVE  /\ UNCHANGED <<registered, invited, acked>>
           /\ \A x \in ptx' : x.type = "req" => x.method \in {"MESSAGE", "INVITE"}
           /\ OkIn(ptx')
<1>1. P!GetMessage(m)
    BY DEF P!Handle, P!GetResponse, P!Deregister, P!Challenge, P!AcceptRegister,
       P!GetInvite, P!GetAck, P!GetBye, P!NotImplemented, P!IsRequest, IsRequest
<1>2. \A x \in P!FollowUp(m) : x.type = "req" /\ x.method \in {"MESSAGE", "INVITE"}
    BY DEF P!FollowUp, P!PtzControl, P!RecordInfoQuery, P!PlaybackInvite,
       P!PlatformInvite, P!Req
<1>3. IsResponse(P!Reply(m, 200, "none"), {200})
    BY DEF P!Reply, IsResponse
<1> QED BY <1>1, <1>2, <1>3 DEF P!GetMessage, IsResponse, OkIn

LEMMA HandleInvite ==
    ASSUME NEW m, IsRequest(m, "INVITE"), registered, P!Handle(m)
    PROVE  /\ UNCHANGED <<registered, acked>>
           /\ invited' /\ ptx' = {Reply(m, 200, "tag")}
BY DEF P!Handle, P!GetResponse, P!Deregister, P!Challenge, P!AcceptRegister,
   P!GetMessage, P!GetInvite, P!GetAck, P!GetBye, P!NotImplemented, P!pctx,
   P!IsRequest, IsRequest, P!Reply, Reply

LEMMA HandleByeOfCall ==
    ASSUME NEW m, IsRequest(m, "BYE"), registered, P!Handle(m)
    PROVE  /\ UNCHANGED registered
           /\ ~invited' /\ ~acked' /\ ptx' = {Reply(m, 200, "none")}
BY DEF P!Handle, P!GetResponse, P!Deregister, P!Challenge, P!AcceptRegister,
   P!GetMessage, P!GetInvite, P!GetAck, P!GetBye, P!NotImplemented, P!pctx,
   P!IsRequest, IsRequest, P!Reply, Reply

LEMMA HandleResponse ==
    ASSUME NEW m, m.type = "resp", m.cid # "platform-invite", P!Handle(m)
    PROVE  UNCHANGED <<registered, invited, acked>> /\ ptx' = {}
BY DEF P!Handle, P!GetResponse, P!Deregister, P!Challenge, P!AcceptRegister,
   P!GetMessage, P!GetInvite, P!GetAck, P!GetBye, P!NotImplemented, P!pctx,
   P!IsRequest

LEMMA PlatformReceivesStep ==
    ASSUME SysTypeOK, NothingIsLost, NoPull, Conversation, PlatformReceives
    PROVE  Conversation'
<1>1. PICK m \in to_plat : P!Handle(m) /\ to_plat' \in InFlight(to_plat, {m}, {})
    BY DEF PlatformReceives
<1>2. /\ UNCHANGED <<phase, state, stopping, sock, state_deadline, invite_after,
                     next_keepalive, keepalive_misses, platform_up, network>>
      /\ to_plat' = to_plat \ {m} /\ to_dev' = to_dev \cup ptx'
  <2>1. to_plat' = (to_plat \ {m}) \cup {}
        BY <1>1, PerfectNetwork DEF Conversation
  <2>2. to_dev' = (to_dev \ {}) \cup ptx'
        BY PerfectNetwork DEF PlatformReceives, Conversation
  <2> QED BY <2>1, <2>2 DEF PlatformReceives, ctx
<1>3. Awake'
    BY <1>2 DEF Conversation, Awake
<1> SUFFICES ByState'
    BY <1>2, <1>3 DEF Conversation
<1>4. ByState
    BY DEF Conversation
<1>5. CASE state = "IDLE"
  <2>1. WhenIdle /\ IsRequest(m, "ACK") /\ ~NothingInFlight
        BY <1>1, <1>4, <1>5 DEF ByState, WhenIdle, Acks, NothingInFlight
  <2>2. UNCHANGED <<registered, invited, acked>>
        BY <1>1, <2>1, HandleAck DEF WhenIdle, NoCall
  <2>3. Acks(to_plat')
        BY <1>2, <2>1 DEF WhenIdle, Acks
  <2>4. WhenIdle'
        BY <1>2, <2>1, <2>2, <2>3 DEF WhenIdle, NoCall, Acks
  <2> QED BY <1>2, <1>5, <2>4 DEF ByState
<1>6. CASE state = "REGISTERING"
  <2>1. /\ m = NoAuth /\ to_plat = {NoAuth} /\ to_dev = {}
        /\ ~registered /\ NoCall
        BY <1>1, <1>4, <1>6 DEF ByState, WhenRegistering
  <2>2. IsRequest(m, "REGISTER") /\ m.body = "noauth"
        BY <2>1 DEF NoAuth, Req, IsRequest
  <2>3. /\ UNCHANGED <<registered, invited, acked>>
        /\ ptx' = {Reply(NoAuth, 401, "challenge")}
        BY <1>1, <2>1, <2>2, HandleRegister
  <2>4. to_plat' = {} /\ to_dev' = {Reply(NoAuth, 401, "challenge")}
        BY <1>2, <2>1, <2>3
  <2>5. WhenRegistering'
        BY <2>1, <2>3, <2>4 DEF WhenRegistering, NoCall, NoAuth
  <2> QED BY <1>2, <1>6, <2>5 DEF ByState
<1>7. CASE state = "AUTHENTICATING"
  <2>1. /\ m = Auth /\ to_plat = {Auth} /\ to_dev = {} /\ NoCall
        BY <1>1, <1>4, <1>7 DEF ByState, WhenAuthenticating
  <2>2. IsRequest(m, "REGISTER") /\ m.body = "auth"
        BY <2>1 DEF Auth, Req, IsRequest
  <2>3. /\ UNCHANGED <<invited, acked>> /\ registered'
        /\ ptx' = {Reply(Auth, 200, "none"), P!CatalogQuery}
        BY <1>1, <2>1, <2>2, HandleRegister
  <2>4. to_plat' = {} /\ to_dev' = {Reply(Auth, 200, "none"), P!CatalogQuery}
        BY <1>2, <2>1, <2>3
  <2>5. WhenAuthenticating'
        BY <2>1, <2>3, <2>4 DEF WhenAuthenticating, NoCall, Auth
  <2> QED BY <1>2, <1>7, <2>5 DEF ByState
<1>8. CASE state = "REGISTERED"
  <2>1. WhenRegistered /\ ~NothingInFlight
        BY <1>1, <1>4, <1>8 DEF ByState, NothingInFlight
  <2>2. m \in Messages /\ m.cid # "platform-invite"
        BY <1>1 DEF SysTypeOK, NoPull
  <2>3. m.type = "resp" \/ IsRequest(m, "MESSAGE") \/ IsRequest(m, "ACK")
        BY <1>1, <2>1, <2>2 DEF WhenRegistered, Messages, Requests, Responses, IsRequest
  <2>4. /\ UNCHANGED <<registered, invited, acked>>
        /\ \A x \in ptx' : x.type = "req" => x.method \in {"MESSAGE", "INVITE"}
        /\ IsRequest(m, "MESSAGE") => OkIn(ptx')
    <3>1. CASE m.type = "resp"
          BY <1>1, <2>2, <3>1, HandleResponse DEF IsRequest
    <3>2. CASE IsRequest(m, "MESSAGE")
          BY <1>1, <2>1, <3>2, HandleMessage DEF WhenRegistered
    <3>3. CASE IsRequest(m, "ACK")
          BY <1>1, <2>1, <3>3, HandleAck
          DEF WhenRegistered, NoCall, IsRequest, Refusals, IsResponse
    <3> QED BY <2>3, <3>1, <3>2, <3>3
  <2>5. Keepalive \in to_plat \/ OkIn(to_dev) => Keepalive \in to_plat' \/ OkIn(to_dev')
    <3>1. m = Keepalive => IsRequest(m, "MESSAGE")
          BY DEF Keepalive, Req, IsRequest
    <3> QED BY <1>2, <2>4, <3>1 DEF OkIn
  <2>6. WhenRegistered'
        BY <1>2, <2>1, <2>4, <2>5 DEF WhenRegistered, NoCall, Keepalive
  <2> QED BY <1>2, <1>8, <2>6 DEF ByState
<1>9. CASE state = "INVITING"
  <2>1. /\ m = Invite /\ to_plat = {Invite} /\ to_dev = {} /\ registered /\ ~acked
        BY <1>1, <1>4, <1>9 DEF ByState, WhenInviting
  <2>2. IsRequest(m, "INVITE")
        BY <2>1 DEF Invite, Req, IsRequest
  <2>3. /\ UNCHANGED <<registered, acked>> /\ invited'
        /\ ptx' = {Reply(Invite, 200, "tag")}
        BY <1>1, <2>1, <2>2, HandleInvite
  <2>4. to_plat' = {} /\ to_dev' = {Reply(Invite, 200, "tag")}
        BY <1>2, <2>1, <2>3
  <2>5. WhenInviting'
        BY <2>1, <2>3, <2>4 DEF WhenInviting, Invite
  <2> QED BY <1>2, <1>9, <2>5 DEF ByState
<1>10. CASE state = "STREAMING"
  <2>1. WhenStreaming /\ IsRequest(m, "ACK")
        BY <1>1, <1>4, <1>10 DEF ByState, WhenStreaming, Acks
  <2>2. UNCHANGED <<registered, invited>> /\ acked' /\ ptx' = {}
        BY <1>1, <2>1, HandleAck DEF WhenStreaming
  <2>3. Acks(to_plat') /\ to_dev' = {}
        BY <1>2, <2>1, <2>2 DEF WhenStreaming, Acks
  <2>4. WhenStreaming'
        BY <2>1, <2>2, <2>3 DEF WhenStreaming, Acks
  <2> QED BY <1>2, <1>10, <2>4 DEF ByState
<1>11. CASE state = "BYE_PENDING"
  <2>1. registered
        BY <1>4, <1>11 DEF ByState, WhenByePending
  <2>2. CASE invited /\ to_dev = {} /\ \E b \in to_plat : /\ IsRequest(b, "BYE")
                                                         /\ Acks(to_plat \ {b})
    <3>1. PICK b \in to_plat : IsRequest(b, "BYE") /\ Acks(to_plat \ {b})
          BY <2>2
    <3>2. ASSUME m = b PROVE WhenByePending'
      <4>1. UNCHANGED registered /\ NoCall' /\ ptx' = {Reply(m, 200, "none")}
            BY <1>1, <2>1, <3>1, <3>2, HandleByeOfCall DEF NoCall
      <4>2. to_dev' = {Reply(m, 200, "none")} /\ Acks(to_plat')
            BY <1>2, <2>2, <3>1, <3>2, <4>1
      <4>3. IsResponse(Reply(m, 200, "none"), {200})
            BY DEF Reply, IsResponse
      <4>4. \E a \in to_dev' : IsResponse(a, {200}) /\ Refusals(to_dev' \ {a})
            BY <4>2, <4>3 DEF Refusals
      <4> QED BY <2>1, <4>1, <4>2, <4>4 DEF WhenByePending, NoCall, Acks, Refusals
    <3>3. ASSUME m # b PROVE WhenByePending'
      <4>1. IsRequest(m, "ACK")
            BY <3>1, <3>3 DEF Acks
      <4>2. UNCHANGED <<registered, invited>> /\ ptx' = {}
            BY <1>1, <2>2, <4>1, HandleAck
      <4>3. b \in to_plat' /\ Acks(to_plat' \ {b}) /\ to_dev' = {}
            BY <1>2, <2>2, <3>1, <3>3, <4>2 DEF Acks
      <4> QED BY <2>1, <2>2, <3>1, <4>2, <4>3 DEF WhenByePending, Acks
    <3>4. WhenByePending'
          BY <3>2, <3>3
    <3> QED BY <1>2, <1>11, <3>4 DEF ByState
  <2>3. CASE NoCall /\ Acks(to_plat) /\ \E a \in to_dev : /\ IsResponse(a, {200})
                                                         /\ Refusals(to_dev \ {a})
    <3>1. PICK a \in to_dev : IsResponse(a, {200}) /\ Refusals(to_dev \ {a})
          BY <2>3
    <3>2. UNCHANGED <<registered, invited, acked>> /\ Refusals(ptx')
          BY <1>1, <2>3, HandleAck DEF Acks, NoCall
    <3>3. a \in to_dev' /\ Refusals(to_dev' \ {a}) /\ Acks(to_plat')
          BY <1>2, <2>3, <3>1, <3>2 DEF Refusals, Acks
    <3>4. WhenByePending'
          BY <2>1, <2>3, <3>1, <3>2, <3>3 DEF WhenByePending, NoCall, Acks, Refusals
    <3> QED BY <1>2, <1>11, <3>4 DEF ByState
  <2> QED BY <1>4, <1>11, <2>2, <2>3 DEF ByState, WhenByePending
<1>12. CASE state = "DEREGISTERING"
  <2>1. NoCall
        BY <1>4, <1>12 DEF ByState, WhenDeregistering
  <2>2. CASE /\ registered /\ Refusals(to_dev)
             /\ \E r \in to_plat : /\ IsRequest(r, "REGISTER") /\ r.body = "expires0"
                                   /\ Acks(to_plat \ {r})
    <3>1. PICK r \in to_plat : /\ IsRequest(r, "REGISTER") /\ r.body = "expires0"
                               /\ Acks(to_plat \ {r})
          BY <2>2
    <3>2. ASSUME m = r PROVE WhenDeregistering'
      <4>1. ~registered' /\ UNCHANGED <<invited, acked>> /\ OkIn(ptx')
            BY <1>1, <3>1, <3>2, HandleRegister
      <4>2. Acks(to_plat') /\ OkIn(to_dev')
            BY <1>2, <3>1, <3>2, <4>1 DEF OkIn
      <4> QED BY <2>1, <4>1, <4>2 DEF WhenDeregistering, NoCall, Acks, OkIn
    <3>3. ASSUME m # r PROVE WhenDeregistering'
      <4>1. IsRequest(m, "ACK")
            BY <3>1, <3>3 DEF Acks
      <4>2. UNCHANGED <<registered, invited, acked>> /\ Refusals(ptx')
            BY <1>1, <2>1, <4>1, HandleAck DEF NoCall
      <4>3. r \in to_plat' /\ Acks(to_plat' \ {r}) /\ Refusals(to_dev')
            BY <1>2, <2>2, <3>1, <3>3, <4>2 DEF Acks, Refusals
      <4> QED BY <2>1, <2>2, <3>1, <4>2, <4>3
              DEF WhenDeregistering, NoCall, Acks, Refusals
    <3>4. WhenDeregistering'
          BY <3>2, <3>3
    <3> QED BY <1>2, <1>12, <3>4 DEF ByState
  <2>3. CASE ~registered /\ Acks(to_plat) /\ OkIn(to_dev)
    <3>1. UNCHANGED <<registered, invited, acked>>
          BY <1>1, <2>1, <2>3, HandleAck DEF Acks, NoCall
    <3>2. Acks(to_plat') /\ OkIn(to_dev')
          BY <1>2, <2>3 DEF Acks, OkIn
    <3>3. WhenDeregistering'
          BY <2>1, <2>3, <3>1, <3>2 DEF WhenDeregistering, NoCall, Acks, OkIn
    <3> QED BY <1>2, <1>12, <3>3 DEF ByState
  <2> QED BY <1>4, <1>12, <2>2, <2>3 DEF ByState, WhenDeregistering
<1>13. state \in States
    BY DEF SysTypeOK, TypeOK
<1> QED BY <1>5, <1>6, <1>7, <1>8, <1>9, <1>10, <1>11, <1>12, <1>13 DEF States

LEMMA TimePassesStep ==
    ASSUME SysTypeOK, Conversation, TimePasses
    PROVE  Conversation'
<1>1. /\ NothingInFlight /\ NothingInFlight'
      /\ UNCHANGED <<phase, state, sock, stopping, keepalive_misses, registered,
                     invited, acked, platform_up, network, to_plat, to_dev>>
      /\ state_deadline' = CountDown(state_deadline)
    BY DEF TimePasses, Tick, NothingInFlight, Conversation, platform, flags, Counters,
       Cycles
<1>2. state \notin Waiting
    BY <1>1 DEF Conversation, ByState, Waiting, NothingInFlight, WhenRegistering,
       WhenAuthenticating, WhenInviting, WhenByePending, WhenDeregistering, OkIn
<1>3. Awake'
    BY <1>1, <1>2 DEF Conversation, Awake
<1>4. state = "IDLE" => WhenIdle'
    BY <1>1 DEF Conversation, ByState, WhenIdle, NoCall, Acks, CountDown, OFF
<1>5. state = "REGISTERED" => WhenRegistered'
    BY <1>1 DEF Conversation, ByState, WhenRegistered, NoCall, OkIn
<1>6. state = "STREAMING" => WhenStreaming'
    BY <1>1 DEF Conversation, ByState, WhenStreaming, Acks
<1> QED BY <1>1, <1>2, <1>3, <1>4, <1>5, <1>6 DEF Conversation, ByState, Waiting

LEMMA UndeliverableStep ==
    ASSUME Conversation, Undeliverable
    PROVE  Conversation'
<1>1. /\ to_dev' = {} /\ ~sock
      /\ UNCHANGED <<phase, state, sock, stopping, state_deadline, registered, invited,
                     acked, platform_up, network, to_plat>>
    BY DEF Undeliverable, Conversation, ctx, platform, flags
<1>2. state = "IDLE"
    BY <1>1 DEF Conversation, Awake
<1>3. WhenIdle'
    BY <1>1, <1>2 DEF Conversation, ByState, WhenIdle, NoCall, Acks, NothingInFlight
<1> QED BY <1>1, <1>2, <1>3 DEF Conversation, ByState, Awake, Waiting

LEMMA ConversationStep ==
    ASSUME NothingIsLost, SysTypeOK, BootsIdle, NoPull, Conversation,
           [SysNext]_sysVars
    PROVE  Conversation'
<1>1. CASE DeviceReceives
    BY <1>1, DeviceReceivesStep
<1>2. CASE DeviceRuns
  <2>1. ~RecvFails
        BY DEF RecvFails, NothingIsLost
  <2> QED BY <1>2, <2>1, BootStep, TimeoutStep, ExitStep DEF DeviceRuns, Loop
<1>3. CASE PlatformReceives
    BY <1>3, PlatformReceivesStep
<1>4. CASE PlatformDies
    BY <1>4 DEF PlatformDies, NothingIsLost, SysTypeOK
<1>5. CASE PlatformStarts
    BY <1>5 DEF PlatformStarts, Conversation
<1>6. CASE Undeliverable
    BY <1>6, UndeliverableStep
<1>7. CASE TimePasses
    BY <1>7, TimePassesStep
<1>8. CASE UNCHANGED sysVars
    BY <1>8 DEF sysVars, vars, ctx, platform, flags, Conversation, Awake, ByState,
       WhenIdle, WhenRegistering, WhenAuthenticating, WhenRegistered, WhenInviting,
       WhenStreaming, WhenByePending, WhenDeregistering, NoCall, NothingInFlight,
       Acks, Refusals, OkIn, NoAuth, Auth, Invite, Keepalive
<1> QED BY <1>1, <1>2, <1>3, <1>4, <1>5, <1>6, <1>7, <1>8 DEF SysNext, Ended

\* On a network that loses nothing the two sides agree on the registration,
\* the call and its media whenever nothing is in flight, however late the
\* ACK of one call is delivered into the next state.
THEOREM QuietMeansAgreed ==
    ASSUME NothingIsLost
    PROVE  SysSpec => []QuietAgreement
<1>1. SysInit => BootsIdle /\ NoPull /\ Conversation
  <2> SUFFICES ASSUME SysInit PROVE BootsIdle /\ NoPull /\ Conversation
      OBVIOUS
  <2>1. /\ state = "IDLE" /\ phase = "boot" /\ ~sock /\ ~stopping /\ ~registered
        /\ NoCall /\ NothingInFlight
      BY DEF SysInit, Init, P!PlatformInit, NoCall, NothingInFlight
  <2>2. network = "perfect" /\ platform_up
      BY DEF SysInit, NothingIsLost
  <2>3. BootsIdle /\ NoPull /\ WhenIdle
      BY <2>1 DEF BootsIdle, NoPull, WhenIdle, NothingInFlight, Acks
  <2> QED BY <2>1, <2>2, <2>3 DEF Conversation, ByState, Awake, Waiting
<1>2. SysTypeOK /\ BootsIdle /\ NoPull /\ Conversation /\ [SysNext]_sysVars
         => (BootsIdle /\ NoPull /\ Conversation)'
    BY BootsIdleStep, NoPullStep, ConversationStep
<1>3. SysTypeOK /\ BootsIdle /\ Conversation => QuietAgreement
  <2> SUFFICES ASSUME SysTypeOK, Conversation, NothingInFlight
               PROVE  /\ registered <=> state \in Online
                      /\ invited <=> state = "STREAMING"
                      /\ acked <=> state = "STREAMING"
      BY DEF QuietAgreement, NothingInFlight
  <2>1. state \in {"IDLE", "REGISTERED", "STREAMING"}
      BY DEF SysTypeOK, TypeOK, States, Conversation, ByState, NothingInFlight,
         WhenRegistering, WhenAuthenticating, WhenInviting, WhenByePending,
         WhenDeregistering, OkIn
  <2> QED BY <2>1 DEF Conversation, ByState, WhenIdle, WhenRegistered, WhenStreaming,
          NoCall, NothingInFlight, Online
<1> QED BY <1>1, <1>2, <1>3, SysTypeCorrect, PTL DEF SysSpec
=============================================================================
