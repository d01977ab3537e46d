--------------------------- MODULE GbDeviceSafety ---------------------------
(* The safety invariants of GbDevice, on top of its type correctness.      *)
EXTENDS GbDeviceProofs

(* The RTP port.  StreamingOwnsThePort is inductive together with TypeOK:  *)
(* over UDP it is the count of lost sessions that keeps a second one from  *)
(* starting.                                                               *)

\* Steps that start no session
LEMMA NoNewSession ==
    ASSUME StreamingOwnsThePort, lost_rtp' = lost_rtp,
           \/ UNCHANGED media_handle /\ (state' = "STREAMING" => state = "STREAMING")
           \/ media_handle' = FALSE /\ state' # "STREAMING"
    PROVE  StreamingOwnsThePort'
BY DEF StreamingOwnsThePort

\* A session that is started overwrites the handle of the previous one.
LEMMA NewSession ==
    ASSUME StreamingOwnsThePort, TypeOK, NEW started \in StartOutcomes,
           lost_rtp' = PreviousSessions, media_handle' = started,
           ~started => state' # "STREAMING"
    PROVE  StreamingOwnsThePort'
<1>0. CASE UseTcp
  BY <1>0 DEF StreamingOwnsThePort, StartOutcomes, Outcomes
<1>1. CASE ~UseTcp /\ media_handle
  <2>1. lost_rtp = 0 /\ PreviousSessions = 1
    BY <1>1, LimitsAssumption DEF StreamingOwnsThePort, PreviousSessions, AtMost
  <2>2. started = FALSE
    BY <1>1, <2>1 DEF StartOutcomes
  <2>. QED BY <1>1, <2>1, <2>2 DEF StreamingOwnsThePort
<1>2. CASE ~UseTcp /\ ~media_handle
  <2>1. PreviousSessions = lost_rtp
    BY <1>2, LimitsAssumption DEF PreviousSessions, AtMost, TypeOK
  <2>2. CASE lost_rtp = 0
    BY <1>2, <2>1, <2>2 DEF StreamingOwnsThePort, StartOutcomes, Outcomes
  <2>3. CASE lost_rtp # 0
    <3>1. started = FALSE
      BY <1>2, <2>1, <2>3 DEF StartOutcomes
    <3>. QED BY <1>2, <2>1, <3>1 DEF StreamingOwnsThePort
  <2>. QED BY <2>2, <2>3
<1>. QED BY <1>0, <1>1, <1>2

\* How the actions that start no session end
LEMMA ByeSentState ==
    ASSUME \E msgs : ByeSent(msgs)
    PROVE  state' \in {"BYE_PENDING", "IDLE"}
BY DEF ByeSent, Await, EnterIdleWithBackoff

LEMMA BackToRegisteredState ==
    ASSUME \E sent : BackToRegistered(sent)
    PROVE  state' = "REGISTERED"
BY DEF BackToRegistered, EnterRegistered, Await

LEMMA StartRegisteringState ==
    ASSUME \E r : StartRegistering(r)
    PROVE  state' \in {"REGISTERING", "IDLE"}
BY DEF StartRegistering, Await, EnterIdleWithBackoff

LEMMA PortStep ==
    ASSUME TypeOK, StreamingOwnsThePort, [Next]_vars
    PROVE  StreamingOwnsThePort'
<1>1. ASSUME \E r : StartRegistering(r) PROVE StreamingOwnsThePort'
  <2>1. UNCHANGED <<media_handle, lost_rtp>>
    BY <1>1 DEF StartRegistering, Media
  <2>. QED BY <1>1, <2>1, StartRegisteringState, NoNewSession
<1>2. CASE Boot
  BY <1>1, <1>2 DEF Boot
<1>3. CASE RecvFails
  BY <1>3, NoNewSession DEF RecvFails, GiveUp, EnterIdleWithBackoff, Await, Media
<1>4. CASE Timeout
  <2>1. CASE TimeoutIdle \/ TimeoutAuthenticating
    BY <1>1, <2>1 DEF TimeoutIdle, TimeoutAuthenticating
  <2>2. CASE TimeoutRegistering
    BY <1>1, <2>2, NoNewSession
    DEF TimeoutRegistering, GiveUp, EnterIdleWithBackoff, Await, Media
  <2>3. CASE TimeoutRegistered
    BY <2>3, NoNewSession
    DEF TimeoutRegistered, SendInvite, SendKeepalive, EnterIdleWithBackoff, Await, Media
  <2>4. CASE TimeoutInviting
    BY <2>4, NoNewSession
    DEF TimeoutInviting, BackToRegistered, EnterRegistered, Await, Media
  <2>5. CASE TimeoutStreaming
    BY <2>5, NoNewSession, ByeSentState
    DEF TimeoutStreaming, SendBye, SendFrame
  <2>6. CASE TimeoutByePending
    BY <2>6, NoNewSession
    DEF TimeoutByePending, BackToRegistered, EnterRegistered, Await
  <2>7. CASE TimeoutDeregistering
    BY <2>7, NoNewSession DEF TimeoutDeregistering, Stop, Await, Media
  <2>. QED BY <1>4, <2>1, <2>2, <2>3, <2>4, <2>5, <2>6, <2>7 DEF Timeout
<1>5. CASE Exit
  BY <1>5, NoNewSession DEF Exit
<1>6. CASE Tick \/ UNCHANGED vars
  BY <1>6, NoNewSession DEF Tick, Media, vars, ctx
<1>7. ASSUME NEW m \in Inbound, Receive(m) PROVE StreamingOwnsThePort'
  <2>1. CASE RecvRegistering(m)
    BY <2>1, NoNewSession
    DEF RecvRegistering, SendRegisterWithAuth, GiveUp, EnterIdleWithBackoff,
        BackToRegistered, EnterRegistered, Await, Media
  <2>2. CASE RecvAuthenticating(m)
    BY <2>2, NoNewSession
    DEF RecvAuthenticating, GiveUp, EnterIdleWithBackoff, BackToRegistered,
        EnterRegistered, Await, Media
  <2>3. CASE RecvRegistered(m)
    <3>1. CASE StartPulledMedia
      BY <2>3, <3>1, NewSession DEF RecvRegistered, StartPulledMedia
    <3>2. CASE ~StartPulledMedia
      BY <2>3, <3>2, NoNewSession DEF RecvRegistered, Media
    <3>. QED BY <3>1, <3>2
  <2>4. CASE RecvInviting(m)
    <3>1. CASE SendAckAndStartMedia
      <4>1. CASE EnterIdleWithBackoff /\ UNCHANGED Media
        BY <4>1, NoNewSession DEF EnterIdleWithBackoff, Await, Media
      <4>2. CASE \E started \in StartOutcomes :
                   /\ lost_rtp' = PreviousSessions
                   /\ media_handle' = started
                   /\ started \/ \E msgs : ByeSent(msgs)
        BY <4>2, NewSession, ByeSentState
      <4>. QED BY <3>1, <4>1, <4>2 DEF SendAckAndStartMedia
    <3>2. CASE BackToRegistered({}) /\ UNCHANGED Media
      BY <3>2, NoNewSession DEF BackToRegistered, EnterRegistered, Await, Media
    <3>. QED BY <2>4, <3>1, <3>2 DEF RecvInviting
  <2>5. CASE RecvStreaming(m)
    BY <2>5, NoNewSession DEF RecvStreaming, BackToRegistered, EnterRegistered, Await
  <2>6. CASE RecvByePending(m)
    BY <2>6, NoNewSession
    DEF RecvByePending, BackToRegistered, EnterRegistered, Await, Media
  <2>7. CASE RecvDeregistering(m)
    BY <2>7, NoNewSession DEF RecvDeregistering, Stop, Await, Media
  <2>8. CASE Ignore(m)
    BY <2>8, NoNewSession DEF Ignore, Media
  <2>. QED
    BY <1>7, <2>1, <2>2, <2>3, <2>4, <2>5, <2>6, <2>7, <2>8 DEF Receive
<1>. QED
  BY <1>2, <1>3, <1>4, <1>5, <1>6, <1>7 DEF Next, Loop, Exited

\* A device that streams holds its session, over UDP the one on the RTP port,
\* and then no more than one session is ever lost: whatever fails and whatever
\* arrives.
THEOREM PortOwned == Spec => []StreamingOwnsThePort
<1>1. Init => StreamingOwnsThePort
  BY DEF Init, StreamingOwnsThePort
<1>2. TypeOK /\ StreamingOwnsThePort /\ [Next]_vars => StreamingOwnsThePort'
  BY PortStep
<1>. QED BY <1>1, <1>2, TypeCorrect, PTL DEF Spec

-----------------------------------------------------------------------------
(* The life of a session.  RecvFails is the only way out of STREAMING that *)
(* releases nothing.  The induction needs, too, that the device boots from *)
(* IDLE.                                                                   *)

\* The handlers that neither open nor close a session
OutsideStreaming ==
    /\ UNCHANGED <<media_handle, lost_rtp>>
    /\ (state = "STREAMING" <=> state' = "STREAMING")
\* ... and those that do
SessionStarted == media_handle' = TRUE /\ lost_rtp' = 0 /\ state' = "STREAMING"
SessionStopped == media_handle' = FALSE /\ lost_rtp' = lost_rtp /\ state' # "STREAMING"

LEMMA SessionEndings ==
    ASSUME SessionReleased, OutsideStreaming \/ SessionStarted \/ SessionStopped
    PROVE  SessionReleased'
BY DEF SessionReleased, OutsideStreaming, SessionStarted, SessionStopped

LEMMA ReceiveSession ==
    ASSUME TypeOK, SessionReleased, "recv" \notin Faults, NEW m, Receive(m)
    PROVE  OutsideStreaming \/ SessionStarted \/ SessionStopped
<1>1. lost_rtp = 0 /\ (media_handle <=> state = "STREAMING")
  BY DEF SessionReleased
<1>2. CASE RecvRegistering(m) \/ RecvAuthenticating(m)
  BY <1>2, BackToRegisteredState
  DEF RecvRegistering, RecvAuthenticating, SendRegisterWithAuth, GiveUp,
      EnterIdleWithBackoff, Await, Media, OutsideStreaming
<1>3. CASE RecvRegistered(m)
  <2>1. CASE StartPulledMedia
    <3>1. PreviousSessions = 0
      BY <1>1, <1>3, LimitsAssumption DEF RecvRegistered, PreviousSessions, AtMost
    <3>2. PICK started \in StartOutcomes :
            /\ lost_rtp' = PreviousSessions /\ media_handle' = started
            /\ started => EnterStreaming
            /\ ~started => UNCHANGED state
      BY <2>1 DEF StartPulledMedia
    <3>3. started = TRUE \/ started = FALSE
      BY DEF StartOutcomes, Outcomes
    <3>4. CASE started = TRUE
      BY <3>1, <3>2, <3>4 DEF EnterStreaming, Await, SessionStarted
    <3>5. CASE started = FALSE
      BY <1>1, <1>3, <3>1, <3>2, <3>5 DEF RecvRegistered, SessionStopped
    <3>. QED BY <3>3, <3>4, <3>5
  <2>2. CASE ~StartPulledMedia
    BY <1>3, <2>2 DEF RecvRegistered, Media, OutsideStreaming
  <2>. QED BY <2>1, <2>2
<1>4. CASE RecvInviting(m)
  <2>1. state = "INVITING" /\ media_handle = FALSE /\ PreviousSessions = 0
    BY <1>1, <1>4, LimitsAssumption DEF RecvInviting, PreviousSessions, AtMost, TypeOK
  <2>2. CASE EnterIdleWithBackoff /\ UNCHANGED Media
    BY <2>1, <2>2 DEF EnterIdleWithBackoff, Await, Media, OutsideStreaming
  <2>3. CASE \E started \in StartOutcomes :
               /\ lost_rtp' = PreviousSessions
               /\ media_handle' = started
               /\ started => EnterStreaming
               /\ ~started => \E msgs : ByeSent(msgs)
    BY <1>1, <2>1, <2>3, ByeSentState
    DEF EnterStreaming, Await, StartOutcomes, Outcomes, SessionStarted, SessionStopped
  <2>4. CASE SendAckAndStartMedia
    BY <2>2, <2>3, <2>4 DEF SendAckAndStartMedia
  <2>5. CASE BackToRegistered({}) /\ UNCHANGED Media
    BY <2>1, <2>5, BackToRegisteredState DEF Media, OutsideStreaming
  <2>. QED BY <1>4, <2>4, <2>5 DEF RecvInviting
<1>5. CASE RecvStreaming(m)
  BY <1>5, BackToRegisteredState DEF RecvStreaming, SessionStopped
<1>6. CASE RecvByePending(m)
  BY <1>6, BackToRegisteredState
  DEF RecvByePending, Await, Media, OutsideStreaming
<1>7. CASE RecvDeregistering(m) \/ Ignore(m)
  BY <1>7 DEF RecvDeregistering, Stop, Ignore, Await, Media, OutsideStreaming
<1>. QED BY <1>2, <1>3, <1>4, <1>5, <1>6, <1>7 DEF Receive

LEMMA TimeoutSession ==
    ASSUME TypeOK, SessionReleased, "recv" \notin Faults, Timeout
    PROVE  OutsideStreaming \/ SessionStarted \/ SessionStopped
<1>1. CASE TimeoutIdle \/ TimeoutRegistering \/ TimeoutAuthenticating
  <2>1. UNCHANGED <<media_handle, lost_rtp>>
    BY <1>1
    DEF TimeoutIdle, TimeoutRegistering, TimeoutAuthenticating, StartRegistering, GiveUp,
        Media
  <2>2. state # "STREAMING" /\ state' # "STREAMING"
    BY <1>1, StartRegisteringState
    DEF TimeoutIdle, TimeoutRegistering, TimeoutAuthenticating, GiveUp,
        EnterIdleWithBackoff, Await
  <2>. QED BY <2>1, <2>2 DEF OutsideStreaming
<1>2. CASE TimeoutRegistered
  BY <1>2
  DEF TimeoutRegistered, SendInvite, SendKeepalive, EnterIdleWithBackoff, Await, Media,
      OutsideStreaming
<1>3. CASE TimeoutInviting
  BY <1>3, BackToRegisteredState DEF TimeoutInviting, Media, OutsideStreaming
<1>4. CASE TimeoutByePending
  BY <1>4, BackToRegisteredState DEF TimeoutByePending, SessionStopped
<1>5. CASE TimeoutStreaming
  BY <1>5, ByeSentState
  DEF TimeoutStreaming, SendBye, SendFrame, OutsideStreaming, SessionStopped
<1>6. CASE TimeoutDeregistering
  BY <1>6 DEF TimeoutDeregistering, Stop, Await, Media, OutsideStreaming
<1>. QED BY <1>1, <1>2, <1>3, <1>4, <1>5, <1>6 DEF Timeout

\* Without socket errors no path leaves a session behind, or streams
\* without one.
THEOREM SessionCorrect == Spec => []SessionReleased
<1>. DEFINE BootsIdle == phase = "boot" => state = "IDLE"
            IInv == SessionReleased /\ BootsIdle
<1>1. Init => IInv
  BY DEF Init, SessionReleased
<1>2. TypeOK /\ IInv /\ [Next]_vars => SessionReleased'
  <2>. SUFFICES ASSUME TypeOK, IInv, "recv" \notin Faults, [Next]_vars
                PROVE  SessionReleased'
    BY DEF SessionReleased
  <2>1. CASE Boot
    BY <2>1, StartRegisteringState, SessionEndings
    DEF Boot, StartRegistering, Media, OutsideStreaming
  <2>2. CASE Timeout
    BY <2>2, TimeoutSession, SessionEndings
  <2>3. CASE RecvFails
    BY <2>3 DEF RecvFails
  <2>4. CASE Exit
    BY <2>4, SessionEndings DEF Exit, SessionStopped, Media
  <2>5. CASE Tick \/ UNCHANGED vars
    BY <2>5, SessionEndings DEF Tick, vars, ctx, Media, OutsideStreaming
  <2>6. ASSUME NEW m \in Inbound, Receive(m) PROVE SessionReleased'
    BY <2>6, ReceiveSession, SessionEndings
  <2>. QED
    BY <2>1, <2>2, <2>3, <2>4, <2>5, <2>6 DEF Next, Loop, Exited
<1>3. IInv /\ [Next]_vars => BootsIdle'
  BY DEF Next, Loop, Boot, Timeout, RecvFails, Exit, Tick, Exited, Receive, vars, ctx
<1>4. IInv => SessionReleased
  OBVIOUS
<1>. QED BY <1>1, <1>2, <1>3, <1>4, TypeCorrect, PTL DEF Spec

-----------------------------------------------------------------------------
(* The socket.  SocketFollowsState is inductive once the boot phase is     *)
(* included: nothing but a backoff, a Stop or the exit closes the socket.  *)

\* Every way out of a handler, seen from the socket
SocketKept == UNCHANGED sock /\ (state = "IDLE" <=> state' = "IDLE")
SocketOpened == sock' = TRUE /\ state' # "IDLE"
SocketClosed == sock' = FALSE /\ state' = "IDLE"

LEMMA StartRegisteringSocket ==
    ASSUME \E r : StartRegistering(r)
    PROVE  SocketOpened \/ SocketClosed
BY DEF StartRegistering, EnterIdleWithBackoff, Await, SocketOpened, SocketClosed

LEMMA ByeSentSocket ==
    ASSUME \E msgs : ByeSent(msgs), state # "IDLE"
    PROVE  SocketKept \/ SocketClosed
BY DEF ByeSent, EnterIdleWithBackoff, Await, SocketKept, SocketClosed

LEMMA BackToRegisteredSocket ==
    ASSUME \E sent : BackToRegistered(sent), state # "IDLE"
    PROVE  SocketKept
BY DEF BackToRegistered, EnterRegistered, Await, SocketKept

LEMMA ReceiveSocket ==
    ASSUME NEW m, Receive(m)
    PROVE  SocketKept \/ SocketClosed
<1>1. CASE RecvRegistering(m)
  BY <1>1, BackToRegisteredSocket
  DEF RecvRegistering, SendRegisterWithAuth, GiveUp, EnterIdleWithBackoff, Await,
      SocketKept, SocketClosed
<1>2. CASE RecvAuthenticating(m)
  BY <1>2, BackToRegisteredSocket
  DEF RecvAuthenticating, GiveUp, EnterIdleWithBackoff, Await, SocketClosed
<1>3. CASE RecvRegistered(m)
  BY <1>3 DEF RecvRegistered, StartPulledMedia, EnterStreaming, Await, SocketKept
<1>4. CASE RecvInviting(m)
  <2>1. CASE SendAckAndStartMedia
    BY <1>4, <2>1, ByeSentSocket
    DEF RecvInviting, SendAckAndStartMedia, EnterStreaming, EnterIdleWithBackoff, Await,
        SocketKept, SocketClosed
  <2>2. CASE BackToRegistered({})
    BY <1>4, <2>2, BackToRegisteredSocket DEF RecvInviting
  <2>. QED BY <1>4, <2>1, <2>2 DEF RecvInviting
<1>5. CASE RecvStreaming(m)
  BY <1>5, BackToRegisteredSocket DEF RecvStreaming
<1>6. CASE RecvByePending(m)
  BY <1>6, BackToRegisteredSocket DEF RecvByePending, Await, SocketKept
<1>7. CASE RecvDeregistering(m)
  BY <1>7 DEF RecvDeregistering, Stop, Await, SocketClosed
<1>8. CASE Ignore(m)
  BY <1>8 DEF Ignore, SocketKept
<1>. QED
  BY <1>1, <1>2, <1>3, <1>4, <1>5, <1>6, <1>7, <1>8 DEF Receive

LEMMA TimeoutSocket ==
    ASSUME Timeout
    PROVE  SocketKept \/ SocketOpened \/ SocketClosed
<1>1. CASE TimeoutIdle \/ TimeoutRegistering \/ TimeoutAuthenticating
  BY <1>1, StartRegisteringSocket
  DEF TimeoutIdle, TimeoutRegistering, TimeoutAuthenticating, GiveUp,
      EnterIdleWithBackoff, Await, SocketClosed
<1>2. CASE TimeoutRegistered
  BY <1>2
  DEF TimeoutRegistered, SendInvite, SendKeepalive, EnterIdleWithBackoff, Await,
      SocketKept, SocketClosed
<1>3. CASE TimeoutInviting \/ TimeoutByePending
  BY <1>3, BackToRegisteredSocket DEF TimeoutInviting, TimeoutByePending
<1>4. CASE TimeoutStreaming
  BY <1>4, ByeSentSocket DEF TimeoutStreaming, SendBye, SendFrame, SocketKept
<1>5. CASE TimeoutDeregistering
  BY <1>5 DEF TimeoutDeregistering, Stop, Await, SocketClosed
<1>. QED BY <1>1, <1>2, <1>3, <1>4, <1>5 DEF Timeout

\* The socket is open exactly while the device waits for datagrams.
THEOREM SocketCorrect == Spec => []SocketFollowsState
<1>1. Init => SocketFollowsState
  BY DEF Init, SocketFollowsState
<1>2. TypeOK /\ SocketFollowsState /\ [Next]_vars => SocketFollowsState'
  <2>. SUFFICES ASSUME TypeOK, SocketFollowsState, [Next]_vars
                PROVE  SocketFollowsState'
    OBVIOUS
  <2>1. ASSUME SocketOpened \/ SocketClosed PROVE SocketFollowsState'
    BY <2>1 DEF SocketOpened, SocketClosed, SocketFollowsState
  <2>2. ASSUME SocketKept, UNCHANGED phase PROVE SocketFollowsState'
    BY <2>2 DEF SocketKept, SocketFollowsState
  <2>3. CASE Boot
    BY <2>1, <2>3, StartRegisteringSocket DEF Boot
  <2>4. CASE Timeout
    BY <2>1, <2>2, <2>4, TimeoutSocket DEF Timeout
  <2>5. CASE RecvFails
    BY <2>1, <2>5 DEF RecvFails, GiveUp, EnterIdleWithBackoff, Await, SocketClosed
  <2>6. CASE Exit
    BY <2>6 DEF Exit, SocketFollowsState
  <2>7. CASE Tick \/ UNCHANGED vars
    BY <2>2, <2>7 DEF Tick, vars, ctx, SocketKept
  <2>8. ASSUME NEW m \in Inbound, Receive(m) PROVE SocketFollowsState'
    BY <2>1, <2>2, <2>8, ReceiveSocket DEF Receive
  <2>. QED
    BY <2>3, <2>4, <2>5, <2>6, <2>7, <2>8 DEF Next, Loop, Exited
<1>. QED BY <1>1, <1>2, TypeCorrect, PTL DEF Spec

-----------------------------------------------------------------------------
(* The backoff: the delay is only ever doubled or, on entering REGISTERED, *)
(* reset.                                                                  *)

BackoffStep == backoff_ms' \in {backoff_ms, NextBackoff(backoff_ms)}

LEMMA BackoffGrows ==
    ASSUME TypeOK, BackoffStep
    PROVE  ~(backoff_ms' < backoff_ms)
BY TimersAssumption DEF TypeOK, BackoffStep, NextBackoff, AtMost

LEMMA ByeSentBackoff ==
    ASSUME \E msgs : ByeSent(msgs)
    PROVE  BackoffStep
BY DEF ByeSent, EnterIdleWithBackoff, Counters, BackoffStep

LEMMA StartRegisteringBackoff ==
    ASSUME \E r : StartRegistering(r)
    PROVE  BackoffStep
BY DEF StartRegistering, EnterIdleWithBackoff, BackoffStep

LEMMA ReceiveBackoff ==
    ASSUME NEW m, Receive(m)
    PROVE  BackoffStep \/ state' = "REGISTERED"
<1>1. CASE RecvRegistering(m) \/ RecvAuthenticating(m)
  BY <1>1, BackToRegisteredState
  DEF RecvRegistering, RecvAuthenticating, SendRegisterWithAuth, GiveUp,
      EnterIdleWithBackoff, Counters, BackoffStep
<1>2. CASE RecvRegistered(m)
  BY <1>2 DEF RecvRegistered, StartPulledMedia, EnterStreaming, Counters, BackoffStep
<1>3. CASE RecvInviting(m)
  <2>1. CASE SendAckAndStartMedia
    BY <2>1, ByeSentBackoff
    DEF SendAckAndStartMedia, EnterStreaming, EnterIdleWithBackoff, Counters, BackoffStep
  <2>. QED BY <1>3, <2>1, BackToRegisteredState DEF RecvInviting
<1>4. CASE RecvStreaming(m)
  BY <1>4, BackToRegisteredState DEF RecvStreaming
<1>5. CASE RecvByePending(m)
  BY <1>5, BackToRegisteredState DEF RecvByePending, Counters, BackoffStep
<1>6. CASE RecvDeregistering(m) \/ Ignore(m)
  BY <1>6 DEF RecvDeregistering, Stop, Ignore, Counters, BackoffStep
<1>. QED BY <1>1, <1>2, <1>3, <1>4, <1>5, <1>6 DEF Receive

LEMMA TimeoutBackoff ==
    ASSUME Timeout
    PROVE  BackoffStep \/ state' = "REGISTERED"
<1>1. CASE TimeoutIdle \/ TimeoutRegistering \/ TimeoutAuthenticating
  BY <1>1, StartRegisteringBackoff
  DEF TimeoutIdle, TimeoutRegistering, TimeoutAuthenticating, GiveUp,
      EnterIdleWithBackoff, BackoffStep
<1>2. CASE TimeoutRegistered
  BY <1>2
  DEF TimeoutRegistered, SendInvite, SendKeepalive, EnterIdleWithBackoff, Counters,
      BackoffStep
<1>3. CASE TimeoutInviting \/ TimeoutByePending
  BY <1>3, BackToRegisteredState DEF TimeoutInviting, TimeoutByePending
<1>4. CASE TimeoutStreaming
  BY <1>4, ByeSentBackoff
  DEF TimeoutStreaming, SendBye, SendFrame, Counters, BackoffStep
<1>5. CASE TimeoutDeregistering
  BY <1>5 DEF TimeoutDeregistering, Stop, Counters, BackoffStep
<1>. QED BY <1>1, <1>2, <1>3, <1>4, <1>5 DEF Timeout

\* 1s, 2s, 4s, ...: only a registration shortens the delay again.
THEOREM BackoffCorrect == Spec => BackoffOnlyResetByRegistration
<1>1. TypeOK /\ [Next]_vars => [backoff_ms' < backoff_ms => state' = "REGISTERED"]_vars
  <2>. SUFFICES ASSUME TypeOK, [Next]_vars
                PROVE  [backoff_ms' < backoff_ms => state' = "REGISTERED"]_vars
    OBVIOUS
  <2>1. CASE BackoffStep \/ state' = "REGISTERED"
    BY <2>1, BackoffGrows
  <2>2. CASE Boot
    BY <2>1, <2>2, StartRegisteringBackoff DEF Boot
  <2>3. CASE Timeout
    BY <2>1, <2>3, TimeoutBackoff
  <2>4. CASE RecvFails
    BY <2>1, <2>4 DEF RecvFails, GiveUp, EnterIdleWithBackoff, BackoffStep
  <2>5. CASE Exit \/ Tick \/ UNCHANGED vars
    BY <2>1, <2>5 DEF Exit, Tick, vars, ctx, Counters, BackoffStep
  <2>6. ASSUME NEW m \in Inbound, Receive(m)
        PROVE  BackoffStep \/ state' = "REGISTERED"
    BY <2>6, ReceiveBackoff
  <2>. QED
    BY <2>1, <2>2, <2>3, <2>4, <2>5, <2>6 DEF Next, Loop, Exited
<1>. QED BY <1>1, TypeCorrect, PTL DEF Spec, BackoffOnlyResetByRegistration

-----------------------------------------------------------------------------
(* The end of the process.  StopsOnlyWhenDone is inductive: the count only *)
(* grows, and DEREGISTERING is entered with the last cycle only.           *)

\* Steps that neither count a cycle nor end anything
GoesOn ==
    /\ UNCHANGED Cycles
    /\ state' = "DEREGISTERING" => state = "DEREGISTERING"

LEMMA ReceiveCycles ==
    ASSUME TypeOK, StopsOnlyWhenDone, NEW m, Receive(m)
    PROVE  StopsOnlyWhenDone'
<1>1. ASSUME GoesOn PROVE StopsOnlyWhenDone'
  BY <1>1 DEF GoesOn, Cycles, StopsOnlyWhenDone, Receive
<1>2. CASE RecvRegistering(m) \/ RecvAuthenticating(m)
  BY <1>1, <1>2, BackToRegisteredState
  DEF RecvRegistering, RecvAuthenticating, SendRegisterWithAuth, GiveUp,
      EnterIdleWithBackoff, Await, Cycles, GoesOn
<1>3. CASE RecvRegistered(m)
  BY <1>1, <1>3
  DEF RecvRegistered, StartPulledMedia, EnterStreaming, Await, Cycles, GoesOn
<1>4. CASE RecvInviting(m)
  <2>1. CASE SendAckAndStartMedia
    BY <1>1, <1>4, <2>1, ByeSentState
    DEF RecvInviting, SendAckAndStartMedia, EnterStreaming, EnterIdleWithBackoff, Await,
        Cycles, GoesOn
  <2>. QED BY <1>1, <1>4, <2>1, BackToRegisteredState DEF RecvInviting, GoesOn
<1>5. CASE RecvStreaming(m)
  BY <1>1, <1>5, BackToRegisteredState DEF RecvStreaming, GoesOn, Cycles
<1>6. CASE RecvByePending(m)
  <2>1. UNCHANGED <<stopping, phase>> /\ phase = "loop"
    BY <1>6 DEF RecvByePending, Receive
  <2>2. cycles_done' = AtMost(cycles_done + 1, MaxCycles) /\ cycles_done \in 0 .. MaxCycles
    BY <1>6 DEF RecvByePending, TypeOK
  <2>3. cycles_done' \in Nat /\ cycles_done' >= cycles_done
    BY <2>2, LimitsAssumption DEF AtMost
  <2>4. cycles_done + 1 >= InviteCyclesMax => cycles_done' >= InviteCyclesMax
    BY <2>2, LimitsAssumption DEF AtMost
  <2>5. CASE LastCycle
    BY <2>4, <2>5 DEF LastCycle, StopsOnlyWhenDone
  <2>6. CASE ~LastCycle
    <3>1. state' = "REGISTERED"
      BY <1>6, <2>6, BackToRegisteredState DEF RecvByePending
    <3>2. stopping => InviteCyclesMax > 0 /\ cycles_done >= InviteCyclesMax
      BY DEF StopsOnlyWhenDone
    <3>3. stopping => InviteCyclesMax > 0 /\ cycles_done' >= InviteCyclesMax
      BY <2>2, <2>3, <3>2, LimitsAssumption
    <3>. QED BY <2>1, <3>1, <3>3 DEF StopsOnlyWhenDone
  <2>. QED BY <2>5, <2>6
<1>7. CASE RecvDeregistering(m)
  BY <1>7 DEF RecvDeregistering, Stop, StopsOnlyWhenDone
<1>8. CASE Ignore(m)
  BY <1>1, <1>8 DEF Ignore, GoesOn
<1>. QED
  BY <1>2, <1>3, <1>4, <1>5, <1>6, <1>7, <1>8 DEF Receive

LEMMA TimeoutCycles ==
    ASSUME StopsOnlyWhenDone, Timeout
    PROVE  StopsOnlyWhenDone'
<1>1. ASSUME GoesOn PROVE StopsOnlyWhenDone'
  BY <1>1 DEF GoesOn, Cycles, StopsOnlyWhenDone, Timeout
<1>2. CASE TimeoutIdle \/ TimeoutRegistering \/ TimeoutAuthenticating
  <2>1. UNCHANGED Cycles
    BY <1>2
    DEF TimeoutIdle, TimeoutRegistering, TimeoutAuthenticating, StartRegistering, GiveUp
  <2>2. state' \in {"IDLE", "REGISTERING"}
    BY <1>2, StartRegisteringState
    DEF TimeoutIdle, TimeoutRegistering, TimeoutAuthenticating, GiveUp,
        EnterIdleWithBackoff, Await
  <2>. QED BY <1>1, <2>1, <2>2 DEF GoesOn
<1>3. CASE TimeoutRegistered
  BY <1>1, <1>3
  DEF TimeoutRegistered, SendInvite, SendKeepalive, EnterIdleWithBackoff, Await, Cycles,
      GoesOn
<1>4. CASE TimeoutInviting \/ TimeoutByePending
  BY <1>1, <1>4, BackToRegisteredState DEF TimeoutInviting, TimeoutByePending, Cycles, GoesOn
<1>5. CASE TimeoutStreaming
  BY <1>1, <1>5, ByeSentState DEF TimeoutStreaming, SendBye, SendFrame, Cycles, GoesOn
<1>6. CASE TimeoutDeregistering
  BY <1>6 DEF TimeoutDeregistering, Stop, StopsOnlyWhenDone
<1>. QED BY <1>2, <1>3, <1>4, <1>5, <1>6 DEF Timeout

\* The device stops only after the number of answered BYEs it was asked for.
THEOREM StopCorrect == Spec => []StopsOnlyWhenDone
<1>1. Init => StopsOnlyWhenDone
  BY DEF Init, StopsOnlyWhenDone
<1>2. TypeOK /\ StopsOnlyWhenDone /\ [Next]_vars => StopsOnlyWhenDone'
  <2>. SUFFICES ASSUME TypeOK, StopsOnlyWhenDone, [Next]_vars
                PROVE  StopsOnlyWhenDone'
    OBVIOUS
  <2>1. CASE Boot
    BY <2>1, StartRegisteringState DEF Boot, StartRegistering, Cycles, StopsOnlyWhenDone
  <2>2. CASE Timeout
    BY <2>2, TimeoutCycles
  <2>3. CASE RecvFails
    BY <2>3
    DEF RecvFails, GiveUp, EnterIdleWithBackoff, Await, Cycles, StopsOnlyWhenDone
  <2>4. CASE Exit
    BY <2>4 DEF Exit, Cycles, StopsOnlyWhenDone
  <2>5. CASE Tick \/ UNCHANGED vars
    BY <2>5 DEF Tick, vars, ctx, Cycles, StopsOnlyWhenDone
  <2>6. ASSUME NEW m \in Inbound, Receive(m) PROVE StopsOnlyWhenDone'
    BY <2>6, ReceiveCycles
  <2>. QED
    BY <2>1, <2>2, <2>3, <2>4, <2>5, <2>6 DEF Next, Loop, Exited
<1>. QED BY <1>1, <1>2, TypeCorrect, PTL DEF Spec
=============================================================================
