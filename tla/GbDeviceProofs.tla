--------------------------- MODULE GbDeviceProofs ---------------------------
(* Proofs about GbDevice for every value of its constants.                 *)
EXTENDS GbDevice, TLAPS

(* TypeOK, cut along the groups of variables that the handlers update.     *)
StateOK ==
    /\ state \in States
    /\ sock \in BOOLEAN
    /\ state_deadline \in Nat \cup {OFF}
    /\ register_retries \in 0 .. RegisterRetryMax - 1
    /\ keepalive_misses \in 0 .. KeepaliveMissMax - 1
    /\ backoff_ms \in 0 .. BackoffMax
TimersOK ==
    /\ next_keepalive \in UpTo(KeepaliveInterval)
    /\ invite_after \in UpTo(InviteAfter)
    /\ streaming_until \in UpTo(StreamingHold)
    /\ next_frame \in UpTo(FrameInterval)
DialogOK == to_tag \in BOOLEAN
MediaOK ==
    /\ media_handle \in BOOLEAN /\ fp \in BOOLEAN
    /\ frame_index \in 0 .. BuiltinFrames
    /\ lost_rtp \in 0 .. MaxLost /\ lost_fp \in 0 .. MaxLost
CyclesOK == cycles_done \in 0 .. MaxCycles /\ stopping \in BOOLEAN
CtxOK == StateOK /\ TimersOK /\ DialogOK /\ MediaOK /\ CyclesOK

\* The datagrams the device builds are messages.
LEMMA BuiltMessages ==
    /\ \A mt \in Methods, c \in CallIds, b \in RequestBodies : Req(mt, c, b) \in Messages
    /\ \A m \in Messages, c \in Codes, b \in ResponseBodies : Reply(m, c, b) \in Messages
BY DEF Req, Reply, Messages, Requests, Responses

\* What the handlers' common endings do to the types.
LEMMA BackoffType ==
    ASSUME StateOK, EnterIdleWithBackoff
    PROVE  StateOK'
<1>1. NextBackoff(backoff_ms) \in 0 .. BackoffMax
  BY LimitsAssumption, TimersAssumption DEF StateOK, NextBackoff, AtMost
<1>. QED
  <2>1. NextBackoff(backoff_ms) \in Nat
    BY <1>1, TimersAssumption
  <2>2. sock' \in BOOLEAN
    BY DEF EnterIdleWithBackoff
  <2>. QED
    BY <1>1, <2>1, <2>2, LimitsAssumption DEF StateOK, EnterIdleWithBackoff, Await, States, OFF

LEMMA StartRegisteringType ==
    ASSUME CtxOK, NEW r \in 0 .. RegisterRetryMax - 1, StartRegistering(r)
    PROVE  CtxOK' /\ tx' \subseteq Messages
<1>1. tx' \subseteq Messages
  BY BuiltMessages DEF StartRegistering, Register, Methods, CallIds, RequestBodies
<1>2. StateOK'
  <2>1. CASE EnterIdleWithBackoff
    BY <2>1, BackoffType DEF CtxOK
  <2>2. CASE ~EnterIdleWithBackoff
    BY <2>2, LimitsAssumption, TimersAssumption DEF CtxOK, StartRegistering, StateOK, Await, States
  <2>. QED BY <2>1, <2>2
<1>3. DialogOK'
  BY DEF CtxOK, StartRegistering, DialogOK
<1>4. TimersOK' /\ MediaOK' /\ CyclesOK'
  BY DEF CtxOK, StartRegistering, TimersOK, MediaOK, CyclesOK, OtherTimers, Media, Cycles
<1>. QED BY <1>1, <1>2, <1>3, <1>4 DEF CtxOK

\* Leaves of handlers that change neither media nor cycles.
LEMMA RegisteredType ==
    ASSUME CtxOK, EnterRegistered
    PROVE  StateOK' /\ TimersOK'
<1>1. MinTimer(KeepaliveInterval, InviteAfter) \in Nat
  BY TimersAssumption DEF MinTimer
<1>2. StateOK'
  BY <1>1, LimitsAssumption, TimersAssumption
  DEF CtxOK, StateOK, EnterRegistered, Await, States
<1>3. TimersOK'
  BY TimersAssumption DEF CtxOK, TimersOK, EnterRegistered, UpTo, OFF
<1>. QED BY <1>2, <1>3

LEMMA GiveUpType ==
    ASSUME CtxOK, GiveUp
    PROVE  CtxOK' /\ tx' \subseteq Messages
<1>1. StateOK'
  BY BackoffType DEF CtxOK, GiveUp
<1>. QED
  BY <1>1 DEF CtxOK, GiveUp, DialogOK, TimersOK, MediaOK, CyclesOK, OtherTimers,
     Media, Cycles

LEMMA SendRegisterWithAuthType ==
    ASSUME CtxOK, SendRegisterWithAuth
    PROVE  CtxOK' /\ tx' \subseteq Messages
<1>1. tx' \subseteq Messages
  BY BuiltMessages DEF SendRegisterWithAuth, Register, Methods, CallIds, RequestBodies
<1>2. StateOK'
  <2>1. CASE EnterIdleWithBackoff
    BY <2>1, BackoffType DEF CtxOK
  <2>2. CASE ~EnterIdleWithBackoff
    BY <2>2, TimersAssumption
    DEF CtxOK, SendRegisterWithAuth, StateOK, Await, States, Counters
  <2>. QED BY <2>1, <2>2
<1>3. DialogOK'
  BY DEF CtxOK, SendRegisterWithAuth, DialogOK
<1>4. TimersOK' /\ MediaOK' /\ CyclesOK'
  BY DEF CtxOK, SendRegisterWithAuth, TimersOK, MediaOK, CyclesOK, OtherTimers, Media, Cycles
<1>. QED BY <1>1, <1>2, <1>3, <1>4 DEF CtxOK

LEMMA SendKeepaliveType ==
    ASSUME CtxOK, SendKeepalive
    PROVE  CtxOK' /\ tx' \subseteq Messages
<1>1. tx' \subseteq Messages
  BY BuiltMessages DEF SendKeepalive, Methods, CallIds, RequestBodies
<1>2. StateOK'
  <2>1. CASE EnterIdleWithBackoff
    BY <2>1, BackoffType DEF CtxOK
  <2>2. CASE UNCHANGED <<state, sock, Counters, Timers>>
    BY <2>2 DEF CtxOK, StateOK, Counters, Timers
  <2>3. CASE /\ keepalive_misses + 1 < KeepaliveMissMax
             /\ keepalive_misses' = keepalive_misses + 1
             /\ state_deadline' = MinTimer(KeepaliveInterval, invite_after)
             /\ UNCHANGED <<state, sock, register_retries, backoff_ms>>
    <3>1. MinTimer(KeepaliveInterval, invite_after) \in Nat \cup {OFF}
      BY TimersAssumption DEF CtxOK, TimersOK, UpTo, OFF, MinTimer
    <3>. QED BY <2>3, <3>1, LimitsAssumption DEF CtxOK, StateOK
  <2>. QED BY <2>1, <2>2, <2>3 DEF SendKeepalive
<1>3. DialogOK'
  BY DEF CtxOK, SendKeepalive, DialogOK
<1>4. TimersOK'
  BY TimersAssumption DEF CtxOK, SendKeepalive, TimersOK, Timers, UpTo, OFF
<1>5. MediaOK' /\ CyclesOK'
  BY DEF CtxOK, SendKeepalive, MediaOK, CyclesOK, Media, Cycles
<1>. QED BY <1>1, <1>2, <1>3, <1>4, <1>5 DEF CtxOK

LEMMA SendInviteType ==
    ASSUME CtxOK, SendInvite
    PROVE  CtxOK' /\ tx' \subseteq Messages
<1>1. tx' \subseteq Messages
  BY BuiltMessages DEF SendInvite, Methods, CallIds, RequestBodies
<1>2. StateOK'
  <2>1. CASE EnterIdleWithBackoff
    BY <2>1, BackoffType DEF CtxOK
  <2>2. CASE ~EnterIdleWithBackoff
    BY <2>2, TimersAssumption
    DEF CtxOK, SendInvite, StateOK, Await, States, Counters
  <2>. QED BY <2>1, <2>2
<1>3. DialogOK'
  BY DEF SendInvite, DialogOK
<1>4. TimersOK'
  BY TimersAssumption DEF CtxOK, SendInvite, TimersOK, UpTo, OFF
<1>5. MediaOK' /\ CyclesOK'
  BY DEF CtxOK, SendInvite, MediaOK, CyclesOK, Media, Cycles
<1>. QED BY <1>1, <1>2, <1>3, <1>4, <1>5 DEF CtxOK

LEMMA InDialogMessages ==
    ASSUME NEW mt \in Methods
    PROVE  InDialog(mt) \in Messages
BY BuiltMessages DEF InDialog, CallIds, RequestBodies

LEMMA EnterStreamingType ==
    ASSUME CtxOK, EnterStreaming
    PROVE  StateOK' /\ TimersOK'
<1>1. StateOK'
  BY DEF CtxOK, StateOK, EnterStreaming, Await, States, Counters
<1>2. TimersOK'
  BY TimersAssumption DEF CtxOK, TimersOK, EnterStreaming, UpTo, OFF
<1>. QED BY <1>1, <1>2

LEMMA ByeSentType ==
    ASSUME CtxOK, \E msgs \in SUBSET Messages : ByeSent(msgs)
    PROVE  /\ StateOK' /\ TimersOK'
           /\ tx' \subseteq Messages
<1>1. PICK msgs \in SUBSET Messages : ByeSent(msgs)
  OBVIOUS
<1>2. tx' \subseteq Messages
  <2>1. InDialog("BYE") \in Messages
    BY InDialogMessages DEF Methods
  <2>. QED BY <1>1, <2>1 DEF ByeSent
<1>3. StateOK'
  <2>1. CASE EnterIdleWithBackoff
    BY <2>1, BackoffType DEF CtxOK
  <2>2. CASE ~EnterIdleWithBackoff
    BY <1>1, <2>2, TimersAssumption
    DEF CtxOK, ByeSent, StateOK, Await, States, Counters
  <2>. QED BY <2>1, <2>2
<1>4. TimersOK'
  BY <1>1 DEF CtxOK, ByeSent, TimersOK, OtherTimers
<1>. QED BY <1>2, <1>3, <1>4

LEMMA SendByeType ==
    ASSUME CtxOK, SendBye
    PROVE  CtxOK' /\ tx' \subseteq Messages
<1>1. ByeSent({})
  BY DEF SendBye
<1>2. MediaOK' /\ CyclesOK' /\ to_tag' \in BOOLEAN
  <2>1. media_handle' \in BOOLEAN /\ fp' \in BOOLEAN
    BY DEF SendBye
  <2>. QED BY <2>1 DEF CtxOK, SendBye, MediaOK, CyclesOK, DialogOK, Cycles
<1>. QED BY <1>1, <1>2, ByeSentType DEF CtxOK, DialogOK

\* The media part of both ways to start a stream
LEMMA OpenSourceType ==
    ASSUME CtxOK, OpenSource, lost_rtp' = PreviousSessions,
           media_handle' \in BOOLEAN, fp' \in BOOLEAN
    PROVE  MediaOK'
<1>1. lost_rtp' \in 0 .. MaxLost
  BY LimitsAssumption DEF PreviousSessions, AtMost, CtxOK, MediaOK
<1>2. lost_fp' \in 0 .. MaxLost
  BY LimitsAssumption DEF OpenSource, AtMost, CtxOK, MediaOK
<1>3. frame_index' \in 0 .. BuiltinFrames
  BY LimitsAssumption DEF OpenSource
<1>. QED BY <1>1, <1>2, <1>3 DEF MediaOK

LEMMA SendAckAndStartMediaType ==
    ASSUME CtxOK, SendAckAndStartMedia, to_tag' \in BOOLEAN, UNCHANGED Cycles
    PROVE  CtxOK' /\ tx' \subseteq Messages
<1>1. CyclesOK'
  BY DEF CtxOK, CyclesOK, Cycles
<1>2. {InDialog("ACK")} \in SUBSET Messages
  BY InDialogMessages DEF Methods
<1>3. CASE EnterIdleWithBackoff /\ tx' = {} /\ UNCHANGED <<OtherTimers, Media>>
  <2>1. StateOK'
    BY <1>3, BackoffType DEF CtxOK
  <2>. QED
    BY <1>1, <1>3, <2>1 DEF CtxOK, DialogOK, TimersOK, MediaOK, OtherTimers, Media
<1>4. CASE /\ OpenSource /\ lost_rtp' = PreviousSessions
           /\ media_handle' \in BOOLEAN /\ fp' \in BOOLEAN
           /\ EnterStreaming /\ tx' = {InDialog("ACK")}
  <2>1. MediaOK'
    BY <1>4, OpenSourceType
  <2>2. StateOK' /\ TimersOK'
    BY <1>4, EnterStreamingType
  <2>. QED BY <1>1, <1>2, <1>4, <2>1, <2>2 DEF CtxOK, DialogOK
<1>5. CASE /\ OpenSource /\ lost_rtp' = PreviousSessions
           /\ media_handle' \in BOOLEAN /\ fp' \in BOOLEAN
           /\ ByeSent({InDialog("ACK")})
  <2>1. MediaOK'
    BY <1>5, OpenSourceType
  <2>2. StateOK' /\ TimersOK' /\ tx' \subseteq Messages
    BY <1>2, <1>5, ByeSentType
  <2>. QED BY <1>1, <2>1, <2>2 DEF CtxOK, DialogOK
<1>6. \A b \in StartOutcomes \cup OpenedFiles : b \in BOOLEAN
  BY DEF StartOutcomes, OpenedFiles, Outcomes
<1>. QED BY <1>3, <1>4, <1>5, <1>6 DEF SendAckAndStartMedia

LEMMA StartPulledMediaType ==
    ASSUME CtxOK, StartPulledMedia
    PROVE  CtxOK' /\ tx' \subseteq Messages
<1>1. media_handle' \in BOOLEAN /\ fp' \in BOOLEAN
  BY DEF StartPulledMedia, StartOutcomes, OpenedFiles, Outcomes
<1>2. MediaOK'
  BY <1>1, OpenSourceType DEF StartPulledMedia
<1>3. StateOK' /\ TimersOK'
  <2>1. CASE EnterStreaming
    BY <2>1, EnterStreamingType
  <2>2. CASE UNCHANGED <<state, sock, Counters, Timers>>
    BY <2>2 DEF CtxOK, StateOK, TimersOK, Counters, Timers
  <2>. QED BY <2>1, <2>2 DEF StartPulledMedia
<1>4. DialogOK' /\ CyclesOK' /\ tx' \subseteq Messages
  BY DEF CtxOK, StartPulledMedia, DialogOK, CyclesOK, Cycles
<1>. QED BY <1>2, <1>3, <1>4 DEF CtxOK

LEMMA BackToRegisteredType ==
    ASSUME CtxOK, \E sent \in SUBSET Messages : BackToRegistered(sent)
    PROVE  StateOK' /\ TimersOK' /\ DialogOK' /\ tx' \subseteq Messages
<1>1. StateOK' /\ TimersOK'
  BY RegisteredType DEF BackToRegistered
<1>2. DialogOK' /\ tx' \subseteq Messages
  BY DEF CtxOK, DialogOK, BackToRegistered
<1>. QED BY <1>1, <1>2

LEMMA StopType ==
    ASSUME CtxOK, Stop
    PROVE  CtxOK' /\ tx' \subseteq Messages
<1>1. sock' \in BOOLEAN /\ stopping' \in BOOLEAN
  BY DEF Stop
<1>2. StateOK'
  BY <1>1 DEF CtxOK, StateOK, Stop, Await, States, Counters
<1>. QED
  BY <1>1, <1>2 DEF CtxOK, Stop, DialogOK, TimersOK, MediaOK, CyclesOK, OtherTimers,
     Media

LEMMA AnswersToType ==
    ASSUME NEW m \in Messages
    PROVE  AnswersTo(m) \in SUBSET Messages
<1>1. \A b \in ResponseBodies : Reply(m, 200, b) \in Messages
  BY BuiltMessages DEF Codes
<1>2. \A b \in RequestBodies : Req("MESSAGE", "dev", b) \in Messages
  BY BuiltMessages DEF Methods, CallIds
<1>. QED BY <1>1, <1>2 DEF AnswersTo, ResponseBodies, RequestBodies

LEMMA ReceiveType ==
    ASSUME CtxOK, NEW m \in Messages, Receive(m)
    PROVE  CtxOK' /\ tx' \subseteq Messages
<1>0. {} \in SUBSET Messages /\ {Reply(m, 200, "none")} \in SUBSET Messages
  BY BuiltMessages DEF Codes, ResponseBodies
<1>1. ASSUME \E sent \in SUBSET Messages : BackToRegistered(sent),
             MediaOK', CyclesOK'
      PROVE  CtxOK' /\ tx' \subseteq Messages
  BY <1>1, BackToRegisteredType DEF CtxOK
<1>2. CASE RecvRegistering(m)
  <2>1. CASE SendRegisterWithAuth
    BY <2>1, SendRegisterWithAuthType
  <2>2. CASE BackToRegistered({}) /\ UNCHANGED <<Media, Cycles>>
    BY <1>0, <1>1, <2>2 DEF CtxOK, MediaOK, CyclesOK, Media, Cycles
  <2>3. CASE GiveUp
    BY <2>3, GiveUpType
  <2>. QED BY <1>2, <2>1, <2>2, <2>3 DEF RecvRegistering
<1>3. CASE RecvAuthenticating(m)
  <2>1. CASE BackToRegistered({}) /\ UNCHANGED <<Media, Cycles>>
    BY <1>0, <1>1, <2>1 DEF CtxOK, MediaOK, CyclesOK, Media, Cycles
  <2>2. CASE GiveUp
    BY <2>2, GiveUpType
  <2>. QED BY <1>3, <2>1, <2>2 DEF RecvAuthenticating
<1>4. CASE RecvRegistered(m)
  <2>1. CASE StartPulledMedia
    BY <2>1, StartPulledMediaType
  <2>2. CASE ~StartPulledMedia
    <3>1. tx' \subseteq Messages
      BY <1>4, <2>2, AnswersToType DEF RecvRegistered
    <3>2. StateOK' /\ TimersOK'
      BY <1>4, <2>2, LimitsAssumption
      DEF RecvRegistered, CtxOK, StateOK, TimersOK, Timers, Counters
    <3>3. DialogOK' /\ MediaOK' /\ CyclesOK'
      BY <1>4, <2>2 DEF RecvRegistered, CtxOK, DialogOK, MediaOK, CyclesOK, Media, Cycles
    <3>. QED BY <3>1, <3>2, <3>3 DEF CtxOK
  <2>. QED BY <2>1, <2>2
<1>5. CASE RecvInviting(m)
  <2>1. CASE to_tag' = (m.body = "tag") /\ SendAckAndStartMedia
    <3>1. to_tag' \in BOOLEAN
      BY <2>1
    <3>2. UNCHANGED Cycles
      BY <1>5 DEF RecvInviting
    <3>. QED BY <2>1, <3>1, <3>2, SendAckAndStartMediaType
  <2>2. CASE BackToRegistered({}) /\ UNCHANGED Media
    BY <1>0, <1>1, <1>5, <2>2 DEF RecvInviting, CtxOK, MediaOK, CyclesOK, Media, Cycles
  <2>. QED BY <1>5, <2>1, <2>2 DEF RecvInviting
<1>6. CASE RecvStreaming(m)
  <2>1. media_handle' \in BOOLEAN
    BY <1>6 DEF RecvStreaming
  <2>2. MediaOK' /\ CyclesOK'
    BY <1>6, <2>1 DEF RecvStreaming, CtxOK, MediaOK, CyclesOK, Cycles
  <2>. QED BY <1>0, <1>1, <1>6, <2>2 DEF RecvStreaming
<1>7. CASE RecvByePending(m)
  <2>1. MediaOK' /\ CyclesOK'
    BY <1>7, LimitsAssumption DEF RecvByePending, CtxOK, MediaOK, CyclesOK, Media, AtMost
  <2>2. CASE BackToRegistered({})
    BY <1>0, <1>1, <2>1, <2>2
  <2>3. CASE ~BackToRegistered({})
    <3>1. tx' \subseteq Messages
      BY <1>7, <2>3, BuiltMessages
      DEF RecvByePending, Register, Methods, CallIds, RequestBodies
    <3>2. StateOK' /\ TimersOK'
      BY <1>7, <2>3, TimersAssumption
      DEF RecvByePending, CtxOK, StateOK, TimersOK, Await, States, Counters, OtherTimers
    <3>3. DialogOK'
      BY <1>7, <2>3 DEF RecvByePending, CtxOK, DialogOK
    <3>. QED BY <2>1, <3>1, <3>2, <3>3 DEF CtxOK
  <2>. QED BY <2>2, <2>3
<1>8. CASE RecvDeregistering(m)
  BY <1>8, StopType DEF RecvDeregistering
<1>9. CASE Ignore(m)
  BY <1>9 DEF Ignore, CtxOK, StateOK, TimersOK, DialogOK, MediaOK, CyclesOK, Counters,
     Timers, Media, Cycles
<1>. QED
  BY <1>2, <1>3, <1>4, <1>5, <1>6, <1>7, <1>8, <1>9 DEF Receive

LEMMA TimeoutType ==
    ASSUME CtxOK, Timeout
    PROVE  CtxOK' /\ tx' \subseteq Messages
<1>0. {} \in SUBSET Messages
  OBVIOUS
<1>1. CASE TimeoutIdle
  <2>1. register_retries \in 0 .. RegisterRetryMax - 1
    BY DEF CtxOK, StateOK
  <2>. QED BY <1>1, <2>1, StartRegisteringType DEF TimeoutIdle
<1>2. CASE TimeoutRegistering
  <2>1. CASE GiveUp
    BY <2>1, GiveUpType
  <2>2. CASE register_retries + 1 < RegisterRetryMax /\ StartRegistering(register_retries + 1)
    <3>1. register_retries + 1 \in 0 .. RegisterRetryMax - 1
      BY <2>2, LimitsAssumption DEF CtxOK, StateOK
    <3>. QED BY <2>2, <3>1, StartRegisteringType
  <2>. QED BY <1>2, <2>1, <2>2 DEF TimeoutRegistering
<1>3. CASE TimeoutAuthenticating
  <2>1. register_retries \in 0 .. RegisterRetryMax - 1
    BY DEF CtxOK, StateOK
  <2>. QED BY <1>3, <2>1, StartRegisteringType DEF TimeoutAuthenticating
<1>4. CASE TimeoutRegistered
  BY <1>4, SendInviteType, SendKeepaliveType DEF TimeoutRegistered
<1>5. CASE TimeoutInviting
  <2>1. MediaOK' /\ CyclesOK'
    BY <1>5 DEF TimeoutInviting, CtxOK, MediaOK, CyclesOK, Media, Cycles
  <2>. QED BY <1>0, <1>5, <2>1, BackToRegisteredType DEF TimeoutInviting, CtxOK
<1>6. CASE TimeoutStreaming
  <2>1. CASE SendBye
    BY <2>1, SendByeType
  <2>2. CASE SendFrame
    <3>1. MediaOK'
      BY <2>2, LimitsAssumption DEF SendFrame, BuiltinFrameLeft, CtxOK, MediaOK
    <3>2. StateOK' /\ TimersOK'
      BY <2>2, TimersAssumption DEF SendFrame, CtxOK, StateOK, TimersOK, Counters, UpTo, OFF
    <3>3. DialogOK' /\ CyclesOK' /\ tx' \subseteq Messages
      BY <2>2 DEF SendFrame, CtxOK, DialogOK, CyclesOK, Cycles
    <3>. QED BY <3>1, <3>2, <3>3 DEF CtxOK
  <2>. QED BY <1>6, <2>1, <2>2 DEF TimeoutStreaming
<1>7. CASE TimeoutByePending
  <2>1. media_handle' \in BOOLEAN
    BY <1>7 DEF TimeoutByePending
  <2>2. MediaOK' /\ CyclesOK'
    BY <1>7, <2>1 DEF TimeoutByePending, CtxOK, MediaOK, CyclesOK, Cycles
  <2>. QED BY <1>0, <1>7, <2>2, BackToRegisteredType DEF TimeoutByePending, CtxOK
<1>8. CASE TimeoutDeregistering
  BY <1>8, StopType DEF TimeoutDeregistering
<1>. QED
  BY <1>1, <1>2, <1>3, <1>4, <1>5, <1>6, <1>7, <1>8 DEF Timeout

LEMMA TickType ==
    ASSUME CtxOK, Tick
    PROVE  CtxOK' /\ tx' \subseteq Messages
<1>1. \A max \in Nat : \A t \in UpTo(max) : CountDown(t) \in UpTo(max)
  BY DEF CountDown, UpTo, OFF
<1>2. \A t \in Nat \cup {OFF} : CountDown(t) \in Nat \cup {OFF}
  BY DEF CountDown, OFF
<1>3. TimersOK'
  BY <1>1, TimersAssumption DEF CtxOK, TimersOK, Tick
<1>4. StateOK'
  BY <1>2 DEF CtxOK, StateOK, Tick, Counters
<1>. QED
  BY <1>3, <1>4 DEF CtxOK, Tick, DialogOK, MediaOK, CyclesOK, Media, Cycles

LEMMA ExitType ==
    ASSUME CtxOK, Exit
    PROVE  CtxOK' /\ tx' \subseteq Messages
<1>1. sock' \in BOOLEAN /\ media_handle' \in BOOLEAN /\ fp' \in BOOLEAN
  BY DEF Exit
<1>. QED
  BY <1>1 DEF CtxOK, Exit, StateOK, TimersOK, DialogOK, MediaOK, CyclesOK, Counters,
     Timers, Cycles

\* Type correctness of the device, for all limits, timers and faults and for
\* everything the network may deliver.
THEOREM TypeCorrect == Spec => []TypeOK
<1>0. TypeOK <=> CtxOK /\ phase \in {"boot", "loop", "exited"} /\ tx \subseteq Messages
  BY DEF TypeOK, CtxOK, StateOK, TimersOK, DialogOK, MediaOK, CyclesOK
<1>1. Init => TypeOK
  <2>. SUFFICES ASSUME Init PROVE TypeOK
    OBVIOUS
  <2>1. sock \in BOOLEAN /\ to_tag \in BOOLEAN /\ media_handle \in BOOLEAN
        /\ fp \in BOOLEAN /\ stopping \in BOOLEAN
    BY DEF Init
  <2>2. StateOK
    BY <2>1, LimitsAssumption, TimersAssumption DEF Init, StateOK, States
  <2>3. TimersOK
    BY TimersAssumption DEF Init, TimersOK, UpTo, OFF
  <2>4. DialogOK /\ MediaOK /\ CyclesOK
    BY <2>1, LimitsAssumption DEF Init, DialogOK, MediaOK, CyclesOK
  <2>5. phase \in {"boot", "loop", "exited"} /\ tx \subseteq Messages
    BY DEF Init
  <2>. QED BY <1>0, <2>2, <2>3, <2>4, <2>5 DEF CtxOK
<1>2. TypeOK /\ [Next]_vars => TypeOK'
  <2>. SUFFICES ASSUME CtxOK, phase \in {"boot", "loop", "exited"},
                       tx \subseteq Messages, [Next]_vars
                PROVE  /\ CtxOK'
                       /\ phase' \in {"boot", "loop", "exited"}
                       /\ tx' \subseteq Messages
    BY DEF TypeOK, CtxOK, StateOK, TimersOK, DialogOK, MediaOK, CyclesOK
  <2>1. CASE Boot
    <3>1. register_retries \in 0 .. RegisterRetryMax - 1
      BY DEF CtxOK, StateOK
    <3>. QED BY <2>1, <3>1, StartRegisteringType DEF Boot
  <2>2. CASE Timeout
    BY <2>2, TimeoutType DEF Timeout
  <2>3. CASE RecvFails
    BY <2>3, GiveUpType DEF RecvFails
  <2>4. CASE Exit
    BY <2>4, ExitType DEF Exit
  <2>5. CASE Tick
    BY <2>5, TickType DEF Tick
  <2>6. ASSUME NEW m \in Inbound, Receive(m)
        PROVE  CtxOK' /\ UNCHANGED phase /\ tx' \subseteq Messages
    BY <2>6, EnvAssumption, ReceiveType DEF Receive
  <2>7. CASE UNCHANGED vars
    BY <2>7 DEF vars, ctx, CtxOK, StateOK, TimersOK, DialogOK, MediaOK, CyclesOK
  <2>. QED
    BY <2>1, <2>2, <2>3, <2>4, <2>5, <2>6, <2>7 DEF Next, Loop, Exited
<1>. QED BY <1>1, <1>2, PTL DEF Spec
=============================================================================
