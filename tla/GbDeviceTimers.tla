--------------------------- MODULE GbDeviceTimers ---------------------------
(* The deadline the loop sleeps on: NoTimerIsMissed, for every value of    *)
(* the constants.  It is inductive together with TypeOK.  Every handler    *)
(* leaves the timers in one of the ways below, each of which establishes   *)
(* or keeps the invariant.                                                 *)
EXTENDS GbDeviceSafety

\* The state and what it waits for stay as they are.
TimersKept == UNCHANGED <<state, Timers>>
\* A state with a deadline of its own and no other timer
WaitsForOne ==
    /\ state' \notin {"REGISTERED", "STREAMING"}
    /\ state_deadline' # OFF
\* The process is about to end.
NothingToWaitFor == state' = "IDLE" /\ stopping' = TRUE

LEMMA EndingsWait ==
    ASSUME TypeOK, phase = "loop", phase' = "loop", NoTimerIsMissed,
           \/ /\ UNCHANGED stopping
              /\ \/ TimersKept \/ WaitsForOne \/ EnterRegistered \/ EnterStreaming
           \/ NothingToWaitFor
    PROVE  NoTimerIsMissed'
<1>1. CASE UNCHANGED stopping /\ TimersKept
  BY <1>1 DEF TimersKept, Timers, NoTimerIsMissed, MinTimer
<1>2. CASE WaitsForOne
  BY <1>2 DEF WaitsForOne, NoTimerIsMissed
<1>3. CASE EnterRegistered
  <2>1. state' = "REGISTERED" /\ state_deadline' = MinTimer(next_keepalive', invite_after')
    BY <1>3 DEF EnterRegistered, Await
  <2>2. next_keepalive' # OFF /\ invite_after' # OFF /\ state_deadline' # OFF
    BY <1>3, TimersAssumption DEF EnterRegistered, Await, MinTimer, OFF
  <2>. QED BY <2>1, <2>2 DEF NoTimerIsMissed, MinTimer
<1>4. CASE EnterStreaming
  BY <1>4, TimersAssumption DEF EnterStreaming, Await, NoTimerIsMissed, OFF
<1>5. CASE NothingToWaitFor
  BY <1>5 DEF NothingToWaitFor, NoTimerIsMissed
<1>. QED BY <1>1, <1>2, <1>3, <1>4, <1>5

LEMMA BackoffWaits ==
    ASSUME TypeOK, EnterIdleWithBackoff
    PROVE  WaitsForOne
<1>1. NextBackoff(backoff_ms) # OFF
  BY TimersAssumption DEF TypeOK, NextBackoff, AtMost, OFF
<1>. QED BY <1>1 DEF EnterIdleWithBackoff, Await, WaitsForOne

LEMMA StartRegisteringWaits ==
    ASSUME TypeOK, NEW r, StartRegistering(r)
    PROVE  WaitsForOne /\ UNCHANGED stopping
<1>1. UNCHANGED stopping
  BY DEF StartRegistering, Cycles
<1>2. CASE EnterIdleWithBackoff
  BY <1>1, <1>2, BackoffWaits
<1>3. CASE Await("REGISTERING", RegisterTimeout)
  BY <1>1, <1>3, TimersAssumption DEF Await, WaitsForOne, OFF
<1>. QED BY <1>2, <1>3 DEF StartRegistering

LEMMA ByeSentWaits ==
    ASSUME TypeOK, NEW msgs, ByeSent(msgs)
    PROVE  WaitsForOne
<1>1. CASE EnterIdleWithBackoff
  BY <1>1, BackoffWaits
<1>2. CASE Await("BYE_PENDING", ByeTimeout)
  BY <1>2, TimersAssumption DEF Await, WaitsForOne, OFF
<1>. QED BY <1>1, <1>2 DEF ByeSent

\* One datagram
LEMMA ReceiveTimers ==
    ASSUME TypeOK, NoTimerIsMissed, NEW m, Receive(m)
    PROVE  NoTimerIsMissed'
<1>1. phase = "loop" /\ phase' = "loop"
  BY DEF Receive
<1>2. ASSUME UNCHANGED stopping,
             TimersKept \/ EnterIdleWithBackoff \/ EnterRegistered \/ EnterStreaming
               \/ WaitsForOne
      PROVE  NoTimerIsMissed'
  BY <1>1, <1>2, BackoffWaits, EndingsWait
<1>3. CASE RecvRegistering(m)
  <2>1. CASE SendRegisterWithAuth
    <3>1. UNCHANGED stopping
      BY <2>1 DEF SendRegisterWithAuth, Cycles
    <3>2. CASE Await("AUTHENTICATING", RegisterTimeout)
      BY <1>2, <3>1, <3>2, TimersAssumption DEF Await, WaitsForOne, OFF
    <3>. QED BY <1>2, <2>1, <3>1, <3>2 DEF SendRegisterWithAuth
  <2>. QED
    BY <1>2, <1>3, <2>1 DEF RecvRegistering, GiveUp, BackToRegistered, Cycles
<1>4. CASE RecvAuthenticating(m)
  BY <1>2, <1>4 DEF RecvAuthenticating, GiveUp, BackToRegistered, Cycles
<1>5. CASE RecvRegistered(m)
  <2>1. UNCHANGED stopping
    BY <1>5 DEF RecvRegistered, StartPulledMedia, Cycles
  <2>2. EnterStreaming \/ TimersKept
    BY <1>5 DEF RecvRegistered, StartPulledMedia, TimersKept
  <2>. QED BY <1>2, <2>1, <2>2
<1>6. CASE RecvInviting(m)
  <2>1. UNCHANGED stopping
    BY <1>6 DEF RecvInviting, Cycles
  <2>2. CASE SendAckAndStartMedia
    BY <1>2, <2>1, <2>2, ByeSentWaits DEF SendAckAndStartMedia
  <2>3. CASE BackToRegistered({})
    BY <1>2, <2>1, <2>3 DEF BackToRegistered
  <2>. QED BY <1>6, <2>2, <2>3 DEF RecvInviting
<1>7. CASE RecvStreaming(m)
  BY <1>2, <1>7 DEF RecvStreaming, BackToRegistered, Cycles
<1>8. CASE RecvByePending(m)
  <2>1. UNCHANGED stopping
    BY <1>8 DEF RecvByePending
  <2>2. CASE Await("DEREGISTERING", RegisterTimeout)
    BY <1>2, <2>1, <2>2, TimersAssumption DEF Await, WaitsForOne, OFF
  <2>3. CASE BackToRegistered({})
    BY <1>2, <2>1, <2>3 DEF BackToRegistered
  <2>. QED BY <1>8, <2>2, <2>3 DEF RecvByePending
<1>9. CASE RecvDeregistering(m)
  BY <1>1, <1>9, EndingsWait DEF RecvDeregistering, Stop, Await, NothingToWaitFor
<1>10. CASE Ignore(m)
  BY <1>2, <1>10 DEF Ignore, Cycles, TimersKept
<1>. QED
  BY <1>3, <1>4, <1>5, <1>6, <1>7, <1>8, <1>9, <1>10 DEF Receive

\* One expired deadline
LEMMA TimeoutTimers ==
    ASSUME TypeOK, NoTimerIsMissed, Timeout
    PROVE  NoTimerIsMissed'
<1>1. phase = "loop" /\ phase' = "loop"
  BY DEF Timeout
<1>2. ASSUME UNCHANGED stopping,
             TimersKept \/ EnterIdleWithBackoff \/ EnterRegistered \/ WaitsForOne
      PROVE  NoTimerIsMissed'
  BY <1>1, <1>2, BackoffWaits, EndingsWait
<1>3. ASSUME NEW r, StartRegistering(r) PROVE NoTimerIsMissed'
  BY <1>2, <1>3, StartRegisteringWaits
<1>4. CASE TimeoutIdle \/ TimeoutAuthenticating
  BY <1>3, <1>4 DEF TimeoutIdle, TimeoutAuthenticating
<1>5. CASE TimeoutRegistering
  BY <1>2, <1>3, <1>5 DEF TimeoutRegistering, GiveUp, Cycles
<1>6. CASE TimeoutRegistered
  <2>1. CASE SendInvite
    <3>1. UNCHANGED stopping
      BY <2>1 DEF SendInvite, Cycles
    <3>2. CASE Await("INVITING", InviteTimeout)
      BY <1>2, <3>1, <3>2, TimersAssumption DEF Await, WaitsForOne, OFF
    <3>. QED BY <1>2, <2>1, <3>1, <3>2 DEF SendInvite
  <2>2. CASE SendKeepalive
    <3>1. UNCHANGED stopping
      BY <2>2 DEF SendKeepalive, Cycles
    <3>2. CASE UNCHANGED <<state, Timers>>
      BY <1>2, <3>1, <3>2 DEF TimersKept
    <3>3. CASE EnterIdleWithBackoff
      BY <1>2, <3>1, <3>3
    <3>4. CASE /\ next_keepalive' = KeepaliveInterval
               /\ state_deadline' = MinTimer(KeepaliveInterval, invite_after)
               /\ UNCHANGED <<state, invite_after, streaming_until, next_frame>>
      <4>1. state = "REGISTERED" /\ invite_after \in Nat
        BY <1>1, <1>6 DEF TimeoutRegistered, NoTimerIsMissed, TypeOK, UpTo, OFF
      <4>2. state_deadline' \in Nat /\ next_keepalive' \in Nat
        BY <3>4, <4>1, TimersAssumption DEF MinTimer
      <4>. QED BY <3>4, <4>1, <4>2 DEF NoTimerIsMissed, OFF, MinTimer
    <3>. QED BY <2>2, <3>2, <3>3, <3>4 DEF SendKeepalive
  <2>. QED BY <1>6, <2>1, <2>2 DEF TimeoutRegistered
<1>7. CASE TimeoutInviting \/ TimeoutByePending
  BY <1>2, <1>7 DEF TimeoutInviting, TimeoutByePending, BackToRegistered, Cycles
<1>8. CASE TimeoutStreaming
  <2>1. CASE SendBye
    BY <1>2, <2>1, ByeSentWaits DEF SendBye, Cycles
  <2>2. CASE SendFrame
    BY <1>8, <2>2, TimersAssumption
    DEF TimeoutStreaming, SendFrame, NoTimerIsMissed, Cycles, OFF
  <2>. QED BY <1>8, <2>1, <2>2 DEF TimeoutStreaming
<1>9. CASE TimeoutDeregistering
  BY <1>1, <1>9, EndingsWait DEF TimeoutDeregistering, Stop, Await, NothingToWaitFor
<1>. QED BY <1>4, <1>5, <1>6, <1>7, <1>8, <1>9 DEF Timeout

\* One tick: all timers of a state shrink together.
LEMMA TickTimers ==
    ASSUME TypeOK, NoTimerIsMissed, Tick
    PROVE  NoTimerIsMissed'
<1>1. UNCHANGED <<phase, state, stopping>>
  BY DEF Tick, Cycles
<1>2. /\ state_deadline \in Nat \cup {OFF} /\ next_keepalive \in Nat \cup {OFF}
      /\ invite_after \in Nat \cup {OFF} /\ streaming_until \in Nat \cup {OFF}
      /\ next_frame \in Nat \cup {OFF}
  BY DEF TypeOK, UpTo, OFF
<1>3. \A t \in Nat \cup {OFF} : CountDown(t) # OFF <=> t # OFF
  BY DEF CountDown, OFF
<1>4. ASSUME NEW a \in Nat, NEW b \in Nat
      PROVE  CountDown(MinTimer(a, b)) = MinTimer(CountDown(a), CountDown(b))
  BY DEF CountDown, MinTimer
<1>5. CASE phase = "loop" /\ state = "REGISTERED"
  <2>1. next_keepalive \in Nat /\ invite_after \in Nat
        /\ state_deadline = MinTimer(next_keepalive, invite_after)
    BY <1>2, <1>5 DEF NoTimerIsMissed, OFF
  <2>2. state_deadline' = MinTimer(next_keepalive', invite_after')
    BY <1>4, <2>1 DEF Tick
  <2>3. next_keepalive' # OFF /\ invite_after' # OFF
    BY <1>3, <2>1 DEF Tick, OFF
  <2>4. ~stopping => state_deadline' # OFF
    BY <1>2, <1>3, <1>5 DEF Tick, NoTimerIsMissed
  <2>. QED BY <1>1, <1>5, <2>2, <2>3, <2>4 DEF NoTimerIsMissed, MinTimer
<1>6. CASE ~(phase = "loop" /\ state = "REGISTERED")
  BY <1>1, <1>2, <1>3, <1>6 DEF Tick, NoTimerIsMissed
<1>. QED BY <1>5, <1>6

\* The loop never sleeps past, or without, a timer its state waits for.
THEOREM TimersCorrect == Spec => []NoTimerIsMissed
<1>1. Init => NoTimerIsMissed
  BY DEF Init, NoTimerIsMissed
<1>2. TypeOK /\ NoTimerIsMissed /\ [Next]_vars => NoTimerIsMissed'
  <2>. SUFFICES ASSUME TypeOK, NoTimerIsMissed, [Next]_vars
                PROVE  NoTimerIsMissed'
    OBVIOUS
  <2>1. CASE Boot
    BY <2>1, StartRegisteringWaits DEF Boot, WaitsForOne, NoTimerIsMissed
  <2>2. CASE Timeout
    BY <2>2, TimeoutTimers
  <2>3. CASE RecvFails
    <3>1. phase = "loop" /\ phase' = "loop" /\ UNCHANGED stopping
      BY <2>3 DEF RecvFails, GiveUp, Cycles
    <3>. QED BY <2>3, <3>1, BackoffWaits, EndingsWait DEF RecvFails, GiveUp
  <2>4. CASE Exit
    BY <2>4 DEF Exit, Timers, Cycles, NoTimerIsMissed
  <2>5. CASE Tick
    BY <2>5, TickTimers
  <2>6. CASE UNCHANGED vars
    BY <2>6 DEF vars, ctx, NoTimerIsMissed, MinTimer
  <2>7. ASSUME NEW m \in Inbound, Receive(m) PROVE NoTimerIsMissed'
    BY <2>7, ReceiveTimers
  <2>. QED
    BY <2>1, <2>2, <2>3, <2>4, <2>5, <2>6, <2>7 DEF Next, Loop, Exited
<1>. QED BY <1>1, <1>2, TypeCorrect, PTL DEF Spec
=============================================================================
