------------------------------ MODULE GbDevice ------------------------------
(***************************************************************************)
(* The resident GB28181 device, gb28181_device_stateful.cpp: one thread,   *)
(* one SIP socket, eight states, and deadlines that a select() loop polls. *)
(* Each iteration of the loop is one action here: it handles one datagram  *)
(* (Receive), one failed recvfrom (RecvFails), or, when nothing is         *)
(* readable, an expired deadline (Timeout).                                *)
(*                                                                         *)
(* Time.  The code stores absolute milliseconds and only ever compares     *)
(* them with now_ms() or sets them to now_ms() plus a constant.  A timer   *)
(* here is the number of ticks left, 0 once expired; OFF stands for the    *)
(* code's 0 ("not armed").  The loop may run late, so Tick does not wait   *)
(* for the device unless PromptLoop says so.                               *)
(*                                                                         *)
(* Left out: texts and headers, Call-IDs and CSeq numbers (sent, never     *)
(* compared with anything that arrives), have_challenge and the challenge  *)
(* (written, never tested), need_resocket (1 only while the socket is      *)
(* closed, where the code tests need_resocket || sip_sock < 0), the PTS    *)
(* and the contents of frames, and the build_xxx failures of buffers that  *)
(* are always large enough.                                                *)
(***************************************************************************)
EXTENDS GbSip, Integers

CONSTANTS
    RegisterRetryMax, KeepaliveMissMax,          \* limits
    RegisterTimeout, InviteTimeout, ByeTimeout,  \* ticks
    BackoffBase, BackoffMax,
    KeepaliveInterval, InviteAfter,
    StreamingHold, FrameInterval,
    BuiltinFrames,    \* frames of the built-in stream
    InviteCyclesMax,  \* argv[1]; 0 = run for ever
    MediaFile,        \* argv[2] given: frames come from a file
    UseTcp,           \* argv[3] or cfg.use_tcp: RTP over an active TCP connection
    Faults,           \* system calls that may fail: see Outcomes
    Inbound,          \* datagrams that may arrive
    PromptLoop,       \* TRUE: a due deadline is handled before the next tick
    MaxCycles,        \* bound: cycles_done stops counting there; it is
                      \*        not compared with anything larger
    MaxLost           \* bound on the counts of lost sessions and file handles

FaultKinds == {"open", "send", "recv", "rtp", "file"}

ASSUME LimitsAssumption ==
    /\ RegisterRetryMax \in Nat \ {0} /\ KeepaliveMissMax \in Nat \ {0}
    /\ BuiltinFrames \in Nat /\ InviteCyclesMax \in Nat
    /\ MaxLost \in Nat \ {0}
    /\ MaxCycles \in Nat /\ MaxCycles >= InviteCyclesMax
ASSUME TimersAssumption ==
    /\ {RegisterTimeout, InviteTimeout, ByeTimeout, KeepaliveInterval,
        InviteAfter, StreamingHold, FrameInterval} \subseteq Nat \ {0}
    /\ BackoffBase \in Nat \ {0} /\ BackoffMax \in Nat
    /\ BackoffBase <= BackoffMax
ASSUME EnvAssumption ==
    /\ Faults \subseteq FaultKinds
    /\ MediaFile \in BOOLEAN /\ UseTcp \in BOOLEAN /\ PromptLoop \in BOOLEAN
    /\ Inbound \subseteq Messages

OFF == -1

States == {"IDLE", "REGISTERING", "AUTHENTICATING", "REGISTERED", "INVITING",
           "STREAMING", "BYE_PENDING", "DEREGISTERING"}

VARIABLES
    phase,             \* "boot" before the first start_registering, "loop", "exited"
    state,
    sock,              \* sip_sock >= 0
    to_tag,            \* to_tag is not empty
    register_retries,
    backoff_ms,
    state_deadline, next_keepalive, invite_after,
    streaming_until, next_frame,
    keepalive_misses,
    media_handle,      \* media_handle # NULL
    fp,                \* media_src.fp # NULL
    frame_index,       \* media_src.builtin_frame_index
    cycles_done,
    stopping,          \* invite_cycles_max = -1
    lost_rtp,          \* started RTP sessions no pointer leads to any more
    lost_fp,           \* open files no pointer leads to any more
    tx                 \* datagrams sent by the last step

OtherTimers == <<next_keepalive, invite_after, streaming_until, next_frame>>
Timers == <<state_deadline, next_keepalive, invite_after, streaming_until, next_frame>>
Counters == <<register_retries, backoff_ms, keepalive_misses>>
Media == <<media_handle, fp, frame_index, lost_rtp, lost_fp>>
Cycles == <<cycles_done, stopping>>

ctx == <<phase, state, sock, to_tag, register_retries, backoff_ms,
         state_deadline, next_keepalive, invite_after, streaming_until,
         next_frame, keepalive_misses, media_handle, fp, frame_index,
         cycles_done, stopping, lost_rtp, lost_fp>>
vars == <<ctx, tx>>

-----------------------------------------------------------------------------
(* Helpers.                                                                *)

\* A call listed in Faults may fail, the others succeed.
Outcomes(call) == IF call \in Faults THEN {TRUE, FALSE} ELSE {TRUE}

AtMost(n, bound) == IF n > bound THEN bound ELSE n

\* min_u64: an unarmed timer is the smallest value there is, as 0 is in C.
MinTimer(a, b) == IF a < b THEN a ELSE b

Expired(t) == t = 0
CountDown(t) == IF t > 0 THEN t - 1 ELSE t

\* enter_state with the deadline of the new state
Await(s, ticks) ==
    /\ state' = s
    /\ state_deadline' = ticks

\* Mutants: the delay is not capped; the delay starts again at its maximum
NextBackoffUncapped(b) == IF b = 0 THEN BackoffBase ELSE 2 * b
NextBackoffRestarts(b) ==
    IF b = 0 \/ b = BackoffMax THEN BackoffBase ELSE AtMost(2 * b, BackoffMax)
NextBackoff(b) == IF b = 0 THEN BackoffBase ELSE AtMost(2 * b, BackoffMax)

\* Mutant: the socket stays open in IDLE
EnterIdleKeepingSocket ==
    /\ register_retries' = 0
    /\ keepalive_misses' = 0
    /\ backoff_ms' = NextBackoff(backoff_ms)
    /\ Await("IDLE", NextBackoff(backoff_ms))
    /\ UNCHANGED sock

\* enter_idle_with_backoff: the socket is closed; nothing of the media is.
EnterIdleWithBackoff ==
    /\ sock' = FALSE
    /\ register_retries' = 0
    /\ keepalive_misses' = 0
    /\ backoff_ms' = NextBackoff(backoff_ms)
    /\ Await("IDLE", NextBackoff(backoff_ms))

\* Mutant: the loop is not woken for the INVITE
EnterRegisteredLate ==
    /\ backoff_ms' = 0
    /\ keepalive_misses' = 0
    /\ next_keepalive' = KeepaliveInterval
    /\ invite_after' = InviteAfter
    /\ Await("REGISTERED", KeepaliveInterval)
    /\ UNCHANGED <<sock, register_retries, streaming_until, next_frame>>

\* enter_registered: both timers of the state start afresh.
EnterRegistered ==
    /\ backoff_ms' = 0
    /\ keepalive_misses' = 0
    /\ next_keepalive' = KeepaliveInterval
    /\ invite_after' = InviteAfter
    /\ Await("REGISTERED", MinTimer(KeepaliveInterval, InviteAfter))
    /\ UNCHANGED <<sock, register_retries, streaming_until, next_frame>>

-----------------------------------------------------------------------------
(* Registration.                                                           *)

Register(body) == Req("REGISTER", "dev", body)

\* start_registering: a fresh Call-ID, but the retry count stays.
StartRegistering(retries) ==
    /\ \E opened \in IF sock THEN {TRUE} ELSE Outcomes("open"),
          sent \in Outcomes("send") :
         /\ tx' = IF opened /\ sent THEN {Register("noauth")} ELSE {}
         /\ \/ /\ ~(opened /\ sent)
               /\ EnterIdleWithBackoff
            \/ /\ opened /\ sent
               /\ sock' = TRUE
               /\ register_retries' = retries
               /\ Await("REGISTERING", RegisterTimeout)
               /\ UNCHANGED <<backoff_ms, keepalive_misses>>
    /\ UNCHANGED <<OtherTimers, to_tag, Media, Cycles>>

\* send_register_with_auth: a REGISTER in answer to the challenge
SendRegisterWithAuth ==
    /\ \E sent \in Outcomes("send") :
         \/ /\ sent
            /\ tx' = {Register("auth")}
            /\ Await("AUTHENTICATING", RegisterTimeout)
            /\ UNCHANGED <<sock, Counters>>
         \/ /\ ~sent
            /\ tx' = {}
            /\ EnterIdleWithBackoff
    /\ UNCHANGED <<OtherTimers, to_tag, Media, Cycles>>

\* Back to backoff with nothing sent (auth rejected, bad challenge, socket error)
GiveUp ==
    /\ EnterIdleWithBackoff
    /\ tx' = {}
    /\ UNCHANGED <<to_tag, OtherTimers, Media, Cycles>>

\* A transaction ended, with or without an answer: the stable state again.
BackToRegistered(sent) ==
    /\ EnterRegistered
    /\ tx' = sent
    /\ UNCHANGED to_tag

-----------------------------------------------------------------------------
(* The INVITE dialog and its media.                                        *)

\* Mutant: an unanswered keepalive is not counted
SendKeepaliveUncounted ==
    /\ tx' = {Req("MESSAGE", "dev", "Keepalive")}
    /\ next_keepalive' = KeepaliveInterval
    /\ state_deadline' = MinTimer(KeepaliveInterval, invite_after)
    /\ UNCHANGED <<state, sock, Counters, invite_after, streaming_until, next_frame,
                   to_tag, Media, Cycles>>

\* send_keepalive: each one counts as missed until something answers.
SendKeepalive ==
    /\ \E sent \in Outcomes("send") :
         \/ /\ ~sent
            /\ tx' = {}
            /\ UNCHANGED <<state, sock, Counters, Timers>>
         \/ /\ sent
            /\ tx' = {Req("MESSAGE", "dev", "Keepalive")}
            /\ next_keepalive' = KeepaliveInterval
            /\ UNCHANGED <<invite_after, streaming_until, next_frame>>
            /\ \/ /\ keepalive_misses + 1 >= KeepaliveMissMax
                  /\ EnterIdleWithBackoff
               \/ /\ keepalive_misses + 1 < KeepaliveMissMax
                  /\ keepalive_misses' = keepalive_misses + 1
                  /\ state_deadline' = MinTimer(KeepaliveInterval, invite_after)
                  /\ UNCHANGED <<state, sock, register_retries, backoff_ms>>
    /\ UNCHANGED <<to_tag, Media, Cycles>>

\* The REGISTERED timeout that disarms invite_after and calls send_invite.
SendInvite ==
    /\ invite_after' = OFF
    /\ to_tag' = FALSE
    /\ \E sent \in Outcomes("send") :
         \/ /\ sent
            /\ tx' = {Req("INVITE", "dev", "none")}
            /\ Await("INVITING", InviteTimeout)
            /\ UNCHANGED <<sock, Counters>>
         \/ /\ ~sent
            /\ tx' = {}
            /\ EnterIdleWithBackoff
    /\ UNCHANGED <<next_keepalive, streaming_until, next_frame, Media, Cycles>>

\* media_source_open zeroes the source first: a file still open is lost.
OpenSource ==
    /\ lost_fp' = IF fp THEN AtMost(lost_fp + 1, MaxLost) ELSE lost_fp
    /\ frame_index' = 0
OpenedFiles == IF MediaFile THEN Outcomes("file") ELSE {FALSE}

\* gb28181_create overwrites media_handle.
PreviousSessions == AtMost(lost_rtp + (IF media_handle THEN 1 ELSE 0), MaxLost)
\* gb28181_start over UDP binds the RTP port, which a session that nobody
\* stopped still holds; over TCP it binds none, and connects.
\* Mutant: the port is bound although it is in use
StartOutcomesShared == Outcomes("rtp")
StartOutcomes ==
    IF UseTcp \/ PreviousSessions = 0 THEN Outcomes("rtp") ELSE {FALSE}

EnterStreaming ==
    /\ next_frame' = 0
    /\ streaming_until' = StreamingHold
    /\ Await("STREAMING", 0)
    /\ UNCHANGED <<sock, Counters, next_keepalive, invite_after>>

\* A request inside the dialog carries the tag of the 200 that opened it.
InDialog(method) == Req(method, "dev", IF to_tag' THEN "tag" ELSE "none")

\* What send_bye sends and where it goes; msgs were sent before it in the step.
ByeSent(msgs) ==
    /\ \E sent \in Outcomes("send") :
         \/ /\ sent
            /\ tx' = msgs \cup {InDialog("BYE")}
            /\ Await("BYE_PENDING", ByeTimeout)
            /\ UNCHANGED <<sock, Counters>>
         \/ /\ ~sent
            /\ tx' = msgs
            /\ EnterIdleWithBackoff
    /\ UNCHANGED OtherTimers

\* Mutant: BYE is sent and the session goes on
SendByeKeepingSession ==
    /\ fp' = FALSE
    /\ UNCHANGED <<media_handle, frame_index, lost_rtp, lost_fp, to_tag, Cycles>>
    /\ ByeSent({})

\* send_bye: stop and destroy the session, close the source, send BYE.
SendBye ==
    /\ media_handle' = FALSE
    /\ fp' = FALSE
    /\ UNCHANGED <<frame_index, lost_rtp, lost_fp, to_tag, Cycles>>
    /\ ByeSent({})

\* send_ack_and_start_media: ACK, then the source, then the session; when the
\* session does not start the call is ended at once with a BYE.
SendAckAndStartMedia ==
    \/ /\ "send" \in Faults
       /\ EnterIdleWithBackoff
       /\ tx' = {}
       /\ UNCHANGED <<OtherTimers, Media>>
    \/ /\ OpenSource
       /\ lost_rtp' = PreviousSessions
       /\ \E started \in StartOutcomes :
            /\ media_handle' = started
            /\ \/ /\ started
                  /\ fp' \in OpenedFiles
                  /\ EnterStreaming
                  /\ tx' = {InDialog("ACK")}
               \/ /\ ~started
                  /\ fp' = FALSE
                  /\ ByeSent({InDialog("ACK")})

\* The platform's ACK: the same media start without an ACK of our own.  When
\* the session does not start the source stays open and the state stays.
StartPulledMedia ==
    /\ OpenSource
    /\ fp' \in OpenedFiles
    /\ lost_rtp' = PreviousSessions
    /\ \E started \in StartOutcomes :
         /\ media_handle' = started
         /\ \/ started /\ EnterStreaming
            \/ ~started /\ UNCHANGED <<state, sock, Counters, Timers>>
    /\ tx' = {}
    /\ UNCHANGED <<to_tag, Cycles>>

-----------------------------------------------------------------------------
(* handle_incoming: one action per state and kind of message.  No handler  *)
(* compares the Call-ID or the CSeq of a response with what was sent.      *)

RecvRegistering(m) ==
    /\ state = "REGISTERING"
    /\ \/ IsResponse(m, {401}) /\ m.body = "challenge" /\ SendRegisterWithAuth
       \/ IsResponse(m, {200}) /\ BackToRegistered({}) /\ UNCHANGED <<Media, Cycles>>
       \/ /\ IsResponse(m, {401, 403})
          /\ ~(m.code = 401 /\ m.body = "challenge")
          /\ GiveUp

RecvAuthenticating(m) ==
    /\ state = "AUTHENTICATING"
    /\ \/ IsResponse(m, {200}) /\ BackToRegistered({}) /\ UNCHANGED <<Media, Cycles>>
       \/ IsResponse(m, {401, 403}) /\ GiveUp

\* Requests of the platform that only get answered
AnswersTo(m) ==
    CASE m.method = "MESSAGE" /\ m.body = "QueryCatalog" ->
            {Reply(m, 200, "none"), Req("MESSAGE", "dev", "CatalogResponse")}
      [] m.method = "MESSAGE" /\ m.body = "QueryRecordInfo" ->
            {Reply(m, 200, "none"), Req("MESSAGE", "dev", "RecordInfoResponse")}
      [] m.method = "INVITE" -> {Reply(m, 200, "tag")}
      [] OTHER -> {Reply(m, 200, "none")}

\* Mutant: whatever the answer, the platform is there
KeepaliveAnsweredByAny(m) == m.type = "resp"
KeepaliveAnswered(m) == IsResponse(m, {200})

RecvRegistered(m) ==
    /\ state = "REGISTERED"
    /\ \/ /\ KeepaliveAnswered(m)
          /\ keepalive_misses' = 0
          /\ tx' = {}
          /\ UNCHANGED <<state, sock, to_tag, register_retries, backoff_ms,
                         Timers, Media, Cycles>>
       \/ /\ m.type = "req" /\ m.method \in {"MESSAGE", "INVITE", "BYE"}
          /\ tx' = AnswersTo(m)
          /\ UNCHANGED <<state, sock, to_tag, Counters, Timers, Media, Cycles>>
       \/ IsRequest(m, "ACK") /\ StartPulledMedia

RecvInviting(m) ==
    /\ state = "INVITING"
    /\ UNCHANGED Cycles
    /\ \/ /\ IsResponse(m, {200})
          /\ to_tag' = (m.body = "tag")
          /\ SendAckAndStartMedia
       \/ IsResponse(m, {486}) /\ BackToRegistered({}) /\ UNCHANGED Media

\* Only BYE counts while streaming; the source is not closed.
RecvStreaming(m) ==
    /\ state = "STREAMING"
    /\ IsRequest(m, "BYE")
    /\ media_handle' = FALSE
    /\ BackToRegistered({Reply(m, 200, "none")})
    /\ UNCHANGED <<fp, frame_index, lost_rtp, lost_fp, Cycles>>

\* Mutant: one cycle too early
LastCycleEarly == InviteCyclesMax > 0 /\ cycles_done + 2 >= InviteCyclesMax
LastCycle == InviteCyclesMax > 0 /\ cycles_done + 1 >= InviteCyclesMax

\* A cycle is counted when its BYE is answered; the last one deregisters.
RecvByePending(m) ==
    /\ state = "BYE_PENDING"
    /\ IsResponse(m, {200})
    /\ cycles_done' = AtMost(cycles_done + 1, MaxCycles)
    /\ UNCHANGED <<stopping, Media>>
    /\ \/ /\ LastCycle
          /\ tx' = {Register("expires0")}
          /\ Await("DEREGISTERING", RegisterTimeout)
          /\ UNCHANGED <<sock, to_tag, Counters, OtherTimers>>
       \/ ~LastCycle /\ BackToRegistered({})

\* Deregistered, or not answered in time: the main loop will end.
Stop ==
    /\ sock' = FALSE
    /\ Await("IDLE", OFF)
    /\ stopping' = TRUE
    /\ tx' = {}
    /\ UNCHANGED <<to_tag, Counters, OtherTimers, Media, cycles_done>>

RecvDeregistering(m) ==
    state = "DEREGISTERING" /\ IsResponse(m, {200}) /\ Stop

\* What the current state has a branch for; anything else is only logged.
Understood(m) ==
    CASE state \in {"REGISTERING", "AUTHENTICATING"} -> IsResponse(m, {200, 401, 403})
      [] state = "REGISTERED" ->
            IsResponse(m, {200}) \/ (m.type = "req" /\ m.method # "REGISTER")
      [] state = "INVITING" -> IsResponse(m, {200, 486})
      [] state = "STREAMING" -> IsRequest(m, "BYE")
      [] state \in {"BYE_PENDING", "DEREGISTERING"} -> IsResponse(m, {200})
      [] OTHER -> FALSE

Ignore(m) ==
    /\ ~Understood(m)
    /\ tx' = {}
    /\ UNCHANGED <<state, sock, to_tag, Counters, Timers, Media, Cycles>>

\* select() reported the socket readable and recvfrom returned m.
Receive(m) ==
    /\ phase = "loop" /\ sock
    /\ UNCHANGED phase
    /\ \/ RecvRegistering(m) \/ RecvAuthenticating(m) \/ RecvRegistered(m)
       \/ RecvInviting(m) \/ RecvStreaming(m) \/ RecvByePending(m)
       \/ RecvDeregistering(m) \/ Ignore(m)

\* recvfrom returned an error (on Windows an ICMP unreachable is enough).
RecvFails ==
    /\ phase = "loop" /\ sock /\ "recv" \in Faults
    /\ GiveUp
    /\ UNCHANGED phase

-----------------------------------------------------------------------------
(* handle_state_timeout, and the loop around it.                           *)

TimeoutIdle == state = "IDLE" /\ StartRegistering(register_retries)

TimeoutRegistering ==
    /\ state = "REGISTERING"
    /\ \/ register_retries + 1 >= RegisterRetryMax /\ GiveUp
       \/ /\ register_retries + 1 < RegisterRetryMax
          /\ StartRegistering(register_retries + 1)

TimeoutAuthenticating == state = "AUTHENTICATING" /\ StartRegistering(register_retries)

\* Both timers may be due: the INVITE goes first.
TimeoutRegistered ==
    /\ state = "REGISTERED"
    /\ \/ Expired(invite_after) /\ SendInvite
       \/ ~Expired(invite_after) /\ Expired(next_keepalive) /\ SendKeepalive

TimeoutInviting ==
    /\ state = "INVITING"
    /\ BackToRegistered({})
    /\ UNCHANGED <<Media, Cycles>>

\* media_streaming_tick; a file may end at any frame.
\* Mutant: one frame more than there are
BuiltinFrameLeftOver == frame_index <= BuiltinFrames
BuiltinFrameLeft == frame_index < BuiltinFrames
EndOfSource == ~media_handle \/ fp \/ ~BuiltinFrameLeft
SendFrame ==
    /\ media_handle /\ (fp \/ BuiltinFrameLeft)
    /\ frame_index' = IF fp THEN frame_index ELSE frame_index + 1
    /\ next_frame' = FrameInterval
    /\ state_deadline' = FrameInterval
    /\ tx' = {}
    /\ UNCHANGED <<state, sock, to_tag, Counters, next_keepalive, invite_after,
                   streaming_until, media_handle, fp, lost_rtp, lost_fp, Cycles>>

TimeoutStreaming ==
    /\ state = "STREAMING"
    /\ \/ Expired(streaming_until) /\ SendBye
       \/ ~Expired(streaming_until) /\ Expired(next_frame) /\ EndOfSource /\ SendBye
       \/ ~Expired(streaming_until) /\ Expired(next_frame) /\ SendFrame

\* Mutant: the BYE is repeated until it is answered
TimeoutByePendingRepeats == state = "BYE_PENDING" /\ SendBye
TimeoutByePending ==
    /\ state = "BYE_PENDING"
    /\ media_handle' = FALSE
    /\ BackToRegistered({})
    /\ UNCHANGED <<fp, frame_index, lost_rtp, lost_fp, Cycles>>

TimeoutDeregistering == state = "DEREGISTERING" /\ Stop

\* select() timed out and the deadline has passed.
TimeoutDue ==
    \/ Expired(state_deadline)
    \/ state = "REGISTERED" /\ Expired(next_keepalive)

Timeout ==
    /\ phase = "loop" /\ TimeoutDue
    /\ UNCHANGED phase
    /\ \/ TimeoutIdle \/ TimeoutRegistering \/ TimeoutAuthenticating
       \/ TimeoutRegistered \/ TimeoutInviting \/ TimeoutStreaming
       \/ TimeoutByePending \/ TimeoutDeregistering

\* main registers at once, before its loop.
Boot ==
    /\ phase = "boot"
    /\ phase' = "loop"
    /\ StartRegistering(register_retries)

\* The loop ends once deregistered; main releases what its pointers reach.
Exit ==
    /\ phase = "loop" /\ state = "IDLE" /\ stopping
    /\ phase' = "exited"
    /\ media_handle' = FALSE
    /\ fp' = FALSE
    /\ sock' = FALSE
    /\ tx' = {}
    /\ UNCHANGED <<state, to_tag, Counters, Timers, frame_index, lost_rtp,
                   lost_fp, Cycles>>

\* One tick of the clock for every armed timer.
Tick ==
    /\ phase = "loop"
    /\ PromptLoop => ~TimeoutDue
    /\ \E t \in {state_deadline, next_keepalive, invite_after, streaming_until,
                 next_frame} : t > 0
    /\ state_deadline' = CountDown(state_deadline)
    /\ next_keepalive' = CountDown(next_keepalive)
    /\ invite_after' = CountDown(invite_after)
    /\ streaming_until' = CountDown(streaming_until)
    /\ next_frame' = CountDown(next_frame)
    /\ tx' = {}
    /\ UNCHANGED <<phase, state, sock, to_tag, Counters, Media, Cycles>>

Init ==
    /\ phase = "boot" /\ state = "IDLE" /\ sock = FALSE
    /\ to_tag = FALSE
    /\ register_retries = 0 /\ backoff_ms = 0 /\ keepalive_misses = 0
    /\ state_deadline = OFF /\ next_keepalive = OFF /\ invite_after = OFF
    /\ streaming_until = OFF /\ next_frame = OFF
    /\ media_handle = FALSE /\ fp = FALSE /\ frame_index = 0
    /\ lost_rtp = 0 /\ lost_fp = 0
    /\ cycles_done = 0 /\ stopping = FALSE
    /\ tx = {}

Exited == phase = "exited" /\ UNCHANGED vars

Loop == Boot \/ Timeout \/ RecvFails \/ Exit
Next == Loop \/ Tick \/ Exited \/ \E m \in Inbound : Receive(m)

Spec == Init /\ [][Next]_vars

\* The process keeps running its loop and time passes; nothing is assumed
\* about the network.  The loop looks at its deadlines whenever select()
\* finds nothing readable, so this asks of the peer only that it does not
\* keep the socket readable without a pause.
Fairness == WF_vars(Boot) /\ WF_vars(Timeout) /\ WF_vars(Exit) /\ WF_vars(Tick)
FairSpec == Spec /\ Fairness

-----------------------------------------------------------------------------
(* Properties.                                                             *)

UpTo(max) == OFF .. max

\* The values every variable of gb_device_ctx_t may take; the retry and miss
\* counts stay below their limits because reaching a limit starts a backoff.
TypeOK ==
    /\ phase \in {"boot", "loop", "exited"} /\ state \in States
    /\ sock \in BOOLEAN /\ to_tag \in BOOLEAN
    /\ register_retries \in 0 .. RegisterRetryMax - 1
    /\ keepalive_misses \in 0 .. KeepaliveMissMax - 1
    /\ backoff_ms \in 0 .. BackoffMax
    /\ state_deadline \in Nat \cup {OFF}
    /\ next_keepalive \in UpTo(KeepaliveInterval)
    /\ invite_after \in UpTo(InviteAfter)
    /\ streaming_until \in UpTo(StreamingHold)
    /\ next_frame \in UpTo(FrameInterval)
    /\ media_handle \in BOOLEAN /\ fp \in BOOLEAN
    /\ frame_index \in 0 .. BuiltinFrames
    /\ lost_rtp \in 0 .. MaxLost /\ lost_fp \in 0 .. MaxLost
    /\ cycles_done \in 0 .. MaxCycles /\ stopping \in BOOLEAN
    /\ tx \subseteq Messages

\* The loop sleeps until state_deadline (in REGISTERED also next_keepalive),
\* so the deadline must never be later than, or off while, a timer the state
\* waits for; otherwise the device waits for ever with nobody to wake it.  In
\* STREAMING it is the next frame's: streaming_until is looked at when that
\* frame is due, and may have passed by then.
NoTimerIsMissed ==
    /\ phase = "loop" /\ ~stopping => state_deadline # OFF
    /\ phase = "loop" /\ state = "REGISTERED" =>
         /\ next_keepalive # OFF /\ invite_after # OFF
         /\ state_deadline = MinTimer(next_keepalive, invite_after)
    /\ state = "STREAMING" =>
         state_deadline = next_frame /\ streaming_until # OFF

\* recvfrom, sendto and every wait of the loop rely on it: the socket is open
\* exactly when the device is in a state that expects datagrams.
SocketFollowsState == phase = "loop" => (sock <=> state # "IDLE")

\* send_ack_and_start_media and the ACK branch: a device that streams holds
\* its session.  Over UDP it is the only one on local_rtp_port, and at most
\* one session is ever lost, because a lost one keeps the port from all later
\* ones; over TCP sessions may be lost one after the other.
StreamingOwnsThePort ==
    /\ state = "STREAMING" => media_handle
    /\ ~UseTcp => lost_rtp <= 1 /\ (media_handle => lost_rtp = 0)

\* Without socket errors the session is bound to STREAMING on every path
\* (BYE sent, BYE received, end of source, failed start, timeouts).
SessionReleased ==
    "recv" \notin Faults => (media_handle <=> state = "STREAMING") /\ lost_rtp = 0

\* The comment on backoff_ms: 1s, 2s, 4s, ... for as long as the platform is
\* away; only a registration makes the next delay short again.
BackoffOnlyResetByRegistration ==
    [][backoff_ms' < backoff_ms => state' = "REGISTERED"]_vars

\* invite_cycles_max: the device deregisters and ends only after that many
\* answered BYEs, never because of a socket error or a lost answer.
StopsOnlyWhenDone ==
    stopping \/ state = "DEREGISTERING" \/ phase = "exited" =>
        InviteCyclesMax > 0 /\ cycles_done >= InviteCyclesMax

\* Every state that waits for an answer has a way out that needs none.
NoStateIsForEver ==
    \A s \in States \ {"IDLE"} : state = s ~> state # s

\* The comment on media_handle ("held during STREAMING, must be released on
\* BYE; release tied to the signalling action, so that no session leaks").
MediaReleased == media_handle \/ fp => state = "STREAMING"
=============================================================================
