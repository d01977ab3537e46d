------------------------------ MODULE RtmpPush ------------------------------
(***************************************************************************)
(* The RTMP pusher of src/MediaProtrocl/flv/joa_rtmp.c: a push thread that *)
(* connects, reconnects and sends the frames of the camera, and the calls  *)
(* of an application that creates, starts, stops and destroys it.          *)
(*                                                                         *)
(* A step of the push thread is what it does between two looks at what the *)
(* application may change (stop, g_push_start) or between two blocking     *)
(* calls.  joa_rtmp_start is Create and Start, joa_rtmp_stop is Destroy,   *)
(* and g_rtmp_ctx is set while a context exists.                           *)
(*                                                                         *)
(* Left out: the audio path (compiled out by #if 0), the dump file and     *)
(* dump_only (off unless a configuration asks for them), the               *)
(* metadata (sent once per connection, its failure only logged) and        *)
(* request_idr, which decides whether the encoder is asked for a key frame *)
(* that may come at any time anyway.                                       *)
(***************************************************************************)
EXTENDS Integers

CONSTANTS
    MaxReconnects,   \* values of config.max_reconnect_times to start from
    Versions,        \* the encoder's parameter sets (SPS and PPS), numbered
    TsMod,           \* 2^32: RTMP timestamps have 32 bits
    MaxDelta,        \* 1000 ms: a step as long as that is a jump of the clock
    Interval         \* the frame interval

ASSUME RtmpAssumption ==
    /\ MaxReconnects \subseteq {-1} \cup (Nat \ {0})
    /\ Versions \subseteq Nat \ {0} /\ Versions # {}
    /\ MaxDelta \in Nat \ {0} /\ TsMod \in Nat /\ TsMod >= 2 * MaxDelta
    /\ Interval \in 1..MaxDelta

VARIABLES
    \* the application: a context exists; the call it is in; rtmp_context_t
    ctx, op, thread_started, stop, max_reconnect_times,
    \* the push thread
    th, rtmp, sent_config, video_started, sps, reconnect_attempts,
    video_shm_id, status,
    \* rtmp_next_video_timestamp
    total_video_timestamp, video_ts_initialized,
    \* what surrounds them
    net, server, link, g_push_start, encoder,
    \* what was sent on the present connection, for the properties
    stream, failures

appVars == <<ctx, op, thread_started, stop, max_reconnect_times>>
envVars == <<net, server, g_push_start, encoder>>
countVars == <<reconnect_attempts, failures>>
tsVars == <<total_video_timestamp, video_ts_initialized>>
\* all that rtmp_disconnect resets
connVars == <<rtmp, link, status, sent_config, video_started, tsVars, stream>>
\* what reading and sending frames leaves alone
keptVars == <<appVars, envVars, countVars, video_shm_id>>
vars == <<keptVars, connVars, th, sps>>

NoFrames == [config |-> 0, key |-> 0, last |-> -1, parity |-> 0]
Streams == [config : Versions \cup {0}, key : Versions \cup {0},
            last : -1..(TsMod - 1), parity : {0, 1}]
Statuses ==
    {"IDLE", "CONNECTING", "CONNECTED", "PUSHING", "DISCONNECTED", "ERROR"}
Threads == {"off", "init", "top", "connecting", "asleep", "reading", "exiting"}

ResetTimestamps == total_video_timestamp' = 0 /\ video_ts_initialized' = FALSE

\* Mutant: the next connection goes on where this one stopped
ReleaseKeepingVideo ==
    /\ link' = FALSE /\ sent_config' = FALSE
    /\ ResetTimestamps
    /\ stream' = NoFrames
    /\ UNCHANGED video_started

Release ==
    /\ link' = FALSE
    /\ sent_config' = FALSE /\ video_started' = FALSE
    /\ ResetTimestamps
    /\ stream' = NoFrames

\* rtmp_disconnect; `next` is the status that is set last.
Disconnect(next) == rtmp' = "null" /\ Release /\ status' = next

-----------------------------------------------------------------------------
(* The application. *)

\* rtmp_init; a failed allocation leaves nothing behind.  What it sets and is
\* not named here is left like that by rtmp_destroy.
Create(max) ==
    /\ op = "none" /\ ctx = "none"
    /\ ctx' = "live"
    /\ max_reconnect_times' = max
    /\ stop' = FALSE /\ status' = "IDLE" /\ sps' = 0
    /\ reconnect_attempts' = 0 /\ failures' = 0
    /\ UNCHANGED <<envVars, tsVars, op, thread_started, th, rtmp,
                   video_shm_id, sent_config, video_started, stream, link>>

\* A failed pthread_create leaves thread_started as it was.
Start ==
    /\ op = "none" /\ ctx = "live" /\ ~thread_started
    /\ stop' = FALSE /\ thread_started' = TRUE /\ th' = "init"
    /\ UNCHANGED <<connVars, envVars, countVars, ctx, op, max_reconnect_times,
                   video_shm_id, sps>>

\* rtmp_stop and rtmp_destroy up to pthread_join; `call` says which one.
StopCall(call) ==
    /\ op = "none" /\ ctx = "live"
    /\ thread_started \/ call = "destroy"
    /\ op' = call
    /\ stop' = (stop \/ thread_started)
    /\ UNCHANGED <<connVars, envVars, countVars, ctx, thread_started,
                   max_reconnect_times, th, video_shm_id, sps>>

\* Mutant: the context is freed without waiting for the thread
JoinedAtOnce ==
    /\ op \in {"stop", "destroy"}
    /\ thread_started' = FALSE /\ op' = "none"
    /\ IF op = "stop"
       THEN UNCHANGED <<connVars, ctx, sps, video_shm_id>>
       ELSE /\ ctx' = "none" /\ video_shm_id' = FALSE
            /\ Disconnect("DISCONNECTED") /\ UNCHANGED sps
    /\ UNCHANGED <<envVars, countVars, stop, max_reconnect_times, th>>

\* pthread_join returns; rtmp_destroy goes on to release everything.
Joined ==
    /\ op \in {"stop", "destroy"} /\ th = "off"
    /\ thread_started' = FALSE /\ op' = "none"
    /\ IF op = "stop"
       THEN UNCHANGED <<connVars, ctx, sps, video_shm_id>>
       ELSE /\ ctx' = "none" /\ video_shm_id' = FALSE
            /\ Disconnect("DISCONNECTED") /\ UNCHANGED sps
    /\ UNCHANGED <<envVars, countVars, stop, max_reconnect_times, th>>

-----------------------------------------------------------------------------
(* The push thread. *)

\* rtmp_init_video_stream, tried once: without a reader the thread goes on.
InitVideo ==
    /\ th = "init" /\ th' = "top"
    /\ video_shm_id' \in {video_shm_id, TRUE}
    /\ UNCHANGED <<connVars, appVars, envVars, countVars, sps>>

\* Mutant: the loop is left only while the network is up
LoopEndsOnline ==
    /\ th = "top" /\ stop /\ net
    /\ th' = "exiting"
    /\ UNCHANGED <<keptVars, connVars, sps>>

LoopEnds ==
    /\ th = "top" /\ stop
    /\ th' = "exiting"
    /\ UNCHANGED <<keptVars, connVars, sps>>

\* Pushing was switched off.  With the network down the thread only sleeps.
PushOff ==
    /\ th = "top" /\ ~stop /\ net /\ ~g_push_start
    /\ rtmp # "null"
    /\ Disconnect("IDLE")
    /\ UNCHANGED <<keptVars, th, sps>>

Pushing == th = "top" /\ ~stop /\ net /\ g_push_start

\* rtmp_connect_server up to the blocking RTMP_Connect.
ConnectBegin ==
    /\ Pushing /\ rtmp # "connected"
    /\ th' = "connecting"
    /\ rtmp' = "allocated" /\ status' = "CONNECTING"
    /\ IF rtmp = "null"
       THEN UNCHANGED <<tsVars, link, sent_config, video_started, stream>>
       ELSE Release
    /\ UNCHANGED <<keptVars, sps>>

Reachable == net /\ server

\* Mutant: failures before the success still count
ConnectSucceedsUncounted(outcome) ==
    /\ th = "connecting" /\ Reachable
    /\ th' = "reading" /\ link' = (outcome = "connected")
    /\ rtmp' = outcome
    /\ status' = "CONNECTED"
    /\ failures' = 0
    /\ UNCHANGED <<appVars, envVars, tsVars, reconnect_attempts, video_shm_id,
                   sent_config, video_started, sps, stream>>

\* librtmp closes the connection when a send fails, here that of the metadata.
ConnectSucceeds(outcome) ==
    /\ th = "connecting" /\ Reachable
    /\ th' = "reading" /\ link' = (outcome = "connected")
    /\ rtmp' = outcome
    /\ status' = "CONNECTED"
    /\ reconnect_attempts' = 0 /\ failures' = 0
    /\ UNCHANGED <<appVars, envVars, tsVars, video_shm_id, sent_config,
                   video_started, sps, stream>>

\* The counters stop counting once they have passed every comparison.
Bump(n) == IF n > max_reconnect_times /\ n > 0 THEN n ELSE n + 1

\* Mutant: the test for "no limit" is missing
IsLastAttemptUnguarded(attempts) == attempts > max_reconnect_times
IsLastAttempt(attempts) ==
    max_reconnect_times >= 0 /\ attempts > max_reconnect_times

\* The status ERROR is overwritten when the thread exits.
ConnectFails ==
    /\ th = "connecting" /\ ~Reachable
    /\ reconnect_attempts' = Bump(reconnect_attempts)
    /\ failures' = Bump(failures)
    /\ IF IsLastAttempt(reconnect_attempts')
       THEN th' = "exiting" /\ Disconnect("ERROR")
       ELSE th' = "asleep" /\ Disconnect("DISCONNECTED")
    /\ UNCHANGED <<appVars, envVars, sps, video_shm_id>>

\* Nothing is looked at while it sleeps between two attempts.
WakeUp ==
    /\ th = "asleep" /\ th' = "top"
    /\ UNCHANGED <<keptVars, connVars, sps>>

StillConnected ==
    /\ Pushing /\ rtmp = "connected"
    /\ th' = "reading"
    /\ UNCHANGED <<keptVars, connVars, sps>>

-----------------------------------------------------------------------------
(* Reading frames: "reading" is the head of the inner loop. *)

Reading == th = "reading" /\ ~stop

ReadStops ==
    /\ th = "reading" /\ stop
    /\ th' = "top"
    /\ UNCHANGED <<keptVars, connVars, sps>>

\* No new frame, a frame that is too large, or an error: each ends the loop,
\* so the limit on consecutive errors is never reached.
NoFrame ==
    /\ Reading /\ th' = "top"
    /\ UNCHANGED <<keptVars, connVars, sps>>

\* ctx->sps after a frame; a key frame without readable SPS or PPS clears it.
SpsAfter(key, parsed) ==
    IF ~key THEN sps ELSE IF parsed THEN encoder ELSE 0

HasConfig(key, parsed) == sent_config \/ SpsAfter(key, parsed) # 0
MaySend == rtmp = "connected"
MayFail == rtmp # "connected" \/ ~link

\* Nothing can be sent yet.
WaitForConfig(key, parsed) ==
    /\ Reading /\ video_shm_id /\ ~HasConfig(key, parsed)
    /\ th' = "top"
    /\ sps' = SpsAfter(key, parsed)
    /\ UNCHANGED <<keptVars, connVars>>

\* rtmp_send_avc_config, unless it was sent.
SendConfig(version) ==
    /\ sent_config' = TRUE
    /\ stream' = IF sent_config THEN stream
                 ELSE [stream EXCEPT !.config = version]

\* The configuration goes out, the frame does not: it is no key frame.
WaitForKey ==
    /\ Reading /\ video_shm_id /\ HasConfig(FALSE, FALSE) /\ ~video_started
    /\ sent_config \/ MaySend
    /\ th' = "top"
    /\ SendConfig(sps)
    /\ UNCHANGED <<keptVars, tsVars, rtmp, status, video_started, sps, link>>

\* Mutant: the value 2^32 itself does not wrap
WrapLate(total) == IF total > TsMod THEN total % TsMod ELSE total
\* Mutant: above 32 bits the timestamp stays at the limit
WrapTruncated(total) == IF total >= TsMod THEN TsMod - 1 ELSE total
Wrap(total) == total % TsMod

\* What counts of the step of a clock since the last frame.
Delta(step) == IF step \in 1..(MaxDelta - 1) THEN step ELSE Interval

\* rtmp_next_video_timestamp
NextTimestamp(sys, video) ==
    IF video_started /\ video_ts_initialized
    THEN Wrap(total_video_timestamp + (Delta(sys) + Delta(video)) \div 2)
    ELSE 0

\* A frame is sent.  `sys` and `video` are the steps of the system's and of the
\* encoder's clock since the last frame; clocks may jump, so they may be
\* anything, and 0 is a clock that stood still, went back or is unknown.
SendFrame(key, parsed, sys, video) ==
    /\ Reading /\ video_shm_id /\ HasConfig(key, parsed)
    /\ video_started \/ key
    /\ MaySend
    /\ th' = "reading" /\ status' = "PUSHING"
    /\ sps' = SpsAfter(key, parsed)
    /\ sent_config' = TRUE /\ video_started' = TRUE
    /\ total_video_timestamp' = NextTimestamp(sys, video)
    /\ video_ts_initialized' = TRUE
    /\ stream' = [config |-> IF sent_config THEN stream.config ELSE sps',
                  key |-> IF stream.key = 0 /\ key THEN encoder ELSE stream.key,
                  last |-> total_video_timestamp',
                  parity |-> 1 - stream.parity]
    /\ UNCHANGED <<keptVars, rtmp, link>>

\* The configuration or the frame cannot be sent.
SendFails(key, parsed) ==
    /\ Reading /\ video_shm_id /\ HasConfig(key, parsed)
    /\ ~sent_config \/ video_started \/ key
    /\ MayFail
    /\ th' = "top"
    /\ sps' = SpsAfter(key, parsed)
    /\ Disconnect("DISCONNECTED")
    /\ UNCHANGED keptVars

\* The end of rtmp_push_thread.
ExitThread ==
    /\ th = "exiting" /\ th' = "off"
    /\ video_shm_id' = FALSE
    /\ Disconnect("IDLE")
    /\ UNCHANGED <<appVars, envVars, countVars, sps>>

-----------------------------------------------------------------------------
(* What surrounds them. *)

\* The network and the server come and go; a connection does not survive that.
Surroundings ==
    /\ net' \in BOOLEAN /\ server' \in BOOLEAN
    /\ <<net, server>>' # <<net, server>>
    /\ link' = (link /\ net' /\ server')
    /\ UNCHANGED <<appVars, countVars, tsVars, th, rtmp, video_shm_id, status,
                   sent_config, video_started, sps, stream, g_push_start,
                   encoder>>

\* rtmp_push_set
PushSet ==
    /\ g_push_start' = ~g_push_start
    /\ UNCHANGED <<connVars, appVars, countVars, th, video_shm_id, sps, net,
                   server, encoder>>

\* The encoder starts to use another parameter set, with its next key frame.
Reconfigure ==
    /\ encoder' \in Versions \ {encoder}
    /\ UNCHANGED <<connVars, appVars, countVars, th, video_shm_id, sps, net,
                   server, g_push_start>>

-----------------------------------------------------------------------------
Init ==
    /\ ctx = "none" /\ op = "none"
    /\ stop = FALSE /\ thread_started = FALSE /\ max_reconnect_times = -1
    /\ th = "off" /\ rtmp = "null" /\ status = "IDLE"
    /\ sent_config = FALSE /\ video_started = FALSE /\ sps = 0
    /\ reconnect_attempts = 0 /\ failures = 0 /\ video_shm_id = FALSE
    /\ total_video_timestamp = 0 /\ video_ts_initialized = FALSE
    /\ stream = NoFrames
    /\ net \in BOOLEAN /\ server \in BOOLEAN
    /\ link = FALSE /\ g_push_start = FALSE
    /\ encoder \in Versions

Application ==
    \/ \E max \in MaxReconnects : Create(max)
    \/ Start
    \/ \E call \in {"stop", "destroy"} : StopCall(call)

ReadLoop ==
    \/ ReadStops
    \/ NoFrame
    \/ WaitForKey
    \/ \E key, parsed \in BOOLEAN :
         \/ WaitForConfig(key, parsed)
         \/ SendFails(key, parsed)
         \/ \E sys, video \in 0..MaxDelta : SendFrame(key, parsed, sys, video)

Thread ==
    \/ InitVideo \/ LoopEnds \/ PushOff
    \/ ConnectBegin \/ ConnectFails
    \/ \E outcome \in {"connected", "closed"} : ConnectSucceeds(outcome)
    \/ WakeUp \/ StillConnected
    \/ ReadLoop
    \/ ExitThread

Next ==
    \/ Application
    \/ Joined
    \/ Thread
    \/ Surroundings \/ PushSet \/ Reconfigure

\* The thread is scheduled and its sleeps end, RTMP_Connect returns (it has a
\* timeout) and a server that is up accepts a connection sooner or later, an
\* encoder keeps producing key frames with their parameter sets, and TCP does
\* not accept data for a broken connection for ever.
Fairness ==
    /\ WF_vars(Joined)
    /\ WF_vars(Thread)
    /\ SF_vars(ConnectSucceeds("connected"))
    /\ SF_vars(\E sys, video \in 0..MaxDelta :
                 SendFrame(TRUE, TRUE, sys, video))
    /\ SF_vars(\E key, parsed \in BOOLEAN : SendFails(key, parsed))

Spec == Init /\ [][Next]_vars
FairSpec == Spec /\ Fairness

-----------------------------------------------------------------------------
(* Properties. *)

AppTypeOK ==
    /\ ctx \in {"none", "live"} /\ op \in {"none", "stop", "destroy"}
    /\ thread_started \in BOOLEAN /\ stop \in BOOLEAN
    /\ max_reconnect_times \in MaxReconnects \cup {-1}
EnvTypeOK ==
    /\ net \in BOOLEAN /\ server \in BOOLEAN
    /\ g_push_start \in BOOLEAN /\ encoder \in Versions
CountTypeOK == reconnect_attempts \in Nat /\ failures \in Nat
ConnTypeOK ==
    /\ rtmp \in {"null", "allocated", "connected", "closed"}
    /\ link \in BOOLEAN /\ status \in Statuses
    /\ sent_config \in BOOLEAN /\ video_started \in BOOLEAN
    /\ total_video_timestamp \in 0..(TsMod - 1)
    /\ video_ts_initialized \in BOOLEAN
    /\ stream \in Streams

\* The type invariant.
RtmpTypeOK ==
    /\ AppTypeOK /\ EnvTypeOK /\ CountTypeOK /\ ConnTypeOK
    /\ th \in Threads /\ video_shm_id \in BOOLEAN /\ sps \in Versions \cup {0}

\* On every connection, the first frame comes after a configuration (perhaps
\* that of an earlier connection) and is a key frame: what the flags that
\* rtmp_disconnect clears are for.
ConfigAndKeyFirst ==
    stream.last >= 0 => stream.config # 0 /\ stream.key # 0

\* A thread runs only in a context that exists and that some call will join.
ContextOutlivesThread ==
    th # "off" => ctx = "live" /\ thread_started

\* Within a connection timestamps go forward by at most a second, modulo
\* 2^32, whatever the clocks of the system and of the encoder do.
TimestampsAdvance ==
    [][stream'.parity # stream.parity /\ stream.last >= 0 /\ stream'.last >= 0
         => (stream'.last - stream.last) % TsMod \in 1..MaxDelta]_vars

\* Unless it is told to stop, the thread ends only after more failures in a
\* row than configured, and never without a limit.
GivesUpOnlyAfterRow ==
    [][th' = "exiting" /\ th # "exiting" /\ ~stop
         => max_reconnect_times >= 0 /\ failures' > max_reconnect_times]_vars

\* rtmp_stop and rtmp_destroy return: the thread always gets to look at stop.
StopReturns == op # "none" ~> op = "none"

Healthy ==
    /\ ctx = "live" /\ thread_started /\ ~stop /\ max_reconnect_times = -1
    /\ net /\ server /\ g_push_start
    /\ th = "reading" => video_shm_id

\* After any outage a pusher without a limit comes back to pushing over a live
\* connection, once network and server stay up.
PushResumes == <>[]Healthy => <>[](status = "PUSHING" /\ link)
=============================================================================
