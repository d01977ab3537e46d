--------------------------- MODULE RtmpPushProofs ---------------------------
(***************************************************************************)
(* What holds of the RTMP pusher for all numbers of attempts, parameter    *)
(* sets, timestamp widths and frame intervals.  RtmpInv is inductive: the  *)
(* flags of the context tell what was sent on the connection, the last     *)
(* timestamp sent is the one the context remembers, and the counter of     *)
(* attempts is the number of failures in a row.                            *)
(***************************************************************************)
EXTENDS RtmpPush, TLAPS

FlagsTell ==
    /\ sent_config => stream.config # 0
    /\ video_started => stream.key # 0

LastIsRemembered ==
    stream.last >= 0 => /\ video_started /\ video_ts_initialized
                        /\ stream.last = total_video_timestamp

CountsTheRow == reconnect_attempts = failures

RtmpInv ==
    /\ RtmpTypeOK
    /\ ContextOutlivesThread
    /\ FlagsTell
    /\ ConfigAndKeyFirst
    /\ LastIsRemembered
    /\ CountsTheRow

-----------------------------------------------------------------------------
(* Arithmetic of timestamps. *)

\* What % does to a sum that passes the modulus at most once.
LEMMA ModOnce ==
    ASSUME NEW m \in Nat \ {0}, NEW x \in Int
    PROVE  /\ x \in 0..(m - 1) => x % m = x
           /\ x \in (-m)..(-1) => x % m = x + m
           /\ x % m \in 0..(m - 1)
  OBVIOUS

LEMMA ModAbove ==
    ASSUME NEW m \in Nat \ {0}, NEW x \in Int, x >= m, x < 2 * m
    PROVE  x % m = x - m
  OBVIOUS

\* A delta that counts is at least 1 ms and at most a second.
LEMMA DeltaBound ==
    ASSUME NEW step \in Int
    PROVE  Delta(step) \in 1..MaxDelta
  BY RtmpAssumption DEF Delta

LEMMA NextTimestampType ==
    ASSUME total_video_timestamp \in 0..(TsMod - 1),
           NEW sys \in Int, NEW video \in Int
    PROVE  NextTimestamp(sys, video) \in 0..(TsMod - 1)
<1>1. TsMod \in Nat \ {0}  BY RtmpAssumption
<1>2. Delta(sys) \in 1..MaxDelta /\ Delta(video) \in 1..MaxDelta  BY DeltaBound
<1> DEFINE total == total_video_timestamp + (Delta(sys) + Delta(video)) \div 2
<1>3. total \in Int  BY <1>1, <1>2, RtmpAssumption
<1>4. total % TsMod \in 0..(TsMod - 1)
  <2> HIDE DEF total
  <2> QED  BY <1>1, <1>3, ModOnce
<1> QED  BY <1>1, <1>4 DEF NextTimestamp, Wrap

\* Between two frames of a connection the timestamp advances by 1..MaxDelta.
LEMMA NextTimestampAdvances ==
    ASSUME total_video_timestamp \in 0..(TsMod - 1),
           video_started, video_ts_initialized,
           NEW sys \in Int, NEW video \in Int
    PROVE  (NextTimestamp(sys, video) - total_video_timestamp) % TsMod
             \in 1..MaxDelta
<1> DEFINE d == (Delta(sys) + Delta(video)) \div 2
           t == total_video_timestamp
<1>1. /\ TsMod \in Nat \ {0} /\ MaxDelta \in Nat /\ TsMod >= 2 * MaxDelta
      /\ MaxDelta < TsMod
  BY RtmpAssumption
<1>2. d \in 1..MaxDelta
  <2>1. Delta(sys) \in 1..MaxDelta /\ Delta(video) \in 1..MaxDelta
    BY DeltaBound
  <2> QED  BY <2>1, <1>1
<1>3. NextTimestamp(sys, video) = (t + d) % TsMod
  BY DEF NextTimestamp, Wrap
<1> HIDE DEF d
<1>4. d % TsMod = d
  <2>1. d \in Int /\ d \in 0..(TsMod - 1)  BY <1>1, <1>2
  <2> QED  BY <2>1, <1>1, ModOnce
<1>5. CASE t + d < TsMod
  <2>1. t + d \in Int /\ t + d \in 0..(TsMod - 1)  BY <1>1, <1>2, <1>5
  <2>2. (t + d) % TsMod = t + d  BY <2>1, <1>1, ModOnce
  <2>3. (t + d) - t = d  BY <1>1, <1>2
  <2> QED  BY <2>2, <2>3, <1>2, <1>3, <1>4
<1>6. CASE t + d >= TsMod
  <2>1. t + d \in Int /\ t + d < 2 * TsMod  BY <1>1, <1>2
  <2>2. (t + d) % TsMod = (t + d) - TsMod
    <3> DEFINE u == t + d
    <3>1. u \in Int /\ u >= TsMod /\ u < 2 * TsMod  BY <2>1, <1>6
    <3> HIDE DEF u
    <3>2. u % TsMod = u - TsMod  BY <3>1, <1>1, ModAbove
    <3> QED  BY <3>2 DEF u
  <2>3. d - TsMod \in Int /\ d - TsMod \in (-TsMod)..(-1)  BY <1>1, <1>2
  <2>4. (d - TsMod) % TsMod = (d - TsMod) + TsMod  BY <2>3, <1>1, ModOnce
  <2>5. (d - TsMod) + TsMod = d  BY <1>1, <1>2
  <2>6. NextTimestamp(sys, video) = (t + d) - TsMod  BY <1>3, <2>2
  <2>7. NextTimestamp(sys, video) - t = d - TsMod  BY <2>6, <1>1, <1>2
  <2>8. (NextTimestamp(sys, video) - t) % TsMod = d  BY <2>4, <2>5, <2>7
  <2> QED  BY <2>8, <1>2
<1> QED  BY <1>1, <1>2, <1>5, <1>6

-----------------------------------------------------------------------------
(* The invariant. *)

LEMMA NoFramesType == NoFrames \in Streams
  BY RtmpAssumption DEF NoFrames, Streams

LEMMA RtmpInitInv == Init => RtmpInv
<1> SUFFICES ASSUME Init PROVE RtmpInv  OBVIOUS
<1> USE DEF Init
<1>1. RtmpTypeOK
  <2>1. AppTypeOK  BY DEF AppTypeOK
  <2>2. EnvTypeOK  BY DEF EnvTypeOK
  <2>3. CountTypeOK  BY DEF CountTypeOK
  <2>4. stream \in Streams /\ total_video_timestamp \in 0..(TsMod - 1)
    BY NoFramesType, RtmpAssumption
  <2>5. ConnTypeOK  BY <2>4 DEF ConnTypeOK, Statuses
  <2> QED  BY <2>1, <2>2, <2>3, <2>5 DEF RtmpTypeOK, Threads
<1>2. ContextOutlivesThread  BY DEF ContextOutlivesThread
<1>3. FlagsTell /\ ConfigAndKeyFirst /\ LastIsRemembered
  BY DEF FlagsTell, ConfigAndKeyFirst, LastIsRemembered, NoFrames
<1>4. CountsTheRow  BY DEF CountsTheRow
<1> QED  BY <1>1, <1>2, <1>3, <1>4 DEF RtmpInv

\* The parts of the type invariant that a step leaves alone.
LEMMA AppKept == AppTypeOK /\ UNCHANGED appVars => AppTypeOK'
  BY DEF AppTypeOK, appVars
LEMMA EnvKept == EnvTypeOK /\ UNCHANGED envVars => EnvTypeOK'
  BY DEF EnvTypeOK, envVars
LEMMA CountKept ==
    ASSUME CountTypeOK, CountsTheRow, UNCHANGED countVars
    PROVE  CountTypeOK' /\ CountsTheRow'
  BY DEF CountTypeOK, CountsTheRow, countVars
LEMMA ContextKept ==
    ASSUME ContextOutlivesThread, UNCHANGED appVars, th # "off"
    PROVE  ContextOutlivesThread'
  BY DEF ContextOutlivesThread, appVars

\* What the invariant says of a connection.
ConnInv ==
    /\ ConnTypeOK
    /\ FlagsTell
    /\ ConfigAndKeyFirst
    /\ LastIsRemembered

LEMMA ConnKept == ConnInv /\ UNCHANGED connVars => ConnInv'
  BY DEF ConnInv, ConnTypeOK, FlagsTell, ConfigAndKeyFirst, LastIsRemembered,
         connVars, tsVars

\* A connection that is given up leaves nothing to be remembered.
LEMMA Released ==
    ASSUME Release, rtmp' \in {"null", "allocated"}, status' \in Statuses
    PROVE  ConnInv'
<1>1. /\ link' = FALSE /\ sent_config' = FALSE /\ video_started' = FALSE
      /\ total_video_timestamp' = 0 /\ video_ts_initialized' = FALSE
      /\ stream' = NoFrames /\ stream'.last = -1
  BY DEF Release, ResetTimestamps, NoFrames
<1>2. stream' \in Streams /\ total_video_timestamp' \in 0..(TsMod - 1)
  BY <1>1, NoFramesType, RtmpAssumption
<1>3. ConnTypeOK'  BY <1>1, <1>2 DEF ConnTypeOK
<1>4. FlagsTell' /\ ConfigAndKeyFirst' /\ LastIsRemembered'
  BY <1>1 DEF FlagsTell, ConfigAndKeyFirst, LastIsRemembered
<1> QED  BY <1>3, <1>4 DEF ConnInv

LEMMA Disconnected ==
    ASSUME NEW next \in Statuses, Disconnect(next)
    PROVE  ConnInv'
  BY Released DEF Disconnect

-----------------------------------------------------------------------------
(* Steps of the application. *)

LEMMA CreateStep ==
    ASSUME RtmpInv, NEW max \in MaxReconnects, Create(max)
    PROVE  RtmpInv'
<1> USE DEF Create, RtmpInv, RtmpTypeOK
<1>1. AppTypeOK'  BY DEF AppTypeOK
<1>2. CountTypeOK' /\ CountsTheRow'  BY DEF CountTypeOK, CountsTheRow
<1>3. ConnTypeOK'  BY DEF ConnTypeOK, Statuses, tsVars
<1>4. FlagsTell' /\ ConfigAndKeyFirst' /\ LastIsRemembered'
  BY DEF FlagsTell, ConfigAndKeyFirst, LastIsRemembered, tsVars
<1>5. ContextOutlivesThread'  BY DEF ContextOutlivesThread
<1> QED  BY <1>1, <1>2, <1>3, <1>4, <1>5, EnvKept

LEMMA StartStep ==
    ASSUME RtmpInv, Start
    PROVE  RtmpInv'
<1> USE DEF Start, RtmpInv, RtmpTypeOK
<1>1. AppTypeOK'  BY DEF AppTypeOK
<1>2. ConnInv'  BY ConnKept DEF ConnInv
<1>3. ContextOutlivesThread'  BY DEF ContextOutlivesThread
<1> QED  BY <1>1, <1>2, <1>3, EnvKept, CountKept DEF ConnInv, Threads

LEMMA StopCallStep ==
    ASSUME RtmpInv, NEW call \in {"stop", "destroy"}, StopCall(call)
    PROVE  RtmpInv'
<1> USE DEF StopCall, RtmpInv, RtmpTypeOK
<1>1. AppTypeOK'  BY DEF AppTypeOK
<1>2. ConnInv'  BY ConnKept DEF ConnInv
<1>3. ContextOutlivesThread'  BY DEF ContextOutlivesThread
<1> QED  BY <1>1, <1>2, <1>3, EnvKept, CountKept DEF ConnInv

LEMMA JoinedStep ==
    ASSUME RtmpInv, Joined
    PROVE  RtmpInv'
<1> USE DEF RtmpInv, RtmpTypeOK
<1>1. ContextOutlivesThread'  BY DEF Joined, ContextOutlivesThread
<1>2. AppTypeOK'  BY DEF Joined, AppTypeOK
<1>3. ConnInv' /\ video_shm_id' \in BOOLEAN /\ sps' = sps
  <2>1. CASE op = "stop"
    BY <2>1, ConnKept DEF Joined, ConnInv
  <2>2. CASE op # "stop"
    BY <2>2, Disconnected DEF Joined, Statuses
  <2> QED  BY <2>1, <2>2
<1> QED  BY <1>1, <1>2, <1>3, EnvKept, CountKept DEF Joined, ConnInv

-----------------------------------------------------------------------------
(* Steps of the thread. *)

\* The thread goes on in the context it runs in.
LEMMA ThreadStep ==
    ASSUME RtmpInv, UNCHANGED <<appVars, envVars>>, th # "off", th' \in Threads,
           CountTypeOK' /\ CountsTheRow', ConnInv',
           video_shm_id' \in BOOLEAN, sps' \in Versions \cup {0}
    PROVE  RtmpInv'
<1> USE DEF RtmpInv, RtmpTypeOK
<1> QED  BY AppKept, EnvKept, ContextKept DEF ConnInv

\* A step that only moves the thread.
LEMMA MoveStep ==
    ASSUME RtmpInv, UNCHANGED <<appVars, envVars, countVars, connVars, sps>>,
           th # "off", th' \in Threads, video_shm_id' \in BOOLEAN
    PROVE  RtmpInv'
<1>1. CountTypeOK' /\ CountsTheRow'  BY CountKept DEF RtmpInv, RtmpTypeOK
<1>2. ConnInv'  BY ConnKept DEF RtmpInv, RtmpTypeOK, ConnInv
<1>3. sps' \in Versions \cup {0}  BY DEF RtmpInv, RtmpTypeOK
<1> QED  BY <1>1, <1>2, <1>3, ThreadStep

LEMMA ConnectStep ==
    ASSUME RtmpInv,
           \/ ConnectBegin
           \/ \E outcome \in {"connected", "closed"} : ConnectSucceeds(outcome)
           \/ ConnectFails
    PROVE  RtmpInv'
<1> USE DEF RtmpInv, RtmpTypeOK
<1>1. ASSUME ConnectBegin PROVE RtmpInv'
  <2>1. CountTypeOK' /\ CountsTheRow' /\ UNCHANGED <<appVars, envVars>>
    BY <1>1, CountKept DEF ConnectBegin, keptVars
  <2>2. ConnInv'
    <3>1. CASE rtmp = "null"
      BY <1>1, <3>1
      DEF ConnectBegin, ConnInv, ConnTypeOK, FlagsTell, ConfigAndKeyFirst,
          LastIsRemembered, tsVars, Statuses
    <3>2. CASE rtmp # "null"
      BY <1>1, <3>2, Released DEF ConnectBegin, Statuses
    <3> QED  BY <3>1, <3>2
  <2> QED  BY <1>1, <2>1, <2>2, ThreadStep
           DEF ConnectBegin, Pushing, Threads, keptVars
<1>2. ASSUME NEW outcome \in {"connected", "closed"}, ConnectSucceeds(outcome)
      PROVE  RtmpInv'
  <2>1. CountTypeOK' /\ CountsTheRow'
    BY <1>2 DEF ConnectSucceeds, CountTypeOK, CountsTheRow
  <2>2. ConnTypeOK'
    BY <1>2 DEF ConnectSucceeds, ConnTypeOK, tsVars, Statuses
  <2>3. FlagsTell' /\ ConfigAndKeyFirst' /\ LastIsRemembered'
    BY <1>2 DEF ConnectSucceeds, FlagsTell, ConfigAndKeyFirst, LastIsRemembered,
                tsVars
  <2> QED  BY <1>2, <2>1, <2>2, <2>3, ThreadStep
           DEF ConnectSucceeds, ConnInv, Threads
<1>3. ASSUME ConnectFails PROVE RtmpInv'
  <2>1. CountTypeOK' /\ CountsTheRow'
    <3>1. max_reconnect_times \in Int  BY RtmpAssumption DEF AppTypeOK
    <3> QED  BY <1>3, <3>1 DEF ConnectFails, CountTypeOK, CountsTheRow, Bump
  <2>2. ConnInv' /\ th' \in Threads
    <3>1. \/ th' = "exiting" /\ Disconnect("ERROR")
          \/ th' = "asleep" /\ Disconnect("DISCONNECTED")
      BY <1>3 DEF ConnectFails
    <3> QED  BY <3>1, Disconnected DEF Statuses, Threads
  <2> QED  BY <1>3, <2>1, <2>2, ThreadStep DEF ConnectFails
<1> QED  BY <1>1, <1>2, <1>3

\* A frame goes out: the flags, the stream and the timestamp move together.
LEMMA SendFrameStep ==
    ASSUME RtmpInv, NEW key \in BOOLEAN, NEW parsed \in BOOLEAN,
           NEW sys \in 0..MaxDelta, NEW video \in 0..MaxDelta,
           SendFrame(key, parsed, sys, video)
    PROVE  RtmpInv'
<1> USE DEF RtmpInv, RtmpTypeOK
<1>1. CountTypeOK' /\ CountsTheRow' /\ UNCHANGED <<appVars, envVars>>
  BY CountKept DEF SendFrame, keptVars
<1>2. sps' \in Versions \cup {0}
  BY DEF SendFrame, SpsAfter, EnvTypeOK
<1>3. total_video_timestamp' \in 0..(TsMod - 1)
  BY NextTimestampType, RtmpAssumption DEF SendFrame, ConnTypeOK
<1>4. /\ stream'.config = IF sent_config THEN stream.config ELSE sps'
      /\ stream'.key = IF stream.key = 0 /\ key THEN encoder ELSE stream.key
      /\ stream'.last = total_video_timestamp'
  BY DEF SendFrame
<1>5. stream' \in Streams
  <2>1. stream \in Streams /\ encoder \in Versions  BY DEF ConnTypeOK, EnvTypeOK
  <2>2. 1 - stream.parity \in {0, 1}  BY <2>1 DEF Streams
  <2> QED  BY <1>2, <1>3, <2>1, <2>2, RtmpAssumption DEF SendFrame, Streams
<1>6. stream'.config # 0 /\ stream'.key # 0
  <2>1. encoder # 0  BY RtmpAssumption DEF EnvTypeOK
  <2>2. stream'.config # 0
    BY <1>4 DEF SendFrame, HasConfig, FlagsTell
  <2>3. stream'.key # 0
    BY <1>4, <2>1 DEF SendFrame, FlagsTell
  <2> QED  BY <2>2, <2>3
<1>7. ConnTypeOK'
  BY <1>3, <1>5 DEF SendFrame, ConnTypeOK, Statuses
<1>8. FlagsTell' /\ ConfigAndKeyFirst' /\ LastIsRemembered'
  BY <1>4, <1>6 DEF SendFrame, FlagsTell, ConfigAndKeyFirst, LastIsRemembered
<1> QED  BY <1>1, <1>2, <1>7, <1>8, ThreadStep
         DEF SendFrame, Reading, Threads, keptVars, ConnInv

LEMMA ReadLoopStep ==
    ASSUME RtmpInv, ReadLoop
    PROVE  RtmpInv'
<1> USE DEF RtmpInv, RtmpTypeOK
<1>1. CASE ReadStops \/ NoFrame
  BY <1>1, MoveStep DEF ReadStops, NoFrame, Reading, Threads, keptVars
<1>2. CASE WaitForKey
  <2>1. CountTypeOK' /\ CountsTheRow' /\ UNCHANGED <<appVars, envVars>>
    BY <1>2, CountKept DEF WaitForKey, keptVars
  <2>2. sps \in Versions \cup {0} /\ stream \in Streams  BY DEF ConnTypeOK
  <2>3. /\ stream' \in Streams /\ stream'.config # 0
        /\ stream'.key = stream.key /\ stream'.last = stream.last
    <3>1. CASE sent_config
      BY <1>2, <2>2, <3>1 DEF WaitForKey, SendConfig, FlagsTell
    <3>2. CASE ~sent_config
      <4>1. sps # 0  BY <1>2, <3>2 DEF WaitForKey, HasConfig, SpsAfter
      <4>2. stream' = [stream EXCEPT !.config = sps]
        BY <1>2, <3>2 DEF WaitForKey, SendConfig
      <4> QED  BY <2>2, <4>1, <4>2 DEF Streams
    <3> QED  BY <3>1, <3>2
  <2>4. ConnTypeOK'
    BY <1>2, <2>3 DEF WaitForKey, SendConfig, ConnTypeOK, tsVars
  <2>5. FlagsTell' /\ ConfigAndKeyFirst' /\ LastIsRemembered'
    BY <1>2, <2>3 DEF WaitForKey, SendConfig, FlagsTell, ConfigAndKeyFirst,
                      LastIsRemembered, tsVars
  <2> QED  BY <1>2, <2>1, <2>4, <2>5, ThreadStep
           DEF WaitForKey, Reading, Threads, keptVars, ConnInv
<1>3. ASSUME NEW key \in BOOLEAN, NEW parsed \in BOOLEAN,
             WaitForConfig(key, parsed)
      PROVE  RtmpInv'
  <2>1. CountTypeOK' /\ CountsTheRow' /\ UNCHANGED <<appVars, envVars>>
    BY <1>3, CountKept DEF WaitForConfig, keptVars
  <2>2. ConnInv'  BY <1>3, ConnKept DEF WaitForConfig, ConnInv
  <2>3. sps' \in Versions \cup {0}
    BY <1>3 DEF WaitForConfig, SpsAfter, EnvTypeOK
  <2> QED  BY <1>3, <2>1, <2>2, <2>3, ThreadStep
           DEF WaitForConfig, Reading, Threads, keptVars
<1>4. ASSUME NEW key \in BOOLEAN, NEW parsed \in BOOLEAN,
             SendFails(key, parsed)
      PROVE  RtmpInv'
  <2>1. CountTypeOK' /\ CountsTheRow' /\ UNCHANGED <<appVars, envVars>>
    BY <1>4, CountKept DEF SendFails, keptVars
  <2>2. ConnInv'  BY <1>4, Disconnected DEF SendFails, Statuses
  <2>3. sps' \in Versions \cup {0}
    BY <1>4 DEF SendFails, SpsAfter, EnvTypeOK
  <2> QED  BY <1>4, <2>1, <2>2, <2>3, ThreadStep
           DEF SendFails, Reading, Threads, keptVars
<1> QED  BY <1>1, <1>2, <1>3, <1>4, SendFrameStep DEF ReadLoop

LEMMA EnvironmentStep ==
    ASSUME RtmpInv, Surroundings \/ PushSet \/ Reconfigure
    PROVE  RtmpInv'
<1> USE DEF RtmpInv, RtmpTypeOK
<1>1. EnvTypeOK'
  BY DEF Surroundings, PushSet, Reconfigure, EnvTypeOK
<1>2. AppTypeOK' /\ CountTypeOK' /\ CountsTheRow' /\ ContextOutlivesThread'
  BY AppKept, CountKept
  DEF Surroundings, PushSet, Reconfigure, ContextOutlivesThread, appVars
<1>3. ConnInv'
  <2>1. CASE Surroundings
    BY <2>1
    DEF Surroundings, ConnInv, ConnTypeOK, FlagsTell, ConfigAndKeyFirst,
        LastIsRemembered, tsVars
  <2>2. CASE PushSet \/ Reconfigure
    BY <2>2, ConnKept DEF PushSet, Reconfigure, ConnInv
  <2> QED  BY <2>1, <2>2
<1> QED  BY <1>1, <1>2, <1>3 DEF Surroundings, PushSet, Reconfigure, ConnInv

LEMMA RtmpInvStep == RtmpInv /\ [Next]_vars => RtmpInv'
<1> SUFFICES ASSUME RtmpInv, [Next]_vars PROVE RtmpInv'  OBVIOUS
<1> USE DEF RtmpInv, RtmpTypeOK
<1>1. CASE Application
  BY <1>1, CreateStep, StartStep, StopCallStep DEF Application
<1>2. CASE Joined
  BY <1>2, JoinedStep
<1>3. CASE Thread
  <2>1. CASE InitVideo \/ LoopEnds \/ WakeUp \/ StillConnected
    BY <2>1, MoveStep
    DEF InitVideo, LoopEnds, WakeUp, StillConnected, Pushing, Threads, keptVars
  <2>2. CASE PushOff
    BY <2>2, Disconnected, CountKept, ThreadStep
    DEF PushOff, Statuses, Threads, keptVars
  <2>3. CASE ExitThread
    BY <2>3, Disconnected, CountKept, ThreadStep
    DEF ExitThread, Statuses, Threads
  <2> QED  BY <1>3, <2>1, <2>2, <2>3, ConnectStep, ReadLoopStep DEF Thread
<1>4. CASE Surroundings \/ PushSet \/ Reconfigure
  BY <1>4, EnvironmentStep
<1>5. CASE UNCHANGED vars
  <2>1. ConnInv'  BY <1>5, ConnKept DEF vars, ConnInv
  <2>2. UNCHANGED <<appVars, envVars, countVars, th, video_shm_id, sps>>
    BY <1>5 DEF vars, keptVars
  <2>3. ContextOutlivesThread'  BY <2>2 DEF ContextOutlivesThread, appVars
  <2> QED  BY <2>1, <2>2, <2>3, AppKept, EnvKept, CountKept DEF ConnInv
<1> QED  BY <1>1, <1>2, <1>3, <1>4, <1>5 DEF Next

-----------------------------------------------------------------------------
(* The theorems. *)

\* The inductive invariant: flags, timestamp and counter of the context say
\* what happened on the connection and to it.
THEOREM RtmpInvariant == Spec => []RtmpInv
  BY RtmpInitInv, RtmpInvStep, PTL DEF Spec

\* Types, and with them the counters and the 32 bits of a timestamp.
THEOREM RtmpTyped == Spec => []RtmpTypeOK
<1>1. RtmpInv => RtmpTypeOK  BY DEF RtmpInv
<1> QED  BY <1>1, RtmpInvariant, PTL

\* A connection starts with a configuration and a key frame.
THEOREM RtmpConfigFirst == Spec => []ConfigAndKeyFirst
<1>1. RtmpInv => ConfigAndKeyFirst  BY DEF RtmpInv
<1> QED  BY <1>1, RtmpInvariant, PTL

\* The context is there as long as its thread.
THEOREM RtmpContext == Spec => []ContextOutlivesThread
<1>1. RtmpInv => ContextOutlivesThread  BY DEF RtmpInv
<1> QED  BY <1>1, RtmpInvariant, PTL

\* Only sending a frame changes the stream of a connection that has one and
\* leaves it one.
LEMMA AdvanceStep ==
    ASSUME RtmpInv, Next, stream'.parity # stream.parity,
           stream.last >= 0, stream'.last >= 0
    PROVE  (stream'.last - stream.last) % TsMod \in 1..MaxDelta
<1>1. NoFrames.last = -1  BY DEF NoFrames
<1>2. stream' # NoFrames /\ stream' # stream  BY <1>1
<1>3. ~Release  BY <1>2 DEF Release
<1>4. ~UNCHANGED connVars  BY <1>2 DEF connVars
<1>5. ~(Application \/ Joined)
  BY <1>2, <1>3, <1>4
  DEF Application, Create, Start, StopCall, Joined, Disconnect
<1>6. ~(Surroundings \/ PushSet \/ Reconfigure)
  BY <1>2, <1>4 DEF Surroundings, PushSet, Reconfigure
<1>7. ~(InitVideo \/ LoopEnds \/ PushOff \/ WakeUp \/ StillConnected
        \/ ExitThread)
  BY <1>3, <1>4 DEF InitVideo, LoopEnds, PushOff, WakeUp, StillConnected,
                    ExitThread, Disconnect
<1>8. ~(ConnectBegin \/ ConnectFails
        \/ \E outcome \in {"connected", "closed"} : ConnectSucceeds(outcome))
  BY <1>2, <1>3 DEF ConnectBegin, ConnectFails, ConnectSucceeds, Disconnect
<1>9. ReadLoop
  BY <1>5, <1>6, <1>7, <1>8 DEF Next, Thread
<1>10. ~(ReadStops \/ NoFrame)
  BY <1>4 DEF ReadStops, NoFrame
<1>11. ~WaitForKey
  <2>1. stream \in Streams  BY DEF RtmpInv, RtmpTypeOK, ConnTypeOK
  <2> QED  BY <2>1 DEF WaitForKey, SendConfig, Streams
<1>12. ASSUME NEW key \in BOOLEAN, NEW parsed \in BOOLEAN
       PROVE  ~WaitForConfig(key, parsed) /\ ~SendFails(key, parsed)
  BY <1>3, <1>4 DEF WaitForConfig, SendFails, Disconnect
<1>13. PICK key \in BOOLEAN, parsed \in BOOLEAN,
            sys \in 0..MaxDelta, video \in 0..MaxDelta :
            SendFrame(key, parsed, sys, video)
  BY <1>9, <1>10, <1>11, <1>12 DEF ReadLoop
<1>14. /\ stream'.last = NextTimestamp(sys, video)
       /\ stream.last = total_video_timestamp
       /\ video_started /\ video_ts_initialized
       /\ total_video_timestamp \in 0..(TsMod - 1)
  BY <1>13 DEF SendFrame, RtmpInv, RtmpTypeOK, ConnTypeOK, LastIsRemembered
<1>15. sys \in Int /\ video \in Int  BY RtmpAssumption
<1> QED  BY <1>14, <1>15, NextTimestampAdvances

\* Whatever the clocks do, timestamps go forward and never far.
THEOREM RtmpAdvances == Spec => TimestampsAdvance
<1>1. RtmpInv /\ [Next]_vars
        => [stream'.parity # stream.parity /\ stream.last >= 0
              /\ stream'.last >= 0
            => (stream'.last - stream.last) % TsMod \in 1..MaxDelta]_vars
  BY AdvanceStep
<1> QED  BY <1>1, RtmpInvariant, PTL DEF Spec, TimestampsAdvance

\* The pusher gives up for no other reason than its limit.
THEOREM RtmpGivesUp == Spec => GivesUpOnlyAfterRow
<1>1. ASSUME RtmpInv, Next, th' = "exiting", th # "exiting", ~stop
      PROVE  max_reconnect_times >= 0 /\ failures' > max_reconnect_times
  <2>1. ~(Application \/ Joined \/ Surroundings \/ PushSet \/ Reconfigure)
    BY <1>1 DEF Application, Create, Start, StopCall, Joined, Surroundings,
                PushSet, Reconfigure
  <2>2. ~(InitVideo \/ LoopEnds \/ PushOff \/ WakeUp \/ StillConnected
          \/ ExitThread)
    BY <1>1 DEF InitVideo, LoopEnds, PushOff, WakeUp, StillConnected, ExitThread
  <2>3. ~ReadLoop
    BY <1>1 DEF ReadLoop, ReadStops, NoFrame, WaitForKey, WaitForConfig,
                SendFails, SendFrame
  <2>4. ~ConnectBegin
        /\ \A outcome \in {"connected", "closed"} : ~ConnectSucceeds(outcome)
    BY <1>1 DEF ConnectBegin, ConnectSucceeds
  <2>5. ConnectFails
    BY <1>1, <2>1, <2>2, <2>3, <2>4 DEF Next, Thread
  <2>6. IsLastAttempt(reconnect_attempts')
    BY <1>1, <2>5 DEF ConnectFails
  <2>7. failures' = reconnect_attempts'
    BY <1>1, <2>5 DEF ConnectFails, RtmpInv, CountsTheRow
  <2> QED  BY <2>6, <2>7 DEF IsLastAttempt
<1>2. RtmpInv /\ [Next]_vars
        => [th' = "exiting" /\ th # "exiting" /\ ~stop
              => max_reconnect_times >= 0 /\ failures' > max_reconnect_times]_vars
  BY <1>1
<1> QED  BY <1>2, RtmpInvariant, PTL DEF Spec, GivesUpOnlyAfterRow
=============================================================================
