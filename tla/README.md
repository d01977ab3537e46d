# Media_Study: TLA+ models

This directory holds TLA+ models of the *Media_Study* repository. Its GB28181 part: a camera-side
*device* (`gb28181_device_stateful.cpp`), the *platform* it registers with
(`gb28181_sip_mock_server.cpp`), the media module that cuts NALUs into RTP packets and owns the RTP
session (`gb28181_module.cpp`), and a straight-line client (`gb28181_sip_register_client.cpp`). Its
RTMP part: the pusher `src/MediaProtrocl/flv/joa_rtmp.c`. TLC checks them on small instances and
TLAPS proves the main invariants for every value of the constants. Paths below are relative to
`src/MediaProtrocl/GB28181/` unless they start with another directory.

- [Inventory](#inventory): the parts of the system, modelled or not
- [Plan](#plan): modules, order, runs, theorems; what is done and what is left
- [Modules](#modules): how state and actions correspond to the code
- [Runs](#runs): what each one checks, its bounds, its fairness
- [Findings](#findings)
- [Proofs](#proofs)
- [What is not modelled](#what-is-not-modelled)

Run a model with `tlc -config GbSystem.cfg GbSystem.tla` (the table of runs names module and
configuration) and check proofs with `tlapm GbDeviceSafety.tla`.

## Inventory

| component | state | operations | interacts through |
|---|---|---|---|
| **Resident device** `gb28181_device_stateful.cpp` | `gb_device_ctx_t`: one of eight states, SIP socket, retry/miss/backoff counters, five deadlines, RTP session handle, media file, cycle count | `handle_incoming` (one branch per state and message), `handle_state_timeout`, the `select` loop of `main` | SIP over UDP with the platform; the media module, called directly |
| **Platform: SIP** `gb28181_sip_mock_server.cpp` `main` | flags `registered`, `platform_invited`, `invited`, `acked` | one turn of the loop per datagram; queries, PTZ and pull INVITEs of its own | SIP over UDP |
| **Platform: RTP/FU** same file, 160-793 | `h264_fu_a_reassembly_t`: the NALU under construction, expected sequence number, reorder window of 8 slots, start time | `fu_a_reassembly_handle_packet`, `fu_a_reorder_push`, `fu_a_reorder_drain`, output to a file | RTP over UDP or TCP |
| **Platform: RTP over TCP** same file, 1446-1496 | one connection, `stream_buf`/`stream_len` | accept, recv, RFC 4571 framing | TCP; the RTP code above |
| **Platform: RTCP** same file, 795-988 | `rtcp_stats_t` | SR, RR, periodic report | RTCP over UDP |
| **Media module: RTP** `gb28181_module.cpp` 158-384, 1745-2032 | `gb28181_context_t`: jrtplib session, started flag | create/start/stop/destroy over UDP or TCP, send one packet, three kinds of fragmentation | jrtplib |
| **Media module: PS, SIP, XML** `gb28181_module.cpp` | none | pure builders and parsers | called by all programs |
| **Straight-line client** `gb28181_sip_register_client.cpp` | local variables | REGISTER, MESSAGEs, INVITE, ACK, media, BYE, each followed by one receive | SIP with the platform |
| **Minimal example** `gb28181_minimal_example.cpp` | none | calls of the media module in a row | media module |
| **RTMP pusher** `src/MediaProtrocl/flv/joa_rtmp.c` | `rtmp_context_t`, push thread, status under a lock, unlocked `stop` and `g_push_start` | start/stop/status from any thread, connect, reconnect, send configuration and frames | librtmp, shared-memory frames |
| **Converters** `src/Container/ts/ps2ts.py`, `src/MediaProtrocl/flv/ps2flv.py` | per file | PS to TS, PS to FLV in batch | files |
| **RTSP examples** `src/MediaProtrocl/RTSP/live555_minimal` | subsession iterator, sinks | OPTIONS/DESCRIBE/SETUP chain/PLAY callbacks | live555 event loop |

What is hard in them, and what makes them correct:

- **Device.** One thread and no locks, but every handler runs at a moment chosen by the network and
  the clock. Responses are matched by the device's *state*, never by Call-ID or CSeq, so a late or
  repeated answer is taken for another one. The loop sleeps until one stored deadline although
  several timers may be armed. Resources (socket, RTP session and its port, file) are taken and
  released in different handlers. Correct means: it never sleeps past a timer, every waiting state
  has a way out, the socket is open exactly when it is used, a streaming device owns its session and
  no other path keeps one, the reconnect delay grows until a registration, and the device stops
  only after the cycles it was asked for.
- **Platform.** Remembers its device in four flags that different datagrams set and clear; it may
  be restarted and has nothing on disk. Correct means: together with the device it agrees on
  registration and call whenever nothing is in flight, media flows only in accepted calls, a
  device it has forgotten comes back and a dead platform is noticed (with the code's intervals neither
  holds, see [Findings](#findings)).
- **Sender and reassembly.** Sequence numbers wrap, packets are lost, repeated and reordered, sends
  fail in the middle of a NALU, and the context survives from one NALU to the next. Correct means:
  only whole NALUs reach the file, in order and once, and a loss costs only the NALU it hits.
- **RTP session, TCP framing, RTCP.** A start that fails halfway must give back what it took; the
  stream is cut anywhere and breaks anywhere; counters of the platform run on while those of the
  device start again with every session. Correct means: the receiver sees the queue of packets that was
  sent, the printed loss is a real one, and ports come back.
- **Straight-line client.** One receive after each request, and whatever arrives is the answer.
  Correct means: it talks only while registered, its call is one the platform has accepted and ends
  with it, and it always ends.
- **RTMP pusher.** A thread that races its own start and stop, a connection that breaks between any
  two frames, flags that must be cleared with it, two clocks behind one 32-bit timestamp. Correct
  means: every connection starts with a configuration and a key frame, timestamps advance, the thread
  never outlives its context, `stop` returns, and an outage ends in pushing again.

`PROJECT.json` lists the hazards at their lines, each with the properties that would catch it.

## Plan

In the order of importance; all steps are done.

| step | modules | about |
|---|---|---|
| 1 | `GbSip`, `GbDevice`, `MCGbDevice` | the device alone, any datagram at any time |
| 2 | `GbPlatform`, `GbSystem` | the platform, and both joined by UDP |
| 3 | `GbDeviceProofs`, `GbDeviceSafety`, `GbDeviceTimers` | what holds of the device for all constants |
| 4 | `GbFuReassembly` | the reassembly context |
| 5 | `GbFuSender` | fragmentation and numbering of packets |
| 6 | `GbMedia`, `MCGbMedia`, `GbNaluFile` | sender, network and receiver together; shown to implement a file of NALUs |
| 7 | `RtmpPush`, `MCRtmpPush`, `RtmpPushProofs` | push thread against start, stop and destroy; reconnection, configuration before frames, timestamps |
| 8 | `GbRtpSession`, `GbTcpReceiver`, `GbRtcpStats` | the RTP session, RFC 4571 framing, RTP statistics |
| 9 | `GbPacketQueue`, `GbTransport`, `MCGbTransport` | the three of step 8 joined; framing shown to implement a queue of packets |
| 10 | `GbSipRegisterClient`, `GbClientSystem`, `GbClientProofs` | the straight-line client against `GbPlatform` |
| 11 | `GbSystemProofs` | device and platform for all constants |
| 12 | `GbTransportProofs` | framing, buffer and statistics for all packets and cuts |
| 13 | `GbMediaProofs` | fragmentation and reassembly for all streams |

Every invariant, action property and refinement that a passing run checks is also a theorem (and
`AckedOnlyInvited` is one without a run, since it is inductive as it stands); what is left to
TLC alone is liveness (see [Proofs](#proofs)).

## Modules

Names are those of the code: `TimeoutRegistered` is the case `GB_STATE_REGISTERED` of
`handle_state_timeout`, `RecvInviting` the case `GB_STATE_INVITING` of `handle_incoming`, and so on.
`PROJECT.json` gives the lines of every definition. An operator whose comment begins "Mutant" is a
variant of the definition after it with a plausible mistake; no specification uses it, and a
property is kept only if some mutant breaks it.

**`GbSip`**: SIP datagrams as records of the fields either side branches on: request or response,
method, status, whose Call-ID, and one value for what else is looked at (CmdType, `Expires: 0`,
presence of `Authorization`, ...). `Reply` is what copying the headers of a request yields.

**`GbDevice`**: a turn of the `select` loop is one action: `Receive(m)` (a datagram, handled by the
state's branch and, if none takes it, ignored), `RecvFails` (`recvfrom` failed), `Timeout` (nothing
was readable and a deadline is due). `Boot` is the code before the loop, `Exit` its end, `Tick` the
clock. Timers are the ticks left, `OFF` for the code's 0; the deadlines are only ever compared with
the time or set relative to it, so nothing is lost. `UseTcp` is the third argument of the program: RTP over an active
TCP connection. A system call in `Faults` may fail at every
call: opening the SIP socket, `sendto`, `recvfrom`, starting the RTP session, opening the media file. A
handler's effect on the socket, the session and the file is that of every function it calls. `lost_rtp`
and `lost_fp` count sessions and files no pointer leads to any more; they restrict the environment
(over UDP a lost session still holds the RTP port, so later starts fail; over TCP no port is bound and they
succeed beside it) and are what the leak properties speak of. `PromptLoop` says whether the clock may run on while a deadline is due.

**`GbPlatform`**: `Handle(m)` is one turn of the platform's loop on a SIP datagram, `ptx` the
datagrams it sends. Each branch is an operator of its own, `FollowUp` the requests
that follow the 200 of a MESSAGE.

**`GbSystem`** extends `GbDevice` and instantiates `GbPlatform`. What is sent goes to the sets
`to_plat` and `to_dev`, without order, until it is delivered; `network` says whether datagrams may
be lost, repeated or late. The platform may die and start again with its flags cleared.

**`GbFuReassembly`**: the disjuncts of `HandlePacket` are the paths through
`fu_a_reassembly_handle_packet`: `Start`, `MissingStart`, `DiscardStale` (time, number of fragments,
or timestamp), `IgnoreDuplicate`, `Store` in the window, `DiscardUnordered`, and `Continue` with the
stored fragments it drains. The drain loop is stated as its result: the longest run of stored
fragments that follows, up to and including one marked as the last (`Run`). `memcpy` cut at the end of the buffer
is `Buffered`. A fragment is cut behind the header of the codec under construction, whatever its own
(`Cut`): an H.265 fragment in an H.264 NALU keeps its FU header (the byte `FuHeader`), an H.264
fragment in an H.265 NALU loses its first byte. `expired` stands for the clock: it may become true at any time while a NALU is
under way and is read only when a fragment comes.

**`GbFuSender`**: `SendChunk` is one turn of the loop in the three fragmenting functions (or the one call
of `gb28181_send_rtp_packet`), `SendChunkFails` a failed `SendPacket`, after which the call returns
and the caller goes on with its next NALU. jrtplib may or may not have counted the packet.

**`GbMedia`** extends `GbFuReassembly` and instantiates `GbFuSender`; `wire` holds the packets under
way and `network` says what may happen to them. `damaged` is a history variable for the properties:
the NALUs some packet of which was lost or not sent. The receiver guesses from its first bytes what a payload
is. The header of a fragment cannot be taken for anything else, but a piece of a PS pack can begin with any bytes:
`FuLike` says which of them (one byte of the model for the two or three of the code) look like which headers, and
`Receive` hands such a piece to the reassembly (`Mistaken`, `Guess`). The history variable `misread` is the place in
the file from which on a packet had been taken for what it is not: such a piece, or a fragment cut by the other codec
(`Miscut`). `Trusted` is the file before it, and the properties speak of that: behind it the code promises nothing.

**`GbNaluFile`** is the abstract specification of the media: calls pass one by one, some are given up or
hit by a loss, and the file takes NALUs in their order. Its `Deliver` asks that every earlier NALU that
fits and was not hit is in the file already. The refinement mapping in `GbMedia` takes `call` for `next`,
`damaged` for `hit`, and for the file the calls whose NALUs are written (`File`). On the networks
`gaps`, `early` and `any` the code does pass NALUs over, see [Findings](#findings): there nothing is
promised, and the mapping leaves `file` and `hit` empty.

**`GbRtpSession`**: `gb28181_create`, `_start`, `_stop` and `_destroy` over UDP, TCP
and passive TCP as changes of what the process holds: the session, the connection given to jrtplib,
the local ports. A start is a step for each thing it takes (`CreateUdp`; `CreateTcp`, `ConnectTcp`) and one for
each way it fails from there, giving back what it has (`UdpRefused`, `ConnectFails`, `TcpRefused`); the process may die in
between. A connection stands before the start is done, so the platform may accept it and it may break. The listening socket of a passive start is never accepted from and never closed.

**`GbTcpReceiver`**: the residual buffer and the framing loop. Bytes are digits of base 2 instead of 256, so
that a length is still two of them and their order matters. `Cuts` are the values the loop's
`processed` takes.

**`GbRtcpStats`**: the counters behind the printed loss.

**`GbTransport`** extends those three and adds what lies between them: datagrams and sender reports under
way, the unread bytes of every connection (`wire`), closed and broken ones (`eof`), the backlog of
`accept`. A read takes any number of the waiting bytes. `missing` and `got` are kept for the properties.
**`GbPacketQueue`** is the abstract specification: packets are appended, delivered several at a time from the
front, and lost from the back when a connection breaks. `Queue` in `GbTransport` is the refinement
mapping: what framing would still take out of the buffer and the connections.

**`GbSipRegisterClient`**: an action is one receive of the straight-line program, or its timeout, with
the requests that follow it. **`GbClientSystem`** joins it with `GbPlatform` by two queues of datagrams
in order (the order in which the platform sends matters here), which may be lost; a platform that takes
longer than the client's three seconds is the network `late`. The program may be started again while
answers to its last run are under way.

**`GbDeviceProofs`**, **`GbDeviceSafety`**, **`GbDeviceTimers`**, **`GbSystemProofs`**, **`GbMediaProofs`**,
**`GbTransportProofs`**, **`GbClientProofs`**, **`RtmpPushProofs`** hold the theorems about the modules they
extend, see [Proofs](#proofs).

**`RtmpPush`**: a step of the push thread is what it does between two looks at what others may
change or between two blocking calls; `th` is where it stands. `Release` is what `rtmp_disconnect`
clears. `joa_rtmp_stop` is two steps: the call sets `stop`, and returns (`Joined`) when the thread has
ended. `stream` (what was sent on this connection) and `failures` are kept for the properties.
Network, server, encoder, push switch and both clocks do as they like.

## Runs

| run | module, configuration | shows |
|---|---|---|
| `device` | `MCGbDevice`, `GbDevice.cfg` | Every datagram the device tells apart may arrive at any moment, every call may fail, the loop may be late. `NoTimerIsMissed`, `SocketFollowsState`, `StreamingOwnsThePort`, `StopsOnlyWhenDone`, `BackoffOnlyResetByRegistration`; liveness `NoStateIsForEver`. |
| `system` | `GbSystem`, `GbSystem.cfg` | Nothing is lost: the two agree whenever nothing is in flight (`QuietAgreement`); the device makes its calls, deregisters and ends (`CompletesAndEnds`). |
| `system_lossy` | `GbSystem`, `GbSystemLossy.cfg` | Datagrams are lost and repeated, or lost and late. `RegistrationAgrees` holds whatever happens; `MediaAcceptedInTime` and `CycleMeansReleased` as long as answers come in time. |
| `system_crash` | `GbSystem`, `GbSystemCrash.cfg` | The platform dies and may come back, with intervals under which keepalives are sent (the code's are not such): `DeadPlatformDetected`, `ForgottenDeviceReturns`, and no session stays behind (`SessionReleased`). |
| `media` | `MCGbMedia`, `GbMedia.cfg` | `OnlyWholeNalus`, `LossIsIsolated`, `InOrder` over five kinds of network, with sends that fail and a PS pack that is taken for a NALU, each up to the first packet misread; `MediaImplementsFile` (refinement of `GbNaluFile`) over the four of them that keep NALUs apart. |
| `transport` | `MCGbTransport`, `GbTransport.cfg` | Several sessions over UDP and TCP, starts that fail at any step, crashes of the device, loss, broken connections. `FramingImplementsQueue` (refinement of `GbPacketQueue`), `BufferHasRoom`, `LossIsReal`, `PortIsHeldBySession`, `OnlyStopForgetsConnections`; liveness `EverythingIsRead`. |
| `client` | `GbClientSystem`, `GbClientSystem.cfg` | Two runs of the client, up to three lost datagrams, answers in time or late. `TalksOnlyRegistered`, `EndedCallIsOver`; `CallIsAccepted` while answers come in time; liveness `ProgramEnds`. |
| `rtmp` | `MCRtmpPush`, `RtmpPush.cfg` | Pushers with and without a limit on reconnections. `ConfigAndKeyFirst`, `ContextOutlivesThread`, `TimestampsAdvance`, `GivesUpOnlyAfterRow`; liveness `StopReturns`, `PushResumes`. |
| `leak`, `dead_platform`, `media_gaps`, `client_script` | `MCGbDevice`, `GbDeviceLeak.cfg`; `GbSystem`, `GbSystemDead.cfg`; `MCGbMedia`, `GbMediaGaps.cfg`; `GbClientSystem`, `GbClientScript.cfg` | one finding each, see below; TLC finds the property violated |

Every passing run also checks one type invariant, which carries the bounds that are not obvious
(counters below their limits, the buffer never overflows, sequence numbers stay below the modulus).

### Bounds

*Device.* Timers keep the order of the code's constants, in seconds: INVITE after 1, keepalive every 2, the
three timeouts 3. The hold is 7 s in the code and 3 ticks here, the frame interval 40 ms and 1 tick: what
matters is that several frames pass before the hold ends, and that a hold is longer
than one frame. The backoff is capped at 4 instead of 60 so that the cap is reached after two
doublings. Retry and miss limits are the code's 3; the built-in stream has two frames instead of 150, so that it
ends before the hold in some runs and after it in others. `MaxCycles` is `InviteCyclesMax`, beyond
which the count is compared with nothing; `MaxLost` stops the counts of lost file handles and, over TCP,
of lost sessions, which limits no behaviour.

*System.* The same with limits of 2 and shorter timeouts: each limit is reached in both orders with the
event that would reset it. `MaxInFlight` is 8 on a perfect network, more than the two ever have
under way; 2 on the lossy ones, where a third datagram is lost, and 4 in the run for late answers.
A round trip takes milliseconds and a tick is a second, so time stands still while a datagram is in
flight, except on a `late` network. In `GbSystemCrash.cfg` the intervals are *not* in the order of
the code (INVITE after 4, keepalive every 1): with the code's own order keepalives are never sent,
which is the finding `dead_platform`. The run shows that the mechanism works where it gets to run;
`ForgottenDeviceReturns` says so itself (`KeepalivesGetSent`), and is false with the code's order.

*Media.* A window of 2 instead of 8 can be filled, missed by one and wrapped; 32 sequence numbers
starting at 30 wrap inside the first NALU and again nowhere, so that no two packets
share a number, as with 2^16 in the time of one NALU. The stream has an H.264 NALU of four fragments
(one more than the limit, and longer than the buffer), an H.265 NALU of three (the limit) and an H.264 NALU of one
with the same timestamp, and a PS pack of two packets, the second of which looks like a whole NALU. A drain can pass the limit,
so the NALU of four is written in some runs. A chunk fills its
packet or does not. Three packets may be under way: one more than the window.

*Transport.* Two connections and three packets or reports: one connection follows another, two packets
share a read, and a frame is cut before, inside and behind its length. Packets have one or two bytes. The
buffer holds six: the residue of a packet that is not yet whole (at most three bytes) and some
room, as 8192 bytes are more than any packet of 1400. `Overlap = FALSE` keeps a new connection from
being made before the last is read to its end: otherwise the receiver's residue of the one is taken
for the beginning of the other, which is told below.

*Client.* Three lost datagrams are enough to lose the answer of every query once, or both challenge
and retry; a second run meets what the first left behind.

*RTMP.* Limits of one and none on reconnections; two parameter sets, so that the encoder can
change its own between key frame and configuration. Timestamps are taken modulo 6 and a clock's step counts up to 3,
which keeps the code's relation: a step that counts is far from wrapping the whole range. Both attempt
counters stop once they have passed every comparison.

### Fairness

`Fairness` of the device: the loop keeps running (`Boot`, `Timeout`, `Exit`) and time passes. The
loop handles a deadline only when nothing is readable, so weak fairness of `Timeout` asks of the peer that
it does not keep the socket readable without a pause; nothing is asked of the network. `SysFairness`
adds that what is in flight is delivered (or found undeliverable) and that a living platform handles what it receives;
loss is not prevented by fairness but by the `perfect` network of the liveness runs. Nobody has to
restart a platform that died.

*Transport*: the platform reads what is readable; nothing is assumed of the device. *Client*: its waits end
and the platform answers sooner or later what it has received. *RTMP*: the thread is scheduled and its sleeps end,
`pthread_join` returns when the thread has ended. Strong fairness is asked of three things outside the
program: a server that stays reachable accepts a connection sooner or later, the encoder keeps
producing key frames with readable parameter sets, and TCP does not accept data for a broken
connection for ever (that a send fails is how the code notices). `StopReturns` needs no fairness but that
of the thread and of `Joined`.

## Findings

Each is a run that TLC ends with a counterexample to what a comment or document says.

- **A dead platform is never noticed** (`dead_platform`, device:1282). In REGISTERED the INVITE timer
  (1 s) is served before the keepalive timer (2 s) and an unanswered INVITE re-enters
  REGISTERED, which arms both anew. No keepalive is ever sent, so `GB_KEEPALIVE_MISS_MAX` is never
  reached and the device never reconnects. Nor does it come back to a platform that was restarted: that one answers
  the INVITE with a 501, which INVITING ignores until it times out, and the round begins again.
- **A socket error while streaming leaks the session** (`leak`, device:1616). `enter_idle_with_backoff`
  closes the socket but not the RTP session. Over UDP the session keeps the port and later calls cannot
  start media; over TCP each failure leaves one more session (`GbDeviceLeak.cfg` is over UDP). A BYE of the platform leaves the media file open.
- **Old fragments fill the window of the next NALU** (`media_gaps`, mock:376). A first fragment that
  replaces an unfinished NALU resets everything but the reorder slots; an intact NALU is then dropped
  because the window is full.
- **The straight-line client never makes its call** (`client_script`, client:539). The platform sends
  its own Catalog query right after the 200 of the REGISTER. The client takes it for the answer to
  the Keepalive, each later datagram for the answer to the next request, and the DeviceStatus
  response for the answer to its INVITE; it ends without ACK, media and BYE, and the platform keeps
  the call open.

Seen while modelling, without a run:

- device:1117: INVITING takes any 200 for the answer to its INVITE; a late 200 of a MESSAGE starts media
  before the platform has seen the INVITE (`MediaAccepted` on the `late` network, which is why
  `MediaAcceptedInTime` is restricted).
- mock:1523: the ACK is sent only for Call-IDs with `platform-invite`; the Playback INVITE has
  `platform-pb`, so playback, which `gb28181_code_reference.md` describes, never starts.
- mock:430: fragments that overtake the first one of their NALU are dropped, although
  `gb28181_study.md` gives that case as the reason for the window.
- mock:376: a fragment that was left in the window (see `media_gaps`) is taken for one of the current NALU when its
  number comes round after 2^16 packets. The runs use each number once.
- mock:285, mock:492: a fragment is cut by the codec of the NALU under construction. When an H.264 NALU is given up by the
  sender and an H.265 NALU with the same timestamp follows, a fragment of it that overtakes its first one is stored with
  its FU header, survives the start (mock:376) and is drained into the file. So `OnlyWholeNalus` is
  said of the file before the first such packet (`Trusted`).
- mock:706: a piece of a PS pack whose first bytes look like an FU header is reassembled, and with S and E bits written as a
  NALU nobody sent, with nothing lost or late; in `GbMedia.cfg` the last packet is one. `NothingIsMisread` says of which
  streams neither of the two happens.
- mock:1390: the statistics, which the comments (mock:795-798, mock:1417) call a report every second, are printed only when `select`
  times out: not while packets or datagrams come without a pause of a second.
- mock:494: a NALU longer than 4096 bytes is cut and written as if it were whole; the properties of the
  media compare with the cut NALU.
- mock:1446: a connection accepted in place of another inherits `stream_buf`. With `Overlap = TRUE` in
  `GbTransport.cfg`, `FramingImplementsQueue` fails: a packet is delivered that is the end of one
  connection's and the start of another's.
- mock:835: `rtp_rx_count` is never reset, while the sender's count starts again with each session:
  the losses of a second session are masked (`LossIsReal` says only that a printed loss is not too large). A sender
  report that comes over TCP is counted as an RTP packet.
- module:355: `gb28181_stop` closes neither the connected TCP socket nor the listening one; a second passive start
  in the same process fails. (A *start* that fails closes what it opened: `OnlyStopForgetsConnections`.)
- joa_rtmp.c:1079: the status `ERROR` of a pusher that gave up is overwritten by `IDLE` when the
  thread ends, and `thread_started` stays set, so `rtmp_start` does nothing until `rtmp_stop`; it
  does not reset `reconnect_attempts` either.
- joa_rtmp.c:1051: the video reader is opened once; when that fails the thread runs on without
  frames. `PushResumes` therefore assumes a reader. A pusher whose switch goes off keeps sending while
  frames come without a gap, for `g_push_start` is looked at only between.
- joa_rtmp.c:1128: when the first frame of a connection is no key frame, the configuration kept from
  an earlier one is sent; a key frame that follows with other parameter sets does not replace it.
- joa_rtmp.c:1452: `joa_rtmp_status` reads the global context while another thread may be freeing it.

## Proofs

Every theorem holds for all values of the constants that satisfy the assumptions of the module
they are declared in. `GbDevice`: limits and intervals are positive, the backoff base does not exceed its
maximum, any subset of the calls may fail, any set of datagrams may arrive. `GbSystem`: any
networks, crashes and datagrams in flight. `GbFuReassembly`, `GbMedia`: a window of at least one slot, more than
twice as many sequence numbers (8 and 2^16 in the code), a buffer that holds a header and a byte; any stream of
non-empty NALUs, any payload size that leaves room behind the FU header. `GbTransport`: any number of packets
and connections; a packet's length fits its two bytes, and packet and length fit the buffer (2^16 and 8192
bytes in the code, packets of at most 1400). `GbClientSystem`: any number of losses and runs.
`RtmpPush`: a timestamp range at least twice the largest step (2^32 against 1000). So they hold for
the code's constants as well as for those of the runs. TLC evaluates the assumptions in every run. What a
theorem needs beyond them is a hypothesis of its own, named in the table with the reason why
it cannot be dropped.

| theorem | module | argument |
|---|---|---|
| `TypeCorrect`: `Spec => []TypeOK` | `GbDeviceProofs` | inductive as it stands, one lemma per handler; the counters stay below their limits because a handler that would reach one goes to IDLE, which resets it |
| `PortOwned`: `[]StreamingOwnsThePort` | `GbDeviceSafety` | inductive together with `TypeOK`: the clause that a device with a session has lost none is what the first two need; over UDP a start fails while the port is taken, and over TCP the theorem says only that a streaming device has a session |
| `SocketCorrect`: `[]SocketFollowsState` | `GbDeviceSafety` | inductive together with `TypeOK`; every handler opens the socket and leaves IDLE, closes it and enters IDLE, or does neither |
| `SessionCorrect`: `[]SessionReleased` | `GbDeviceSafety` | strengthened with: the device boots from IDLE, so that `Boot` cannot find it streaming; every way out of STREAMING but `RecvFails` stops the session |
| `BackoffCorrect`: `[][...]` | `GbDeviceSafety` | from `TypeCorrect`: doubling a capped delay never makes it smaller |
| `StopCorrect`: `[]StopsOnlyWhenDone` | `GbDeviceSafety` | the flag is set at the last cycle only, and cleared never |
| `TimersCorrect`: `[]NoTimerIsMissed` | `GbDeviceTimers` | from `TypeCorrect`; all armed timers count down together, which keeps their order |
| `RegistrationCorrect`: `[]RegistrationAgrees` | `GbSystemProofs` | needs `"recv" \notin Faults`. `RegistrationAgrees` is not inductive: a device in REGISTERING becomes registered by *any* 200. `SysInv` adds that, until the device leaves, only a registered platform has a 200 under way to it, that an `Expires: 0` is under way only after the device has asked to leave, and that nothing wakes a device that has stopped. After a socket error in DEREGISTERING the device would register again with that `Expires: 0` still in flight, hence the hypothesis |
| `CallsCorrect`: `[]AckedOnlyInvited` | `GbSystemProofs` | inductive as it stands, for any faults and any number of crashes |
| `SysTypeCorrect`: `[]SysTypeOK` | `GbSystemProofs` | the device's `TypeOK`, with: what either side sends is a `Message`, and the network invents nothing |
| `StreamsInCall`: `[]MediaAcceptedInTime` | `GbSystemProofs` | `MediaAccepted` is not inductive: INVITING takes any 200. `CallInTime` says that, while answers come in time, a device that waits for the answer to its INVITE has nothing but that INVITE's answers in flight: datagrams are delivered before the clock ticks, and the INVITE is sent on a tick. `NoPull`: the platform never ACKs an INVITE of its own, since the device does not answer its queries with the messages that lead to one |
| `CyclesAreReleased`: `[]CycleMeansReleased` | `GbSystemProofs` | needs `SessionsStart`: built-in media with at least one frame, no failing RTP start, no failing read. Then a tick lies between the ACK and the BYE, so that only the answer to the BYE can be in flight (`ReleaseInTime`). Without any one of these TLC finds the 200 of a *repeated INVITE* still in flight, taken for the answer to a BYE that is then never delivered |
| `QuietMeansAgreed`: `[]QuietAgreement` | `GbSystemProofs` | needs `NothingIsLost`: perfect network, no crash, no failing open, send or read, more than one missed keepalive allowed. `Conversation` has one predicate for each state of the device, which says what may be in flight and what the platform knows then: `QuietAgreement` speaks only of the states in between |
| `LossNeverOverstated`: `[]LossIsReal` | `GbTransportProofs` | strengthened with `LossInv`: the session's packet count, every report under way and the last one received are each at most what was received plus what is missing, over all sessions |
| `PortsAreReturned`: `[]PortIsHeldBySession` | `GbTransportProofs` | `SessionInv`: while a start is running there is no session yet, so what a refused start gives back is its own |
| `ConnectionsAreClosed`: `OnlyStopForgetsConnections` | `GbTransportProofs` | from `SessionInv`: only a start that has connected, or a session over TCP, knows a connection, the last one made |
| `FramingRefinesQueue`: `FramingImplementsQueue` | `GbTransportProofs` | needs `~Overlap`, for a connection accepted before the last is drained inherits its residue (see Findings). `Good`: buffer and unread bytes together are whole frames, the last perhaps cut by a broken connection (`Whole`). `Cuts`, a recursive function, is the only walk along a buffer that steps from frame to frame; `CutAnywhere` says that framing what has come, keeping the residue and framing it with the rest takes the same packets as framing everything at once. So `Queue` changes exactly as `GbPacketQueue` says: an append, some from the front, some from the back, or nothing (`QueueStep`) |
| `TransportTypeCorrect`: `[]TransportTypeOK` | `GbTransportProofs` | needs `~Overlap`; from the same invariant (`NetInv`, `StreamInv`): what framing takes are packets that were sent |
| `AlwaysRoomInBuffer`: `[]BufferHasRoom` | `GbTransportProofs` | needs `~Overlap`; a residue is a frame that has not all come, so it is shorter than the largest packet and its length |
| `OnlyRegisteredTalks`: `[]TalksOnlyRegistered` | `GbClientProofs` | `ClientInv`: a 200 is under way to the client only from a platform that has registered it, and the client never sends the `Expires: 0` that would end a registration |
| `ClientTypeCorrect`: `[]ClientTypeOK` | `GbClientProofs` | inductive as it stands |
| `CallEndsWithProgram`: `[]EndedCallIsOver` | `GbClientProofs` | `CallInv`: while nothing is lost, the program ends with a BYE for every call it has ACKed, and that BYE is the last datagram to the platform; until the platform reads it, the queue is not empty |
| `AcceptedCallIsHeld`: `CallIsAccepted` | `GbClientProofs` | `PipeInv` says what may be under way at each wait of the client: its queue to the platform holds the request of this wait behind at most one earlier datagram, and a 200 that does not answer an INVITE lies among the datagrams it will still read before its INVITE (`StrayOks`). Each query has two waits for its two datagrams, so that what is left over from before is left over again, but it is never the 200 |
| `RtmpInvariant`, `RtmpTyped`, `RtmpConfigFirst`, `RtmpContext` | `RtmpPushProofs` | `RtmpInv`: `sent_config` and `video_started` imply that a configuration and a key frame were sent on this connection, `total_video_timestamp` is the last timestamp sent, `reconnect_attempts` counts the failures in a row |
| `RtmpAdvances`: `TimestampsAdvance` | `RtmpPushProofs` | from `RtmpInv` and arithmetic of `%`: a sum passes the modulus at most once |
| `RtmpGivesUp`: `GivesUpOnlyAfterRow` | `RtmpPushProofs` | from `RtmpInv`: the counter compared with the limit is the number of failures in a row |
| `MediaTypeCorrect`: `[]MediaTypeOK` | `GbMediaProofs` | inductive as it stands, with the types of the sender; at most a whole window is drained beyond the limit on fragments |
| `OnlyWholeNalusReachTheFile`: `[]OnlyWholeNalus` | `GbMediaProofs` | needs `NumbersSuffice`. The invariant says that there is a sequence `past` of the pieces cut so far, one for each number used, such that packets, slots and buffer hold what `past` says (`WirePast`, `SlotPast`, `NaluPast`). `Successor`: what bears the number expected is the next piece of the NALU in the buffer; `RunFollows`, the same for what is drained; `FlattenPieces`: pieces in a row are the piece they cover. This holds of packets that were read well (`ReadWell`); from the first that was not, `Trusted` stands still (`TrustedStep`) |
| `FileIsInOrder`: `[]InOrder` | `GbMediaProofs` | needs `NumbersSuffice`. Adds the calls that own the NALUs in the file, and that packets on their way lie in `past` behind what has been handled, but for fragments of the NALU under construction |
| `LossCostsNoOther`: `[]OthersArrive`; `LossCostsOneNalu`: `[]LossIsIsolated` | `GbMediaProofs` | the first needs `NumbersSuffice`, the second `DistinctNalus` too. `LossIsIsolated` speaks of the end only; the invariant `Loss` of every moment before. It says of each piece of `past` where it is: on its way (`OnWire`), in the window (`Kept`), never sent (`Unsent`), or gone; of the NALU in the buffer that all that is missing of it is still around, or that it is `Doomed` (`Held`, `HeldOK`); of a NALU that has not started, the same (`Unstarted`); and of each NALU that was not hit, that it is in the file, about to start, or in the buffer with `pending_fragments` counting what came of it (`Fate`, `Progress`), so that the limit on fragments cannot be what ends it. `Spared`: what is in the file was not hit and cannot be any more. When nothing is on its way only the file is left |
| `MediaRefinesFile`: `MediaImplementsFile` | `GbMediaProofs` | needs `NumbersSuffice` and `DistinctNalus`. Where nothing is promised every step is `Pass` or none (`OtherStep`). Elsewhere a step that writes is `Deliver` or `Repeat`: `Fate` after the step leaves an earlier NALU no place but the file, for the packet that arrives is the first on its way or of the same NALU (`NoneIsPassed`); `InOrder` after the step says that it comes after all others, or is the same single packet once more. From the first packet misread on, every step is `Pass` or none (`MisreadStep`), since the file stands still and what a loss can still hit comes after every call in it (`Passed`) |
| `NothingIsMisread`: `[](Trusted = written)` | `GbMediaProofs` | needs `OneCodec` (the NALUs of the stream are all H.264 or all H.265) and `GuessIsRight` (no packet of another payload begins like a fragment). `ReadInv`: packets are cut at multiples of the room in them, and the buffer has a NALU of the one codec |

`NumbersSuffice`: no two packets of the stream have the same sequence number. The code numbers packets modulo
2^16 and does not clear the window when a first fragment replaces an unfinished NALU (the finding
`media_gaps`). With four numbers, one slot and NALUs of three and four fragments TLC finds a fragment left
in the window 2^16 packets ago taken for one of the NALU under construction. The hypothesis is thus about
the code, not about the proof; the runs satisfy it.

`DistinctNalus`: no two NALUs of the stream are the same as far as the receiver's buffer holds them.
The file has no other mark of a NALU than its bytes: where a camera sends the same NALU twice and the second
is lost, the file has "it" from the first. Only the half "a NALU that was hit is not in the file" and the
mapping of the refinement speak of which one it is; that nothing else is lost (`OthersArrive`) needs no such
hypothesis.

Induction over data: the library's theorems for it take a predicate as parameter, which the provers
cannot instantiate. What a recursive function or a fold computes (`Cuts`, `Run`, `FlattenSeq`) is proved from
`NatLessThanWellFounded` instead: the property is a *set* of numbers, and a smallest number outside
it contradicts the step (`Induction`).

Only model-checked: liveness, since `ENABLED` and fairness are out of reach of the prover. These are
`NoStateIsForEver`, `CompletesAndEnds`, `DeadPlatformDetected`, `ForgottenDeviceReturns`, `EverythingIsRead`,
`ProgramEnds`, `StopReturns` and `PushResumes`. That every NALU arrives *sooner or later*
is not among them: UDP promises nothing, so `LossIsIsolated` is stated of the states in which nothing is on
its way.

## What is not modelled

- **Data.** Texts and headers, digest arithmetic, SDP, XML and PS bytes (`gb28181_module.cpp`): functions
  without state that unit tests reach better. Call-IDs and CSeq numbers beyond the branch they decide. RTP
  markers, which nobody reads. RTCP octets, LSR and round trip times, which are only printed.
- **Configuration.** The configuration file of the device; the dump file of the RTMP pusher and its
  audio path, which `#if 0` compiles out.
- **Clock widths.** On Windows the device's clock is a 32-bit tick count that wraps after 49.7 days;
  timers are the time left here. Deadlines starved by a socket that is never silent
  (device:1618) are excluded by the fairness.
- **The data race on `stop` and `g_push_start`** in `joa_rtmp.c` is modelled as a value read whole at
  each look; that a compiler might keep it in a register is not.
- **Minimal example** (`gb28181_minimal_example.cpp`): calls in a row, without a peer.
- **Converters** (`ps2ts.py`, `ps2flv.py`): one pass over a file with no interaction; their
  correctness is one of byte layouts.
- **RTSP examples**: everything that happens between two callbacks is inside live555, which is not in the
  repository; the callbacks run one at a time and pass from one request to the next.

Generated data, documents of the standard and third-party headers are not part of the system.
