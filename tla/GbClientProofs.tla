---------------------------- MODULE GbClientProofs ----------------------------
(***************************************************************************)
(* For every number of lost datagrams and runs, and any delay: the client  *)
(* gets past its registration only with a platform that registered it, and *)
(* a call that it has ACKed is over when its program is.  As long as       *)
(* answers come in time, what it takes for the answer to its INVITE is.    *)
(***************************************************************************)
EXTENDS GbClientSystem, FiniteSetTheorems, TLAPS

\* What the client sends: never the Expires:0 that would end a registration, and
\* never an XML response, which would make the platform call.
Sendable == {m \in Messages : m.body # "expires0" /\ m.body \notin XmlResponses}

\* What may be under way to the client: a 200 only from a platform that has
\* registered it.
Answers == {m \in Messages : IsResponse(m, {200}) => registered}

ClientInv ==
    /\ TalksOnlyRegistered
    /\ query \in 1..3
    /\ to_client \in Seq(Answers)
    /\ to_platform \in Seq(Sendable)

LEMMA SendableFacts ==
    /\ \A n \in 1..3 : Query(n) \in Sendable
    /\ Req("REGISTER", "dev", "noauth") \in Sendable
    /\ Req("REGISTER", "dev", "auth") \in Sendable
    /\ Req("MESSAGE", "dev", "Keepalive") \in Sendable
    /\ Invite \in Sendable
    /\ Req("ACK", "dev", "none") \in Sendable
    /\ Req("BYE", "dev", "none") \in Sendable
    /\ \A m \in Messages : Answer(m) \in Sendable
<1>1. \A n \in 1..3 : Query(n) \in Sendable
  <2> SUFFICES ASSUME NEW n \in 1..3 PROVE Query(n) \in Sendable
      OBVIOUS
  <2>1. Queries[n] \in {"QueryCatalog", "QueryDeviceInfo", "QueryDeviceStatus"}
      BY DEF Queries
  <2> QED BY <2>1 DEF Query, Req, Sendable, Messages, Requests, Methods,
                      CallIds, RequestBodies, XmlResponses
<1>2. \A m \in Messages : Answer(m) \in Sendable
  BY DEF Answer, Reply, Sendable, Messages, Requests, Responses, Methods,
         CallIds, ResponseBodies, Codes, XmlResponses
<1>3. /\ Req("REGISTER", "dev", "noauth") \in Sendable
      /\ Req("REGISTER", "dev", "auth") \in Sendable
      /\ Req("MESSAGE", "dev", "Keepalive") \in Sendable
      /\ Req("ACK", "dev", "none") \in Sendable
      /\ Req("BYE", "dev", "none") \in Sendable
      /\ Invite \in Sendable
  BY DEF Req, Invite, Sendable, Messages, Requests, Methods, CallIds,
         RequestBodies, XmlResponses
<1> QED BY <1>1, <1>2, <1>3

LEMMA ProceedSends ==
    ASSUME query \in 1..3, NEW answer \in Seq(Sendable), Proceed(answer)
    PROVE  ctx' \in Seq(Sendable) /\ query' \in 1..3
<1>1. Len(Queries) = 3
    BY DEF Queries
<1>2. CASE query < 3 /\ query' = query + 1 /\ ctx' = answer \o <<Query(query + 1)>>
  <2>1. Query(query + 1) \in Sendable
        BY <1>2, SendableFacts
  <2> QED BY <1>2, <2>1
<1>3. CASE ctx' = answer \o <<Invite>> /\ UNCHANGED query
    BY <1>3, SendableFacts
<1> QED BY <1>1, <1>2, <1>3 DEF Proceed

Talking(w) == w \notin {"register", "challenge", "accepted", "closed"}

\* One wait of the client, whatever it brings.
LEMMA ReceiveSends ==
    ASSUME TalksOnlyRegistered, query \in 1..3,
           NEW m \in Answers, Receive(m)
    PROVE  /\ ctx' \in Seq(Sendable) /\ query' \in 1..3
           /\ Talking(wait') => registered
<1>1. CASE GetChallenge(m)
    BY <1>1, SendableFacts DEF GetChallenge, Talking
<1>2. CASE GetAccepted(m)
    BY <1>2, SendableFacts DEF GetAccepted, IsAccepted, Answers
<1>3. CASE Keepalive
    BY <1>3, SendableFacts DEF Keepalive, TalksOnlyRegistered
<1>4. CASE GetFirst
    BY <1>4 DEF GetFirst, TalksOnlyRegistered
<1>5. CASE GetSecond(m)
  <2>1. (IF IsRequest(m, "MESSAGE") THEN <<Answer(m)>> ELSE <<>>)
            \in Seq(Sendable)
        BY SendableFacts DEF Answers
  <2>2. ctx' \in Seq(Sendable) /\ query' \in 1..3
        BY <1>5, <2>1, ProceedSends DEF GetSecond
  <2> QED BY <1>5, <2>2 DEF GetSecond, TalksOnlyRegistered
<1>6. CASE GetInvited(m)
    BY <1>6, SendableFacts DEF GetInvited, Call, TalksOnlyRegistered
<1>7. CASE Unexpected(m)
    BY <1>7 DEF Unexpected, Close, Talking
<1> QED BY <1>1, <1>2, <1>3, <1>4, <1>5, <1>6, <1>7 DEF Receive

LEMMA NoAnswerSends ==
    ASSUME TalksOnlyRegistered, query \in 1..3, NoAnswer
    PROVE  /\ ctx' \in Seq(Sendable) /\ query' \in 1..3
           /\ Talking(wait') => registered
<1>1. CASE Keepalive
    BY <1>1, SendableFacts DEF Keepalive, TalksOnlyRegistered
<1>2. CASE QueryUnanswered
  <2>1. ctx' \in Seq(Sendable) /\ query' \in 1..3
    <3>1. <<>> \in Seq(Sendable)
          OBVIOUS
    <3> QED BY <1>2, <3>1, ProceedSends DEF QueryUnanswered
  <2> QED BY <1>2, <2>1 DEF QueryUnanswered, TalksOnlyRegistered
<1>3. CASE EndsOnTimeout /\ Close
    BY <1>3 DEF Close, Talking
<1> QED BY <1>1, <1>2, <1>3 DEF NoAnswer

-----------------------------------------------------------------------------
\* The platform takes a registration back only on Expires:0, and sends a 200
\* only to a device that is registered.
LEMMA HandleAnswers ==
    ASSUME NEW m \in Sendable, Handle(m)
    PROVE  /\ registered => registered'
           /\ ptx' \subseteq Answers'
           /\ IsFiniteSet(ptx')
<1> USE DEF Sendable, IsRequest
<1>m. m \in Messages
    OBVIOUS
<1>r. \A c \in {200, 401, 501} : \A b \in {"none", "challenge", "tag"} :
          Reply(m, c, b) \in Messages
    BY DEF Messages, Requests, Responses, Reply, Methods, CallIds, Codes,
           ResponseBodies
<1>q. /\ CatalogQuery \in Messages /\ PtzControl \in Messages
      /\ RecordInfoQuery \in Messages /\ PlatformInvite \in Messages
      /\ PlaybackInvite \in Messages
      /\ Req("MESSAGE", "platform", "CatalogResponse") \in Messages
      /\ Req("MESSAGE", "platform", "DeviceInfoResponse") \in Messages
      /\ Req("MESSAGE", "platform", "DeviceStatusResponse") \in Messages
      /\ Req("ACK", m.cid, "none") \in Messages
    BY DEF CatalogQuery, PtzControl, RecordInfoQuery, PlatformInvite,
           PlaybackInvite, Req, Messages, Requests, Responses, Methods,
           CallIds, RequestBodies
<1>1. CASE GetResponse(m)
  <2>1. ptx' \subseteq {Req("ACK", m.cid, "none")} /\ registered' = registered
        BY <1>1 DEF GetResponse, pctx
  <2>2. IsFiniteSet({Req("ACK", m.cid, "none")})
        BY FS_Singleton
  <2>3. IsFiniteSet(ptx')
        BY <2>1, <2>2, FS_Subset
  <2> QED BY <2>1, <2>3, <1>q DEF Answers, IsResponse, Req
<1>2. CASE Deregister(m)
    BY <1>2 DEF Deregister
<1>3. CASE Challenge(m)
  <2>1. IsFiniteSet({Reply(m, 401, "challenge")})
        BY FS_Singleton
  <2> QED BY <1>3, <2>1, <1>r DEF Challenge, pctx, Answers, IsResponse, Reply
<1>4. CASE AcceptRegister(m)
  <2>1. IsFiniteSet({Reply(m, 200, "none")} \cup {CatalogQuery})
        BY FS_Singleton, FS_Union
  <2> QED BY <1>4, <2>1, <1>r, <1>q DEF AcceptRegister, Answers
<1>5. CASE GetMessage(m)
  <2> DEFINE Own == {Req("MESSAGE", "platform", "CatalogResponse")}
                    \cup {Req("MESSAGE", "platform", "DeviceInfoResponse")}
                    \cup {Req("MESSAGE", "platform", "DeviceStatusResponse")}
             Other == {PtzControl} \cup {RecordInfoQuery}
                      \cup {PlaybackInvite} \cup {PlatformInvite}
             Sent == Own \cup Other
  <2>1. FollowUp(m) \subseteq Sent /\ Sent \subseteq Messages
        BY <1>q DEF FollowUp
  <2>2. IsFiniteSet(FollowUp(m))
    <3>1. IsFiniteSet(Own)
          BY FS_Singleton, FS_Union
    <3>2. IsFiniteSet(Other)
          BY FS_Singleton, FS_Union
    <3>3. IsFiniteSet(Sent)
          BY <3>1, <3>2, FS_Union
    <3> QED BY <2>1, <3>3, FS_Subset
  <2>3. IsFiniteSet({Reply(m, 200, "none")} \cup FollowUp(m))
        BY <2>2, FS_Singleton, FS_Union
  <2> QED BY <1>5, <2>1, <2>3, <1>r DEF GetMessage, Answers
<1>6. CASE GetInvite(m)
  <2>1. IsFiniteSet({Reply(m, 200, "tag")})
        BY FS_Singleton
  <2> QED BY <1>6, <2>1, <1>r DEF GetInvite, Answers
<1>7. CASE GetAck(m)
    BY <1>7, FS_EmptySet DEF GetAck
<1>8. CASE GetBye(m)
  <2>1. IsFiniteSet({Reply(m, 200, "none")})
        BY FS_Singleton
  <2> QED BY <1>8, <2>1, <1>r DEF GetBye, Answers
<1>9. CASE NotImplemented(m)
  <2>1. IsFiniteSet({Reply(m, 501, "none")})
        BY FS_Singleton
  <2> QED BY <1>9, <2>1, <1>r DEF NotImplemented, pctx, Answers, IsResponse,
                                  Reply
<1> QED BY <1>1, <1>2, <1>3, <1>4, <1>5, <1>6, <1>7, <1>8, <1>9 DEF Handle

LEMMA OrdersAreSequences ==
    ASSUME NEW S, NEW T, IsFiniteSet(S), S \subseteq T, NEW s \in SetToSeqs(S)
    PROVE  s \in Seq(T)
<1>1. Cardinality(S) \in Nat
    BY FS_CardinalityType
<1>2. s \in [1..Cardinality(S) -> S]
    BY DEF SetToSeqs
<1> QED BY <1>1, <1>2

-----------------------------------------------------------------------------
LEMMA ClientInvInductive == ClientInv /\ [Next]_vars => ClientInv'
<1> SUFFICES ASSUME ClientInv, [Next]_vars PROVE ClientInv'
    OBVIOUS
<1>a. ASSUME registered => registered' PROVE to_client \in Seq(Answers')
  <2>1. Answers \subseteq Answers'
        BY <1>a DEF Answers
  <2> QED BY <2>1 DEF ClientInv
<1>b. ASSUME ctx' \in Seq(Sendable), Send PROVE to_platform' \in Seq(Sendable)
    BY <1>b DEF Send, ClientInv
<1>1. CASE ClientStarts
  <2>1. ctx' \in {<<>>, <<Req("REGISTER", "dev", "noauth")>>}
        BY <1>1 DEF ClientStarts, FirstRegister, CannotStart, Close
  <2>2. query' \in 1..3 /\ ~Talking(wait')
        BY <1>1 DEF ClientStarts, FirstRegister, CannotStart, Close, Talking,
                    ClientInv
  <2>3. ctx' \in Seq(Sendable)
    <3>1. <<>> \in Seq(Sendable)
          OBVIOUS
    <3>2. <<Req("REGISTER", "dev", "noauth")>> \in Seq(Sendable)
          BY SendableFacts
    <3> QED BY <2>1, <3>1, <3>2
  <2> QED BY <1>1, <1>a, <1>b, <2>2, <2>3 DEF ClientStarts, ClientInv, pvars, pctx,
                                        Talking, TalksOnlyRegistered
<1>2. CASE ClientReceives
  <2>1. /\ Head(to_client) \in Answers
        /\ to_client' \in Seq(Answers)
        BY <1>2 DEF ClientReceives, ClientInv
  <2>2. /\ ctx' \in Seq(Sendable) /\ query' \in 1..3
        /\ Talking(wait') => registered
        BY <1>2, <2>1, ReceiveSends DEF ClientReceives, ClientInv
  <2>3. UNCHANGED registered /\ Send
        BY <1>2 DEF ClientReceives, pvars, pctx
  <2>4. Answers' = Answers
        BY <2>3 DEF Answers
  <2> QED BY <1>b, <2>1, <2>2, <2>3, <2>4 DEF ClientInv, Talking,
                                              TalksOnlyRegistered
<1>3. CASE ClientTimesOut
  <2>1. /\ ctx' \in Seq(Sendable) /\ query' \in 1..3
        /\ Talking(wait') => registered
        BY <1>3, NoAnswerSends DEF ClientTimesOut, ClientInv
  <2> QED BY <1>3, <1>a, <1>b, <2>1 DEF ClientTimesOut, ClientInv, pvars, pctx,
                                        Talking, TalksOnlyRegistered
<1>4. CASE Again
  <2>1. UNCHANGED <<registered, to_platform>> /\ to_client' \in {<<>>, to_client}
        BY <1>4 DEF Again, pvars, pctx
  <2>2. to_client' \in Seq(Answers')
    <3>1. <<>> \in Seq(Answers')
          OBVIOUS
    <3> QED BY <1>a, <2>1, <3>1
  <2> QED BY <1>4, <2>1, <2>2 DEF Again, ClientInv, TalksOnlyRegistered
<1>5. CASE PlatformHandles
  <2>1. Head(to_platform) \in Sendable /\ to_platform' \in Seq(Sendable)
        BY <1>5 DEF PlatformHandles, ClientInv
  <2>2. /\ registered => registered'
        /\ ptx' \subseteq Answers' /\ IsFiniteSet(ptx')
        BY <1>5, <2>1, HandleAnswers DEF PlatformHandles
  <2>3. PICK s \in SetToSeqs(ptx') : to_client' = to_client \o s
        BY <1>5 DEF PlatformHandles
  <2>4. s \in Seq(Answers')
        BY <2>2, OrdersAreSequences
  <2>5. to_client' \in Seq(Answers')
        BY <1>a, <2>2, <2>3, <2>4
  <2> QED BY <1>5, <2>1, <2>2, <2>5 DEF PlatformHandles, ClientInv, cvars,
                                        TalksOnlyRegistered
<1>6. CASE Lose
  <2>1. UNCHANGED <<registered, wait, query>>
        BY <1>6 DEF Lose, cvars, pvars, pctx
  <2>2. to_platform' \in Seq(Sendable) /\ to_client' \in Seq(Answers)
    <3>1. CASE to_platform # <<>> /\ to_platform' = Tail(to_platform)
               /\ UNCHANGED to_client
          BY <3>1 DEF ClientInv
    <3>2. CASE to_client # <<>> /\ to_client' = Tail(to_client)
               /\ UNCHANGED to_platform
          BY <3>2 DEF ClientInv
    <3> QED BY <1>6, <3>1, <3>2 DEF Lose
  <2>3. Answers' = Answers
        BY <2>1 DEF Answers
  <2> QED BY <2>1, <2>2, <2>3 DEF ClientInv, TalksOnlyRegistered
<1>7. CASE UNCHANGED vars
    BY <1>7, <1>a DEF vars, cvars, pvars, pctx, ClientInv, TalksOnlyRegistered
<1> QED BY <1>1, <1>2, <1>3, <1>4, <1>5, <1>6, <1>7 DEF Next, Client

\* Whatever is lost, late or left over from an earlier run, the client sends
\* requests other than REGISTER only to a platform that has registered it.
THEOREM OnlyRegisteredTalks == Spec => []TalksOnlyRegistered
<1>1. Init => ClientInv
    BY DEF Init, ClientInit, ClientInv, TalksOnlyRegistered
<1>2. ClientInv => TalksOnlyRegistered
    BY DEF ClientInv
<1> QED BY <1>1, <1>2, ClientInvInductive, PTL DEF Spec

-----------------------------------------------------------------------------
\* The flags of the client and the platform are flags, and what is sent is what
\* the code builds.
TypeInv ==
    /\ ClientInv /\ PlatformTypeOK
    /\ wait \in Waits /\ selected \in BOOLEAN /\ called \in BOOLEAN
    /\ ctx \in Seq(Sendable) /\ lost \in Nat

\* A call belongs to a registration and its media to a call.  After the BYE the
\* program sends nothing more, so the BYE is the last that the platform gets.
CallInv ==
    /\ invited => registered
    /\ acked => invited
    /\ called => wait \in {"bye", "closed"}
    /\ called /\ lost = 0 =>
         IF to_platform = <<>> THEN ~invited /\ ~acked
         ELSE IsRequest(to_platform[Len(to_platform)], "BYE")

LEMMA ReceiveFlags ==
    ASSUME TypeInv, NEW m \in Messages, Receive(m)
    PROVE  /\ wait' \in Waits /\ selected' \in BOOLEAN /\ called' \in BOOLEAN
<1>1. CASE GetChallenge(m) \/ GetAccepted(m) \/ Keepalive \/ GetFirst
    BY <1>1 DEF GetChallenge, GetAccepted, Keepalive, GetFirst, TypeInv, Waits
<1>2. CASE GetSecond(m)
    BY <1>2 DEF GetSecond, Proceed, TypeInv, Waits
<1>3. CASE GetInvited(m) \/ Unexpected(m)
    BY <1>3 DEF GetInvited, Unexpected, Close, TypeInv, Waits
<1> QED BY <1>1, <1>2, <1>3 DEF Receive

LEMMA NoAnswerFlags ==
    ASSUME TypeInv, NoAnswer
    PROVE  /\ wait' \in Waits /\ selected' \in BOOLEAN /\ called' \in BOOLEAN
BY DEF NoAnswer, Keepalive, QueryUnanswered, Proceed, Close, TypeInv, Waits

LEMMA FlagsStand ==
    ASSUME PlatformTypeOK, UNCHANGED pvars
    PROVE  PlatformTypeOK'
BY Zenon DEF PlatformTypeOK, pvars, pctx

LEMMA HandleFlags ==
    ASSUME PlatformTypeOK, NEW m, Handle(m)
    PROVE  /\ registered' \in BOOLEAN /\ platform_invited' \in BOOLEAN
           /\ invited' \in BOOLEAN /\ acked' \in BOOLEAN
<1>1. CASE GetResponse(m) \/ Challenge(m) \/ NotImplemented(m)
  <2>1. UNCHANGED pctx
        BY <1>1 DEF GetResponse, Challenge, NotImplemented
  <2> QED BY <2>1, Zenon DEF pctx, PlatformTypeOK
<1>4. CASE Deregister(m) \/ AcceptRegister(m)
    BY <1>4, Zenon DEF Deregister, AcceptRegister, PlatformTypeOK
<1>2. CASE GetMessage(m)
    BY <1>2 DEF GetMessage, PlatformTypeOK
<1>3. CASE GetInvite(m) \/ GetAck(m) \/ GetBye(m)
    BY <1>3, Zenon DEF GetInvite, GetAck, GetBye, PlatformTypeOK
<1> QED BY <1>1, <1>2, <1>3, <1>4 DEF Handle

LEMMA TypeInvInductive ==
    ASSUME TypeInv, [Next]_vars
    PROVE  TypeInv'
<1>1. ClientInv'
    BY ClientInvInductive DEF TypeInv
<1>a. PlatformTypeOK /\ (UNCHANGED pvars => PlatformTypeOK')
    BY FlagsStand DEF TypeInv
<1>b. /\ wait \in Waits /\ selected \in BOOLEAN /\ called \in BOOLEAN
      /\ ctx \in Seq(Sendable) /\ lost \in Nat
    BY DEF TypeInv
<1>c. ASSUME UNCHANGED cvars
      PROVE  /\ wait' \in Waits /\ selected' \in BOOLEAN /\ called' \in BOOLEAN
             /\ ctx' \in Seq(Sendable)
    BY <1>b, <1>c, Zenon DEF cvars
<1>2. CASE ClientStarts
  <2>1. ctx' \in {<<>>, <<Req("REGISTER", "dev", "noauth")>>}
        BY <1>2 DEF ClientStarts, FirstRegister, CannotStart, Close
  <2>2. ctx' \in Seq(Sendable)
    <3>1. <<>> \in Seq(Sendable)
          OBVIOUS
    <3>2. <<Req("REGISTER", "dev", "noauth")>> \in Seq(Sendable)
          BY SendableFacts
    <3> QED BY <2>1, <3>1, <3>2
  <2>3. wait' \in Waits /\ UNCHANGED <<selected, called, lost, pvars>>
        BY <1>2 DEF ClientStarts, FirstRegister, CannotStart, Close, Waits, env
  <2>4. selected' \in BOOLEAN /\ called' \in BOOLEAN
        BY <1>b, <2>3, Zenon
  <2> QED BY <1>1, <1>a, <1>b, <2>2, <2>3, <2>4 DEF TypeInv
<1>3. CASE ClientReceives
  <2>1. Head(to_client) \in Answers
        BY <1>3 DEF ClientReceives, ClientInv, TypeInv
  <2>2. ctx' \in Seq(Sendable) /\ Head(to_client) \in Messages
        BY <1>3, <2>1, ReceiveSends DEF ClientReceives, ClientInv, TypeInv, Answers
  <2>3. wait' \in Waits /\ selected' \in BOOLEAN /\ called' \in BOOLEAN
        BY <1>3, <2>2, ReceiveFlags DEF ClientReceives
  <2> QED BY <1>1, <1>3, <1>a, <1>b, <2>2, <2>3 DEF ClientReceives, TypeInv, env
<1>4. CASE ClientTimesOut
  <2>1. ctx' \in Seq(Sendable)
        BY <1>4, NoAnswerSends DEF ClientTimesOut, ClientInv, TypeInv
  <2>2. wait' \in Waits /\ selected' \in BOOLEAN /\ called' \in BOOLEAN
        BY <1>4, NoAnswerFlags DEF ClientTimesOut
  <2> QED BY <1>1, <1>4, <1>a, <1>b, <2>1, <2>2 DEF ClientTimesOut, TypeInv, env
<1>5. CASE Again
  <2>1. <<>> \in Seq(Sendable)
        OBVIOUS
  <2> QED BY <1>1, <1>5, <1>a, <1>b, <2>1 DEF Again, TypeInv, Waits
<1>6. CASE PlatformHandles
  <2>1. Head(to_platform) \in Sendable
        BY <1>6 DEF PlatformHandles, ClientInv, TypeInv
  <2>2. ptx' \subseteq Messages
        BY <1>6, <2>1, HandleAnswers DEF PlatformHandles, Answers
  <2>3. PlatformTypeOK'
        BY <1>6, <2>2, HandleFlags DEF PlatformHandles, TypeInv, PlatformTypeOK
  <2> QED BY <1>1, <1>6, <1>b, <1>c, <2>3 DEF PlatformHandles, TypeInv, env
<1>7. CASE Lose
    BY <1>1, <1>7, <1>a, <1>b, <1>c DEF Lose, TypeInv
<1>8. CASE UNCHANGED vars
    BY <1>1, <1>8, <1>a, <1>b, <1>c DEF vars, TypeInv, env
<1> QED BY <1>2, <1>3, <1>4, <1>5, <1>6, <1>7, <1>8 DEF Next, Client

\* The client, the platform and the datagrams between them are what the code
\* can build, however many are lost and however often the program is started.
THEOREM ClientTypeCorrect == Spec => []ClientTypeOK
<1>1. Init => TypeInv
  <2> SUFFICES ASSUME Init PROVE TypeInv
      OBVIOUS
  <2>1. ClientInv
        BY DEF Init, ClientInit, ClientInv, TalksOnlyRegistered
  <2>2. ctx = <<>> /\ <<>> \in Seq(Sendable)
        BY DEF Init, ClientInit
  <2> QED BY <2>1, <2>2 DEF Init, ClientInit, PlatformInit, PlatformTypeOK, TypeInv, Waits
<1>2. TypeInv => ClientTypeOK
  <2> SUFFICES ASSUME TypeInv PROVE ClientTypeOK
      OBVIOUS
  <2>1. Sendable \subseteq Messages /\ Answers \subseteq Messages
        BY DEF Sendable, Answers
  <2>2. ctx \in Seq(Messages) /\ to_platform \in Seq(Messages) /\ to_client \in Seq(Messages)
        BY <2>1 DEF TypeInv, ClientInv
  <2>3. query \in 1 .. Len(Queries)
        BY DEF TypeInv, ClientInv, Queries
  <2> QED BY <2>2, <2>3 DEF TypeInv, ClientTypeOK
<1>3. TypeInv /\ [Next]_vars => TypeInv'
    BY TypeInvInductive
<1> QED BY <1>1, <1>2, <1>3, PTL DEF Spec

-----------------------------------------------------------------------------
\* One datagram on the platform: a BYE ends the call, and nothing else that the
\* client sends takes a registration back.
LEMMA HandleCall ==
    ASSUME CallInv, NEW m \in Sendable, Handle(m)
    PROVE  /\ invited' => registered'
           /\ acked' => invited'
           /\ IsRequest(m, "BYE") => ~invited' /\ ~acked'
<1>1. CASE GetResponse(m) \/ Deregister(m) \/ Challenge(m)
    BY <1>1 DEF GetResponse, Deregister, Challenge, pctx, IsRequest, CallInv, Sendable
<1>2. CASE AcceptRegister(m) \/ GetMessage(m) \/ GetInvite(m)
    BY <1>2 DEF AcceptRegister, GetMessage, GetInvite, IsRequest, CallInv
<1>3. CASE GetAck(m) \/ GetBye(m)
    BY <1>3 DEF GetAck, GetBye, IsRequest, CallInv
<1>4. CASE NotImplemented(m)
    BY <1>4 DEF NotImplemented, pctx, IsRequest, CallInv
<1> QED BY <1>1, <1>2, <1>3, <1>4 DEF Handle

\* The last of the datagrams on the way after some were added or taken
LEMMA LastOf ==
    ASSUME NEW S, NEW q \in Seq(S)
    PROVE  /\ q # <<>> /\ Tail(q) # <<>> => Tail(q)[Len(Tail(q))] = q[Len(q)]
           /\ q # <<>> /\ Tail(q) = <<>> => Head(q) = q[Len(q)]
           /\ \A a, b \in S : q \o <<a, b>> # <<>> /\ (q \o <<a, b>>)[Len(q \o <<a, b>>)] = b
           /\ q \o <<>> = q
<1>1. Len(q) \in Nat
    OBVIOUS
<1>2. ASSUME NEW a \in S, NEW b \in S
      PROVE  q \o <<a, b>> # <<>> /\ (q \o <<a, b>>)[Len(q \o <<a, b>>)] = b
  <2>1. Len(q \o <<a, b>>) = Len(q) + 2
        BY <1>1
  <2> QED BY <1>1, <2>1
<1>3. ASSUME q # <<>>, Tail(q) # <<>> PROVE Tail(q)[Len(Tail(q))] = q[Len(q)]
  <2>1. Len(Tail(q)) = Len(q) - 1 /\ Len(Tail(q)) >= 1
        BY <1>1, <1>3
  <2> QED BY <1>1, <1>3, <2>1
<1>4. ASSUME q # <<>>, Tail(q) = <<>> PROVE Head(q) = q[Len(q)]
  <2>1. Len(Tail(q)) = Len(q) - 1
        BY <1>1, <1>4
  <2>2. Len(q) = 1
        BY <1>1, <1>4, <2>1
  <2> QED BY <2>2
<1> QED BY <1>2, <1>3, <1>4

LEMMA CallInvInductive ==
    ASSUME TypeInv, CallInv, [Next]_vars
    PROVE  CallInv'
<1>0. to_platform \in Seq(Sendable)
    BY DEF TypeInv, ClientInv
<1>1. CASE ~called' /\ UNCHANGED pvars
    BY <1>1 DEF CallInv, pvars, pctx
<1>2. CASE ClientStarts
    BY <1>1, <1>2 DEF ClientStarts, FirstRegister, CannotStart, Close, CallInv
<1>3. CASE ClientReceives
  <2>1. CASE GetInvited(Head(to_client))
    <3>1. /\ to_platform' = to_platform \o <<Req("ACK", "dev", "none"), Req("BYE", "dev", "none")>>
          /\ wait' = "bye" /\ UNCHANGED pvars
          BY <1>3, <2>1 DEF ClientReceives, Send, GetInvited, Call
    <3>2. /\ to_platform' # <<>>
          /\ to_platform'[Len(to_platform')] = Req("BYE", "dev", "none")
          BY <1>0, <3>1, LastOf, SendableFacts
    <3> QED BY <3>1, <3>2 DEF CallInv, pvars, pctx, IsRequest, Req
  <2>2. CASE Unexpected(Head(to_client))
    <3>1. to_platform' = to_platform
          BY <1>0, <1>3, <2>2, LastOf DEF ClientReceives, Send, Unexpected, Close
    <3> QED BY <1>3, <2>2, <3>1 DEF ClientReceives, Unexpected, Close, CallInv, pvars, pctx, env
  <2>3. CASE ~GetInvited(Head(to_client)) /\ ~Unexpected(Head(to_client))
    <3>1. ~called'
          BY <1>3, <2>3 DEF ClientReceives, Receive, GetChallenge, GetAccepted, Keepalive, GetFirst,
                            GetSecond, Proceed, CallInv
    <3> QED BY <1>1, <1>3, <3>1 DEF ClientReceives
  <2> QED BY <2>1, <2>2, <2>3
<1>4. CASE ClientTimesOut
  <2>1. CASE Keepalive \/ QueryUnanswered
    <3>1. ~called'
          BY <2>1 DEF Keepalive, QueryUnanswered, Proceed, CallInv
    <3> QED BY <1>1, <1>4, <3>1 DEF ClientTimesOut
  <2>2. CASE EndsOnTimeout /\ Close
    <3>1. to_platform' = to_platform
          BY <1>0, <1>4, <2>2, LastOf DEF ClientTimesOut, Send, Close
    <3> QED BY <1>4, <2>2, <3>1 DEF ClientTimesOut, Close, CallInv, pvars, pctx, env
  <2> QED BY <1>4, <2>1, <2>2 DEF ClientTimesOut, NoAnswer
<1>5. CASE Again
    BY <1>1, <1>5 DEF Again
<1>6. CASE PlatformHandles
  <2>1. /\ to_platform # <<>> /\ Handle(Head(to_platform)) /\ to_platform' = Tail(to_platform)
        /\ UNCHANGED <<cvars, env>>
        BY <1>6 DEF PlatformHandles
  <2>2. Head(to_platform) \in Sendable
        BY <1>0, <2>1
  <2>3. /\ invited' => registered'
        /\ acked' => invited'
        /\ IsRequest(Head(to_platform), "BYE") => ~invited' /\ ~acked'
        BY <2>1, <2>2, HandleCall
  <2>4. called' /\ lost' = 0 => IF to_platform' = <<>> THEN ~invited' /\ ~acked'
                                ELSE IsRequest(to_platform'[Len(to_platform')], "BYE")
    <3> SUFFICES ASSUME called', lost' = 0
                 PROVE  IF to_platform' = <<>> THEN ~invited' /\ ~acked'
                        ELSE IsRequest(to_platform'[Len(to_platform')], "BYE")
        OBVIOUS
    <3>1. IsRequest(to_platform[Len(to_platform)], "BYE")
          BY <2>1 DEF CallInv, cvars, env
    <3> QED BY <1>0, <2>1, <2>3, <3>1, LastOf
  <2> QED BY <2>1, <2>3, <2>4 DEF CallInv, cvars
<1>7. CASE Lose
  <2>1. lost' # 0
    <3>1. lost \in Nat /\ lost' = lost + 1
          BY <1>7 DEF Lose, TypeInv
    <3> QED BY <3>1
  <2> QED BY <1>7, <2>1 DEF Lose, CallInv, cvars, pvars, pctx
<1>8. CASE UNCHANGED vars
    BY <1>8 DEF vars, CallInv, cvars, pvars, pctx, env
<1> QED BY <1>2, <1>3, <1>4, <1>5, <1>6, <1>7, <1>8 DEF Next, Client

\* As long as no datagram is lost, a call that the client has ACKed is over on
\* the platform when the program is and the platform has read what it sent, even
\* if the 200 it took for its call was the answer to something else.
THEOREM CallEndsWithProgram == Spec => []EndedCallIsOver
<1>1. Init => TypeInv /\ CallInv
  <2> SUFFICES ASSUME Init PROVE TypeInv /\ CallInv
      OBVIOUS
  <2>1. ClientInv
        BY DEF Init, ClientInit, ClientInv, TalksOnlyRegistered
  <2>2. ctx = <<>> /\ <<>> \in Seq(Sendable)
        BY DEF Init, ClientInit
  <2> QED BY <2>1, <2>2 DEF Init, ClientInit, PlatformInit, PlatformTypeOK, TypeInv, CallInv, Waits
<1>2. CallInv => EndedCallIsOver
    BY DEF CallInv, EndedCallIsOver
<1>3. TypeInv /\ CallInv /\ [Next]_vars => (TypeInv /\ CallInv)'
    BY TypeInvInductive, CallInvInductive
<1> QED BY <1>1, <1>2, <1>3, PTL DEF Spec

-----------------------------------------------------------------------------
\* What answers in time leave under way.  The client sends one request for each
\* of its waits; its query has two, for a 200 and for the response, and if one
\* datagram is left over from before, the response is left over in turn.

\* The request the client waits about
Current ==
    CASE wait = "challenge" -> Req("REGISTER", "dev", "noauth")
      [] wait = "accepted" -> Req("REGISTER", "dev", "auth")
      [] wait = "keepalive" -> Req("MESSAGE", "dev", "Keepalive")
      [] wait \in {"first", "second"} -> Query(query)
      [] OTHER -> Invite

\* What the client may have sent before it and the platform not yet read
Earlier ==
    CASE wait \in {"first", "second"} -> Responses \cup {Req("MESSAGE", "dev", "Keepalive")}
      [] wait = "invited" -> Responses
      [] OTHER -> {}

Ok(m) == IsResponse(m, {200})

\* The 200s under way that do not answer an INVITE
StrayOks == {i \in DOMAIN to_client : Ok(to_client[i]) /\ to_client[i].method # "INVITE"}

\* The datagrams the client will still read for its query
Reads == CASE wait = "first" -> 2 [] wait = "second" -> 1 [] OTHER -> 0

PipeInv ==
    /\ to_platform \in {<<>>, <<Current>>} \cup {<<e, Current>> : e \in Earlier}
    /\ \A i \in DOMAIN to_client :
         Ok(to_client[i]) /\ to_client[i].method = "INVITE" => invited
    /\ wait = "register" => to_platform = <<>> /\ to_client = <<>>
    /\ wait = "challenge" => Len(to_client) + Len(to_platform) <= 1
    /\ wait = "accepted" => Len(to_client) <= 2 /\ (to_platform # <<>> => to_client = <<>>)
    /\ wait = "keepalive" => Len(to_client) + Len(to_platform) <= 2
    /\ wait \in {"first", "second"} =>
         /\ Len(to_client) <= Reads + 1
         /\ StrayOks \subseteq 1 .. Reads
         /\ to_platform # <<>> => Len(to_client) < Reads
         /\ Len(to_platform) = 2 /\ to_platform[1].type = "req" => Len(to_client) + 1 < Reads
    /\ wait = "invited" => StrayOks = {}

InTime == network = "in time"

InTimeInv ==
    InTime =>
      /\ ~platform_invited
      /\ wait \notin {"bye", "closed"} => PipeInv

LEMMA InTimeStands ==
    /\ UNCHANGED network => InTime' = InTime
    /\ InTime => network # "late"
BY Zenon DEF InTime

Single == {Req("REGISTER", "dev", "noauth"), Req("MESSAGE", "dev", "Keepalive"), Invite}

\* What the platform sends for a datagram of this client: one reply to it, and
\* at most one request.
LEMMA PlatformSends ==
    ASSUME NEW m \in Sendable, Handle(m), ~platform_invited
    PROVE  /\ ~platform_invited'
           /\ (invited /\ ~IsRequest(m, "BYE")) => invited'
           /\ \E c \in Codes, b \in ResponseBodies, r \in Requests :
                /\ ptx' \subseteq {Reply(m, c, b), r}
                /\ c = 200 /\ IsRequest(m, "INVITE") => invited'
                /\ m.type = "resp" => ptx' = {}
                /\ m \in Single => ptx' \subseteq {Reply(m, c, b)}
<1> DEFINE Few(c, b, r) == /\ ptx' \subseteq {Reply(m, c, b), r}
                           /\ c = 200 /\ IsRequest(m, "INVITE") => invited'
                           /\ m.type = "resp" => ptx' = {}
                           /\ m \in Single => ptx' \subseteq {Reply(m, c, b)}
<1>0. /\ CatalogQuery \in Requests
      /\ {200, 401, 501} \subseteq Codes /\ {"none", "tag", "challenge"} \subseteq ResponseBodies
      /\ \A b \in XmlResponses : Req("MESSAGE", "platform", b) \in Requests
    BY DEF CatalogQuery, Req, Requests, Methods, CallIds, RequestBodies, Codes,
           ResponseBodies, XmlResponses
<1>1. CASE GetResponse(m)
  <2>1. Few(401, "none", CatalogQuery) /\ UNCHANGED pctx
        BY <1>1 DEF GetResponse, IsRequest
  <2> QED BY <1>0, <2>1 DEF pctx
<1>2. CASE Deregister(m)
    BY <1>2 DEF Deregister, Sendable
<1>3. CASE Challenge(m)
  <2>1. Few(401, "challenge", CatalogQuery) /\ UNCHANGED pctx
        BY <1>3 DEF Challenge, IsRequest
  <2> QED BY <1>0, <2>1 DEF pctx
<1>4. CASE AcceptRegister(m)
  <2>1. m \notin Single
        BY <1>4 DEF AcceptRegister, IsRequest, Single, Invite, Req
  <2>2. Few(200, "none", CatalogQuery) /\ ~platform_invited' /\ invited' = invited
        BY <1>4, <2>1 DEF AcceptRegister, IsRequest
  <2> QED BY <1>0, <2>2
<1>5. CASE GetMessage(m)
  <2>1. PICK b \in XmlResponses : /\ FollowUp(m) \subseteq {Req("MESSAGE", "platform", b)}
                                  /\ m.body = "Keepalive" => FollowUp(m) = {}
    <3>1. CASE m.body = "QueryCatalog"
          BY <3>1 DEF FollowUp, XmlResponses
    <3>2. CASE m.body = "QueryDeviceInfo"
          BY <3>2 DEF FollowUp, XmlResponses
    <3>3. CASE m.body \notin {"QueryCatalog", "QueryDeviceInfo"}
      <4>1. FollowUp(m) \subseteq {Req("MESSAGE", "platform", "DeviceStatusResponse")}
            /\ (m.body = "Keepalive" => FollowUp(m) = {})
            BY <3>3 DEF FollowUp, XmlResponses, Sendable
      <4> QED BY <4>1 DEF XmlResponses
    <3> QED BY <3>1, <3>2, <3>3
  <2>2. m \in Single => m.body = "Keepalive"
        BY <1>5 DEF GetMessage, IsRequest, Single, Invite, Req
  <2>3. Few(200, "none", Req("MESSAGE", "platform", b))
        BY <1>5, <2>1, <2>2 DEF GetMessage, IsRequest
  <2>4. ~platform_invited' /\ invited' = invited
        BY <1>5 DEF GetMessage, Sendable
  <2> QED BY <1>0, <2>3, <2>4
<1>6. CASE GetInvite(m)
  <2>1. Few(200, "tag", CatalogQuery) /\ ~platform_invited' /\ invited'
        BY <1>6 DEF GetInvite, IsRequest
  <2> QED BY <1>0, <2>1
<1>7. CASE GetAck(m)
  <2>1. Few(401, "none", CatalogQuery) /\ ~platform_invited' /\ invited' = invited
        BY <1>7 DEF GetAck, IsRequest
  <2> QED BY <1>0, <2>1
<1>8. CASE GetBye(m)
  <2>1. Few(200, "none", CatalogQuery) /\ ~platform_invited' /\ IsRequest(m, "BYE")
        BY <1>8 DEF GetBye, IsRequest
  <2> QED BY <1>0, <2>1
<1>9. CASE NotImplemented(m)
  <2>1. Few(501, "none", CatalogQuery) /\ UNCHANGED pctx
        BY <1>9 DEF NotImplemented, IsRequest
  <2> QED BY <1>0, <2>1 DEF pctx
<1> QED BY <1>1, <1>2, <1>3, <1>4, <1>5, <1>6, <1>7, <1>8, <1>9 DEF Handle

\* The order they are sent in
LEMMA FewInOrder ==
    ASSUME NEW a, NEW r, NEW S, S \subseteq {a, r}, a.type # "req", r.type = "req",
           NEW s \in SetToSeqs(S), RepliesFirst(s)
    PROVE  /\ s \in Seq(S) /\ Len(s) <= 2
           /\ S \subseteq {a} => Len(s) <= 1
           /\ S = {} => s = <<>>
           /\ \A i \in 1 .. Len(s) : s[i] = r \/ (i = 1 /\ s[i] = a)
<1>1. IsFiniteSet(S) /\ Cardinality(S) <= 2 /\ (S \subseteq {a} => Cardinality(S) <= 1)
  <2>1. IsFiniteSet({a}) /\ Cardinality({a}) = 1
        BY FS_Singleton
  <2>2. IsFiniteSet({a} \cup {r}) /\ Cardinality({a} \cup {r}) <= 2
        BY <2>1, FS_AddElement
  <2>3. S \subseteq {a} \cup {r}
        OBVIOUS
  <2>4. IsFiniteSet(S) /\ Cardinality(S) \in Nat /\ Cardinality(S) <= Cardinality({a} \cup {r})
        BY <2>2, <2>3, FS_Subset, FS_CardinalityType
  <2>5. S \subseteq {a} => Cardinality(S) <= 1
        BY <2>1, FS_Subset
  <2>6. Cardinality({a} \cup {r}) \in Nat
        BY <2>2, FS_CardinalityType
  <2> QED BY ONLY <2>2, <2>4, <2>5, <2>6
<1>2. s \in Seq(S) /\ Len(s) = Cardinality(S)
  <2>1. Cardinality(S) \in Nat
        BY <1>1, FS_CardinalityType
  <2>2. s \in [1 .. Cardinality(S) -> S]
        BY DEF SetToSeqs
  <2> QED BY <2>1, <2>2
<1>3. S = {} => s = <<>>
  <2>1. S = {} => Len(s) = 0
        BY <1>1, <1>2, FS_EmptySet
  <2> QED BY <1>2, <2>1
<1>4. ASSUME NEW i \in 1 .. Len(s) PROVE s[i] = r \/ (i = 1 /\ s[i] = a)
  <2>1. s[i] \in S
        BY <1>2
  <2>2. i # 1 => s[i].type = "req"
        BY <1>2 DEF RepliesFirst
  <2> QED BY <2>1, <2>2
<1> QED BY <1>1, <1>2, <1>3, <1>4

\* The platform reads a datagram of a client that is not yet in its call.
LEMMA PlatformKeepsInTime ==
    ASSUME TypeInv, InTimeInv, PlatformHandles
    PROVE  InTimeInv'
<1>1. /\ to_platform # <<>> /\ Handle(Head(to_platform)) /\ to_platform' = Tail(to_platform)
      /\ UNCHANGED <<wait, query, InTime>>
    BY InTimeStands DEF PlatformHandles, cvars, env
<1>0. SUFFICES ASSUME InTime PROVE InTimeInv'
    BY <1>1 DEF InTimeInv
<1> DEFINE m == Head(to_platform)
<1>2. m \in Sendable /\ to_platform \in Seq(Sendable) /\ ~platform_invited
      /\ to_client \in Seq(Answers)
  <2>1. to_platform \in Seq(Sendable) /\ to_client \in Seq(Answers)
        BY DEF TypeInv, ClientInv
  <2>2. ~platform_invited
        BY <1>0 DEF InTimeInv
  <2> QED BY <1>1, <2>1, <2>2
<1>3. PICK s \in SetToSeqs(ptx') : RepliesFirst(s) /\ to_client' = to_client \o s
    BY DEF PlatformHandles
<1>4. PICK c \in Codes, b \in ResponseBodies, r \in Requests :
           /\ ptx' \subseteq {Reply(m, c, b), r}
           /\ c = 200 /\ IsRequest(m, "INVITE") => invited'
           /\ m.type = "resp" => ptx' = {}
           /\ m \in Single => ptx' \subseteq {Reply(m, c, b)}
    BY <1>1, <1>2, PlatformSends
<1>5. ~platform_invited' /\ (invited /\ ~IsRequest(m, "BYE") => invited')
    BY <1>1, <1>2, PlatformSends
<1> HIDE DEF m
<1>6. Reply(m, c, b).type # "req" /\ r.type = "req" /\ Reply(m, c, b).code = c
      /\ Reply(m, c, b).method = m.method
    BY DEF Reply, Requests
<1>7. /\ s \in Seq(ptx') /\ Len(s) \in Nat /\ Len(s) <= 2
      /\ m.type = "resp" => s = <<>>
      /\ m \in Single => Len(s) <= 1
      /\ \A i \in 1 .. Len(s) : s[i] = r \/ (i = 1 /\ s[i] = Reply(m, c, b))
  <2>1. /\ s \in Seq(ptx') /\ Len(s) <= 2
        /\ ptx' \subseteq {Reply(m, c, b)} => Len(s) <= 1
        /\ ptx' = {} => s = <<>>
        /\ \A i \in 1 .. Len(s) : s[i] = r \/ (i = 1 /\ s[i] = Reply(m, c, b))
        BY <1>3, <1>4, <1>6, FewInOrder
  <2> QED BY <1>4, <2>1
<1>8. \A i \in 1 .. Len(s) : Ok(s[i]) => i = 1 /\ c = 200 /\ s[i].method = m.method
  <2> SUFFICES ASSUME NEW i \in 1 .. Len(s), Ok(s[i])
               PROVE  i = 1 /\ c = 200 /\ s[i].method = m.method
      OBVIOUS
  <2>1. s[i] # r
        BY <1>6 DEF Ok, IsResponse
  <2>2. i = 1 /\ s[i] = Reply(m, c, b)
        BY <1>7, <2>1
  <2> QED BY <1>6, <2>2 DEF Ok, IsResponse
<1>9. /\ Len(to_client) \in Nat /\ Len(to_client') = Len(to_client) + Len(s)
      /\ \A i \in 1 .. Len(to_client) : to_client'[i] = to_client[i]
      /\ \A i \in 1 .. Len(to_client') : i > Len(to_client) =>
           i - Len(to_client) \in 1 .. Len(s) /\ to_client'[i] = s[i - Len(to_client)]
      /\ DOMAIN to_client = 1 .. Len(to_client) /\ DOMAIN to_client' = 1 .. Len(to_client')
    BY <1>2, <1>3, <1>7
<1> SUFFICES ASSUME wait \notin {"bye", "closed"} PROVE PipeInv'
    BY <1>1, <1>5 DEF InTimeInv
<1>10. PipeInv /\ Current' = Current /\ Earlier' = Earlier /\ Reads' = Reads
    BY <1>0, <1>1 DEF InTimeInv, Current, Earlier, Reads
<1>11. \/ to_platform = <<Current>> /\ m = Current /\ to_platform' = <<>>
       \/ /\ to_platform' = <<Current>> /\ m \in Earlier
          /\ to_platform = <<m, Current>>
  <2>1. CASE to_platform = <<Current>>
        BY <1>1, <2>1 DEF m
  <2>2. CASE \E e \in Earlier : to_platform = <<e, Current>>
    <3>1. PICK e \in Earlier : to_platform = <<e, Current>>
          BY <2>2
    <3>2. Head(to_platform) = e /\ Tail(to_platform) = <<Current>>
          BY <3>1
    <3> QED BY <1>1, <3>1, <3>2 DEF m
  <2> QED BY <1>1, <1>10, <2>1, <2>2 DEF PipeInv
<1>12. to_platform' \in {<<>>, <<Current>>}
    BY <1>11
<1>13. ~IsRequest(m, "BYE")
    BY <1>11 DEF Current, Earlier, Req, Invite, Query, Responses, IsRequest
<1>14. \A i \in DOMAIN to_client' :
         Ok(to_client'[i]) /\ to_client'[i].method = "INVITE" => invited'
  <2> SUFFICES ASSUME NEW i \in 1 .. Len(to_client'), Ok(to_client'[i]),
                      to_client'[i].method = "INVITE"
               PROVE  invited'
      BY <1>9
  <2>1. CASE i <= Len(to_client)
    <3>1. i \in 1 .. Len(to_client) /\ to_client'[i] = to_client[i]
          BY <1>9, <2>1
    <3> QED BY <1>5, <1>9, <1>10, <1>13, <3>1 DEF PipeInv
  <2>2. CASE i > Len(to_client)
    <3>1. s # <<>> /\ c = 200 /\ m.method = "INVITE"
          BY <1>7, <1>8, <1>9, <2>2
    <3>2. m.type # "resp"
          BY <1>7, <3>1
    <3>3. m.type = "req"
          BY <1>2, <3>2 DEF Sendable, Messages, Requests, Responses
    <3> QED BY <1>4, <3>1, <3>3 DEF IsRequest
  <2> QED BY <1>9, <2>1, <2>2
<1>15. \A i \in StrayOks' : i \in StrayOks \/ (i = Len(to_client) + 1 /\ m.method # "INVITE" /\ s # <<>>)
  <2> SUFFICES ASSUME NEW i \in 1 .. Len(to_client'), Ok(to_client'[i]),
                      to_client'[i].method # "INVITE"
               PROVE  i \in StrayOks \/ (i = Len(to_client) + 1 /\ m.method # "INVITE" /\ s # <<>>)
      BY <1>9 DEF StrayOks, Ok
  <2>1. CASE i <= Len(to_client)
    <3>1. i \in 1 .. Len(to_client) /\ to_client'[i] = to_client[i]
          BY <1>9, <2>1
    <3> QED BY <1>9, <3>1 DEF StrayOks
  <2>2. CASE i > Len(to_client)
    <3>1. i - Len(to_client) \in 1 .. Len(s) /\ to_client'[i] = s[i - Len(to_client)]
          BY <1>9, <2>2
    <3>2. i - Len(to_client) = 1 /\ m.method # "INVITE"
          BY <1>8, <3>1
    <3>3. s # <<>>
          BY <1>7, <3>1
    <3> QED BY <1>9, <3>2, <3>3
  <2> QED BY <1>9, <2>1, <2>2
<1>16. wait' # "register"
    BY <1>1, <1>10 DEF PipeInv
<1>17. CASE wait \in {"challenge", "accepted", "keepalive"}
  <2>1. to_platform = <<Current>> /\ m = Current /\ to_platform' = <<>> /\ Len(to_platform) = 1
        BY <1>11, <1>17 DEF Earlier
  <2>2. wait # "accepted" => m \in Single
        BY <1>17, <2>1 DEF Current, Single
  <2>3. Len(to_platform') = 0 /\ (to_client = <<>> => Len(to_client) = 0)
        BY <2>1
  <2> QED BY <1>1, <1>7, <1>9, <1>10, <1>12, <1>14, <1>17, <2>1, <2>2, <2>3 DEF PipeInv
<1>18. CASE wait \in {"first", "second"}
  <2>0. Reads \in 1 .. 2 /\ Len(to_client) < Reads
        BY <1>1, <1>10, <1>18 DEF PipeInv, Reads
  <2>1. StrayOks \subseteq 1 .. Len(to_client)
        BY <1>9 DEF StrayOks
  <2>2. \/ to_platform' = <<>>
        \/ to_platform' = <<Current>> /\ Len(to_client') < Reads
    <3>1. SUFFICES ASSUME to_platform' = <<Current>>, m \in Earlier, to_platform = <<m, Current>>
                   PROVE  Len(to_client') < Reads
          BY <1>11
    <3>2. CASE m.type = "resp"
      <4>1. Len(s) = 0
            BY <1>7, <3>2
      <4> QED BY <1>9, <2>0, <4>1
    <3>3. CASE m.type # "resp"
      <4>1. m = Req("MESSAGE", "dev", "Keepalive")
            BY <1>18, <3>1, <3>3 DEF Earlier, Responses
      <4>2. m \in Single /\ m.type = "req"
            BY <4>1 DEF Single, Req
      <4>3. Len(to_platform) = 2 /\ to_platform[1] = m
            BY <3>1
      <4>4. Len(to_client) + 1 < Reads
            BY <1>10, <1>18, <4>2, <4>3 DEF PipeInv
      <4>5. Len(s) \in Nat /\ Len(s) <= 1 /\ Len(to_client) \in Nat
            /\ Len(to_client') = Len(to_client) + Len(s)
            BY <1>7, <1>9, <4>2
      <4> QED BY ONLY <2>0, <4>4, <4>5
    <3> QED BY <3>2, <3>3
  <2>3. Len(to_client') <= Reads + 1
        BY <1>7, <1>9, <2>0
  <2>4. StrayOks' \subseteq 1 .. Reads
    <3> SUFFICES ASSUME NEW i \in StrayOks' PROVE i \in 1 .. Reads
        OBVIOUS
    <3>1. i \in 1 .. Len(to_client) \/ i = Len(to_client) + 1
          BY <1>15, <2>1
    <3>2. Len(to_client) \in Nat
          BY <1>9
    <3> QED BY ONLY <2>0, <3>1, <3>2
  <2>5. Len(to_platform') # 2
        BY <1>12
  <2> QED BY <1>1, <1>10, <1>12, <1>14, <1>18, <2>2, <2>3, <2>4, <2>5 DEF PipeInv
<1>19. CASE wait = "invited"
  <2>1. m.type = "resp" \/ m = Invite
        BY <1>11, <1>19 DEF Earlier, Current, Responses
  <2>2. s = <<>> \/ m.method = "INVITE"
        BY <1>7, <2>1 DEF Invite, Req
  <2>3. StrayOks' = {}
        BY <1>10, <1>15, <1>19, <2>2 DEF PipeInv
  <2> QED BY <1>1, <1>10, <1>12, <1>14, <1>19, <2>3 DEF PipeInv
<1> QED BY <1>1, <1>16, <1>17, <1>18, <1>19 DEF TypeInv, Waits

\* The client has read a datagram, or the network lost one: what is left moves up.
LEMMA MovesUp ==
    ASSUME NEW S, to_client \in Seq(S), to_client # <<>>, to_client' = Tail(to_client),
           UNCHANGED invited, PipeInv
    PROVE  /\ Len(to_client) \in Nat /\ Len(to_client) >= 1 /\ Len(to_client') = Len(to_client) - 1
           /\ \A i \in DOMAIN to_client' :
                Ok(to_client'[i]) /\ to_client'[i].method = "INVITE" => invited'
           /\ \A i \in StrayOks' : i \in 1 .. Len(to_client') /\ i + 1 \in StrayOks
<1>1. /\ Len(to_client) \in Nat /\ Len(to_client) >= 1 /\ Len(to_client') = Len(to_client) - 1
      /\ DOMAIN to_client = 1 .. Len(to_client) /\ DOMAIN to_client' = 1 .. Len(to_client')
      /\ \A i \in 1 .. Len(to_client') : to_client'[i] = to_client[i + 1]
    OBVIOUS
<1>2. \A i \in 1 .. Len(to_client') : i + 1 \in 1 .. Len(to_client)
    BY <1>1
<1>3. \A i \in DOMAIN to_client' :
        Ok(to_client'[i]) /\ to_client'[i].method = "INVITE" => invited'
    BY <1>1, <1>2 DEF PipeInv
<1>4. \A i \in StrayOks' : i \in 1 .. Len(to_client') /\ i + 1 \in StrayOks
    BY <1>1, <1>2 DEF StrayOks, Ok
<1> QED BY <1>1, <1>3, <1>4

LEMMA Joined ==
    ASSUME NEW a, NEW b
    PROVE  /\ <<>> \o <<a>> = <<a>> /\ <<>> \o <<a, b>> = <<a, b>> /\ <<>> \o <<>> = <<>>
           /\ <<a>> \o <<b>> = <<a, b>>
<1>1. PICK S : a \in S /\ b \in S
  <2>1. a \in {a, b} /\ b \in {a, b}
        OBVIOUS
  <2> QED BY <2>1
<1>2. <<>> \in Seq(S) /\ <<a>> \in Seq(S) /\ <<b>> \in Seq(S) /\ <<a, b>> \in Seq(S)
    BY <1>1
<1>3. <<>> \o <<a>> = <<a>> 
    BY <1>2
<1>4.  <<>> \o <<a, b>> = <<a, b>> /\ <<>> \o <<>> = <<>>
    BY <1>2
<1>5. <<a>> \o <<b>> = <<a, b>>
  <2>1. <<a>> \o <<b>> \in Seq(S) /\ Len(<<a>> \o <<b>>) = 2
        BY <1>2
  <2>2. (<<a>> \o <<b>>)[1] = a /\ (<<a>> \o <<b>>)[2] = b
        BY <1>2
  <2>3. Len(<<a, b>>) = 2 /\ <<a, b>>[1] = a /\ <<a, b>>[2] = b
        OBVIOUS
  <2> DEFINE s == <<a>> \o <<b>>
             t == <<a, b>>
  <2>4. s \in Seq(S) /\ t \in Seq(S) /\ Len(s) = 2 /\ Len(t) = 2
        /\ s[1] = t[1] /\ s[2] = t[2]
        BY <1>2, <2>1, <2>2, <2>3
  <2> HIDE DEF s, t
  <2>5. \A i \in 1 .. 2 : s[i] = t[i]
        BY <2>4
  <2>6. s = t
        BY <2>4, <2>5
  <2> QED BY <2>6 DEF s, t
<1> QED BY <1>3, <1>4, <1>5

LEMMA ProceedInTime ==
    ASSUME query \in 1 .. 3, to_platform = <<>>, Send,
           NEW answer \in {<<>>} \cup {<<a>> : a \in Responses}, Proceed(answer),
           Len(to_client') \in 0 .. 1, StrayOks' = {},
           \A i \in DOMAIN to_client' :
             Ok(to_client'[i]) /\ to_client'[i].method = "INVITE" => invited'
    PROVE  PipeInv'
<1>1. /\ wait' \in {"first", "invited"} /\ ctx' = answer \o <<Current'>>
      /\ Responses \subseteq Earlier'
    BY DEF Proceed, Current, Query, Queries, Earlier
<1>2. to_platform' = <<Current'>> \/ \E a \in Responses : to_platform' = <<a, Current'>>
  <2>1. CASE answer = <<>>
    <3>1. ctx' = <<Current'>>
          BY <1>1, <2>1, Joined
    <3> QED BY <3>1, Joined DEF Send
  <2>2. CASE \E a \in Responses : answer = <<a>>
    <3>1. PICK a \in Responses : answer = <<a>>
          BY <2>2
    <3>2. ctx' = <<a>> \o <<Current'>>
          BY <1>1, <3>1
    <3>3. ctx' = <<a, Current'>>
          BY <3>2, Joined
    <3> QED BY <3>3, Joined DEF Send
  <2> QED BY <2>1, <2>2
<1>3. /\ to_platform' \in {<<>>, <<Current'>>} \cup {<<e, Current'>> : e \in Earlier'}
      /\ ~(Len(to_platform') = 2 /\ to_platform'[1].type = "req")
    BY <1>1, <1>2 DEF Responses
<1>4. wait' = "first" => Reads' = 2
    BY DEF Reads
<1> QED BY <1>1, <1>3, <1>4 DEF PipeInv

LEMMA ClientKeepsInTime ==
    ASSUME TypeInv, InTimeInv, ClientReceives
    PROVE  InTimeInv'
<1>1. /\ wait # "closed" /\ to_client # <<>> /\ Receive(Head(to_client))
      /\ to_client' = Tail(to_client) /\ Send
      /\ UNCHANGED <<InTime, platform_invited, invited>>
    BY InTimeStands DEF ClientReceives, pvars, pctx, env
<1> DEFINE m == Head(to_client)
<1>2. to_client \in Seq(Answers) /\ m \in Messages /\ query \in 1 .. 3
    BY <1>1 DEF TypeInv, ClientInv, Answers
<1> HIDE DEF m
<1> SUFFICES ASSUME InTime, wait \notin {"bye", "closed"},
                    wait' \notin {"bye", "closed"}
             PROVE  PipeInv'
    BY <1>1 DEF InTimeInv, Receive, GetChallenge, GetAccepted, Keepalive, GetFirst, GetSecond,
                Proceed, GetInvited, Unexpected, Close
<1>3. PipeInv
    BY DEF InTimeInv
<1>4. /\ Len(to_client) \in Nat /\ Len(to_client) >= 1 /\ Len(to_client') = Len(to_client) - 1
      /\ \A i \in DOMAIN to_client' :
           Ok(to_client'[i]) /\ to_client'[i].method = "INVITE" => invited'
      /\ \A i \in StrayOks' : i \in 1 .. Len(to_client') /\ i + 1 \in StrayOks
    BY <1>1, <1>2, <1>3, MovesUp
<1>10. /\ Len(to_platform) \in Nat /\ (Len(to_platform) = 0 <=> to_platform = <<>>)
       /\ Len(to_client') = 0 <=> to_client' = <<>>
  <2>1. to_platform \in Seq(Sendable) /\ to_client' \in Seq(Answers)
        BY <1>1, <1>2 DEF TypeInv, ClientInv
  <2> QED BY <2>1
<1>5. CASE GetChallenge(m)
  <2>1. wait = "challenge" /\ wait' = "accepted" /\ ctx' = <<Current'>>
        BY <1>5 DEF GetChallenge, Current
  <2>2. to_platform = <<>>
        BY <1>3, <1>4, <1>10, <2>1 DEF PipeInv
  <2>3. Len(to_client') = 0
        BY <1>3, <1>4, <1>10, <2>1 DEF PipeInv
  <2>4. to_platform' = <<Current'>> /\ to_client' = <<>>
        BY <1>1, <1>10, <2>1, <2>2, <2>3, Joined DEF Send
  <2>5. Len(to_client') <= 2 /\ (to_platform' # <<>> => to_client' = <<>>)
        BY <2>3, <2>4
  <2>6. to_platform' \in {<<>>, <<Current'>>}
        BY <2>4
  <2> QED BY <1>4, <2>1, <2>5, <2>6 DEF PipeInv
<1>6. CASE GetAccepted(m)
  <2>1. wait = "accepted" /\ wait' = "keepalive" /\ ctx' = <<Current'>>
        BY <1>6 DEF GetAccepted, Current
  <2>2. to_platform = <<>> /\ Len(to_client') <= 1
        BY <1>1, <1>3, <1>4, <2>1 DEF PipeInv
  <2>3. to_platform' = <<Current'>> /\ Len(to_platform') = 1
        BY <1>1, <2>1, <2>2, Joined DEF Send
  <2>4. Len(to_client') + Len(to_platform') <= 2
        BY <1>4, <2>2, <2>3
  <2> QED BY <1>4, <2>1, <2>3, <2>4 DEF PipeInv
<1>7. CASE Keepalive
  <2>1. /\ wait = "keepalive" /\ wait' = "first" /\ ctx' = <<Current'>>
        /\ Reads' = 2 /\ Current \in Earlier' /\ Current.type = "req" /\ Earlier = {}
        BY <1>7 DEF Keepalive, Current, Reads, Earlier, Req
  <2>2. CASE to_platform = <<>>
    <3>1. Len(to_client') <= 1
          BY <1>3, <1>4, <2>1, <2>2 DEF PipeInv
    <3>2. to_platform' = <<Current'>> /\ Len(to_platform') = 1
          BY <1>1, <2>1, <2>2, Joined DEF Send
    <3>3. StrayOks' \subseteq 1 .. 2
          BY <1>4, <3>1
    <3> QED BY <1>4, <2>1, <3>1, <3>2, <3>3 DEF PipeInv
  <2>3. CASE to_platform = <<Current>>
    <3>1. Len(to_client') = 0
          BY <1>3, <1>4, <2>1, <2>3 DEF PipeInv
    <3>2. to_platform' = <<Current, Current'>>
          BY <1>1, <2>1, <2>3, Joined DEF Send
    <3>3. StrayOks' \subseteq 1 .. 2
      <4> SUFFICES ASSUME NEW i \in StrayOks' PROVE i \in 1 .. 2
          OBVIOUS
      <4>1. i \in 1 .. Len(to_client')
            BY <1>4
      <4> QED BY <3>1, <4>1
    <3>4. to_platform' \in {<<e, Current'>> : e \in Earlier'}
          BY <2>1, <3>2
    <3>5. Len(to_client') <= Reads' + 1 /\ Len(to_client') + 1 < Reads'
          /\ Len(to_client') < Reads' /\ StrayOks' \subseteq 1 .. Reads'
          BY <2>1, <3>1, <3>3
    <3>6. to_platform' \in {<<>>, <<Current'>>} \cup {<<e, Current'>> : e \in Earlier'}
          BY <3>4
    <3>7. wait' = "first"
          BY <2>1
    <3>8. \A i \in DOMAIN to_client' :
            Ok(to_client'[i]) /\ to_client'[i].method = "INVITE" => invited'
          BY <1>4
    <3> QED BY ONLY <3>5, <3>6, <3>7, <3>8 DEF PipeInv
  <2> QED BY <1>3, <2>1, <2>2, <2>3 DEF PipeInv
<1>8. CASE GetFirst
  <2>1. /\ wait = "first" /\ wait' = "second" /\ ctx' = <<>> /\ query' = query
        /\ Reads = 2 /\ Reads' = 1 /\ Current' = Current /\ Earlier' = Earlier
        BY <1>8 DEF GetFirst, Reads, Current, Earlier
  <2>2. to_platform' = to_platform
        BY <1>1, <2>1 DEF Send, TypeInv, ClientInv
  <2>3. /\ Len(to_client') <= 2
        /\ to_platform # <<>> => Len(to_client') < 1
        /\ Len(to_platform) = 2 /\ to_platform[1].type = "req" => Len(to_client') + 1 < 1
        BY <1>3, <1>4, <2>1 DEF PipeInv
  <2>4. StrayOks' \subseteq 1 .. 1
    <3> SUFFICES ASSUME NEW i \in StrayOks' PROVE i \in 1 .. 1
        OBVIOUS
    <3>1. i \in 1 .. Len(to_client') /\ i + 1 \in 1 .. 2
          BY <1>3, <1>4, <2>1 DEF PipeInv
    <3> QED BY <1>4, <3>1
  <2> QED BY <1>3, <1>4, <2>1, <2>2, <2>3, <2>4 DEF PipeInv
<1>9. CASE GetSecond(m)
  <2>1. wait = "second" /\ Reads = 1
        BY <1>9 DEF GetSecond, Reads
  <2>2. to_platform = <<>> /\ Len(to_client') \in 0 .. 1
        BY <1>3, <1>4, <2>1 DEF PipeInv
  <2>3. StrayOks' = {}
    <3> SUFFICES ASSUME NEW i \in StrayOks' PROVE FALSE
        OBVIOUS
    <3>1. i \in 1 .. Len(to_client') /\ i + 1 \in 1 .. 1
          BY <1>3, <1>4, <2>1 DEF PipeInv
    <3> QED BY <1>4, <3>1
  <2> DEFINE answer == IF IsRequest(m, "MESSAGE") THEN <<Answer(m)>> ELSE <<>>
  <2>4. answer \in {<<>>} \cup {<<a>> : a \in Responses} /\ Proceed(answer)
    <3>1. Answer(m) \in Responses
          BY <1>2 DEF Answer, Reply, Messages, Requests, Responses, Codes, ResponseBodies
    <3> QED BY <1>9, <3>1 DEF GetSecond
  <2> HIDE DEF answer
  <2> QED BY <1>1, <1>2, <1>4, <2>2, <2>3, <2>4, ProceedInTime
<1> QED BY <1>1, <1>5, <1>6, <1>7, <1>8, <1>9 DEF Receive, GetInvited, Unexpected, Close, m
LEMMA TimeoutKeepsInTime ==
    ASSUME TypeInv, InTimeInv, ClientTimesOut
    PROVE  InTimeInv'
<1>1. /\ to_client = <<>> /\ to_client' = <<>> /\ NoAnswer /\ Send
      /\ InTime => to_platform = <<>>
      /\ UNCHANGED <<InTime, platform_invited, invited>>
    BY InTimeStands DEF ClientTimesOut, pvars, pctx, env
<1> SUFFICES ASSUME InTime, wait' \notin {"bye", "closed"} PROVE PipeInv'
    BY <1>1 DEF InTimeInv
<1>2. to_platform = <<>> /\ query \in 1 .. 3
    BY <1>1 DEF TypeInv, ClientInv
<1>3. Len(to_client') = 0 /\ StrayOks' = {} /\ DOMAIN to_client' = {}
    BY <1>1 DEF StrayOks
<1>4. CASE Keepalive
  <2>1. wait' = "first" /\ ctx' = <<Current'>> /\ Reads' = 2
        BY <1>4 DEF Keepalive, Current, Reads
  <2>2. to_platform' = <<Current'>> /\ Len(to_platform') = 1
        BY <1>1, <1>2, <2>1, Joined DEF Send
  <2> QED BY <1>3, <2>1, <2>2 DEF PipeInv
<1>5. CASE QueryUnanswered
    BY <1>1, <1>2, <1>3, <1>5, ProceedInTime DEF QueryUnanswered
<1> QED BY <1>1, <1>4, <1>5 DEF NoAnswer, Close

LEMMA LossKeepsInTime ==
    ASSUME TypeInv, InTimeInv, Lose
    PROVE  InTimeInv'
<1>1. UNCHANGED <<wait, query, InTime, platform_invited, invited>>
    BY InTimeStands DEF Lose, cvars, pvars, pctx
<1> SUFFICES ASSUME InTime, wait \notin {"bye", "closed"} PROVE PipeInv'
    BY <1>1 DEF InTimeInv
<1>2. PipeInv /\ Current' = Current /\ Earlier' = Earlier /\ Reads' = Reads
    BY <1>1 DEF InTimeInv, Current, Earlier, Reads
<1>3. to_client \in Seq(Answers) /\ to_platform \in Seq(Sendable) /\ Len(to_client) \in Nat
    BY DEF TypeInv, ClientInv
<1>r. Reads \in 0 .. 2 /\ (wait = "first" => Reads = 2) /\ (wait = "second" => Reads = 1)
    BY DEF Reads
<1>4. CASE to_platform # <<>> /\ to_platform' = Tail(to_platform) /\ UNCHANGED to_client
  <2>1. StrayOks' = StrayOks
        BY <1>4 DEF StrayOks, Ok
  <2>2. to_platform' \in {<<>>, <<Current>>} /\ Len(to_platform') <= 1
        /\ Len(to_platform') \in Nat /\ Len(to_platform') < Len(to_platform)
        /\ Len(to_platform) \in Nat
    <3>1. CASE to_platform = <<Current>>
      <4>1. to_platform' = <<>> /\ Len(to_platform) = 1
            BY <1>4, <3>1
      <4> QED BY <4>1
    <3>2. CASE \E e \in Earlier : to_platform = <<e, Current>>
      <4>1. PICK e \in Earlier : to_platform = <<e, Current>>
            BY <3>2
      <4>2. to_platform' = <<Current>> /\ Len(to_platform) = 2
            BY <1>4, <4>1
      <4> QED BY <4>2
    <3> QED BY <1>2, <1>4, <3>1, <3>2 DEF PipeInv
  <2>3. Len(to_client) + Len(to_platform') < Len(to_client) + Len(to_platform)
    <3>1. Len(to_client) \in Nat /\ Len(to_platform') \in Nat /\ Len(to_platform) \in Nat
          /\ Len(to_platform') < Len(to_platform)
          BY <1>3, <2>2
    <3>2. \A x, y, z \in Nat : y < z => x + y < x + z
          OBVIOUS
    <3> QED BY ONLY <3>1, <3>2, Zenon
  <2>4. /\ to_platform' \in {<<>>, <<Current'>>}
        /\ to_client' = to_client /\ wait' = wait /\ invited' = invited
        BY <1>1, <1>2, <1>4, <2>2
  <2>5. wait \in {"challenge", "keepalive"} =>
          Len(to_client') + Len(to_platform') <= IF wait = "challenge" THEN 1 ELSE 2
    <3>1. Len(to_client) + Len(to_platform) \in Nat /\ Len(to_client) + Len(to_platform') \in Nat
          BY <1>3, <2>2
    <3> QED BY <1>2, <2>3, <2>4, <3>1 DEF PipeInv
  <2>6. to_platform' # <<>> => to_platform # <<>>
        BY <1>4
  <2>7. wait \in {"first", "second"} =>
         /\ Len(to_client') <= Reads + 1 /\ StrayOks' \subseteq 1 .. Reads
         /\ to_platform' # <<>> => Len(to_client') < Reads
         /\ Len(to_platform') # 2
        BY <1>2, <2>1, <2>2, <2>4, <2>6 DEF PipeInv
  <2>8. /\ wait = "register" => to_platform' = <<>> /\ to_client' = <<>>
        /\ wait = "accepted" => Len(to_client') <= 2 /\ (to_platform' # <<>> => to_client' = <<>>)
        /\ wait = "invited" => StrayOks' = {}
        /\ \A i \in DOMAIN to_client' :
             Ok(to_client'[i]) /\ to_client'[i].method = "INVITE" => invited'
        BY <1>2, <1>4, <2>1, <2>4, <2>6 DEF PipeInv
  <2> QED BY <1>2, <2>4, <2>5, <2>7, <2>8 DEF PipeInv
<1>5. CASE to_client # <<>> /\ to_client' = Tail(to_client) /\ UNCHANGED to_platform
  <2>1. /\ Len(to_client) >= 1 /\ Len(to_client') = Len(to_client) - 1
        /\ \A i \in DOMAIN to_client' :
             Ok(to_client'[i]) /\ to_client'[i].method = "INVITE" => invited'
        /\ \A i \in StrayOks' : i \in 1 .. Len(to_client') /\ i + 1 \in StrayOks
        BY <1>1, <1>2, <1>3, <1>5, MovesUp
  <2>2. wait \in {"first", "second"} => StrayOks' \subseteq 1 .. Reads
    <3> SUFFICES ASSUME wait \in {"first", "second"}, NEW i \in StrayOks' PROVE i \in 1 .. Reads
        OBVIOUS
    <3>1. i \in 1 .. Len(to_client') /\ i + 1 \in 1 .. Reads
          BY <1>2, <2>1 DEF PipeInv
    <3> QED BY <1>r, <3>1
  <2>3. wait = "invited" => StrayOks' = {}
        BY <1>2, <2>1 DEF PipeInv
  <2>4. wait \in {"first", "second"} =>
         /\ Len(to_client') <= Reads + 1
         /\ to_platform' # <<>> => Len(to_client') < Reads
         /\ Len(to_platform') = 2 /\ to_platform'[1].type = "req" => Len(to_client') + 1 < Reads
        BY <1>2, <1>3, <1>5, <1>r, <2>1 DEF PipeInv
  <2>5. to_platform \in Seq(Sendable) /\ Len(to_platform) \in Nat
        BY <1>3
  <2>6. /\ wait' # "register"
        /\ wait' = "challenge" => Len(to_client') + Len(to_platform') <= 1
        /\ wait' = "accepted" => Len(to_client') <= 2 /\ (to_platform' # <<>> => to_client' = <<>>)
        /\ wait' = "keepalive" => Len(to_client') + Len(to_platform') <= 2
        BY <1>1, <1>2, <1>3, <1>5, <2>1, <2>5 DEF PipeInv
  <2> QED BY <1>1, <1>2, <1>5, <2>1, <2>2, <2>3, <2>4, <2>6 DEF PipeInv
<1> QED BY <1>4, <1>5 DEF Lose

LEMMA InTimeInvInductive ==
    ASSUME TypeInv, InTimeInv, [Next]_vars
    PROVE  InTimeInv'
<1>1. CASE ClientStarts
  <2>1. UNCHANGED <<InTime, platform_invited, invited, to_client>> /\ Send
        BY <1>1, InTimeStands DEF ClientStarts, pvars, pctx, env
  <2>2. CASE CannotStart
        BY <2>1, <2>2 DEF CannotStart, Close, InTimeInv
  <2>3. CASE FirstRegister
    <3>1. wait = "register" /\ wait' = "challenge" /\ ctx' = <<Current'>>
          BY <2>3 DEF FirstRegister, Current
    <3> SUFFICES ASSUME InTime PROVE PipeInv'
        BY <2>1, <3>1 DEF InTimeInv
    <3>2. to_platform = <<>> /\ to_client = <<>>
          BY <3>1 DEF InTimeInv, PipeInv
    <3>3. to_platform' = <<Current'>> /\ Len(to_platform') = 1 /\ to_client' = <<>> /\ Len(to_client') = 0
          BY <2>1, <3>1, <3>2, Joined DEF Send
    <3> QED BY <3>1, <3>3 DEF PipeInv
  <2> QED BY <1>1, <2>2, <2>3 DEF ClientStarts
<1>2. CASE ClientReceives
    BY <1>2, ClientKeepsInTime
<1>3. CASE ClientTimesOut
    BY <1>3, TimeoutKeepsInTime
<1>4. CASE Again
  <2>1. /\ wait' = "register" /\ UNCHANGED <<InTime, platform_invited, to_platform>>
        /\ InTime => to_platform = <<>> /\ to_client' = <<>>
        BY <1>4, InTimeStands DEF Again, pvars, pctx
  <2>2. to_client' = <<>> => DOMAIN to_client' = {}
        OBVIOUS
  <2> QED BY <2>1, <2>2 DEF InTimeInv, PipeInv
<1>5. CASE PlatformHandles
    BY <1>5, PlatformKeepsInTime
<1>6. CASE Lose
    BY <1>6, LossKeepsInTime
<1>7. CASE UNCHANGED vars
  <2>1. /\ UNCHANGED <<wait, query, to_platform, to_client, platform_invited, invited>>
        /\ InTime' = InTime
        BY <1>7, InTimeStands DEF vars, cvars, pvars, pctx, env
  <2>2. PipeInv' = PipeInv
        BY <2>1 DEF PipeInv, Current, Earlier, Reads, StrayOks, Ok
  <2> QED BY <2>1, <2>2 DEF InTimeInv
<1> QED BY <1>1, <1>2, <1>3, <1>4, <1>5, <1>6, <1>7 DEF Next, Client

\* As long as the platform answers in time, the 200 that makes the client send
\* its ACK and its media is the platform's answer to its INVITE, whatever is
\* lost: the platform holds the call.
THEOREM AcceptedCallIsHeld == Spec => CallIsAccepted
<1>1. Init => TypeInv /\ InTimeInv
  <2> SUFFICES ASSUME Init PROVE TypeInv /\ InTimeInv
      OBVIOUS
  <2>1. TypeInv
    <3>1. ClientInv
          BY DEF Init, ClientInit, ClientInv, TalksOnlyRegistered
    <3>2. ctx = <<>> /\ <<>> \in Seq(Sendable)
          BY DEF Init, ClientInit
    <3> QED BY <3>1, <3>2 DEF Init, ClientInit, PlatformInit, PlatformTypeOK, TypeInv, Waits
  <2>2. wait = "register" /\ to_platform = <<>> /\ to_client = <<>> /\ ~platform_invited
        BY DEF Init, ClientInit, PlatformInit
  <2>3. PipeInv
        BY <2>2 DEF PipeInv
  <2> QED BY <2>1, <2>2, <2>3 DEF InTimeInv
<1>2. TypeInv /\ InTimeInv /\ [Next]_vars => (TypeInv /\ InTimeInv)'
    BY TypeInvInductive, InTimeInvInductive
<1>3. TypeInv /\ InTimeInv /\ [Next]_vars
        => [network = "in time" /\ called' /\ ~called => invited]_vars
  <2> SUFFICES ASSUME InTimeInv, Next, InTime, called', ~called PROVE invited
      BY Zenon DEF InTime
  <2>1. ClientReceives /\ GetInvited(Head(to_client)) /\ to_client # <<>>
        BY DEF Next, Client, ClientStarts, FirstRegister, CannotStart, Close, ClientReceives,
               Receive, GetChallenge, GetAccepted, Keepalive, GetFirst, GetSecond, Proceed,
               Unexpected, ClientTimesOut, NoAnswer, QueryUnanswered, Again, PlatformHandles,
               Lose, cvars
  <2>2. wait = "invited" /\ Ok(Head(to_client))
        BY <2>1 DEF GetInvited, Ok
  <2>3. 1 \in DOMAIN to_client /\ Head(to_client) = to_client[1]
        BY <2>1
  <2> QED BY <2>2, <2>3 DEF InTimeInv, PipeInv, StrayOks
<1> QED BY <1>1, <1>2, <1>3, PTL DEF Spec, CallIsAccepted
=============================================================================
