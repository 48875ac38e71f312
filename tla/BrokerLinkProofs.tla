-------------------------- MODULE BrokerLinkProofs --------------------------
(***************************************************************************)
(* Proofs about BrokerLink, for any users, topics and number of failures.  *)
(***************************************************************************)
EXTENDS BrokerLink, TLAPS

(* What is typed and not Boolean. *)
DataOK ==
  /\ down_link_map_ \subseteq Topic
  /\ connected_ \subseteq down_link_map_
  /\ lpc \in LinkerPC
  /\ lcursor \in Topic \cup {0}
  /\ mpc \in MosqPC
  /\ mcursor \in Topic \cup {0}
  /\ session \in Session
  /\ subs \subseteq Topic
  /\ upc \in [User -> UserPC]
  /\ topic \in [User -> Topic \cup {NoTopic}]
  /\ fails \in 0..MaxFail

FlagsOK ==
  /\ broker_connected_ \in BOOLEAN
  /\ stopping \in BOOLEAN
  /\ looping \in BOOLEAN
  /\ broken \in BOOLEAN

(* A user at a topic is alone there, and the link is in the map until it is *)
(* done: no link is deleted while another thread still adds it.             *)
UserInv ==
  \A u \in User :
    /\ upc[u] = "idle" <=> topic[u] = NoTopic
    /\ upc[u] # "idle" => topic[u] \in down_link_map_

(* LoopStop ends the callbacks for as long as the links are taken down.     *)
ThreadInv ==
  /\ mpc # "loop" => looping
  /\ mpc \in {"loop", "onConnect", "onDisconnect"} => mcursor = 0
  /\ lpc \in {"flagDown", "linksDown"} => ~looping
  /\ lpc = "linksDown" => ~broker_connected_
  /\ lpc = "ended" /\ ~looping => ~broker_connected_

(* A callback of a connection runs while there is one, except that a failed *)
(* connect is about to stop it.                                             *)
CallbackInv ==
  /\ mpc \in {"onConnect", "connectLinks"} /\ lpc # "loopStop" => session # "none"
  /\ mpc \in {"disconnectLinks", "onDisconnect"} => session # "up"
  /\ mpc = "connectLinks" => broker_connected_
  /\ lpc = "loopStart" /\ ~looping => session # "up"

(* The links that ConnectLinks has passed in the session that is up.        *)
WalkedInv ==
  ~broken /\ session = "up" /\ mpc = "connectLinks" =>
    \A d \in down_link_map_ : d <= mcursor => d \in subs \/ Adding(d)

IInv == DataOK /\ ThreadInv /\ CallbackInv /\ NoFalseUp /\ WalkedInv /\ AllSubscribed

-----------------------------------------------------------------------------
LEMMA DataInit == Init => DataOK /\ UserInv
  BY LinkAssumption DEF Init, DataOK, UserInv, LinkerPC, MosqPC, Session, UserPC

LEMMA IInvInit == Init => IInv
<1> SUFFICES ASSUME Init PROVE IInv
  OBVIOUS
<1>1. ThreadInv /\ CallbackInv
  BY Zenon DEF Init, ThreadInv, CallbackInv
<1>2. NoFalseUp /\ WalkedInv /\ AllSubscribed
  BY Zenon DEF Init, NoFalseUp, WalkedInv, AllSubscribed
<1>3. QED
  BY <1>1, <1>2, DataInit DEF IInv

LEMMA FlagsNext == FlagsOK /\ [Next]_vars => FlagsOK'
<1> SUFFICES ASSUME FlagsOK, [Next]_vars PROVE FlagsOK'
  OBVIOUS
<1>1. CASE LinkerStep
  BY <1>1, Zenon DEF LinkerStep, Process, Connect, LoopStart, LoopStop, FlagDown,
     LinksDown, mosq, FlagsOK
<1>2. CASE Postprocess
  BY <1>2, Zenon DEF Postprocess, mosq, FlagsOK
<1>3. CASE MosqStep \/ ConnectionLost
  BY <1>3, Zenon DEF MosqStep, ConnectionLost, Close, CloseRefused, ConnAck, Reconnect,
     OnConnectFlag, ConnectLinks, DisconnectLinks, OnDisconnectFlag, linker, mosq, FlagsOK
<1>4. ASSUME NEW u \in User, AddStep(u) PROVE FlagsOK'
  BY <1>4, Zenon DEF AddStep, AddTest, AddSubscribe, AddMark, linker, mosq, FlagsOK
<1>5. ASSUME NEW u \in User, NEW d \in Topic, AddDownLink(u, d) PROVE FlagsOK'
  BY <1>5, Zenon DEF AddDownLink, linker, mosq, FlagsOK
<1>6. ASSUME NEW u \in User, NEW d \in Topic, DelDownLink(u, d) PROVE FlagsOK'
  <2>1. broken' \in BOOLEAN
    BY <1>6 DEF DelDownLink
  <2>2. QED
    BY <1>6, <2>1, Zenon DEF DelDownLink, linker, mosq, FlagsOK
<1>7. CASE UNCHANGED vars
  BY <1>7, Zenon DEF vars, linker, mosq, FlagsOK
<1>8. QED
  BY <1>1, <1>2, <1>3, <1>4, <1>5, <1>6, <1>7 DEF Next

LEMMA DataNext == DataOK /\ UserInv /\ [Next]_vars => (DataOK /\ UserInv)'
<1> SUFFICES ASSUME DataOK, UserInv, [Next]_vars PROVE (DataOK /\ UserInv)'
  OBVIOUS
<1> USE LinkAssumption DEF LinkerPC, MosqPC, Session, UserPC
<1>1. CASE LinkerStep \/ Postprocess
  <2>1. DataOK'
    <3>1. CASE Process \/ LoopStart \/ LoopStop \/ FlagDown \/ Postprocess
      BY <3>1 DEF Process, LoopStart, LoopStop, FlagDown, Postprocess, mosq, user, DataOK
    <3>2. CASE Connect
      BY <3>2 DEF Connect, Fail, mosq, user, DataOK
    <3>3. CASE LinksDown
      BY <3>3 DEF LinksDown, NextLink, Beyond, mosq, user, DataOK
    <3>4. QED
      BY <1>1, <3>1, <3>2, <3>3 DEF LinkerStep
  <2>2. UNCHANGED <<down_link_map_, user>>
    BY <1>1 DEF LinkerStep, Process, Connect, LoopStart, LoopStop, FlagDown, LinksDown,
       Postprocess
  <2>3. QED
    BY <2>1, <2>2 DEF user, UserInv
<1>2. CASE MosqStep \/ ConnectionLost
  <2>1. DataOK'
    <3>1. CASE ConnAck \/ Reconnect
      <4>1. /\ UNCHANGED <<down_link_map_, connected_, lpc, lcursor, mcursor, subs, upc, topic>>
            /\ session' \in Session /\ mpc' \in {mpc, "onConnect"}
        BY <3>1 DEF ConnAck, Reconnect, linker, mosq, user
      <4>2. fails' \in 0..MaxFail
        BY <3>1 DEF ConnAck, Reconnect, Fail, DataOK
      <4>3. QED
        BY <4>1, <4>2 DEF DataOK
    <3>2. CASE CloseRefused \/ ConnectionLost
      <4>1. /\ UNCHANGED <<down_link_map_, connected_, lpc, lcursor, mcursor, upc, topic>>
            /\ session' = "none" /\ mpc' = "disconnectLinks" /\ subs' = {}
        BY <3>2 DEF ConnectionLost, CloseRefused, Close, linker, user
      <4>2. fails' \in 0..MaxFail
        BY <3>2 DEF ConnectionLost, CloseRefused, Fail, DataOK
      <4>3. QED
        BY <4>1, <4>2 DEF DataOK
    <3>3. CASE OnConnectFlag \/ ConnectLinks \/ DisconnectLinks \/ OnDisconnectFlag
      BY <3>3 DEF OnConnectFlag, ConnectLinks, DisconnectLinks, OnDisconnectFlag,
         Subscribed, NextLink, Beyond, linker, mosq, user, DataOK
    <3>4. QED
      BY <1>2, <3>1, <3>2, <3>3 DEF MosqStep
  <2>2. UNCHANGED <<down_link_map_, user>>
    BY <1>2 DEF MosqStep, ConnectionLost, Close, CloseRefused, ConnAck, Reconnect,
       OnConnectFlag, ConnectLinks, DisconnectLinks, OnDisconnectFlag
  <2>3. QED
    BY <2>1, <2>2 DEF user, UserInv
<1>3. ASSUME NEW u \in User, AddStep(u) PROVE (DataOK /\ UserInv)'
  BY <1>3 DEF AddStep, AddTest, AddSubscribe, AddMark, Subscribed, linker, mosq, DataOK,
     UserInv
<1>4. ASSUME NEW u \in User, NEW d \in Topic, AddDownLink(u, d)
      PROVE  (DataOK /\ UserInv)'
  BY <1>4 DEF AddDownLink, linker, mosq, DataOK, UserInv
<1>5. ASSUME NEW u \in User, NEW d \in Topic, DelDownLink(u, d)
      PROVE  (DataOK /\ UserInv)'
  BY <1>5 DEF DelDownLink, linker, mosq, user, DataOK, UserInv
<1>6. CASE UNCHANGED vars
  BY <1>6 DEF vars, linker, mosq, user, DataOK, UserInv
<1>7. QED
  BY <1>1, <1>2, <1>3, <1>4, <1>5, <1>6 DEF Next

LEMMA DataReached == Spec => [](DataOK /\ UserInv)
  BY DataInit, DataNext, PTL DEF Spec

(* Links, flags and callbacks have their types in every reachable state,    *)
(* and no link is marked that is not in the map.                            *)
THEOREM TypeCorrect == Spec => []TypeOK
<1>1. Init => FlagsOK
  BY Zenon DEF Init, FlagsOK
<1>2. DataOK /\ FlagsOK => TypeOK
  BY Zenon DEF DataOK, FlagsOK, TypeOK
<1>3. QED
  BY <1>1, <1>2, FlagsNext, DataReached, PTL DEF Spec

-----------------------------------------------------------------------------
(* The linker's own steps. *)
LEMMA LinkerNext ==
  ASSUME IInv, LinkerStep \/ Postprocess
  PROVE  (ThreadInv /\ CallbackInv /\ NoFalseUp /\ WalkedInv /\ AllSubscribed)'
<1> USE DEF IInv
<1>1. ThreadInv'
  BY DEF LinkerStep, Process, Connect, LoopStart, LoopStop, FlagDown, LinksDown,
     Postprocess, mosq, ThreadInv
<1>2. CallbackInv'
  BY DEF LinkerStep, Process, Connect, LoopStart, LoopStop, FlagDown, LinksDown,
     Postprocess, mosq, ThreadInv, CallbackInv
<1>3. NoFalseUp'
  BY DEF LinkerStep, Process, Connect, LoopStart, LoopStop, FlagDown, LinksDown,
     Postprocess, mosq, ThreadInv, CallbackInv, NoFalseUp
<1>4. UNCHANGED <<down_link_map_, user, broken>>
  BY DEF LinkerStep, Process, Connect, LoopStart, LoopStop, FlagDown, LinksDown,
     Postprocess
<1>5. session' = "up" /\ mpc' = "connectLinks" =>
        UNCHANGED <<session, mpc, mcursor, subs>>
  BY DEF LinkerStep, Process, Connect, LoopStart, LoopStop, FlagDown, LinksDown,
     Postprocess, mosq
<1>6. WalkedInv'
  BY <1>4, <1>5 DEF WalkedInv, Adding, user
<1>7. broker_connected_' /\ looping' /\ session' = "up" /\ mpc' = "loop" =>
        broker_connected_ /\ looping /\ UNCHANGED <<session, mpc, subs>>
  BY DEF LinkerStep, Process, Connect, LoopStart, LoopStop, FlagDown, LinksDown,
     Postprocess, mosq, ThreadInv, CallbackInv
<1>8. AllSubscribed'
  BY <1>4, <1>7 DEF AllSubscribed, Adding, user
<1>9. QED
  BY <1>1, <1>2, <1>3, <1>6, <1>8

(* The steps of the library's thread. *)
LEMMA MosqNext ==
  ASSUME IInv, MosqStep \/ ConnectionLost
  PROVE  (ThreadInv /\ CallbackInv /\ NoFalseUp /\ WalkedInv /\ AllSubscribed)'
<1> USE DEF IInv
<1>a. CASE ConnAck \/ CloseRefused \/ Reconnect \/ ConnectionLost
  <2>1. ThreadInv'
    BY <1>a DEF ConnAck, CloseRefused, Reconnect, ConnectionLost, Close, linker, mosq,
       ThreadInv
  <2>2. CallbackInv'
    BY <1>a DEF ConnAck, CloseRefused, Reconnect, ConnectionLost, Close, linker, mosq,
       ThreadInv, CallbackInv
  <2>3. NoFalseUp'
    BY <1>a DEF ConnAck, CloseRefused, Reconnect, ConnectionLost, Close, linker, mosq,
       NoFalseUp
  <2>4. session' = "up" => mpc' = "onConnect"
    BY <1>a DEF ConnAck, CloseRefused, Reconnect, ConnectionLost, Close
  <2>5. QED
    BY <2>1, <2>2, <2>3, <2>4 DEF WalkedInv, AllSubscribed
<1>b. CASE OnConnectFlag \/ ConnectLinks
  <2>1. ThreadInv'
    BY <1>b DEF OnConnectFlag, ConnectLinks, linker, ThreadInv
  <2>2. CallbackInv'
    BY <1>b DEF OnConnectFlag, ConnectLinks, linker, CallbackInv
  <2>3. NoFalseUp'
    BY <1>b DEF OnConnectFlag, ConnectLinks, linker, CallbackInv, NoFalseUp
  <2>4. WalkedInv'
    <3>1. CASE OnConnectFlag
      BY <3>1, LinkAssumption DEF OnConnectFlag, WalkedInv, ThreadInv, DataOK
    <3>2. CASE ConnectLinks
      <4>1. SUFFICES ASSUME ~broken', session' = "up", mpc' = "connectLinks",
                            NEW d \in down_link_map_', d <= mcursor'
                     PROVE  d \in subs' \/ Adding(d)'
        BY DEF WalkedInv
      <4>2. PICK e \in NextLink(mcursor) : subs' = subs \cup {e} /\ mcursor' = e
        BY <3>2, <4>1 DEF ConnectLinks, Subscribed
      <4>3. d \in down_link_map_ /\ ~broken /\ session = "up" /\ mpc = "connectLinks"
        BY <3>2, <4>1 DEF ConnectLinks
      <4>4. d <= mcursor \/ d = e
        BY <4>1, <4>2, <4>3, LinkAssumption DEF NextLink, Beyond, DataOK
      <4>5. Adding(d)' <=> Adding(d)
        BY <3>2 DEF ConnectLinks, Adding, user
      <4>6. QED
        BY <4>2, <4>3, <4>4, <4>5 DEF WalkedInv
    <3>3. QED
      BY <1>b, <3>1, <3>2
  <2>5. AllSubscribed'
    <3>1. CASE OnConnectFlag
      BY <3>1 DEF OnConnectFlag, AllSubscribed
    <3>2. CASE ConnectLinks
      <4>1. SUFFICES ASSUME ~broken', session' = "up", mpc' = "loop",
                            NEW d \in down_link_map_'
                     PROVE  d \in subs' \/ Adding(d)'
        BY DEF AllSubscribed
      <4>2. /\ d \in down_link_map_ /\ ~broken /\ session = "up" /\ mpc = "connectLinks"
            /\ Beyond(mcursor) = {} /\ subs' = subs
        BY <3>2, <4>1 DEF ConnectLinks
      <4>3. d <= mcursor
        BY <4>2, LinkAssumption DEF Beyond, DataOK
      <4>4. Adding(d)' <=> Adding(d)
        BY <3>2 DEF ConnectLinks, Adding, user
      <4>5. QED
        BY <4>2, <4>3, <4>4 DEF WalkedInv
    <3>3. QED
      BY <1>b, <3>1, <3>2
  <2>6. QED
    BY <2>1, <2>2, <2>3, <2>4, <2>5
<1>c. CASE DisconnectLinks \/ OnDisconnectFlag
  <2>1. ThreadInv' /\ CallbackInv' /\ NoFalseUp'
    BY <1>c DEF DisconnectLinks, OnDisconnectFlag, linker, ThreadInv, CallbackInv,
       NoFalseUp
  <2>2. session' # "up"
    BY <1>c DEF DisconnectLinks, OnDisconnectFlag, CallbackInv
  <2>3. QED
    BY <2>1, <2>2 DEF WalkedInv, AllSubscribed
<1>d. QED
  BY <1>a, <1>b, <1>c DEF MosqStep

(* The steps of the users leave the connection alone. *)
LEMMA UserNext ==
  ASSUME IInv, UserInv, [Next]_vars, ~(LinkerStep \/ Postprocess),
         ~(MosqStep \/ ConnectionLost)
  PROVE  (ThreadInv /\ CallbackInv /\ NoFalseUp /\ WalkedInv /\ AllSubscribed)'
<1> USE DEF IInv
<1>1. \/ \E u \in User : AddStep(u)
      \/ \E u \in User, d \in Topic : AddDownLink(u, d) \/ DelDownLink(u, d)
      \/ UNCHANGED vars
  BY DEF Next
<1>2. UNCHANGED <<broker_connected_, lpc, looping, mpc, mcursor, session>>
  BY <1>1 DEF AddStep, AddTest, AddSubscribe, AddMark, AddDownLink, DelDownLink, vars,
     linker, mosq
<1>3. ThreadInv' /\ CallbackInv' /\ NoFalseUp'
  BY <1>2 DEF ThreadInv, CallbackInv, NoFalseUp
<1>4. ASSUME session = "up", broker_connected_, ~broken, ~broken',
             NEW d \in down_link_map_', d \in down_link_map_ => d \in subs \/ Adding(d)
      PROVE  d \in subs' \/ Adding(d)'
  <2>1. ASSUME NEW u \in User, AddStep(u) PROVE d \in subs' \/ Adding(d)'
    BY <1>4, <2>1 DEF AddStep, AddTest, AddSubscribe, AddMark, Subscribed, Adding, DataOK
  <2>2. ASSUME NEW u \in User, NEW e \in Topic, AddDownLink(u, e)
        PROVE  d \in subs' \/ Adding(d)'
    BY <1>4, <2>2 DEF AddDownLink, Adding, DataOK
  <2>3. ASSUME NEW u \in User, NEW e \in Topic, DelDownLink(u, e)
        PROVE  d \in subs' \/ Adding(d)'
    BY <1>4, <2>3 DEF DelDownLink, Adding, user
  <2>4. CASE UNCHANGED vars
    BY <1>4, <2>4 DEF vars, user, Adding
  <2>5. QED
    BY <1>1, <2>1, <2>2, <2>3, <2>4
<1>5. ~broken' => ~broken
  BY DEF Next, vars
<1>6. session = "up" /\ mpc = "connectLinks" => broken' \/ broker_connected_
  BY DEF CallbackInv
<1>7. \A d \in down_link_map_' \ down_link_map_ : broken' \/ Adding(d)'
  BY <1>1 DEF AddStep, AddTest, AddSubscribe, AddMark, AddDownLink, DelDownLink, vars,
     Adding, DataOK
<1>8. WalkedInv'
  BY <1>2, <1>4, <1>5, <1>6, <1>7 DEF WalkedInv
<1>9. AllSubscribed'
  BY <1>2, <1>4, <1>5, <1>7 DEF AllSubscribed
<1>10. QED
  BY <1>3, <1>8, <1>9

LEMMA IInvReached == Spec => []IInv
<1>1. DataOK /\ UserInv /\ DataOK' /\ IInv /\ [Next]_vars => IInv'
  BY LinkerNext, MosqNext, UserNext DEF IInv
<1>2. QED
  BY <1>1, IInvInit, DataReached, PTL DEF Spec

(* Whatever users do while OnConnectCB walks the map, a connected linker    *)
(* has subscribed every link or is about to.                                *)
THEOREM NoLinkForgotten == Spec => []AllSubscribed
<1>1. IInv => AllSubscribed
  BY DEF IInv
<1>2. QED
  BY <1>1, IInvReached, PTL

(* The flag of a linker that could connect never hides a lost connection.   *)
THEOREM FlagIsTrue == Spec => []NoFalseUp
<1>1. IInv => NoFalseUp
  BY DEF IInv
<1>2. QED
  BY <1>1, IInvReached, PTL

(* What Disconnect has ended at the end stays ended.                        *)
THEOREM EndIsFinal == Spec => EndsDown
<1> DEFINE Step == stopping /\ lpc = "ended" /\ ~looping => ~looping' /\ ~broker_connected_'
<1>1. IInv /\ [Next]_vars => [Step]_vars
  <2> SUFFICES ASSUME IInv, Next, stopping, lpc = "ended", ~looping
               PROVE  ~looping' /\ ~broker_connected_'
    OBVIOUS
  <2>1. mpc = "loop" /\ ~broker_connected_
    BY DEF IInv, ThreadInv
  <2>2. CASE LinkerStep \/ Postprocess \/ MosqStep \/ ConnectionLost
    BY <2>1, <2>2 DEF LinkerStep, Process, Connect, LoopStart, LoopStop, FlagDown, LinksDown,
       Postprocess, MosqStep, ConnectionLost, Close, CloseRefused, ConnAck, Reconnect,
       OnConnectFlag, ConnectLinks, DisconnectLinks, OnDisconnectFlag
  <2>3. ASSUME NEW u \in User, AddStep(u) PROVE ~looping' /\ ~broker_connected_'
    BY <2>1, <2>3 DEF AddStep, AddTest, AddSubscribe, AddMark, mosq
  <2>4. ASSUME NEW u \in User, NEW d \in Topic, AddDownLink(u, d) \/ DelDownLink(u, d)
        PROVE  ~looping' /\ ~broker_connected_'
    BY <2>1, <2>4 DEF AddDownLink, DelDownLink, mosq
  <2>5. QED
    BY <2>2, <2>3, <2>4 DEF Next
<1>2. QED
  BY <1>1, IInvReached, PTL DEF Spec, EndsDown

=============================================================================
