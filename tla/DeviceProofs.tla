---------------------------- MODULE DeviceProofs ----------------------------
(***************************************************************************)
(* Proofs about the devices: NbIotModem, with the MQTT messages it sends   *)
(* (MqttHeader), and SnmpSession.                                          *)
(***************************************************************************)
EXTENDS NbIotModem, SnmpSession, MqttHeader, TLAPS

-----------------------------------------------------------------------------
(* How the lengths that are within the integers of the code divide.         *)
LEMMA SevenBits ==
  ASSUME NEW n \in Nat, n <= Longest
  PROVE  /\ n % 128 \in 0..127
         /\ n \div 128 \in 0..127
         /\ n = (n % 128) + 128 * (n \div 128)
<1>1. n % 128 \in 0..127
  OBVIOUS
<1>2. n \div 128 >= 0 /\ n \div 128 <= 127 /\ n \div 128 \in Int
  BY DEF Longest
<1>3. n = (n % 128) + 128 * (n \div 128)
  OBVIOUS
<1> QED  BY <1>1, <1>2, <1>3

LEMMA ShortRemain ==
  ASSUME NEW n \in Nat, n <= Longest
  PROVE  n % 65536 = n /\ (n \div 128) % 256 = n \div 128
<1>1. n % 65536 = n
  BY DEF Longest
<1>2. \A m \in Nat : m <= 127 => m % 256 = m
  OBVIOUS
<1> QED  BY <1>1, <1>2, SevenBits

LEMMA ByteRemain ==
  ASSUME NEW n \in Nat, n <= 255
  PROVE  n % 256 = n
OBVIOUS

(* What a field of one byte, and one of two, say. *)
LEMMA OneByteSays ==
  ASSUME NEW rest \in 0..127
  PROVE  Says(<<rest>>, rest)
BY DEF Says

LEMMA TwoBytesSay ==
  ASSUME NEW low \in 0..127, NEW high \in 0..127
  PROVE  Says(<<128 + low, high>>, low + 128 * high)
BY Zenon DEF Says

LEMMA OnlyTwoBytes ==
  \A a, b, n \in Nat : Says(<<a, b>>, n) => n = (a - 128) + 128 * b
<1> SUFFICES ASSUME NEW a \in Nat, NEW b \in Nat, NEW n \in Nat, Says(<<a, b>>, n)
             PROVE  n = (a - 128) + 128 * b
  OBVIOUS
<1>1. \A c : <<a, b>> # <<c>>
  OBVIOUS
<1>2. \E low, high \in 0..127 : <<a, b>> = <<128 + low, high>> /\ n = low + 128 * high
  BY <1>1, Zenon DEF Says
<1> QED  BY <1>2

LEMMA PublishFieldSays ==
  ASSUME NEW n \in Nat, n <= Longest
  PROVE  Says(PublishField(n), n)
<1>1. CASE n <= 127
  <2>1. PublishField(n) = <<n>>
    BY <1>1 DEF PublishField
  <2>2. n \in 0..127
    BY <1>1
  <2>3. Says(<<n>>, n)
    BY <2>2, OneByteSays, Zenon
  <2> QED  BY <2>1, <2>3, Zenon
<1>2. CASE n > 127
  <2>1. PublishField(n) = <<128 + (n % 128), n \div 128>>
    BY <1>2, ShortRemain DEF PublishField
  <2>2. n % 128 \in 0..127 /\ n \div 128 \in 0..127
    BY SevenBits
  <2>3. n = (n % 128) + 128 * (n \div 128)
    BY SevenBits
  <2>4. Says(<<128 + (n % 128), n \div 128>>, (n % 128) + 128 * (n \div 128))
    BY <2>2, TwoBytesSay, Zenon
  <2> QED  BY <2>1, <2>3, <2>4, Zenon
<1> QED  BY <1>1, <1>2

LEMMA ConnectFieldSays ==
  ASSUME NEW n \in Nat, n <= 255
  PROVE  Says(ConnectField(n), n)
<1>1. CASE n <= 127
  <2>1. ConnectField(n) = <<n>>
    BY <1>1 DEF ConnectField
  <2>2. n \in 0..127
    BY <1>1
  <2>3. Says(<<n>>, n)
    BY <2>2, OneByteSays, Zenon
  <2> QED  BY <2>1, <2>3, Zenon
<1>2. CASE n > 127
  <2>1. ConnectField(n) = <<128 + (n % 128), n \div 128>>
    BY <1>2 DEF ConnectField
  <2>2. n % 128 \in 0..127 /\ n \div 128 \in 0..127
    BY SevenBits
  <2>3. n = (n % 128) + 128 * (n \div 128)
    BY SevenBits
  <2>4. Says(<<128 + (n % 128), n \div 128>>, (n % 128) + 128 * (n \div 128))
    BY <2>2, TwoBytesSay, Zenon
  <2> QED  BY <2>1, <2>3, <2>4, Zenon
<1> QED  BY <1>1, <1>2

(* Every PUBLISH of up to 16383 bytes, the most that the comment in         *)
(* mqtt_publish_msg_gen names, says how long it is.                         *)
THEOREM PublishLength ==
  ASSUME NEW topic \in Nat, NEW payload \in Nat, PublishRest(topic, payload) <= Longest
  PROVE  Says(PublishField(PublishRemain(topic, payload)), PublishRest(topic, payload))
<1>1. PublishRest(topic, payload) \in Nat /\ PublishRest(topic, payload) <= Longest
  BY DEF PublishRest
<1>2. PublishRemain(topic, payload) = PublishRest(topic, payload)
  BY <1>1, ShortRemain DEF PublishRemain
<1> QED  BY <1>1, <1>2, PublishFieldSays

(* A CONNECT says how long it is if the name of the device has no more than *)
(* 241 characters.                                                          *)
THEOREM ConnectLength ==
  ASSUME NEW name \in 0..241
  PROVE  Says(ConnectField(ConnectRemain(name)), ConnectRest(name))
<1>1. ConnectRest(name) \in Nat /\ ConnectRest(name) <= 255
  BY DEF ConnectRest
<1>2. ConnectRemain(name) = ConnectRest(name)
  BY <1>1, ByteRemain DEF ConnectRemain
<1> QED  BY <1>1, <1>2, ConnectFieldSays

(* A field says one length only. *)
LEMMA SaysOne ==
  ASSUME NEW r \in Nat, r <= 255, NEW n \in Nat, Says(ConnectField(r), n)
  PROVE  n = r
<1>1. CASE r <= 127
  <2>1. ConnectField(r) = <<r>>
    BY <1>1 DEF ConnectField
  <2> QED  BY <2>1 DEF Says
<1>2. CASE r > 127
  <2>1. ConnectField(r) = <<128 + (r % 128), r \div 128>>
    BY <1>2 DEF ConnectField
  <2>2. 128 + (r % 128) \in Nat /\ r \div 128 \in Nat
    OBVIOUS
  <2>3. Says(<<128 + (r % 128), r \div 128>>, n)
    BY <2>1, Zenon
  <2>4. n = ((128 + (r % 128)) - 128) + 128 * (r \div 128)
    BY <2>2, <2>3, OnlyTwoBytes
  <2> QED  BY <2>4
<1> QED  BY <1>1, <1>2

(* With a longer name it never does: remainLen has wrapped.                 *)
THEOREM ConnectLengthWraps ==
  ASSUME NEW name \in Nat, name > 241
  PROVE  ~Says(ConnectField(ConnectRemain(name)), ConnectRest(name))
<1>1. ConnectRest(name) \in Nat /\ ConnectRest(name) > 255
  BY DEF ConnectRest
<1>2. ConnectRemain(name) \in Nat /\ ConnectRemain(name) <= 255
  BY <1>1 DEF ConnectRemain
<1>3. SUFFICES ASSUME Says(ConnectField(ConnectRemain(name)), ConnectRest(name))
               PROVE  FALSE
  OBVIOUS
<1>4. ConnectRest(name) = ConnectRemain(name)
  BY <1>1, <1>2, <1>3, SaysOne
<1> QED  BY <1>1, <1>2, <1>4

-----------------------------------------------------------------------------
(* The command being sent belongs to the state of the device, and only a    *)
(* round that is owed is under way.                                         *)
Placed ==
  /\ pc \in {"at", "cfun"} => process_state = 0
  /\ pc \in {"atAgain", "cereg"} => process_state = 1
  /\ pc = "socket" => process_state = 2
  /\ pc = "connect" => process_state = 3
  /\ pc = "publish" => process_state = 4 /\ behind > 0
  /\ pc # "publish" => sensor = 0

(* A device that publishes and was never out of step holds a socket on      *)
(* which the CONNECT was sent, or one that the modem no longer has.         *)
HoldsConnected ==
  process_state = 4 /\ ~crossed => (socket_fd_ \in open => socket_fd_ \in connected)

IInv == TypeOK /\ Placed /\ HoldsConnected /\ ConnectFirst /\ NoneSkipped

LEMMA InitIInv == Init => IInv
<1> SUFFICES ASSUME Init PROVE IInv
  OBVIOUS
<1> USE ModemAssumption DEF Init
<1>1. TypeOK
  <2>1. crossed \in BOOLEAN /\ stray \in BOOLEAN
    OBVIOUS
  <2>2. process_state \in 0..4 /\ pc \in PC
    BY DEF PC
  <2>3. tries \in 0..(Tries - 1) /\ sensor \in 0..(Sensors - 1)
    OBVIOUS
  <2>4. behind \in 0..MaxBehind /\ fails \in 0..MaxFail
    OBVIOUS
  <2>5. /\ socket_fd_ \in Answer \cup {None} /\ line \in Answer \cup {None}
        /\ open \subseteq Socket /\ connected \subseteq open
        /\ got \subseteq 0..(Sensors - 1)
    OBVIOUS
  <2> QED  BY <2>1, <2>2, <2>3, <2>4, <2>5 DEF TypeOK
<1>2. Placed /\ HoldsConnected /\ ConnectFirst /\ NoneSkipped
  BY DEF Placed, HoldsConnected, ConnectFirst, NoneSkipped
<1> QED  BY <1>1, <1>2 DEF IInv

-----------------------------------------------------------------------------
(* What a command does in the modem. *)
LEMMA ExecutedKeeps ==
  ASSUME TypeOK, NEW a \in Answer, Executed(a)
  PROVE  open' \subseteq Socket /\ connected' \subseteq open'
<1>1. open \subseteq Socket /\ connected \subseteq open
  BY DEF TypeOK
<1>2. CASE pc = "cfun"
  BY <1>2 DEF Executed
<1>3. CASE pc = "socket"
  BY <1>1, <1>3 DEF Executed, modem
<1>4. CASE pc = "connect"
  BY <1>1, <1>4 DEF Executed, modem
<1>5. CASE pc = "publish"
  BY <1>1, <1>5 DEF Executed, modem
<1>6. CASE pc \notin {"cfun", "socket", "connect", "publish"}
  BY <1>1, <1>6 DEF Executed, modem
<1> QED  BY <1>2, <1>3, <1>4, <1>5, <1>6

LEMMA ExecutedConnect ==
  ASSUME NEW a \in Answer, Executed(a), pc = "connect", a # ERROR
  PROVE  a = OK /\ socket_fd_ \in open /\ connected' = connected \cup {socket_fd_}
BY DEF Executed, modem

LEMMA ExecutedPublish ==
  ASSUME NEW a \in Answer, Executed(a), pc = "publish"
  PROVE  /\ connected' = connected
         /\ open' \subseteq open
         /\ a # ERROR => a = OK /\ socket_fd_ \in open
BY DEF Executed, modem

(* What an exchange leaves behind. *)
LEMMA ExchangeKeeps ==
  ASSUME TypeOK, NEW own \in Own, Exchange(own)
  PROVE  /\ open' \subseteq Socket /\ connected' \subseteq open'
         /\ line' \in Answer \cup {None}
         /\ fails' \in 0..MaxFail
         /\ crossed' \in BOOLEAN /\ stray' \in BOOLEAN
         /\ got' \subseteq 0..(Sensors - 1)
<1>1. open' \subseteq Socket /\ connected' \subseteq open'
  <2>1. open \subseteq Socket /\ connected \subseteq open
    BY DEF TypeOK
  <2>2. (\E a \in Answer : Executed(a)) \/ UNCHANGED modem
    BY DEF Exchange
  <2> QED  BY <2>1, <2>2, ExecutedKeeps DEF modem
<1>2. line' \in Answer \cup {None}
  BY DEF Exchange
<1>3. fails' \in 0..MaxFail
  BY ModemAssumption DEF Exchange, Fail, TypeOK
<1>4. crossed' \in BOOLEAN
  BY DEF Exchange, TypeOK
<1>5. stray' \in BOOLEAN /\ got' \subseteq 0..(Sensors - 1)
  <2>1. Note \/ UNCHANGED <<got, stray>>
    BY DEF Exchange
  <2>2. stray \in BOOLEAN /\ got \subseteq 0..(Sensors - 1) /\ sensor \in 0..(Sensors - 1)
    BY DEF TypeOK
  <2> QED  BY <2>1, <2>2 DEF Note
<1> QED  BY <1>1, <1>2, <1>3, <1>4, <1>5

LEMMA ExchangeConnectsFirst ==
  ASSUME IInv, NEW own \in Own, Exchange(own)
  PROVE  ConnectFirst'
<1>1. crossed \in BOOLEAN /\ (crossed => crossed')
  BY DEF IInv, TypeOK, Exchange
<1>2. Note \/ UNCHANGED <<got, stray>>
  BY DEF Exchange
<1>3. CASE stray' = stray
  BY <1>1, <1>3 DEF IInv, ConnectFirst
<1>4. CASE pc = "publish" /\ socket_fd_ \in open /\ stray' = (stray
    \/ socket_fd_ \notin connected)
  <2>1. crossed \/ socket_fd_ \in connected
    BY <1>4 DEF IInv, Placed, HoldsConnected
  <2>2. stray => crossed
    BY DEF IInv, ConnectFirst
  <2> QED  BY <1>1, <1>4, <2>1, <2>2 DEF ConnectFirst
<1> QED  BY <1>2, <1>3, <1>4 DEF Note

(* While the device publishes, an exchange never takes its socket's CONNECT *)
(* away, nor a reading that went out.                                       *)
LEMMA ExchangePublishing ==
  ASSUME IInv, NEW own \in Own, Exchange(own), pc = "publish"
  PROVE  /\ ~crossed' => ~crossed
         /\ ~crossed' => (socket_fd_ \in open' => socket_fd_ \in connected')
         /\ got \subseteq got'
<1>1. ~crossed' => ~crossed
  BY DEF IInv, TypeOK, Exchange
<1>2. open' \subseteq open /\ connected' = connected
  <2>1. (\E a \in Answer : Executed(a)) \/ UNCHANGED modem
    BY DEF Exchange
  <2> QED  BY <2>1, ExecutedPublish DEF modem
<1>3. ~crossed => (socket_fd_ \in open => socket_fd_ \in connected)
  BY DEF IInv, Placed, HoldsConnected
<1>4. got \subseteq got'
  BY DEF Exchange, Note
<1> QED  BY <1>1, <1>2, <1>3, <1>4

(* An answer that is accepted in an exchange that was in step is this       *)
(* command's own.                                                           *)
LEMMA AcceptedInStep ==
  ASSUME IInv, NEW own \in Own, Exchange(own), Accepted(own), ~crossed',
         pc \in {"connect", "publish"}
  PROVE  \E a \in Answer : Executed(a) /\ a # ERROR /\ Note
<1>1. line = None
  BY DEF IInv, TypeOK, Exchange
<1>2. own # None /\ own # ERROR
  BY <1>1 DEF Accepted, Read
<1> QED  BY <1>2 DEF Exchange

-----------------------------------------------------------------------------
(* The steps of the device's own variables.                                 *)
OwnOK ==
  /\ process_state \in 0..4
  /\ pc \in PC
  /\ tries \in 0..(Tries - 1)
  /\ sensor \in 0..(Sensors - 1)
  /\ socket_fd_ \in Answer \cup {None}
  /\ behind \in 0..MaxBehind

LEMMA FromExchange ==
  ASSUME IInv, NEW own \in Own, Exchange(own), OwnOK', Placed', HoldsConnected', NoneSkipped'
  PROVE  IInv'
<1>1. TypeOK'
  <2>1. TypeOK
    BY DEF IInv
  <2> QED  BY <2>1, ExchangeKeeps DEF OwnOK, TypeOK
<1> QED  BY <1>1, ExchangeConnectsFirst DEF IInv

(* A step that leads on, or back to the reset, without a reading under way. *)
LEMMA GotoKeeps ==
  ASSUME IInv, pc # "publish", NEW l \in PC \ {"publish"}, NEW state \in 0..3,
         Goto(state, l), socket_fd_' \in Answer \cup {None},
         l \in {"at", "cfun"} => state = 0,
         l \in {"atAgain", "cereg"} => state = 1,
         l = "socket" => state = 2,
         l = "connect" => state = 3
  PROVE  OwnOK' /\ Placed' /\ HoldsConnected' /\ NoneSkipped'
<1>1. OwnOK'
  BY ModemAssumption DEF Goto, OwnOK, IInv, TypeOK
<1>2. Placed'
  BY DEF Goto, Placed, IInv
<1>3. HoldsConnected' /\ NoneSkipped'
  BY DEF Goto, HoldsConnected, NoneSkipped
<1> QED  BY <1>1, <1>2, <1>3

LEMMA SendAgainKeeps ==
  ASSUME IInv, pc \in {"socket", "connect"}, NEW own, Again(own), SendAgain,
      UNCHANGED socket_fd_
  PROVE  OwnOK' /\ Placed' /\ HoldsConnected' /\ NoneSkipped'
<1>1. OwnOK'
  BY ModemAssumption DEF SendAgain, Again, OwnOK, IInv, TypeOK
<1>2. Placed'
  BY DEF SendAgain, Placed, IInv
<1>3. HoldsConnected' /\ NoneSkipped'
  BY DEF SendAgain, HoldsConnected, NoneSkipped, IInv, Placed
<1> QED  BY <1>1, <1>2, <1>3

LEMMA SocketKept ==
  ASSUME IInv, UNCHANGED socket_fd_
  PROVE  socket_fd_' \in Answer \cup {None}
BY DEF IInv, TypeOK

LEMMA ResetAtIInv == IInv /\ ResetAt => IInv'
<1> SUFFICES ASSUME IInv, ResetAt PROVE IInv'
  OBVIOUS
<1>1. PICK own \in Own :
        Exchange(own) /\ Goto(0, IF OK \in Read(own) THEN "cfun" ELSE "loop")
  BY DEF ResetAt
<1>2. PICK l \in {"cfun", "loop"} : Goto(0, l)
  BY <1>1
<1>3. OwnOK' /\ Placed' /\ HoldsConnected' /\ NoneSkipped'
  BY <1>2, GotoKeeps, SocketKept DEF ResetAt, PC
<1> QED  BY <1>1, <1>3, FromExchange

LEMMA StatusAtIInv == IInv /\ StatusAt => IInv'
<1> SUFFICES ASSUME IInv, StatusAt PROVE IInv'
  OBVIOUS
<1>1. PICK own \in Own :
        Exchange(own) /\ Goto(1, IF OK \in Read(own) THEN "cereg" ELSE "loop")
  BY DEF StatusAt
<1>2. PICK l \in {"cereg", "loop"} : Goto(1, l)
  BY <1>1
<1>3. OwnOK' /\ Placed' /\ HoldsConnected' /\ NoneSkipped'
  BY <1>2, GotoKeeps, SocketKept DEF StatusAt, PC
<1> QED  BY <1>1, <1>3, FromExchange

LEMMA StatusIInv == IInv /\ Status => IInv'
<1> SUFFICES ASSUME IInv, Status PROVE IInv'
  OBVIOUS
<1>1. PICK own \in Own : Exchange(own) /\ (Goto(1, "loop") \/ Goto(2, "socket"))
  BY DEF Status
<1>2. pc = "cereg" /\ UNCHANGED socket_fd_
  BY DEF Status
<1>3. OwnOK' /\ Placed' /\ HoldsConnected' /\ NoneSkipped'
  <2>1. CASE Goto(1, "loop")
    BY <1>2, <2>1, GotoKeeps, SocketKept DEF PC
  <2>2. CASE Goto(2, "socket")
    BY <1>2, <2>2, GotoKeeps, SocketKept DEF PC
  <2> QED  BY <1>1, <2>1, <2>2
<1> QED  BY <1>1, <1>3, FromExchange

LEMMA ResetIInv == IInv /\ Reset => IInv'
<1> SUFFICES ASSUME IInv, Reset PROVE IInv'
  OBVIOUS
<1>1. /\ pc = "cfun" /\ Goto(1, "atAgain") /\ UNCHANGED <<socket_fd_, got>>
      /\ crossed' = FALSE /\ stray' = FALSE
  BY DEF Reset
<1>2. OwnOK' /\ Placed' /\ HoldsConnected' /\ NoneSkipped'
  BY <1>1, GotoKeeps, SocketKept DEF PC
<1>3. open' \subseteq Socket /\ connected' \subseteq open'
  <2>1. TypeOK
    BY DEF IInv
  <2>2. (\E a \in Answer : Executed(a)) \/ UNCHANGED modem
    BY DEF Reset
  <2> QED  BY <2>1, <2>2, ExecutedKeeps DEF TypeOK, modem
<1>4. line' \in Answer \cup {None}
  BY DEF Reset
<1>5. fails' \in 0..MaxFail
  BY ModemAssumption DEF Reset, Fail, IInv, TypeOK
<1>6. got' \subseteq 0..(Sensors - 1)
  BY <1>1 DEF IInv, TypeOK
<1>7. crossed' \in BOOLEAN /\ stray' \in BOOLEAN
  BY <1>1
<1>8. TypeOK'
  BY <1>2, <1>3, <1>4, <1>5, <1>6, <1>7 DEF OwnOK, TypeOK
<1>9. ConnectFirst'
  BY <1>1 DEF ConnectFirst
<1> QED  BY <1>2, <1>8, <1>9 DEF IInv

LEMMA FirstRead ==
  ASSUME IInv, NEW own \in Own, Accepted(own)
  PROVE  First(own) \in Answer \cup {None}
BY DEF IInv, TypeOK, First, Own

LEMMA TcpConnectIInv == IInv /\ TcpConnect => IInv'
<1> SUFFICES ASSUME IInv, TcpConnect PROVE IInv'
  OBVIOUS
<1>1. PICK own \in Own :
        /\ Exchange(own)
        /\ \/ Again(own) /\ SendAgain /\ UNCHANGED socket_fd_
           \/ Refused(own) /\ Goto(0, "loop") /\ UNCHANGED socket_fd_
           \/ Accepted(own) /\ socket_fd_' = First(own) /\ Goto(3, "connect")
  BY DEF TcpConnect
<1>2. pc = "socket"
  BY DEF TcpConnect
<1>3. OwnOK' /\ Placed' /\ HoldsConnected' /\ NoneSkipped'
  <2>1. CASE Again(own) /\ SendAgain /\ UNCHANGED socket_fd_
    BY <1>2, <2>1, SendAgainKeeps
  <2>2. CASE Goto(0, "loop") /\ UNCHANGED socket_fd_
    BY <1>2, <2>2, GotoKeeps, SocketKept DEF PC
  <2>3. CASE Accepted(own) /\ socket_fd_' = First(own) /\ Goto(3, "connect")
    BY <1>2, <2>3, GotoKeeps, FirstRead DEF PC
  <2> QED  BY <1>1, <2>1, <2>2, <2>3
<1> QED  BY <1>1, <1>3, FromExchange

LEMMA MqttConnectIInv == IInv /\ MqttConnect => IInv'
<1> SUFFICES ASSUME IInv, MqttConnect PROVE IInv'
  OBVIOUS
<1>1. PICK own \in Own :
        /\ Exchange(own)
        /\ \/ Again(own) /\ SendAgain
           \/ Refused(own) /\ Goto(0, "loop")
           \/ Accepted(own) /\ Goto(4, IF behind > 0 THEN "publish" ELSE "loop")
  BY DEF MqttConnect
<1>2. pc = "connect" /\ UNCHANGED socket_fd_
  BY DEF MqttConnect
<1>3. OwnOK' /\ Placed' /\ HoldsConnected' /\ NoneSkipped'
  <2>1. CASE Again(own) /\ SendAgain
    BY <1>2, <2>1, SendAgainKeeps
  <2>2. CASE Goto(0, "loop")
    BY <1>2, <2>2, GotoKeeps, SocketKept DEF PC
  <2>3. CASE Accepted(own) /\ Goto(4, IF behind > 0 THEN "publish" ELSE "loop")
    <3>1. OwnOK'
      BY <1>2, <2>3, ModemAssumption DEF Goto, OwnOK, IInv, TypeOK, PC
    <3>2. sensor = 0 /\ sensor' = 0
      BY <1>2, <2>3 DEF Goto, IInv, Placed
    <3>3. Placed'
      BY <2>3, <3>2 DEF Goto, Placed
    <3>4. HoldsConnected'
      <4>1. SUFFICES ASSUME ~crossed' PROVE socket_fd_ \in connected'
        BY <1>2 DEF HoldsConnected
      <4>2. PICK a \in Answer : Executed(a) /\ a # ERROR
        BY <1>1, <1>2, <2>3, <4>1, AcceptedInStep
      <4> QED  BY <1>2, <4>2, ExecutedConnect
    <3>5. NoneSkipped'
      BY <3>2 DEF NoneSkipped
    <3> QED  BY <3>1, <3>3, <3>4, <3>5
  <2> QED  BY <1>1, <2>1, <2>2, <2>3
<1> QED  BY <1>1, <1>3, FromExchange

(* The next sensor, or the end of the round. *)
LEMMA NextSensorKeeps ==
  ASSUME IInv, pc = "publish", NextSensor, UNCHANGED socket_fd_
  PROVE  OwnOK' /\ Placed' /\ process_state' = 4
<1>1. sensor \in 0..(Sensors - 1) /\ behind \in 0..MaxBehind /\ behind > 0 /\ process_state = 4
  BY DEF IInv, TypeOK, Placed
<1>2. socket_fd_' \in Answer \cup {None}
  BY SocketKept
<1>3. CASE sensor = Sensors - 1
  BY <1>1, <1>2, <1>3, ModemAssumption DEF NextSensor, OwnOK, Placed, PC
<1>4. CASE sensor # Sensors - 1
  BY <1>1, <1>2, <1>4, ModemAssumption DEF NextSensor, OwnOK, Placed, PC
<1> QED  BY <1>3, <1>4

LEMMA NextSensorSkipsNone ==
  ASSUME IInv, pc = "publish", NextSensor, ~crossed' => ~crossed,
         ~crossed' => got \cup {sensor} \subseteq got'
  PROVE  NoneSkipped'
<1>1. SUFFICES ASSUME pc' = "publish", ~crossed' PROVE 0..(sensor' - 1) \subseteq got'
  BY DEF NoneSkipped
<1>2. 0..(sensor - 1) \subseteq got
  BY <1>1 DEF IInv, NoneSkipped
<1>3. sensor' = sensor + 1 /\ sensor \in Nat
  BY <1>1, ModemAssumption DEF NextSensor, IInv, TypeOK
<1> QED  BY <1>1, <1>2, <1>3

LEMMA MqttPublishIInv == IInv /\ MqttPublish => IInv'
<1> SUFFICES ASSUME IInv, MqttPublish PROVE IInv'
  OBVIOUS
<1>1. PICK own \in Own :
        /\ Exchange(own)
        /\ \/ Again(own) /\ SendAgain
           \/ Refused(own) /\ EndRound
           \/ Accepted(own) /\ NextSensor
  BY DEF MqttPublish
<1>2. pc = "publish" /\ UNCHANGED socket_fd_
  BY DEF MqttPublish
<1>3. /\ ~crossed' => ~crossed
      /\ ~crossed' => (socket_fd_ \in open' => socket_fd_ \in connected')
      /\ got \subseteq got'
  BY <1>1, <1>2, ExchangePublishing
<1>4. process_state = 4 /\ behind > 0
  BY <1>2 DEF IInv, Placed
<1>5. HoldsConnected'
  BY <1>2, <1>3 DEF HoldsConnected
<1>6. OwnOK' /\ Placed' /\ NoneSkipped'
  <2>1. CASE Again(own) /\ SendAgain
    <3>1. OwnOK'
      BY <1>2, <2>1, ModemAssumption DEF SendAgain, Again, OwnOK, IInv, TypeOK
    <3>2. Placed'
      BY <1>2, <2>1 DEF SendAgain, Placed, IInv
    <3>3. NoneSkipped'
      BY <1>3, <2>1 DEF SendAgain, NoneSkipped, IInv
    <3> QED  BY <3>1, <3>2, <3>3
  <2>2. CASE Refused(own) /\ EndRound
    <3>1. OwnOK'
      BY <1>2, <1>4, <2>2, ModemAssumption, SocketKept DEF EndRound, OwnOK, IInv, TypeOK, PC
    <3>2. Placed' /\ NoneSkipped'
      BY <2>2 DEF EndRound, Placed, NoneSkipped
    <3> QED  BY <3>1, <3>2
  <2>3. CASE Accepted(own) /\ NextSensor
    <3>1. ~crossed' => got \cup {sensor} \subseteq got'
      <4>1. SUFFICES ASSUME ~crossed' PROVE got \cup {sensor} \subseteq got'
        OBVIOUS
      <4>2. PICK a \in Answer : Executed(a) /\ a # ERROR /\ Note
        BY <1>1, <1>2, <2>3, <4>1, AcceptedInStep
      <4>3. socket_fd_ \in open
        BY <1>2, <4>2, ExecutedPublish
      <4> QED  BY <1>2, <4>2, <4>3 DEF Note
    <3> QED  BY <1>2, <1>3, <2>3, <3>1, NextSensorKeeps, NextSensorSkipsNone
  <2> QED  BY <1>1, <2>1, <2>2, <2>3
<1> QED  BY <1>1, <1>5, <1>6, FromExchange

LEMMA UnreadIInv == IInv /\ Unread => IInv'
<1> SUFFICES ASSUME IInv, Unread PROVE IInv'
  OBVIOUS
<1>1. /\ pc = "publish" /\ Fail /\ NextSensor /\ got' = got \cup {sensor}
      /\ UNCHANGED <<socket_fd_, open, connected, line, crossed, stray>>
  BY DEF Unread, modem
<1>2. OwnOK' /\ Placed'
  BY <1>1, NextSensorKeeps
<1>3. NoneSkipped'
  BY <1>1, NextSensorSkipsNone
<1>4. process_state' = 4 /\ process_state = 4
  BY <1>1, NextSensorKeeps DEF IInv, Placed
<1>5. HoldsConnected'
  BY <1>1, <1>4 DEF HoldsConnected, IInv
<1>6. ConnectFirst'
  BY <1>1 DEF ConnectFirst, IInv
<1>7. fails' \in 0..MaxFail
  BY <1>1, ModemAssumption DEF Fail, IInv, TypeOK
<1>8. got' \subseteq 0..(Sensors - 1)
  BY <1>1 DEF IInv, TypeOK
<1>9. TypeOK'
  <2>1. /\ open' \subseteq Socket /\ connected' \subseteq open'
        /\ line' \in Answer \cup {None}
        /\ crossed' \in BOOLEAN /\ stray' \in BOOLEAN
    BY <1>1 DEF IInv, TypeOK
  <2> QED  BY <1>2, <1>7, <1>8, <2>1 DEF OwnOK, TypeOK
<1> QED  BY <1>2, <1>3, <1>5, <1>6, <1>9 DEF IInv

LEMMA ProcessIInv == IInv /\ Process => IInv'
<1> SUFFICES ASSUME IInv, Process PROVE IInv'
  OBVIOUS
<1>1. /\ pc = "loop" /\ (process_state = 4 => behind > 0) /\ got' = {}
      /\ UNCHANGED <<process_state, tries, sensor, socket_fd_, behind, open, connected, line,
                     fails, crossed, stray>>
  BY DEF Process, modem
<1>2. process_state \in 0..4 /\ sensor = 0
  BY <1>1 DEF IInv, TypeOK, Placed
<1>3. \/ process_state = 0 /\ pc' = "at"
      \/ process_state = 1 /\ pc' = "atAgain"
      \/ process_state = 2 /\ pc' = "socket"
      \/ process_state = 3 /\ pc' = "connect"
      \/ process_state = 4 /\ pc' = "publish"
  BY <1>2 DEF Process
<1>4. pc' \in PC
  BY <1>3 DEF PC
<1>5. TypeOK'
  BY <1>1, <1>4 DEF IInv, TypeOK
<1>6. Placed'
  BY <1>1, <1>2, <1>3 DEF Placed
<1>7. HoldsConnected' /\ ConnectFirst' /\ NoneSkipped'
  BY <1>1, <1>2 DEF IInv, HoldsConnected, ConnectFirst, NoneSkipped
<1> QED  BY <1>5, <1>6, <1>7 DEF IInv

(* The steps of the others. *)
LEMMA OutsideIInv == IInv /\ (Start \/ Stop \/ Tick \/ SocketsLost) => IInv'
<1> SUFFICES ASSUME IInv, Start \/ Stop \/ Tick \/ SocketsLost PROVE IInv'
  OBVIOUS
<1>1. CASE Start \/ Stop
  <2>1. /\ pc' \in {"off", "loop"} /\ pc \in {"off", "loop"} /\ behind' \in {0, behind}
        /\ UNCHANGED <<process_state, tries, sensor, socket_fd_, open, connected, line, fails,
                       crossed, stray, got>>
    BY <1>1 DEF Start, Stop, modem, ghosts
  <2>2. TypeOK'
    BY <2>1, ModemAssumption DEF IInv, TypeOK, PC
  <2>3. Placed'
    BY <2>1 DEF IInv, Placed
  <2>4. HoldsConnected' /\ ConnectFirst' /\ NoneSkipped'
    BY <2>1 DEF IInv, HoldsConnected, ConnectFirst, NoneSkipped
  <2> QED  BY <2>2, <2>3, <2>4 DEF IInv
<1>2. CASE Tick
  <2>1. /\ behind < MaxBehind /\ behind' = behind + 1
        /\ UNCHANGED <<process_state, pc, tries, sensor, socket_fd_, open, connected, line,
            fails,
                       crossed, stray, got>>
    BY <1>2 DEF Tick, modem, ghosts
  <2>2. TypeOK'
    BY <2>1, ModemAssumption DEF IInv, TypeOK
  <2>3. Placed'
    BY <2>1, ModemAssumption DEF IInv, TypeOK, Placed
  <2>4. HoldsConnected' /\ ConnectFirst' /\ NoneSkipped'
    BY <2>1 DEF IInv, HoldsConnected, ConnectFirst, NoneSkipped
  <2> QED  BY <2>2, <2>3, <2>4 DEF IInv
<1>3. CASE SocketsLost
  <2>1. /\ Fail /\ open' = {} /\ connected' = {}
        /\ UNCHANGED <<process_state, pc, tries, sensor, socket_fd_, behind, line, crossed,
            stray,
                       got>>
    BY <1>3 DEF SocketsLost, ghosts
  <2>2. fails' \in 0..MaxFail
    BY <2>1, ModemAssumption DEF Fail, IInv, TypeOK
  <2>3. TypeOK'
    BY <2>1, <2>2 DEF IInv, TypeOK
  <2>4. Placed'
    BY <2>1 DEF IInv, Placed
  <2>5. HoldsConnected' /\ ConnectFirst' /\ NoneSkipped'
    BY <2>1 DEF IInv, HoldsConnected, ConnectFirst, NoneSkipped
  <2> QED  BY <2>3, <2>4, <2>5 DEF IInv
<1> QED  BY <1>1, <1>2, <1>3

LEMMA StutterIInv == IInv /\ UNCHANGED vars => IInv'
BY DEF vars, modem, ghosts, IInv, TypeOK, Placed, HoldsConnected, ConnectFirst, NoneSkipped

LEMMA InductiveIInv == Spec => []IInv
<1>1. IInv /\ [Next]_vars => IInv'
  BY ResetAtIInv, ResetIInv, StatusAtIInv, StatusIInv, TcpConnectIInv, MqttConnectIInv,
     MqttPublishIInv, UnreadIInv, ProcessIInv, OutsideIInv, StutterIInv DEF Next, Device
<1> QED  BY InitIInv, <1>1, PTL DEF Spec

(* No reading goes out before the CONNECT, for any number of sockets,       *)
(* sensors, tries and failures: process_state leads past the CONNECT only   *)
(* by an exchange that read its own answer, or by one that was crossed.     *)
THEOREM ConnectsFirst == Spec => []ConnectFirst
<1>1. IInv => ConnectFirst
  BY DEF IInv
<1> QED  BY InductiveIInv, <1>1, PTL

(* Nor does a round pass over a sensor. *)
THEOREM SkipsNone == Spec => []NoneSkipped
<1>1. IInv => NoneSkipped
  BY DEF IInv
<1> QED  BY InductiveIInv, <1>1, PTL

(* Every variable of the device and the modem keeps to its range.           *)
THEOREM ModemTypes == Spec => []TypeOK
<1>1. IInv => TypeOK
  BY DEF IInv
<1> QED  BY InductiveIInv, <1>1, PTL

-----------------------------------------------------------------------------
(* The session with an SNMP agent: any callers, any number of calls.        *)

(* What became of the request of a caller that has the session to itself:   *)
(* it is under way, or nothing is and what was kept last is its answer.      *)
NothingSent == queue = << >> /\ pending = {}

Sent(n) ==
  /\ master = "loop"
  /\ \/ queue = <<n>> /\ pending = {}
     \/ queue = << >> /\ pending = {n}

Answered(n) == last.of = n /\ (last.answer = "value" => value_ = n)

Awaits(c) ==
  \/ finished_ /\ Sent(request[c])
  \/ NothingSent /\ (~finished_ \/ master = "signal" => Answered(request[c]))

Has(c) ==
  /\ \A d \in Caller : d # c => call_pc[d] = "idle"
  /\ call_pc[c] \in {"lock", "post"} => NothingSent /\ master = "loop"
  /\ call_pc[c] = "post" => finished_
  /\ call_pc[c] = "try" => Awaits(c)
  /\ call_pc[c] \in {"check", "take"} => NothingSent /\ Answered(request[c])
  /\ call_pc[c] = "unlock" /\ result[c].ok =>
       /\ NothingSent /\ Answered(request[c])
       /\ op[c] = "read" /\ last.answer = "value" => result[c].value = request[c]

(* The inductive invariant behind OwnAnswer: while a caller is alone, all    *)
(* that the session holds is about its request.                              *)
AloneInv == \A c \in alone : Has(c)

CallFlags ==
  /\ opened \in BOOLEAN /\ finished_ \in BOOLEAN /\ success_ \in BOOLEAN

CallTypes ==
  /\ MaxRequest \in Nat
  /\ value_ \in 0..MaxRequest
  /\ queue \in Seq(Request)
  /\ pending \subseteq Request
  /\ request_count_ \in Nat
  /\ master \in {"loop", "signal", "count"}
  /\ call_pc \in [Caller -> {"idle", "lock", "post", "try", "check", "take", "unlock"}]
  /\ op \in [Caller -> {"read", "write"}]
  /\ request \in [Caller -> 0..MaxRequest]
  /\ result \in [Caller -> [ok : BOOLEAN, value : 0..MaxRequest]]
  /\ calls \in 0..MaxRequest
  /\ last \in [of : 0..MaxRequest, answer : Outcome]
  /\ alone \subseteq Caller
  /\ \A c \in Caller : call_pc[c] # "idle" => request[c] \in Request

(* Types. *)
LEMMA CallTypesInit ==
  ASSUME SnmpInit
  PROVE  CallFlags /\ CallTypes
<1>1. CallFlags
  BY Zenon DEF SnmpInit, CallFlags
<1>2. queue \in Seq(Request)
  BY DEF SnmpInit
<1>3. CallTypes
  BY <1>2, SnmpAssumption DEF SnmpInit, CallTypes, Failed, Outcome, Request
<1>4. QED
  BY <1>1, <1>3

LEMMA CallFlagsNext == CallFlags /\ [SnmpNext]_snmpVars => CallFlags'
BY Zenon DEF CallFlags, SnmpNext, snmpVars, session, masterVars, callVars,
    ReadValue, WriteValue, Begin, CallStep, Lock, Post,
    TryLock, Timeout, Check, Take, Unlock, Master, Send,
    Poll, GivenUp, Received, Convert, Signal, Count

LEMMA FailedType ==
  ASSUME MaxRequest \in Nat
  PROVE  Failed \in [ok : BOOLEAN, value : 0..MaxRequest]
  BY DEF Failed

LEMMA CallKeepsTypes ==
  ASSUME CallTypes, CallFlags, NEW c \in Caller,
         ReadValue(c) \/ WriteValue(c) \/ CallStep(c)
  PROVE  CallTypes'
<1>1. ASSUME NEW o \in {"read", "write"}, Begin(c, o) PROVE CallTypes'
  <2>1. calls' \in Request /\ UNCHANGED <<value_, queue, pending, request_count_,
                                           master, last, result>>
    BY <1>1 DEF Begin, CallTypes, Request, session, masterVars
  <2>2. request' = [request EXCEPT ![c] = calls'] /\ alone' \subseteq Caller
    BY <1>1 DEF Begin
  <2>3. op' = [op EXCEPT ![c] = o] /\ call_pc' = [call_pc EXCEPT ![c] = "lock"]
    BY <1>1 DEF Begin, Move
  <2>4. QED
    BY <2>1, <2>2, <2>3 DEF CallTypes, Request
<1>2. CASE Lock(c) \/ TryLock(c)
  BY <1>2 DEF Lock, TryLock, Move, CallTypes, masterVars
<1>3. CASE Post(c)
  <2>1. request[c] \in Request
    BY <1>3 DEF Post, Move, CallTypes
  <2>2. queue' \in Seq(Request)
    BY <1>3, <2>1 DEF Post, CallTypes
  <2>3. QED
    BY <1>3, <2>2 DEF Post, Move, CallTypes, session
<1>4. CASE Timeout(c)
  BY <1>4, FailedType DEF Timeout, Move, CallTypes, session, masterVars
<1>5. CASE Check(c)
  <2>1. [ok |-> success_, value |-> 0] \in [ok : BOOLEAN, value : 0..MaxRequest]
    BY DEF CallFlags, CallTypes
  <2>2. result' \in [Caller -> [ok : BOOLEAN, value : 0..MaxRequest]]
    BY <1>5, <2>1 DEF Check, CallTypes
  <2>3. QED
    BY <1>5, <2>2 DEF Check, Move, CallTypes, session, masterVars
<1>6. CASE Take(c)
  BY <1>6 DEF Take, Move, CallTypes, session, masterVars
<1>7. CASE Unlock(c)
  <2>1. /\ result' \in [Caller -> [ok : BOOLEAN, value : 0..MaxRequest]]
        /\ request' \in [Caller -> 0..MaxRequest]
        /\ op' \in [Caller -> {"read", "write"}]
    BY <1>7, FailedType DEF Unlock, CallTypes
  <2>2. \A d \in Caller : call_pc'[d] # "idle" => request'[d] \in Request
    BY <1>7 DEF Unlock, Move, CallTypes
  <2>3. QED
    BY <1>7, <2>1, <2>2 DEF Unlock, Move, CallTypes, masterVars
<1>8. QED
  BY <1>1, <1>2, <1>3, <1>4, <1>5, <1>6, <1>7 DEF ReadValue, WriteValue, CallStep

LEMMA MasterKeepsTypes ==
  ASSUME CallTypes, Master
  PROVE  CallTypes'
<1>1. CASE Send
  <2>1. Head(queue) \in Request /\ Tail(queue) \in Seq(Request)
    BY <1>1 DEF Send, CallTypes
  <2>2. QED
    BY <1>1, <2>1 DEF Send, CallTypes, session, callVars
<1>2. CASE Poll
  <2>1. PICK n \in pending :
          /\ pending' = pending \ {n}
          /\ GivenUp(n) \/ \E answer \in Outcome \ {"none"} : Received(n, answer)
    BY <1>2 DEF Poll
  <2>2. n \in 0..MaxRequest /\ n \in Nat
    BY <2>1 DEF CallTypes, Request
  <2>3. UNCHANGED <<queue, request_count_, callVars>>
    BY <1>2 DEF Poll
  <2>4. CASE GivenUp(n)
    BY <2>1, <2>2, <2>3, <2>4 DEF GivenUp, CallTypes, callVars, Outcome
  <2>5. ASSUME NEW answer \in Outcome, Received(n, answer) PROVE CallTypes'
    BY <2>1, <2>2, <2>3, <2>5 DEF Received, Convert, CallTypes, callVars,
        AfterError
  <2>6. QED
    BY <2>1, <2>4, <2>5
<1>3. CASE Signal
  BY <1>3 DEF Signal, CallTypes, callVars
<1>4. CASE Count
  BY <1>4 DEF Count, CallTypes, session, callVars
<1>5. QED
  BY <1>1, <1>2, <1>3, <1>4 DEF Master

LEMMA CallTypesNext ==
  CallFlags /\ CallTypes /\ [SnmpNext]_snmpVars => CallFlags' /\ CallTypes'
<1> SUFFICES ASSUME CallFlags, CallTypes, [SnmpNext]_snmpVars PROVE CallTypes'
  BY CallFlagsNext
<1>1. CASE UNCHANGED snmpVars
  BY <1>1 DEF snmpVars, session, masterVars, callVars, CallTypes
<1>2. QED
  BY <1>1, CallKeepsTypes, MasterKeepsTypes DEF SnmpNext

(* The steps of the calls. *)
LEMMA BeginHas ==
  ASSUME CallTypes, NEW c \in Caller, NEW o, Begin(c, o)
  PROVE  AloneInv'
<1>1. CASE ~Quiet
  BY <1>1 DEF Begin, AloneInv
<1>2. CASE Quiet
  <2>1. alone' = {c} /\ call_pc' = [call_pc EXCEPT ![c] = "lock"]
    BY <1>2 DEF Begin, Move
  <2>2. NothingSent' /\ master' = "loop"
    BY <1>2 DEF Begin, Quiet, NothingSent, masterVars
  <2>3. \A d \in Caller : d # c => call_pc'[d] = "idle"
    BY <1>2, <2>1 DEF Quiet, CallTypes
  <2>4. QED
    BY <2>1, <2>2, <2>3 DEF AloneInv, Has, CallTypes
<1>3. QED
  BY <1>1, <1>2

LEMMA CallHas ==
  ASSUME CallFlags, CallTypes, NEW c \in alone, Has(c), CallStep(c)
  PROVE  Has(c)'
<1> USE DEF CallTypes
<1>0. c \in Caller
  OBVIOUS
<1>1. \A from, to : Move(c, from, to) =>
        /\ call_pc[c] = from /\ call_pc'[c] = to
        /\ \A d \in Caller : d # c => call_pc'[d] = "idle"
  BY <1>0 DEF Move, Has
<1>2. CASE Lock(c)
  <2>1. NothingSent' /\ master' = "loop" /\ finished_' /\ call_pc'[c] = "post"
    BY <1>1, <1>2 DEF Lock, Has, NothingSent, masterVars
  <2>2. QED
    BY <1>1, <1>2, <2>1 DEF Lock, Has
<1>3. CASE Post(c)
  <2>0. queue = << >> /\ pending = {} /\ master = "loop" /\ request[c] \in Request
    BY <1>0, <1>1, <1>3 DEF Post, Has, NothingSent
  <2>1. queue' = <<request[c]>> /\ pending' = {} /\ master' = "loop"
    BY <1>3, <2>0 DEF Post
  <2>2. finished_' /\ request' = request
    BY <1>1, <1>3, Zenon DEF Post, Has, session
  <2>3. Awaits(c)' /\ call_pc'[c] = "try"
    BY <1>1, <1>3, <2>1, <2>2 DEF Post, Awaits, Sent
  <2>4. QED
    BY <1>1, <1>3, <2>3 DEF Post, Has
<1>4. CASE TryLock(c)
  <2>1. NothingSent /\ Answered(request[c])
    BY <1>1, <1>4 DEF TryLock, Has, Awaits
  <2>2. UNCHANGED <<queue, pending, last, value_, request>> /\ call_pc'[c] = "check"
    BY <1>1, <1>4 DEF TryLock, masterVars
  <2>3. QED
    BY <1>1, <1>4, <2>1, <2>2 DEF TryLock, Has, NothingSent, Answered
<1>5. CASE Timeout(c)
  BY <1>0, <1>1, <1>5 DEF Timeout, Has, Failed
<1>6. CASE Check(c)
  <2>1. PICK to \in {"take", "unlock"} :
          Move(c, "check", to) /\ (to = "unlock" => ~success_ \/ op[c] # "read")
    BY <1>6 DEF Check
  <2>2. NothingSent /\ Answered(request[c])
    BY <1>1, <2>1 DEF Has
  <2>3. UNCHANGED <<queue, pending, last, value_, request, op, success_>>
    BY <1>6 DEF Check, session, masterVars
  <2>4. result'[c].ok = success_
    BY <1>0, <1>6 DEF Check
  <2>5. NothingSent' /\ Answered(request[c])'
    BY <2>2, <2>3 DEF NothingSent, Answered
  <2>6. QED
    BY <1>1, <2>1, <2>3, <2>4, <2>5 DEF Has
<1>7. CASE Take(c)
  <2>1. NothingSent /\ Answered(request[c]) /\ call_pc'[c] = "unlock"
    BY <1>1, <1>7 DEF Take, Has
  <2>2. UNCHANGED <<queue, pending, last, value_, request, op>>
    BY <1>7 DEF Take, session, masterVars
  <2>3. result'[c].value = value_
    BY <1>0, <1>7 DEF Take
  <2>4. NothingSent' /\ Answered(request[c])'
    BY <2>1, <2>2 DEF NothingSent, Answered
  <2>5. last'.answer = "value" => result'[c].value = request'[c]
    BY <2>1, <2>2, <2>3 DEF Answered
  <2>6. QED
    BY <1>1, <1>7, <2>1, <2>4, <2>5 DEF Take, Has
<1>8. CASE Unlock(c)
  BY <1>1, <1>8 DEF Unlock, Has
<1>9. QED
  BY <1>2, <1>3, <1>4, <1>5, <1>6, <1>7, <1>8 DEF CallStep

(* A step of another caller is not possible. *)
LEMMA OthersIdle ==
  ASSUME CallTypes, NEW c \in alone, Has(c), NEW d \in Caller, CallStep(d)
  PROVE  d = c
BY DEF Has, CallStep, Lock, Post, TryLock, Timeout, Check,
    Take, Unlock, Move, CallTypes

(* The steps of the Master. *)
LEMMA SendHas ==
  ASSUME CallTypes, NEW c \in alone, Has(c), Send
  PROVE  Has(c)'
<1> USE DEF CallTypes
<1>1. ~NothingSent /\ UNCHANGED <<finished_, call_pc, op, request, result,
                                      master, last, value_>>
  BY DEF Send, NothingSent, session, callVars
<1>2. call_pc[c] \notin {"lock", "post", "check", "take"}
      /\ ~(call_pc[c] = "unlock" /\ result[c].ok)
  BY <1>1 DEF Has
<1>3. ASSUME call_pc[c] = "try" PROVE Awaits(c)'
  <2>1. finished_ /\ Sent(request[c]) /\ queue # << >>
    BY <1>1, <1>3 DEF Has, Awaits, Send
  <2>2. queue = <<request[c]>> /\ pending = {} /\ master = "loop"
    BY <2>1 DEF Sent
  <2>3. queue' = << >> /\ (pending' = {request[c]} \/ pending' = {})
    BY <2>2 DEF Send
  <2>4. QED
    BY <1>1, <2>1, <2>2, <2>3 DEF Awaits, Sent, NothingSent
<1>4. QED
  BY <1>1, <1>2, <1>3 DEF Has

LEMMA PollHas ==
  ASSUME CallTypes, NEW c \in alone, Has(c), Poll
  PROVE  Has(c)'
<1> USE DEF CallTypes
<1>1. ~NothingSent /\ UNCHANGED <<finished_, queue, call_pc, op, request, result>>
  BY DEF Poll, NothingSent, callVars
<1>2. call_pc[c] \notin {"lock", "post", "check", "take"}
      /\ ~(call_pc[c] = "unlock" /\ result[c].ok)
  BY <1>1 DEF Has
<1>3. ASSUME call_pc[c] = "try" PROVE Awaits(c)'
  <2>1. PICK n \in pending :
          /\ pending' = pending \ {n}
          /\ GivenUp(n) \/ \E answer \in Outcome \ {"none"} : Received(n, answer)
    BY DEF Poll
  <2>2. finished_ /\ Sent(request[c])
    BY <1>1, <1>3 DEF Has, Awaits
  <2>3. n = request[c] /\ NothingSent'
    BY <1>1, <2>1, <2>2 DEF Sent, NothingSent
  <2>4. master' = "signal" => Answered(n)'
    <3>1. CASE GivenUp(n)
      BY <3>1 DEF GivenUp, Answered
    <3>2. ASSUME NEW answer \in Outcome, Received(n, answer), master' = "signal"
          PROVE  Answered(n)'
      BY <3>2 DEF Received, Convert, AfterError, Answered
    <3>3. QED
      BY <2>1, <3>1, <3>2
  <2>5. QED
    BY <1>1, <2>2, <2>3, <2>4, Zenon DEF Awaits
<1>4. QED
  BY <1>1, <1>2, <1>3 DEF Has

LEMMA SignalHas ==
  ASSUME CallTypes, NEW c \in alone, Has(c), Signal \/ Count
  PROVE  Has(c)'
<1> USE DEF CallTypes
<1>1. master # "loop" /\ master' # "signal"
      /\ UNCHANGED <<queue, pending, last, value_, call_pc, op, request, result>>
  BY DEF Signal, Count, session, callVars
<1>2. call_pc[c] \notin {"lock", "post"}
  BY <1>1 DEF Has
<1>3. ASSUME call_pc[c] = "try" PROVE Awaits(c)'
  <2>1. NothingSent /\ (~finished_ \/ master = "signal" => Answered(request[c]))
    BY <1>1, <1>3 DEF Has, Awaits, Sent
  <2>2. ~finished_' => Answered(request[c])
    BY <2>1, Zenon DEF Signal, Count, session
  <2>3. QED
    BY <1>1, <2>1, <2>2 DEF Awaits, NothingSent, Answered
<1>4. QED
  BY <1>1, <1>2, <1>3 DEF Has, NothingSent, Answered

SnmpInv == CallFlags /\ CallTypes /\ AloneInv

LEMMA SnmpInvNext == SnmpInv /\ [SnmpNext]_snmpVars => SnmpInv'
<1> SUFFICES ASSUME CallFlags, CallTypes, AloneInv, [SnmpNext]_snmpVars PROVE AloneInv'
  BY CallTypesNext DEF SnmpInv
<1>1. ASSUME NEW c \in Caller, ReadValue(c) \/ WriteValue(c) PROVE AloneInv'
  BY <1>1, BeginHas DEF ReadValue, WriteValue
<1>2. ASSUME NEW d \in Caller, CallStep(d) PROVE AloneInv'
  <2>1. alone' = alone
    BY <1>2 DEF CallStep, Lock, Post, TryLock, Timeout, Check,
        Take, Unlock
  <2>2. QED
    BY <1>2, <2>1, OthersIdle, CallHas DEF AloneInv
<1>3. CASE Master
  <2>1. alone' = alone
    BY <1>3 DEF Master, Send, Poll, Signal, Count, callVars
  <2>2. QED
    BY <1>3, <2>1, SendHas, PollHas, SignalHas DEF Master, AloneInv
<1>4. CASE UNCHANGED snmpVars
  BY <1>4 DEF snmpVars, session, masterVars, callVars, AloneInv, Has, Awaits,
      Sent, NothingSent, Answered
<1>5. QED
  BY <1>1, <1>2, <1>3, <1>4 DEF SnmpNext

(* SnmpSession: what calls that timed out or crossed left behind cannot      *)
(* reach a call that begins when nothing is under way and has the session    *)
(* to itself: it gets the answer to its own request or fails, whatever the   *)
(* agent answers and however late.                                           *)
THEOREM SessionRecovers ==
  SnmpSpec => []OwnAnswer
<1>1. SnmpInit => SnmpInv
  BY CallTypesInit DEF SnmpInit, SnmpInv, AloneInv
<1>2. SnmpInv => OwnAnswer
  BY DEF SnmpInv, CallTypes, AloneInv, Has, Answered, OwnAnswer
<1>3. QED
  BY <1>1, <1>2, SnmpInvNext, PTL DEF SnmpSpec

=============================================================================
