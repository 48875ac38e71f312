----------------------------- MODULE NbIotModem -----------------------------
(***************************************************************************)
(* The NB-IoT device (lib/device_nbiotm.cpp): a state machine that resets  *)
(* a modem, waits for the network, opens a socket, sends the MQTT CONNECT  *)
(* over it, and publishes the readings of its sensors once a period.  Each *)
(* step is an exchange over the serial line that reads, for a fixed time,  *)
(* whatever arrives (lib/device_modbus.cpp): an answer that comes later is *)
(* read in the next exchange, before that one's own.  No answer, and any   *)
(* ERROR among what was read, are failures.                                *)
(*                                                                         *)
(* The modem is external: it carries out commands in order, numbers its    *)
(* sockets, and may lose a command, answer late, have no network, or lose  *)
(* its sockets.  Later than the next exchange no answer comes.             *)
(***************************************************************************)
EXTENDS Integers

CONSTANTS
  Sockets,     (* numbers of sockets the modem has                          *)
  Sensors,     (* how many sensors are published                            *)
  Tries,       (* how often a command that gets no answer is sent           *)
  OK, ERROR, NoNetwork, None,
  MaxBehind,   (* bound on the periods that have ended unserved             *)
  MaxFail      (* bound on what the line, the modem and the sensors fail in *)

Socket == 1..Sockets
Answer == {OK, ERROR, NoNetwork} \cup Socket

ASSUME ModemAssumption ==
  /\ Sockets \in Nat \ {0} /\ Sensors \in Nat \ {0} /\ Tries \in Nat \ {0}
  /\ MaxBehind \in Nat /\ MaxFail \in Nat
  /\ OK # ERROR /\ OK # NoNetwork /\ ERROR # NoNetwork
  /\ {OK, ERROR, NoNetwork, None} \cap Socket = {} /\ None \notin {OK, ERROR, NoNetwork}

VARIABLES
  process_state,  (* 0 reset, 1 network, 2 socket, 3 connect, 4 publish     *)
  pc,             (* the command to send, "loop" between two Process calls, *)
                  (* or "off"                                               *)
  tries,          (* how often it was sent                                  *)
  sensor,         (* the sensor to publish                                  *)
  socket_fd_,     (* what the device takes for its socket                   *)
  behind,         (* periods of correction_timer_ that have ended unserved  *)
  open,           (* the modem's sockets                                    *)
  connected,      (* those on which a CONNECT was sent                      *)
  line,           (* an answer that came too late to be read                *)
  fails,          (* what has failed so far                                 *)
  crossed,        (* since the reset, an exchange read another's answer     *)
  stray,          (* since the reset, a reading went out before a CONNECT   *)
  got             (* the sensors whose reading went out in this round       *)

modem  == <<open, connected>>
ghosts == <<crossed, stray, got>>
vars   == <<process_state, pc, tries, sensor, socket_fd_, behind, modem, line, fails, ghosts>>

PC == {"off", "loop", "at", "cfun", "atAgain", "cereg", "socket", "connect", "publish"}

TypeOK ==
  /\ process_state \in 0..4
  /\ pc \in PC
  /\ tries \in 0..(Tries - 1)
  /\ sensor \in 0..(Sensors - 1)
  /\ socket_fd_ \in Answer \cup {None}
  /\ behind \in 0..MaxBehind
  /\ open \subseteq Socket
  /\ connected \subseteq open
  /\ line \in Answer \cup {None}
  /\ fails \in 0..MaxFail
  /\ crossed \in BOOLEAN
  /\ stray \in BOOLEAN
  /\ got \subseteq 0..(Sensors - 1)

Init ==
  /\ process_state = 0
  /\ pc = "off"
  /\ tries = 0
  /\ sensor = 0
  /\ socket_fd_ = None
  /\ behind = 0
  /\ open = {} /\ connected = {}
  /\ line = None
  /\ fails = 0
  /\ crossed = FALSE /\ stray = FALSE
  /\ got = {}

-----------------------------------------------------------------------------
Fail == fails < MaxFail /\ fails' = fails + 1

(* What the modem does with a command, and its answer.  A broker closes the *)
(* connection of a client that publishes before its CONNECT.                *)
Executed(a) ==
  CASE pc = "cfun" -> a = OK /\ open' = {} /\ connected' = {}
    [] pc = "socket" /\ open # Socket ->
         /\ a \in Socket \ open
         /\ \A s \in Socket \ open : a <= s
         /\ open' = open \cup {a}
         /\ UNCHANGED connected
    [] pc = "connect" /\ socket_fd_ \in open ->
         a = OK /\ connected' = connected \cup {socket_fd_} /\ UNCHANGED open
    [] pc = "publish" /\ socket_fd_ \in open ->
         a = OK /\ open' = open \ ({socket_fd_} \ connected) /\ UNCHANGED connected
    [] pc \in {"at", "atAgain", "cereg"} -> a = OK /\ UNCHANGED modem
    [] OTHER -> a = ERROR /\ UNCHANGED modem

(* A reading goes out.                                                      *)
Note ==
  IF pc = "publish" /\ socket_fd_ \in open
  THEN got' = got \cup {sensor} /\ stray' = (stray \/ socket_fd_ \notin connected)
  ELSE UNCHANGED <<got, stray>>

(* RequestAndResponse.  own is what is read of the answer to this command.  *)
(* mqtt_connect and mqtt_publish read on behind it, into a buffer they did  *)
(* not clear, and may find ERROR there.                                     *)
Exchange(own) ==
  /\ crossed' = (crossed \/ line # None)
  /\ \/ /\ \E a \in Answer :
             /\ Executed(a)
             /\ \/ own = a /\ line' = None /\ UNCHANGED fails
                \/ own = None /\ line' = a /\ Fail
                \/ own = ERROR /\ line' = None /\ Fail /\ pc \in {"connect", "publish"}
        /\ Note
     \/ /\ own = None                  (* the command is lost              *)
        /\ line' = None /\ Fail
        /\ UNCHANGED <<modem, got, stray>>
     \/ /\ pc = "cereg"
        /\ own = NoNetwork
        /\ line' = None /\ Fail
        /\ UNCHANGED <<modem, got, stray>>

Read(own)  == {line, own} \ {None}
First(own) == IF line = None THEN own ELSE line
Own        == Answer \cup {None}

Goto(state, l) ==
  /\ process_state' = state /\ pc' = l /\ tries' = 0
  /\ UNCHANGED <<sensor, behind>>

-----------------------------------------------------------------------------
(* reset_status, whose reset command may be answered or not, and            *)
(* nbiot_status.  Both are repeated until they succeed.                     *)
ResetAt ==
  /\ pc = "at"
  /\ \E own \in Own :
       /\ Exchange(own)
       /\ Goto(0, IF OK \in Read(own) THEN "cfun" ELSE "loop")
  /\ UNCHANGED socket_fd_

Reset ==
  /\ pc = "cfun"
  /\ \/ \E a \in Answer :
          /\ Executed(a)
          /\ \/ line' = None /\ UNCHANGED fails
             \/ line' = a /\ Fail
     \/ line' = None /\ Fail /\ UNCHANGED modem
  /\ crossed' = FALSE /\ stray' = FALSE
  /\ Goto(1, "atAgain")
  /\ UNCHANGED <<socket_fd_, got>>

StatusAt ==
  /\ pc = "atAgain"
  /\ \E own \in Own :
       /\ Exchange(own)
       /\ Goto(1, IF OK \in Read(own) THEN "cereg" ELSE "loop")
  /\ UNCHANGED socket_fd_

Status ==
  /\ pc = "cereg"
  /\ \E own \in Own :
       /\ Exchange(own)
       /\ IF Read(own) = {} \/ Read(own) \cap {ERROR, NoNetwork} # {}
          THEN Goto(1, "loop") ELSE Goto(2, "socket")
  /\ UNCHANGED socket_fd_

(* Mutant: no answer to the last try is taken for a good one.               *)
AcceptedUnanswered(own) ==
  ERROR \notin Read(own) /\ (Read(own) = {} => tries = Tries - 1)

(* Three commands are sent again when nothing was read.                     *)
Again(own)    == Read(own) = {} /\ tries < Tries - 1
Refused(own)  == ERROR \in Read(own) \/ (Read(own) = {} /\ tries = Tries - 1)
Accepted(own) == Read(own) # {} /\ ERROR \notin Read(own)

SendAgain ==
  tries' = tries + 1 /\ UNCHANGED <<process_state, pc, sensor, behind>>

(* tcp_connect takes the first word of the answer for the socket.           *)
TcpConnect ==
  /\ pc = "socket"
  /\ \E own \in Own :
       /\ Exchange(own)
       /\ \/ Again(own) /\ SendAgain /\ UNCHANGED socket_fd_
          \/ Refused(own) /\ Goto(0, "loop") /\ UNCHANGED socket_fd_
          \/ /\ Accepted(own)
             /\ socket_fd_' = First(own)
             /\ Goto(3, "connect")

MqttConnect ==
  /\ pc = "connect"
  /\ \E own \in Own :
       /\ Exchange(own)
       /\ \/ Again(own) /\ SendAgain
          \/ Refused(own) /\ Goto(0, "loop")
          \/ Accepted(own) /\ Goto(4, IF behind > 0 THEN "publish" ELSE "loop")
  /\ UNCHANGED socket_fd_

(* The first reading that fails ends the round, and the period is served    *)
(* all the same.                                                            *)
NextSensor ==
  /\ tries' = 0
  /\ IF sensor = Sensors - 1
     THEN sensor' = 0 /\ pc' = "loop" /\ behind' = behind - 1
     ELSE sensor' = sensor + 1 /\ UNCHANGED <<pc, behind>>
  /\ UNCHANGED process_state

(* Mutant: the failed round does not lead to a reset.                       *)
EndRoundOnly ==
  /\ UNCHANGED process_state
  /\ pc' = "loop" /\ tries' = 0 /\ sensor' = 0 /\ behind' = behind - 1

EndRound ==
  /\ process_state' = 0
  /\ pc' = "loop" /\ tries' = 0 /\ sensor' = 0 /\ behind' = behind - 1

(* Mutant: the round goes on to the next sensor.                            *)
MqttPublishAll ==
  /\ pc = "publish"
  /\ \E own \in Own :
       /\ Exchange(own)
       /\ \/ Again(own) /\ SendAgain
          \/ ~Again(own) /\ NextSensor
  /\ UNCHANGED socket_fd_

MqttPublish ==
  /\ pc = "publish"
  /\ \E own \in Own :
       /\ Exchange(own)
       /\ \/ Again(own) /\ SendAgain
          \/ Refused(own) /\ EndRound
          \/ Accepted(own) /\ NextSensor
  /\ UNCHANGED socket_fd_

(* A sensor that cannot be read is passed over.                             *)
Unread ==
  /\ pc = "publish"
  /\ tries = 0
  /\ Fail
  /\ NextSensor
  /\ got' = got \cup {sensor}
  /\ UNCHANGED <<socket_fd_, modem, line, crossed, stray>>

(* Process. *)
Process ==
  /\ pc = "loop"
  /\ process_state = 4 => behind > 0
  /\ pc' = CASE process_state = 0 -> "at"
             [] process_state = 1 -> "atAgain"
             [] process_state = 2 -> "socket"
             [] process_state = 3 -> "connect"
             [] process_state = 4 -> "publish"
  /\ got' = {}
  /\ UNCHANGED <<process_state, tries, sensor, socket_fd_, behind, modem, line, fails,
                 crossed, stray>>

Device ==
  \/ Process \/ ResetAt \/ Reset \/ StatusAt \/ Status \/ TcpConnect \/ MqttConnect
  \/ MqttPublish

(* Start and Stop, which keep process_state and socket_fd_.                 *)
Start ==
  /\ pc = "off"
  /\ pc' = "loop"
  /\ behind' = 0
  /\ UNCHANGED <<process_state, tries, sensor, socket_fd_, modem, line, fails, ghosts>>

Stop ==
  /\ pc = "loop"
  /\ pc' = "off"
  /\ UNCHANGED <<process_state, tries, sensor, socket_fd_, behind, modem, line, fails, ghosts>>

Tick ==
  /\ behind < MaxBehind
  /\ behind' = behind + 1
  /\ UNCHANGED <<process_state, pc, tries, sensor, socket_fd_, modem, line, fails, ghosts>>

(* The modem loses its sockets: its power, the network, or the broker.      *)
SocketsLost ==
  /\ open # {}
  /\ Fail
  /\ open' = {} /\ connected' = {}
  /\ UNCHANGED <<process_state, pc, tries, sensor, socket_fd_, behind, line, ghosts>>

Next == Device \/ Unread \/ Start \/ Stop \/ Tick \/ SocketsLost

Spec == Init /\ [][Next]_vars

(* The device's thread goes on, periods end, and what fails is bounded.     *)
FairSpec == Spec /\ WF_vars(Device) /\ WF_vars(Tick)

-----------------------------------------------------------------------------
(* No reading goes out over a socket on which no CONNECT was sent, unless   *)
(* since the last reset an exchange took the answer to another for its own. *)
ConnectFirst == stray => crossed

(* With the same exception, a round passes over no sensor: before it goes   *)
(* on to the next, the reading has gone out or could not be taken.          *)
NoneSkipped == pc = "publish" /\ ~crossed => 0..(sensor - 1) \subseteq got

(* Whatever was lost, came late or went down, a device that runs on is      *)
(* connected again.                                                         *)
Reconnects == []<>(pc = "off" \/ (process_state = 4 /\ socket_fd_ \in connected))

=============================================================================
