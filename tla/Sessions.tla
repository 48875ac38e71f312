------------------------------ MODULE Sessions ------------------------------
(***************************************************************************)
(* The sessions of the RCS server and the calls of its clients             *)
(* (lib/tcp_server.cpp, lib/rcs_server.cpp, lib/tcp_session.cpp,           *)
(* lib/rcs_session.cpp, lib/tcp_client.cpp, lib/rcs_client.cpp).  The      *)
(* server's thread accepts a connection while session_map_ has room, and   *)
(* enters its session under the peer's port number alone.  The session's   *)
(* thread polls the socket twice in a loop, serving what the first poll    *)
(* finds and dropping what the second does.  When the peer has closed, it  *)
(* posts its port to the server, which takes the entry of that port out,   *)
(* stops the session and joins it.                                         *)
(*                                                                         *)
(* A connection is one use of a port by a peer: connections share a port   *)
(* when two hosts chose the same, or one host chose it again.  A client    *)
(* makes one call at a time; it waits for a frame until its timeout, and   *)
(* takes whichever is first in its list.  A request or reply fits into one *)
(* frame, and bytes that are polled together are one frame.  Sessions are  *)
(* taken to start in time (ActiveObject), and the server not to be stopped.*)
(***************************************************************************)
EXTENDS Integers, Sequences, FiniteSets

CONSTANTS
  Conn,          (* connections                                             *)
  Caller,        (* those on which calls are made                           *)
  Port, PortOf,  (* the port number of each connection's peer               *)
  MaxSessions,   (* max_session_count_                                      *)
  MaxFrames,     (* frames a client keeps                                   *)
  NoEntry,       (* no entry in session_map_                                *)
  Null,          (* an entry without a session                              *)
  TimedOut, Invalid, NoReply,
  MaxCalls       (* bound on the calls on a connection                      *)

ASSUME SessionsAssumption ==
  /\ Caller \subseteq Conn
  /\ PortOf \in [Conn -> Port]
  /\ NoEntry \notin Conn /\ Null \notin Conn /\ NoEntry # Null
  /\ MaxSessions \in Nat /\ MaxFrames \in Nat /\ MaxCalls \in Nat
  /\ {TimedOut, Invalid, NoReply} \cap Nat = {}
  /\ TimedOut # Invalid /\ TimedOut # NoReply /\ Invalid # NoReply

VARIABLES
  peer,          (* the peer's end of each connection                       *)
  session_map_,
  queue,         (* the ports posted to the server                          *)
  server,        (* where the server's thread is                            *)
  joining,       (* the session it joins                                    *)
  session,       (* where the thread of each session is                     *)
  stop_,         (* the sessions told to stop                               *)
  socket_,       (* the sessions whose socket_ is set                       *)
  toServer, toClient,  (* what is under way on each connection              *)
  frames,        (* receive_packet_list_ of each client                     *)
  call,          (* how many calls each client has made                     *)
  waiting,       (* the clients that wait for a reply                       *)
  reply          (* what came of each call: the call whose reply it took    *)

listener == <<session_map_, server, joining>>
calls    == <<frames, call, waiting, reply>>
sessionsVars == <<peer, listener, queue, session, stop_, socket_, toServer, toClient, calls>>

CallId == 1..MaxCalls

SessionsTypeOK ==
  /\ peer \in [Conn -> {"away", "open", "gone"}]
  /\ session_map_ \in [Port -> Conn \cup {NoEntry, Null}]
  /\ queue \in Seq(Port)
  /\ server \in {"accept", "message", "join"}
  /\ joining \in Conn \cup {NoEntry}
  /\ server = "join" <=> joining # NoEntry
  /\ session \in [Conn -> {"none", "first", "second", "ended"}]
  /\ stop_ \subseteq Conn
  /\ socket_ \subseteq Conn
  /\ toServer \in [Conn -> Seq(CallId)]
  /\ toClient \in [Conn -> Seq(CallId)]
  /\ frames \in [Conn -> Seq(Seq(CallId))]
  /\ call \in [Conn -> 0..MaxCalls]
  /\ waiting \subseteq Caller
  /\ reply \in [Conn -> [CallId -> CallId \cup {TimedOut, Invalid, NoReply}]]

SessionsInit ==
  /\ peer = [c \in Conn |-> "away"]
  /\ session_map_ = [p \in Port |-> NoEntry]
  /\ queue = << >>
  /\ server = "accept"
  /\ joining = NoEntry
  /\ session = [c \in Conn |-> "none"]
  /\ stop_ = {}
  /\ socket_ = {}
  /\ toServer = [c \in Conn |-> << >>]
  /\ toClient = [c \in Conn |-> << >>]
  /\ frames = [c \in Conn |-> << >>]
  /\ call = [c \in Conn |-> 0]
  /\ waiting = {}
  /\ reply = [c \in Conn |-> [k \in CallId |-> NoReply]]

-----------------------------------------------------------------------------
(* The peers.  Disconnect of a client tells the server nothing, the end of  *)
(* its process does.                                                        *)
Connect(c) ==
  /\ peer[c] = "away"
  /\ peer' = [peer EXCEPT ![c] = "open"]
  /\ UNCHANGED <<listener, queue, session, stop_, socket_, toServer, toClient, calls>>

Close(c) ==
  /\ peer[c] = "open"
  /\ peer' = [peer EXCEPT ![c] = "gone"]
  /\ waiting' = waiting \ {c}
  /\ frames' = [frames EXCEPT ![c] = << >>]
  /\ toClient' = [toClient EXCEPT ![c] = << >>]
  /\ UNCHANGED <<listener, queue, session, stop_, socket_, toServer, call, reply>>

(* RCSClient::RemoteCall: what an earlier call left is not looked at.       *)
Call(c) ==
  /\ peer[c] = "open"
  /\ c \notin waiting
  /\ call[c] < MaxCalls
  /\ call' = [call EXCEPT ![c] = @ + 1]
  /\ toServer' = [toServer EXCEPT ![c] = Append(@, call[c] + 1)]
  /\ waiting' = waiting \cup {c}
  /\ UNCHANGED <<peer, listener, queue, session, stop_, socket_, toClient, frames, reply>>

Returns(c, r) ==
  /\ waiting' = waiting \ {c}
  /\ reply' = [reply EXCEPT ![c][call[c]] = r]
  /\ UNCHANGED <<peer, listener, queue, session, stop_, socket_, toServer, toClient, call>>

(* Mutant: the newest frame is taken first.                                  *)
ReplyNewest(c) ==
  /\ c \in waiting
  /\ frames[c] # << >>
  /\ frames' = [frames EXCEPT ![c] = SubSeq(@, 1, Len(@) - 1)]
  /\ LET f == frames[c][Len(frames[c])] IN Returns(c, IF Len(f) = 1 THEN f[1] ELSE Invalid)

Reply(c) ==
  /\ c \in waiting
  /\ frames[c] # << >>
  /\ frames' = [frames EXCEPT ![c] = Tail(@)]
  /\ LET f == Head(frames[c]) IN Returns(c, IF Len(f) = 1 THEN f[1] ELSE Invalid)

Timeout(c) ==
  /\ c \in waiting
  /\ Returns(c, TimedOut)
  /\ UNCHANGED frames

(* Mutant: what is received is left in the socket.                           *)
ReceivePeeks(c) ==
  /\ toClient[c] # << >>
  /\ Len(frames[c]) < MaxFrames
  /\ frames' = [frames EXCEPT ![c] = Append(@, toClient[c])]
  /\ UNCHANGED <<peer, listener, queue, session, stop_, socket_, toServer, toClient, call,
                 waiting, reply>>

(* The thread of the TCPClient: a frame that finds the list full is lost.   *)
Receive(c) ==
  /\ toClient[c] # << >>
  /\ toClient' = [toClient EXCEPT ![c] = << >>]
  /\ frames' = IF Len(frames[c]) < MaxFrames
               THEN [frames EXCEPT ![c] = Append(@, toClient[c])] ELSE frames
  /\ UNCHANGED <<peer, listener, queue, session, stop_, socket_, toServer, call, waiting,
                 reply>>

-----------------------------------------------------------------------------
(* The thread of a session. *)
(* Mutant: socket_ is left as it is.                                         *)
DisconnectAgain(c) ==
  /\ queue' = IF c \in socket_ THEN Append(queue, PortOf[c]) ELSE queue
  /\ UNCHANGED socket_

Disconnect(c) ==
  IF c \in socket_
  THEN socket_' = socket_ \ {c} /\ queue' = Append(queue, PortOf[c])
  ELSE UNCHANGED <<socket_, queue>>

(* The two polls: data is taken whole, the end of it when there is none.    *)
Closed(c) == toServer[c] = << >> /\ peer[c] = "gone"

(* Mutant: the end of the data is taken for the lack of it.                  *)
PollOnlyData(c) ==
  /\ toServer' = IF c \in socket_ THEN [toServer EXCEPT ![c] = << >>] ELSE toServer
  /\ UNCHANGED <<socket_, queue>>

Poll(c) ==
  /\ IF Closed(c) THEN Disconnect(c) ELSE UNCHANGED <<socket_, queue>>
  /\ toServer' = IF c \in socket_ THEN [toServer EXCEPT ![c] = << >>] ELSE toServer

(* RCSSession::Process.  Requests that came together are no valid message.  *)
Serve(c) ==
  /\ session[c] = "first"
  /\ Poll(c)
  /\ toClient' = IF c \in socket_ /\ Len(toServer[c]) = 1 /\ peer[c] = "open"
                 THEN [toClient EXCEPT ![c] = @ \o toServer[c]] ELSE toClient
  /\ session' = [session EXCEPT ![c] = "second"]
  /\ UNCHANGED <<peer, listener, stop_, calls>>

(* TCPSession::Process, whose OnReceive does nothing, and the loop.         *)
PollAgain(c) ==
  /\ session[c] = "second"
  /\ IF c \in stop_
     THEN /\ session' = [session EXCEPT ![c] = "ended"]
          /\ Disconnect(c)
          /\ UNCHANGED toServer
     ELSE session' = [session EXCEPT ![c] = "first"] /\ Poll(c)
  /\ UNCHANGED <<peer, listener, stop_, toClient, calls>>

Session(c) == Serve(c) \/ PollAgain(c)

-----------------------------------------------------------------------------
(* The thread of the server: a loop accepts one connection, if it may, and  *)
(* takes one message.                                                       *)
Entries == {p \in Port : session_map_[p] # NoEntry}

Accept ==
  /\ server = "accept"
  /\ server' = "message"
  /\ \/ /\ Cardinality(Entries) < MaxSessions
        /\ \E c \in Conn :
             /\ peer[c] # "away"
             /\ session[c] = "none"
             /\ session_map_' = [session_map_ EXCEPT ![PortOf[c]] = c]
             /\ session' = [session EXCEPT ![c] = "first"]
             /\ socket_' = socket_ \cup {c}
     \/ /\ \/ Cardinality(Entries) >= MaxSessions
           \/ \A c \in Conn : peer[c] = "away" \/ session[c] # "none"
        /\ UNCHANGED <<session_map_, session, socket_>>
  /\ UNCHANGED <<peer, queue, joining, stop_, toServer, toClient, calls>>

(* Looking up a port that has no entry makes one, without a session.        *)
OnMessage ==
  /\ server = "message"
  /\ IF queue = << >>
     THEN server' = "accept" /\ UNCHANGED <<session_map_, joining, queue, stop_>>
     ELSE /\ queue' = Tail(queue)
          /\ LET s == session_map_[Head(queue)] IN
             IF s \in Conn
             THEN /\ session_map_' = [session_map_ EXCEPT ![Head(queue)] = NoEntry]
                  /\ stop_' = stop_ \cup {s}
                  /\ joining' = s
                  /\ server' = "join"
             ELSE /\ session_map_' = [session_map_ EXCEPT ![Head(queue)] = Null]
                  /\ server' = "accept"
                  /\ UNCHANGED <<stop_, joining>>
  /\ UNCHANGED <<peer, session, socket_, toServer, toClient, calls>>

Join ==
  /\ server = "join"
  /\ session[joining] = "ended"
  /\ server' = "accept"
  /\ joining' = NoEntry
  /\ UNCHANGED <<peer, session_map_, queue, session, stop_, socket_, toServer, toClient,
                 calls>>

Server == Accept \/ OnMessage \/ Join

SessionsNext ==
  \/ \E c \in Conn : Connect(c) \/ Close(c) \/ Session(c)
  \/ \E c \in Caller : Call(c) \/ Reply(c) \/ Timeout(c) \/ Receive(c)
  \/ Server

SessionsSpec == SessionsInit /\ [][SessionsNext]_sessionsVars

(* The threads of the server and of the sessions go on.                     *)
SessionsFairSpec ==
  /\ SessionsSpec
  /\ WF_sessionsVars(Server)
  /\ \A c \in Conn : WF_sessionsVars(Session(c))

-----------------------------------------------------------------------------
Alone(c) == \A d \in Conn \ {c} : PortOf[d] # PortOf[c]

(* Whatever happens on ports that are shared, a connection whose port is    *)
(* its own is stopped only when its peer has closed, has the entry of its   *)
(* port as long as its session goes on, and leaves none behind.             *)
Undisturbed ==
  \A c \in Conn : Alone(c) =>
    /\ c \in stop_ => peer[c] = "gone"
    /\ session_map_[PortOf[c]] \in {c, NoEntry}
    /\ session[c] \in {"first", "second"} /\ c \notin stop_ => session_map_[PortOf[c]] = c

(* A call gets the reply to itself, or to one as many calls before it as    *)
(* there were timeouts in between at most: without one, clients and server  *)
(* are in step; after one, all later calls may get the reply of another.    *)
LagByTimeouts ==
  \A c \in Caller, k \in CallId :
    reply[c][k] \in CallId =>
      k - reply[c][k] \in 0..Cardinality({j \in 1..(k - 1) : reply[c][j] = TimedOut})

(* No reply is taken twice, and none after one to a later call.             *)
InOrder ==
  \A c \in Caller, j, k \in CallId :
    j < k /\ reply[c][j] \in CallId /\ reply[c][k] \in CallId => reply[c][j] < reply[c][k]

(* A connection whose port is its own gives its slot back once its peer has *)
(* closed.                                                                  *)
SlotReturned ==
  \A c \in Conn : Alone(c) =>
    (session_map_[PortOf[c]] = c /\ peer[c] = "gone" ~> session_map_[PortOf[c]] # c)

=============================================================================
