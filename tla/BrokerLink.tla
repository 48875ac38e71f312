----------------------------- MODULE BrokerLink -----------------------------
(***************************************************************************)
(* The connection of the ServerLinkerMosq with the broker, and the         *)
(* subscriptions of its down links (lib/server_linker_mosquitto.cpp,       *)
(* lib/server_linker.cpp).  Three kinds of threads share broker_connected_ *)
(* and down_link_map_ without a lock: the linker's own, which connects     *)
(* whenever it finds the flag down; libmosquitto's, which runs the         *)
(* callbacks; and those that attach and detach objects, each of which has  *)
(* a down link.                                                            *)
(*                                                                         *)
(* libmosquitto and the broker are external: the present session, what is  *)
(* subscribed in it (a clean session starts with nothing), and whether the *)
(* library's thread runs.  The linker retries when its retry timer is up,  *)
(* that is at any time.  auto_connection_ is up until the linker ends, and *)
(* up links keep no state of the connection.                               *)
(***************************************************************************)
EXTENDS Integers

CONSTANTS
  User,     (* threads that attach and detach objects                       *)
  Topic,    (* topics of down links, numbered in the order of the map       *)
  NoTopic,  (* the topic of a user that is not at any                       *)
  MaxFail   (* bound on connections that fail, are refused or are lost      *)

ASSUME LinkAssumption ==
  /\ Topic \subseteq Nat \ {0}
  /\ NoTopic \notin Topic
  /\ MaxFail \in Nat

VARIABLES
  broker_connected_,
  down_link_map_,  (* topics with a link                                    *)
  connected_,      (* the links among them whose connected_ is set          *)
  lpc,             (* where the linker's thread is                          *)
  stopping,        (* it is in Postprocess                                  *)
  lcursor,         (* the link its loop visited last                        *)
  looping,         (* libmosquitto's thread runs                            *)
  mpc,             (* which callback it is in                               *)
  mcursor,         (* the link the callback visited last                    *)
  session,         (* of libmosquitto with the broker                       *)
  subs,            (* topics subscribed in it                               *)
  upc,             (* where each user is in AddDownLink                     *)
  topic,           (* with which topic                                      *)
  fails,           (* failures so far                                       *)
  broken           (* a link was deleted under a loop that stands at it     *)

linker == <<lpc, stopping, lcursor>>
mosq   == <<looping, mpc, mcursor>>
user   == <<upc, topic>>
vars   == <<broker_connected_, down_link_map_, connected_, linker, mosq, session,
            subs, user, fails, broken>>

LinkerPC == {"process", "connect", "loopStart", "loopStop", "flagDown", "linksDown",
             "ended"}
MosqPC   == {"loop", "onConnect", "connectLinks", "disconnectLinks", "onDisconnect"}
Session  == {"none", "pending", "refused", "up"}
UserPC   == {"idle", "test", "subscribe", "mark"}

TypeOK ==
  /\ broker_connected_ \in BOOLEAN
  /\ down_link_map_ \subseteq Topic
  /\ connected_ \subseteq down_link_map_
  /\ lpc \in LinkerPC
  /\ stopping \in BOOLEAN
  /\ lcursor \in Topic \cup {0}
  /\ looping \in BOOLEAN
  /\ mpc \in MosqPC
  /\ mcursor \in Topic \cup {0}
  /\ session \in Session
  /\ subs \subseteq Topic
  /\ upc \in [User -> UserPC]
  /\ topic \in [User -> Topic \cup {NoTopic}]
  /\ fails \in 0..MaxFail
  /\ broken \in BOOLEAN

Init ==
  /\ broker_connected_ = FALSE
  /\ down_link_map_ = {}
  /\ connected_ = {}
  /\ lpc = "process"
  /\ stopping = FALSE
  /\ lcursor = 0
  /\ looping = FALSE
  /\ mpc = "loop"
  /\ mcursor = 0
  /\ session = "none"
  /\ subs = {}
  /\ upc = [u \in User |-> "idle"]
  /\ topic = [u \in User |-> NoTopic]
  /\ fails = 0
  /\ broken = FALSE

-----------------------------------------------------------------------------
(* A loop over down_link_map_ that stands at d goes on to the next link.    *)
Beyond(d)   == {e \in down_link_map_ : e > d}
NextLink(d) == {e \in Beyond(d) : \A f \in Beyond(d) : e <= f}

(* mosquitto_subscribe fails when there is no connection.                   *)
Subscribed(d) == IF session = "none" THEN subs ELSE subs \cup {d}

Fail == fails < MaxFail /\ fails' = fails + 1

-----------------------------------------------------------------------------
(* The linker's thread. *)

Process ==
  /\ lpc = "process"
  /\ ~broker_connected_
  /\ lpc' = "connect"
  /\ UNCHANGED <<broker_connected_, down_link_map_, connected_, stopping, lcursor, mosq,
                 session, subs, user, fails, broken>>

(* Mutant: a failed connect does not call InternalDisconnect. *)
ConnectFailsQuietly ==
  /\ lpc = "connect"
  /\ subs' = {}
  /\ \/ lpc' = "loopStart" /\ session' = "pending" /\ UNCHANGED fails
     \/ lpc' = "process" /\ session' = "none" /\ Fail
  /\ UNCHANGED <<broker_connected_, down_link_map_, connected_, stopping, lcursor, mosq,
                 user, broken>>

(* mosquitto_connect gives up the session there may be for a new one.       *)
Connect ==
  /\ lpc = "connect"
  /\ subs' = {}
  /\ \/ lpc' = "loopStart" /\ session' = "pending" /\ UNCHANGED fails
     \/ lpc' = "loopStop" /\ session' = "none" /\ Fail
  /\ UNCHANGED <<broker_connected_, down_link_map_, connected_, stopping, lcursor, mosq,
                 user, broken>>

LoopStart ==
  /\ lpc = "loopStart"
  /\ lpc' = "process"
  /\ looping' = TRUE
  /\ UNCHANGED <<broker_connected_, down_link_map_, connected_, stopping, lcursor, mpc,
                 mcursor, session, subs, user, fails, broken>>

(* Mutant: the thread is not cancelled and joined, a callback runs on. *)
LoopStopUnjoined ==
  /\ lpc = "loopStop"
  /\ lpc' = "flagDown"
  /\ looping' = FALSE
  /\ UNCHANGED <<broker_connected_, down_link_map_, connected_, stopping, lcursor, mpc,
                 mcursor, session, subs, user, fails, broken>>

(* InternalDisconnect, after a failed connect or in Postprocess: it kills   *)
(* the library's thread wherever that is.                                   *)
LoopStop ==
  /\ lpc = "loopStop"
  /\ lpc' = "flagDown"
  /\ looping' = FALSE
  /\ mpc' = "loop"
  /\ mcursor' = 0
  /\ UNCHANGED <<broker_connected_, down_link_map_, connected_, stopping, lcursor,
                 session, subs, user, fails, broken>>

(* Mutant: InternalDisconnect forgets the flag. *)
FlagDownKept ==
  /\ lpc = "flagDown"
  /\ lpc' = "linksDown"
  /\ UNCHANGED <<broker_connected_, down_link_map_, connected_, stopping, lcursor, mosq,
                 session, subs, user, fails, broken>>

FlagDown ==
  /\ lpc = "flagDown"
  /\ lpc' = "linksDown"
  /\ broker_connected_' = FALSE
  /\ UNCHANGED <<down_link_map_, connected_, stopping, lcursor, mosq, session, subs,
                 user, fails, broken>>

LinksDown ==
  /\ lpc = "linksDown"
  /\ \/ \E d \in NextLink(lcursor) :
          /\ connected_' = connected_ \ {d}
          /\ lcursor' = d
          /\ UNCHANGED lpc
     \/ /\ Beyond(lcursor) = {}
        /\ lpc' = IF stopping THEN "ended" ELSE "process"
        /\ lcursor' = 0
        /\ UNCHANGED connected_
  /\ UNCHANGED <<broker_connected_, down_link_map_, stopping, mosq, session, subs, user,
                 fails, broken>>

(* Disconnect does nothing when the flag is down, though a session may be   *)
(* on its way up.                                                           *)
Postprocess ==
  /\ lpc = "process"
  /\ stopping' = TRUE
  /\ lpc' = IF broker_connected_ THEN "loopStop" ELSE "ended"
  /\ UNCHANGED <<broker_connected_, down_link_map_, connected_, lcursor, mosq, session,
                 subs, user, fails, broken>>

LinkerStep == Process \/ Connect \/ LoopStart \/ LoopStop \/ FlagDown \/ LinksDown

-----------------------------------------------------------------------------
(* libmosquitto's thread.  The broker accepts or refuses the connection;    *)
(* OnConnectCB does not look at the result.                                 *)
ConnAck ==
  /\ looping
  /\ mpc = "loop"
  /\ session = "pending"
  /\ mpc' = "onConnect"
  /\ \/ session' = "up" /\ UNCHANGED fails
     \/ session' = "refused" /\ Fail
  /\ UNCHANGED <<broker_connected_, down_link_map_, connected_, linker, looping, mcursor,
                 subs, user, broken>>

Close ==
  /\ looping
  /\ mpc = "loop"
  /\ session' = "none"
  /\ subs' = {}
  /\ mpc' = "disconnectLinks"
  /\ UNCHANGED <<broker_connected_, down_link_map_, connected_, linker, looping, mcursor,
                 user, broken>>

ConnectionLost == session \in {"pending", "up"} /\ Close /\ Fail

CloseRefused == session = "refused" /\ Close /\ UNCHANGED fails

(* The library connects again by itself. *)
Reconnect ==
  /\ looping
  /\ mpc = "loop"
  /\ session = "none"
  /\ session' = "pending"
  /\ UNCHANGED <<broker_connected_, down_link_map_, connected_, linker, mosq, subs, user,
                 fails, broken>>

OnConnectFlag ==
  /\ mpc = "onConnect"
  /\ mpc' = "connectLinks"
  /\ broker_connected_' = TRUE
  /\ UNCHANGED <<down_link_map_, connected_, linker, looping, mcursor, session, subs,
                 user, fails, broken>>

(* Mutant: only the links not yet connected_ are subscribed. *)
ConnectLinksOnlyNew ==
  /\ mpc = "connectLinks"
  /\ \/ \E d \in NextLink(mcursor) :
          /\ subs' = IF d \in connected_ THEN subs ELSE Subscribed(d)
          /\ connected_' = IF session = "none" THEN connected_ ELSE connected_ \cup {d}
          /\ mcursor' = d
          /\ UNCHANGED mpc
     \/ /\ Beyond(mcursor) = {}
        /\ mpc' = "loop"
        /\ mcursor' = 0
        /\ UNCHANGED <<subs, connected_>>
  /\ UNCHANGED <<broker_connected_, down_link_map_, linker, looping, session, user,
                 fails, broken>>

ConnectLinks ==
  /\ mpc = "connectLinks"
  /\ \/ \E d \in NextLink(mcursor) :
          /\ subs' = Subscribed(d)
          /\ connected_' = IF session = "none" THEN connected_ ELSE connected_ \cup {d}
          /\ mcursor' = d
          /\ UNCHANGED mpc
     \/ /\ Beyond(mcursor) = {}
        /\ mpc' = "loop"
        /\ mcursor' = 0
        /\ UNCHANGED <<subs, connected_>>
  /\ UNCHANGED <<broker_connected_, down_link_map_, linker, looping, session, user,
                 fails, broken>>

DisconnectLinks ==
  /\ mpc = "disconnectLinks"
  /\ \/ \E d \in NextLink(mcursor) :
          /\ connected_' = connected_ \ {d}
          /\ mcursor' = d
          /\ UNCHANGED mpc
     \/ /\ Beyond(mcursor) = {}
        /\ mpc' = "onDisconnect"
        /\ mcursor' = 0
        /\ UNCHANGED connected_
  /\ UNCHANGED <<broker_connected_, down_link_map_, linker, looping, session, subs, user,
                 fails, broken>>

OnDisconnectFlag ==
  /\ mpc = "onDisconnect"
  /\ mpc' = "loop"
  /\ broker_connected_' = FALSE
  /\ UNCHANGED <<down_link_map_, connected_, linker, looping, mcursor, session, subs,
                 user, fails, broken>>

MosqStep ==
  \/ ConnAck \/ CloseRefused \/ Reconnect
  \/ OnConnectFlag \/ ConnectLinks
  \/ DisconnectLinks \/ OnDisconnectFlag

-----------------------------------------------------------------------------
(* The threads that attach and detach objects; an object is not attached or *)
(* detached by two of them at once.                                         *)

AddDownLink(u, d) ==
  /\ upc[u] = "idle"
  /\ \A v \in User : topic[v] # d
  /\ d \notin down_link_map_
  /\ down_link_map_' = down_link_map_ \cup {d}
  /\ upc' = [upc EXCEPT ![u] = "test"]
  /\ topic' = [topic EXCEPT ![u] = d]
  /\ UNCHANGED <<broker_connected_, connected_, linker, mosq, session, subs, fails, broken>>

(* Mutant: a new link is left for the next OnConnectCB. *)
AddTestNever(u) ==
  /\ upc[u] = "test"
  /\ upc' = [upc EXCEPT ![u] = "idle"]
  /\ topic' = [topic EXCEPT ![u] = NoTopic]
  /\ UNCHANGED <<broker_connected_, down_link_map_, connected_, linker, mosq, session,
                 subs, fails, broken>>

AddTest(u) ==
  /\ upc[u] = "test"
  /\ IF broker_connected_
     THEN upc' = [upc EXCEPT ![u] = "subscribe"] /\ UNCHANGED topic
     ELSE /\ upc' = [upc EXCEPT ![u] = "idle"]
          /\ topic' = [topic EXCEPT ![u] = NoTopic]
  /\ UNCHANGED <<broker_connected_, down_link_map_, connected_, linker, mosq, session,
                 subs, fails, broken>>

AddSubscribe(u) ==
  /\ upc[u] = "subscribe"
  /\ subs' = Subscribed(topic[u])
  /\ IF session = "none"
     THEN /\ upc' = [upc EXCEPT ![u] = "idle"]
          /\ topic' = [topic EXCEPT ![u] = NoTopic]
     ELSE upc' = [upc EXCEPT ![u] = "mark"] /\ UNCHANGED topic
  /\ UNCHANGED <<broker_connected_, down_link_map_, connected_, linker, mosq, session,
                 fails, broken>>

AddMark(u) ==
  /\ upc[u] = "mark"
  /\ connected_' = connected_ \cup {topic[u]}
  /\ upc' = [upc EXCEPT ![u] = "idle"]
  /\ topic' = [topic EXCEPT ![u] = NoTopic]
  /\ UNCHANGED <<broker_connected_, down_link_map_, linker, mosq, session, subs, fails,
                 broken>>

(* The subscription at the broker stays.                                    *)
DelDownLink(u, d) ==
  /\ upc[u] = "idle"
  /\ \A v \in User : topic[v] # d
  /\ d \in down_link_map_
  /\ down_link_map_' = down_link_map_ \ {d}
  /\ connected_' = connected_ \ {d}
  /\ broken' = (d \in {lcursor, mcursor})
  /\ UNCHANGED <<broker_connected_, linker, mosq, session, subs, user, fails>>

AddStep(u) == AddTest(u) \/ AddSubscribe(u) \/ AddMark(u)

Next ==
  /\ ~broken
  /\ \/ LinkerStep \/ Postprocess
     \/ MosqStep \/ ConnectionLost
     \/ \E u \in User : AddStep(u)
     \/ \E u \in User, d \in Topic : AddDownLink(u, d) \/ DelDownLink(u, d)

Spec == Init /\ [][Next]_vars

(* Every thread goes on.  The broker answers every pending connection, and  *)
(* the failures are bounded.                                                *)
FairSpec ==
  /\ Spec
  /\ WF_vars(~broken /\ LinkerStep)
  /\ WF_vars(~broken /\ MosqStep)
  /\ \A u \in User : WF_vars(~broken /\ AddStep(u))

-----------------------------------------------------------------------------
Adding(d) == \E u \in User : topic[u] = d /\ upc[u] \in {"test", "subscribe"}

(* Once OnConnectCB has run, every link of the map is subscribed, or about  *)
(* to be by the one that adds it: AddDownLink enters the link before it     *)
(* reads the flag, OnConnectCB sets the flag before it walks the map.       *)
AllSubscribed ==
  ~broken /\ broker_connected_ /\ looping /\ session = "up" /\ mpc = "loop" =>
    \A d \in down_link_map_ : d \in subs \/ Adding(d)

(* A linker that takes itself to be connected, and so will not connect, has *)
(* a session or one on its way; nobody else would bring it back.            *)
NoFalseUp ==
  broker_connected_ /\ mpc = "loop" /\ lpc \in {"process", "connect", "loopStart"} =>
    session # "none"

(* A linker that was connected when it ended is never connected again.      *)
EndsDown ==
  [][stopping /\ lpc = "ended" /\ ~looping =>
       ~looping' /\ ~broker_connected_']_vars

(* Failed connects, refusals and losses behind it, the linker is connected  *)
(* for good, unless it is stopped: no failure leaves the flag up without a  *)
(* session, or down without another attempt.                                *)
EventuallyUp ==
  <>[](\/ broken
       \/ stopping
       \/ broker_connected_ /\ session = "up")

(* A link that stays is subscribed in the session the linker then has.      *)
EventuallySubscribed ==
  \A d \in Topic :
    d \in down_link_map_ ~> \/ d \notin down_link_map_ \/ broken \/ stopping
                            \/ d \in subs /\ broker_connected_ /\ session = "up"

=============================================================================
