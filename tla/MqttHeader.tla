------------------------------ MODULE MqttHeader ------------------------------
(***************************************************************************)
(* The remaining length in the MQTT messages that the NB-IoT device builds *)
(* (lib/device_nbiotm.cpp), in the integers of the code: a uint8_t in the  *)
(* CONNECT, a uint16_t in the PUBLISH.  The field is of one or two bytes,  *)
(* seven bits each, the high bit set where another byte follows.           *)
(***************************************************************************)
EXTENDS Integers

(* The most that two bytes can say.                                         *)
Longest == 16383

(* What follows the length field: a header of 12 bytes and the client ID,   *)
(* or the topic and the payload, each name after two bytes of its length.   *)
ConnectRest(name)           == 12 + 2 + name
PublishRest(topic, payload) == topic + 2 + payload

(* remainLen *)
ConnectRemain(name)           == ConnectRest(name) % 256
PublishRemain(topic, payload) == PublishRest(topic, payload) % 65536

(* fixed_header, from its second byte.                                      *)
ConnectField(remain) ==
  IF remain <= 127 THEN <<remain>> ELSE <<128 + (remain % 128), remain \div 128>>

PublishField(remain) ==
  IF remain <= 127 THEN <<remain>> ELSE <<128 + (remain % 128), (remain \div 128) % 256>>

(* What a broker reads of the field: one or two bytes say how much follows; *)
(* a second byte with its high bit set goes on into what is not the field.  *)
Says(field, rest) ==
  \/ field = <<rest>> /\ rest \in 0..127
  \/ \E low, high \in 0..127 : field = <<128 + low, high>> /\ rest = low + 128 * high

=============================================================================
