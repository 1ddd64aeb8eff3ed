-------------------------------- MODULE MCPdu --------------------------------
(***************************************************************************)
(* Pdu with arrays of two to six bytes: names, situations, ports and       *)
(* elements from what leaves room in the datagram to what is cut off.      *)
(***************************************************************************)
EXTENDS Pdu

CONSTANTS MaxName, MaxSituation, MaxElements

\* n times one byte
Times(byte, n) == [i \in 1 .. n |-> byte]

MCSrvMac == <<83>>
MCReason == <<82, 82>>
MCTable == << [name |-> <<65, 65>>, mac |-> <<78>>], [name |-> <<65>>, mac |-> <<77>>],
              [name |-> <<65, 65>>, mac |-> <<77>>] >>
MCConfig ==
  [name : {Times(65, n) : n \in 1 .. MaxName}, mac : {<<77>>, <<78>>},
   situation : {Times(66, n) : n \in 0 .. MaxSituation},
   port : {Times(50, n) : n \in 1 .. PORT_LENGTH},
   elements : {Times(76, n) : n \in 0 .. MaxElements}]
MCRandomNum == {<<49, 48>>, <<49, 49>>}
MCUdpPort == {<<53, 51>>, <<53>>}
=============================================================================
