--------------------------------- MODULE Pdu ---------------------------------
(***************************************************************************)
(* The bytes of one subscription and of the HELLO that follow it: how the  *)
(* C server and the Python client lay a datagram out, read the other's,    *)
(* and what each of them then has.  The order of the datagrams is that of  *)
(* a session nothing disturbs; Server and Client model every other.        *)
(*                                                                         *)
(* A string is the sequence of its bytes, without the NUL that ends it in  *)
(* C.  Lengths are constants, so that a run can be small.  The ports keep  *)
(* their decimal digits: no port begins with 0, so printing what atoi      *)
(* returns gives the digits it read.                                       *)
(***************************************************************************)
EXTENDS Integers, Sequences

CONSTANTS
  MAC_ADDRESS_LENGTH, RANDOM_NUM_LENGTH, NAME_LENGTH, DATA_UDP_LENGTH,
  PORT_LENGTH,  \* arrays of characters, with room for the NUL
  Table,        \* the controllers: a sequence of records with name and mac
  Config,       \* what client.cfg can hold: name, mac, situation, port, elements
  SrvMac,       \* the address of the server
  RandomNum,    \* what generate_random_number can return
  UdpPort,      \* what assign_udp_port can return
  Fresh,        \* the bytes memory can hold that nobody has written
  Reason        \* the text of a rejection

Nul == 0
Comma == 44
Digit == 48 .. 57
Byte == 0 .. 255
Unset == 256   \* a byte of a new datagram before it is written

MAX_UDP_MESSAGE_SIZE == 1 + MAC_ADDRESS_LENGTH + RANDOM_NUM_LENGTH + DATA_UDP_LENGTH
MacAt == 1
RandomAt == MacAt + MAC_ADDRESS_LENGTH
DataAt == RandomAt + RANDOM_NUM_LENGTH
Cell == 0 .. MAX_UDP_MESSAGE_SIZE - 1

ASSUME LengthAssumption ==
  /\ {MAC_ADDRESS_LENGTH, RANDOM_NUM_LENGTH, NAME_LENGTH, PORT_LENGTH} \subseteq Nat \ {0, 1}
  /\ DATA_UDP_LENGTH \in Nat
  /\ DATA_UDP_LENGTH >= PORT_LENGTH /\ DATA_UDP_LENGTH >= NAME_LENGTH

\* Text that fits in an array of n characters, its NUL included.
Fits(s, n) == s \in Seq(Byte \ {Nul}) /\ Len(s) < n

\* fscanf matches a name of one character or more.  A name in client.cfg has
\* no comma, which no name in controllers.dat can have.
ASSUME TextAssumption ==
  /\ Table \in Seq([name : Seq(Byte) \ {<<>>}, mac : Seq(Byte)])
  /\ Config \subseteq [name : Seq(Byte \ {Nul, Comma}), mac : Seq(Byte),
                       situation : Seq(Byte \ {Nul}), port : Seq(Digit) \ {<<>>},
                       elements : Seq(Byte \ {Nul})]
  /\ \A c \in Config : Fits(c.mac, MAC_ADDRESS_LENGTH) /\ Len(c.port) <= PORT_LENGTH
  /\ Fresh \subseteq Byte
  /\ Fits(SrvMac, MAC_ADDRESS_LENGTH)
  /\ \A r \in RandomNum : Fits(r, RANDOM_NUM_LENGTH)
  /\ \A p \in UdpPort : Fits(p, PORT_LENGTH)
  /\ Reason \in Seq(Byte)

Zeros == [i \in 1 .. RANDOM_NUM_LENGTH - 1 |-> 48]

SUBS_REQ == 0
SUBS_ACK == 1
SUBS_REJ == 2
SUBS_INFO == 3
INFO_ACK == 4
HELLO == 16
HELLO_REJ == 17
Types == {0, 1, 2, 3, 4, 5, 16, 17}
ERROR_UDP == -1

VARIABLES
  point,   \* what happens next
  cfg,     \* what the client has read from its file
  wire,    \* the last datagram
  client,  \* the fields of the Client object
  entry,   \* the fields of the ControllerInfo
  echoed,  \* what check_hello_recived returned last
  claim    \* history: the random number in the client's last datagram

vars == <<point, cfg, wire, client, entry, echoed, claim>>

-----------------------------------------------------------------------------
(* Reading and writing bytes.                                              *)

\* The bytes of s before the first one that is in stop.
Until(s, stop) ==
  LET Clear(n) == \A i \in 1 .. n : s[i] \notin stop
  IN SubSeq(s, 1, CHOOSE n \in 0 .. Len(s) :
                    Clear(n) /\ (n < Len(s) => s[n + 1] \in stop))

Take(s, n) == SubSeq(s, 1, IF n < Len(s) THEN n ELSE Len(s))
From(s, n) == SubSeq(s, n, Len(s))

\* The string in n bytes of buffer b, from byte at on.
StringAt(b, at, n) == Until([i \in 1 .. n |-> b[at + i - 1]], {Nul})

read_from_buffer(buffer, initial, final) == StringAt(buffer, initial, final)

\* A NUL is stored after the bytes received; all datagrams have one size.
Received == [i \in Cell \cup {MAX_UDP_MESSAGE_SIZE} |-> IF i \in Cell THEN wire[i] ELSE Nul]

write_to_buffer(buffer, value, initial, final) ==
  [i \in DOMAIN buffer |->
     IF i \notin initial .. final - 1 THEN buffer[i]
     ELSE IF i - initial < Len(value) THEN value[i - initial + 1] ELSE Nul]

\* As if it began one byte later.
fill_empty_late(buffer, initial) ==
  [i \in DOMAIN buffer |-> IF i > initial THEN Nul ELSE buffer[i]]

fill_empty_to_buffer(buffer, initial) ==
  [i \in DOMAIN buffer |-> IF i >= initial THEN Nul ELSE buffer[i]]

encode_bytes(s, n) == [i \in 1 .. n |-> IF i <= Len(s) THEN s[i] ELSE Nul]

\* As if fin were read too, or the byte before it were not.
decode_bytes_more(ini, fin) == StringAt(wire, ini, fin - ini + 1)
decode_bytes_less(ini, fin) == StringAt(wire, ini, fin - ini - 1)

decode_bytes(ini, fin) == StringAt(wire, ini, fin - ini)

-----------------------------------------------------------------------------
(* Datagrams.                                                              *)

get_packet(type, mac, random, data) ==
  LET bytes == <<type>> \o encode_bytes(mac, MAC_ADDRESS_LENGTH)
                 \o encode_bytes(random, RANDOM_NUM_LENGTH)
                 \o encode_bytes(data, DATA_UDP_LENGTH)
  IN [i \in Cell |-> bytes[i + 1]]

Typed(type) == [i \in Cell |-> IF i = 0 THEN type ELSE Unset]

\* What the create_pdu functions share: type, address, random number, text and
\* the empty rest.  What does not fit is written past the datagram.
create_pdu(type, random, text, length) ==
  LET addressed == write_to_buffer(Typed(type), SrvMac, MacAt, MacAt + MAC_ADDRESS_LENGTH)
      numbered == write_to_buffer(addressed, random, RandomAt, RandomAt + RANDOM_NUM_LENGTH)
      said == write_to_buffer(numbered, text, DataAt, DataAt + length)
  IN fill_empty_to_buffer(said, DataAt + length)

\* snprintf of a port, for SUBS_ACK and INFO_ACK.
create_pdu_port(type, random, port) ==
  create_pdu(type, random, Take(port, PORT_LENGTH - 1), PORT_LENGTH)

create_pdu_subs_rej == create_pdu(SUBS_REJ, Zeros, Reason, Len(Reason))

create_pdu_hello_rej == fill_empty_to_buffer(Typed(HELLO_REJ), 1)

\* What strlen counts of data without a NUL goes beyond the datagram.
create_pdu_hello(random, data) == create_pdu(HELLO, random, data, Len(data))

Joined(a, b) == a \o <<Comma>> \o b
NameAndSituation == Joined(cfg.name, cfg.situation)
PortAndElements == Joined(cfg.port, cfg.elements)

-----------------------------------------------------------------------------
(* The server reads.                                                       *)

get_type_package == IF Received[0] \in Types THEN Received[0] ELSE ERROR_UDP

ReadMac == read_from_buffer(Received, MacAt, MAC_ADDRESS_LENGTH)
ReadRandom == read_from_buffer(Received, RandomAt, RANDOM_NUM_LENGTH)

\* As if the random number were not compared.
ValidMac == ReadMac = Table[entry.pos].mac

\* The check validate_sub_info and validate_hello share.
Valid == ReadMac = Table[entry.pos].mac /\ ReadRandom = entry.random_num

\* The name is looked for from here on; mac_to_check[13] = '\0' may have set
\* total_bytes to 0, and it is one byte too early then.
NameFrom == {DataAt, DataAt - 1}

\* The bytes before a ',', NULs too, but no more than fit.
RawName(at) == Until([i \in 1 .. NAME_LENGTH - 1 |-> Received[at + i - 1]], {Comma})

\* As if the ',' were not skipped.
SituationComma(at) ==
  LET from == at + Len(RawName(at))
  IN StringAt(Received, from, MAX_UDP_MESSAGE_SIZE + 1 - from)

Situation(at) ==
  LET from == at + Len(RawName(at)) + 1
  IN StringAt(Received, from, MAX_UDP_MESSAGE_SIZE + 1 - from)

Found(at, i) ==
  /\ ReadMac = Table[i].mac
  /\ Until(RawName(at), {Nul}) = Table[i].name

\* The index validate_sub_req returns, 0 for none.
validate_sub_req(at) ==
  IF \E i \in DOMAIN Table : Found(at, i)
  THEN CHOOSE i \in DOMAIN Table : Found(at, i) /\ \A j \in 1 .. i - 1 : ~Found(at, j)
  ELSE 0

InfoText == StringAt(Received, DataAt, DATA_UDP_LENGTH)

\* At most PORT_LENGTH bytes, up to a ','.
PortText == Take(Until(InfoText, {Comma}), PORT_LENGTH)

\* atoi stops at what is no digit; the rest of its array was never written.
InfoPort(fresh) == Until(PortText \o fresh, Byte \ Digit)

\* As if the ',' were kept.
InfoElementsComma(fresh) == From(InfoText, Len(PortText) + 1)

\* The ',' goes before the array, but counts for the place of the NUL: one byte
\* is left unwritten.
InfoElements(fresh) ==
  IF PortText = InfoText THEN <<>>
  ELSE From(InfoText, Len(PortText) + 2) \o Until(<<fresh>>, {Nul})

-----------------------------------------------------------------------------
Init ==
  /\ point = "request"
  /\ cfg \in Config
  /\ wire = [i \in Cell |-> Nul]
  /\ client = [random_num |-> Zeros, mac |-> <<>>, udp |-> <<>>, tcp |-> <<>>]
  /\ entry = [pos |-> 0, situation |-> <<>>, random_num |-> Zeros, udp_port |-> <<>>,
              tcp_port |-> <<>>, elements_data |-> <<>>, data_hello |-> <<>>]
  /\ echoed = TRUE
  /\ claim = Zeros

Step(from, to) == point = from /\ point' = to /\ UNCHANGED cfg

\* The client sends a datagram.
Send(type, random, data) ==
  /\ wire' = get_packet(type, cfg.mac, random, data)
  /\ claim' = random

SendReq ==
  /\ Step("request", "asked")
  /\ Send(SUBS_REQ, client.random_num, NameAndSituation)
  /\ UNCHANGED <<client, entry, echoed>>

\* The server finds the controller, and offers it a session.
SubsAck ==
  /\ Step("asked", "offered")
  /\ get_type_package = SUBS_REQ
  /\ \E at \in NameFrom, random \in RandomNum, port \in UdpPort :
       /\ validate_sub_req(at) # 0
       /\ entry' = [entry EXCEPT !.pos = validate_sub_req(at), !.situation = Situation(at),
                                 !.random_num = random, !.udp_port = port]
       /\ wire' = create_pdu_port(SUBS_ACK, random, port)
  /\ UNCHANGED <<client, echoed, claim>>

SubsRej ==
  /\ Step("asked", "refused")
  /\ get_type_package = SUBS_REQ
  /\ \E at \in NameFrom : validate_sub_req(at) = 0
  /\ wire' = create_pdu_subs_rej
  /\ UNCHANGED <<client, entry, echoed, claim>>

\* The client has read a SUBS_REJ or HELLO_REJ, and starts again.
ReadRej ==
  /\ Step("refused", "request")
  /\ client' = [client EXCEPT !.random_num = Zeros]
  /\ UNCHANGED <<wire, entry, echoed, claim>>

SendInfo ==
  /\ Step("offered", "informed")
  /\ client' = [client EXCEPT !.random_num = decode_bytes(RandomAt, DataAt - 1),
                              !.mac = decode_bytes(MacAt, RandomAt - 1),
                              !.udp = decode_bytes(DataAt, MAX_UDP_MESSAGE_SIZE - 1)]
  /\ Send(SUBS_INFO, client'.random_num, PortAndElements)
  /\ UNCHANGED <<entry, echoed>>

\* A datagram of an earlier session comes instead.
Late ==
  /\ \/ point = "informed" /\ \E random \in RandomNum : Send(SUBS_INFO, random, PortAndElements)
     \/ point = "greeted" /\ \E random \in RandomNum : Send(HELLO, random, NameAndSituation)
  /\ UNCHANGED <<point, cfg, client, entry, echoed>>

InfoAck ==
  /\ Step("informed", "acknowledged")
  /\ get_type_package = SUBS_INFO
  /\ Valid
  /\ \E fresh \in [1 .. PORT_LENGTH - Len(PortText) -> Fresh], byte \in Fresh :
       entry' = [entry EXCEPT !.tcp_port = InfoPort(fresh),
                              !.elements_data = InfoElements(byte)]
  /\ wire' = create_pdu_port(INFO_ACK, entry.random_num, entry'.tcp_port)
  /\ UNCHANGED <<client, echoed, claim>>

InfoRej ==
  /\ Step("informed", "refused")
  /\ get_type_package = SUBS_INFO
  /\ ~Valid
  /\ entry' = [entry EXCEPT !.random_num = Zeros]
  /\ wire' = create_pdu_subs_rej
  /\ UNCHANGED <<client, echoed, claim>>

\* check_info_ack_data
CheckInfoAck ==
  /\ decode_bytes(RandomAt, DataAt - 1) = client.random_num
  /\ decode_bytes(MacAt, RandomAt - 1) = client.mac

ReadInfoAck ==
  /\ Step("acknowledged", "hello")
  /\ CheckInfoAck
  /\ client' = [client EXCEPT !.tcp = decode_bytes(DataAt, MAX_UDP_MESSAGE_SIZE - 1)]
  /\ UNCHANGED <<wire, entry, echoed, claim>>

SendHello ==
  /\ Step("hello", "greeted")
  /\ Send(HELLO, client.random_num, NameAndSituation)
  /\ UNCHANGED <<client, entry, echoed>>

\* strncpy leaves data of DATA_UDP_LENGTH bytes without a NUL.
HelloBack ==
  /\ Step("greeted", "echo")
  /\ get_type_package = HELLO
  /\ Valid
  /\ entry' = [entry EXCEPT
                 !.data_hello = read_from_buffer(Received, DataAt, DATA_UDP_LENGTH)]
  /\ wire' = create_pdu_hello(entry.random_num, entry'.data_hello)
  /\ UNCHANGED <<client, echoed, claim>>

HelloRej ==
  /\ Step("greeted", "refused")
  /\ get_type_package = HELLO
  /\ ~Valid
  /\ entry' = [entry EXCEPT !.random_num = Zeros]
  /\ wire' = create_pdu_hello_rej
  /\ UNCHANGED <<client, echoed, claim>>

\* check_hello_recived compares with the data the client has, not with what of
\* them fitted in its datagram.
ReadHello ==
  /\ point = "echo"
  /\ echoed' = /\ decode_bytes(MacAt, RandomAt - 1) = client.mac
               /\ decode_bytes(RandomAt, DataAt - 1) = client.random_num
               /\ decode_bytes(DataAt, MAX_UDP_MESSAGE_SIZE - 1) = NameAndSituation
  /\ point' = IF echoed' THEN "hello" ELSE "differs"
  /\ UNCHANGED <<cfg, wire, client, entry, claim>>

\* The client's HELLO_REJ bears the server's address.
SendRej ==
  /\ Step("differs", "disowned")
  /\ wire' = get_packet(HELLO_REJ, client.mac, client.random_num, Reason)
  /\ UNCHANGED <<client, entry, echoed, claim>>

\* Both sides disconnect, whatever else HELLO_REJ says.
TakeRej ==
  /\ Step("disowned", "request")
  /\ get_type_package = HELLO_REJ
  /\ entry' = [entry EXCEPT !.random_num = Zeros]
  /\ client' = [client EXCEPT !.random_num = Zeros]
  /\ UNCHANGED <<wire, echoed, claim>>

Next ==
  \/ SendReq \/ SubsAck \/ SubsRej \/ ReadRej
  \/ SendInfo \/ Late \/ InfoAck \/ InfoRej \/ ReadInfoAck
  \/ SendHello \/ HelloBack \/ HelloRej \/ ReadHello \/ SendRej \/ TakeRej

Spec == Init /\ [][Next]_vars

-----------------------------------------------------------------------------
\* Every byte of a datagram has been written: the malloc of create_pdu_* is
\* covered by its parts, from the type to fill_empty_to_buffer.
TypeOK ==
  /\ cfg \in Config
  /\ wire \in [Cell -> Byte]
  /\ entry.pos \in {0} \cup DOMAIN Table
  /\ Len(entry.data_hello) <= DATA_UDP_LENGTH
  /\ Len(entry.elements_data) < DATA_UDP_LENGTH
  /\ Len(entry.situation) < DATA_UDP_LENGTH
  /\ echoed \in BOOLEAN

\* The server accepts SUBS_INFO and HELLO exactly when they carry the random
\* number of its SUBS_ACK, which client and server cut out of the datagrams at
\* offsets and lengths that differ by one (class_manager.py:165, util:284).
AcceptsOffer ==
  point \in {"informed", "greeted"} => (Valid <=> claim = entry.random_num)

\* In a session the client has what the server's table has, and INFO_ACK never
\* fails its check.
Agreed ==
  /\ point \in {"informed", "acknowledged", "hello", "greeted", "echo"} =>
       /\ client.random_num = entry.random_num
       /\ client.mac = SrvMac
       /\ client.udp = entry.udp_port
  /\ point = "acknowledged" => CheckInfoAck

\* Whatever the write past mac_to_check does to the offset (util:361), the
\* controller found is the sender, its name cut to what the table can hold, and
\* if nothing was cut its situation is the sender's, as far as it was sent.
FoundIsSender ==
  entry.pos # 0 =>
    /\ Table[entry.pos].mac = cfg.mac
    /\ Table[entry.pos].name = Take(cfg.name, NAME_LENGTH - 1)
    /\ Len(cfg.name) < NAME_LENGTH =>
         Joined(cfg.name, entry.situation) = Take(NameAndSituation, DATA_UDP_LENGTH)

\* validate_sub_info reads bytes it never wrote.  Whatever they hold, the port it
\* stores begins with the digits of the client's, and more of them can follow
\* only as long as there are PORT_LENGTH at most: a port that fills the array is
\* stored as it is, and one of a digit less comes back right in INFO_ACK.  The
\* elements are those the client sent, and at most one byte more.
InfoKept ==
  point \in {"acknowledged", "hello", "greeted", "echo"} =>
    LET elements == From(Take(PortAndElements, DATA_UDP_LENGTH), Len(cfg.port) + 2)
    IN /\ Take(entry.tcp_port, Len(cfg.port)) = cfg.port
       /\ Len(entry.tcp_port) <= PORT_LENGTH
       /\ Take(entry.elements_data, Len(elements)) = elements
       /\ Len(entry.elements_data) <= Len(elements) + 1
       /\ point # "acknowledged" /\ Len(cfg.port) = PORT_LENGTH - 1 => client.tcp = cfg.port

\* The client takes the server's HELLO for the echo of its own, as long as its
\* name and situation leave the last byte of the data free: decode_bytes stops
\* one byte before the end, and with more data every session ends at its first
\* HELLO.
EchoBoundary ==
  point \in {"hello", "differs"} /\ entry.data_hello # <<>> =>
    (echoed <=> Len(NameAndSituation) < DATA_UDP_LENGTH)
=============================================================================
