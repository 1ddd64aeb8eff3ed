------------------------------ MODULE PduProofs ------------------------------
(***************************************************************************)
(* The offsets of the two sides agree, whatever the lengths of the fields: *)
(* Pdu keeps AcceptsOffer and Agreed for every table, configuration,       *)
(* random number and port that fit in their arrays (TextAssumption).       *)
(***************************************************************************)
EXTENDS Pdu, SequenceTheorems, WellFoundedInduction, TLAPS

-----------------------------------------------------------------------------
(* Strings in buffers.                                                     *)

\* A set of numbers has a least one.
LEMMA Least ==
  ASSUME NEW T \in SUBSET Nat, T # {}
  PROVE  \E x \in T : \A y \in T : x <= y
<1> DEFINE R == OpToRel(<, Nat)
<1>1. IsWellFoundedOn(R, Nat)
  BY NatLessThanWellFounded
<1>2. \A x, y \in Nat : y < x => <<y, x>> \in R
  BY DEF OpToRel
<1> HIDE DEF R
<1>3. PICK x \in T : \A y \in T : ~(<<y, x>> \in R)
  BY <1>1, WFMin
<1>4. \A y \in T : ~(y < x)
  BY <1>2, <1>3, Zenon
<1>5. \A y \in T : x <= y
  BY <1>4
<1> QED
  BY <1>5

\* The first n of s are clear, and if there are more the next is in stop.
StopsAt(s, stop, n) ==
  /\ n \in 0 .. Len(s)
  /\ \A i \in 1 .. n : s[i] \notin stop
  /\ n < Len(s) => s[n + 1] \in stop

\* There is such a place in every sequence.
LEMMA Stops ==
  ASSUME NEW S, NEW s \in Seq(S), NEW stop
  PROVE  \E n : StopsAt(s, stop, n)
<1> DEFINE T == {i \in 1 .. Len(s) : s[i] \in stop}
<1>1. CASE T = {}
  <2>1. StopsAt(s, stop, Len(s))
    BY <1>1 DEF StopsAt
  <2> QED
    BY <2>1
<1>2. CASE T # {}
  <2>1. T \in SUBSET Nat
    OBVIOUS
  <2>2. PICK x \in T : \A y \in T : x <= y
    BY <1>2, <2>1, Least
  <2>3. \A i \in 1 .. x - 1 : i \notin T
    BY <2>2
  <2>4. StopsAt(s, stop, x - 1)
    BY <2>2, <2>3 DEF StopsAt
  <2> QED
    BY <2>4
<1> QED
  BY <1>1, <1>2

\* Until cuts a sequence at the place where it stops.
LEMMA UntilIs ==
  ASSUME NEW s, Len(s) \in Nat, NEW stop, NEW n, StopsAt(s, stop, n)
  PROVE  Until(s, stop) = SubSeq(s, 1, n)
<1> DEFINE P(k) == /\ \A i \in 1 .. k : s[i] \notin stop
                   /\ k < Len(s) => s[k + 1] \in stop
<1>1. n \in 0 .. Len(s) /\ P(n)
  BY DEF StopsAt
<1>2. ASSUME NEW k \in 0 .. Len(s), P(k)
      PROVE  k = n
  <2>1. ~(k < n)
    BY <1>1, <1>2
  <2>2. ~(n < k)
    BY <1>1, <1>2
  <2> QED
    BY <1>1, <2>1, <2>2
<1>3. Until(s, stop) = SubSeq(s, 1, CHOOSE k \in 0 .. Len(s) : P(k))
  BY DEF Until
<1> HIDE DEF P
<1>4. (CHOOSE k \in 0 .. Len(s) : P(k)) = n
  BY <1>1, <1>2
<1> QED
  BY <1>3, <1>4

\* A function on 1 .. n is a sequence of length n.
LEMMA Sequence ==
  ASSUME NEW S, NEW n \in Nat, NEW w \in [1 .. n -> S]
  PROVE  w \in Seq(S) /\ Len(w) = n
  OBVIOUS

\* The n bytes of b from at on, which StringAt looks at.
Bytes(b, at, n) == [i \in 1 .. n |-> b[at + i - 1]]

LEMMA BytesAre ==
  ASSUME NEW b, NEW at \in Int, NEW n \in Nat
  PROVE  /\ \E S : Bytes(b, at, n) \in Seq(S)
         /\ Len(Bytes(b, at, n)) = n
         /\ \A i \in 1 .. n : Bytes(b, at, n)[i] = b[at + i - 1]
         /\ StringAt(b, at, n) = Until(Bytes(b, at, n), {Nul})
<1> DEFINE S == {b[at + i - 1] : i \in 1 .. n}
<1>1. \A i \in 1 .. n : b[at + i - 1] \in S
  OBVIOUS
<1> HIDE DEF S
<1>2. Bytes(b, at, n) \in [1 .. n -> S]
  BY <1>1 DEF Bytes
<1>3. Bytes(b, at, n) \in Seq(S) /\ Len(Bytes(b, at, n)) = n
  BY <1>2, Sequence
<1> QED
  BY <1>3 DEF Bytes, StringAt

\* A string has a length.
LEMMA StringLength ==
  ASSUME NEW b, NEW at \in Int, NEW n \in Nat
  PROVE  Len(StringAt(b, at, n)) \in Nat
<1>1. PICK S : Bytes(b, at, n) \in Seq(S)
  BY BytesAre
<1>2. Len(Bytes(b, at, n)) = n /\ StringAt(b, at, n) = Until(Bytes(b, at, n), {Nul})
  BY BytesAre
<1>3. PICK k : StopsAt(Bytes(b, at, n), {Nul}, k)
  BY <1>1, Stops
<1>4. StringAt(b, at, n) = SubSeq(Bytes(b, at, n), 1, k)
  BY <1>2, <1>3, UntilIs
<1>5. k \in 0 .. n /\ \A i \in 1 .. k : Bytes(b, at, n)[i] \in S
  BY <1>1, <1>2, <1>3, ElementOfSeq DEF StopsAt
<1> QED
  BY <1>4, <1>5, SubSeqProperties

\* Buffer b holds the string s in the n bytes from at on, NULs after it.
Field(b, at, n, s) ==
  \A i \in 1 .. n : b[at + i - 1] = IF i <= Len(s) THEN s[i] ELSE Nul

\* What was written is what is read, up to the end of the field.
LEMMA FieldText ==
  ASSUME NEW b, NEW at \in Int, NEW n \in Nat, NEW k \in 0 .. n,
         NEW s \in Seq(Byte \ {Nul}), Field(b, at, n, s)
  PROVE  StringAt(b, at, k) = Take(s, k)
<1> DEFINE w == Bytes(b, at, k)
           m == IF k < Len(s) THEN k ELSE Len(s)
<1> k \in Nat
  OBVIOUS
<1>1. PICK S : w \in Seq(S)
  BY BytesAre
<1>2. Len(w) = k /\ StringAt(b, at, k) = Until(w, {Nul})
  BY BytesAre
<1>3. \A i \in 1 .. k : w[i] = IF i <= Len(s) THEN s[i] ELSE Nul
  BY BytesAre DEF Field
<1> HIDE DEF w
<1>4. Len(s) \in Nat /\ m \in 0 .. k /\ m \in 0 .. Len(s)
  BY LenProperties
<1>5. \A i \in 1 .. m : w[i] = s[i] /\ s[i] \in Byte \ {Nul}
  BY <1>3, <1>4, ElementOfSeq
<1>6. StopsAt(w, {Nul}, m)
  BY <1>2, <1>3, <1>4, <1>5 DEF StopsAt
<1>7. StringAt(b, at, k) = SubSeq(w, 1, m)
  BY <1>2, <1>6, UntilIs
<1> HIDE DEF m
<1>8. /\ SubSeq(w, 1, m) \in Seq(Byte \ {Nul})
      /\ Len(SubSeq(w, 1, m)) = m
      /\ \A i \in 1 .. m : SubSeq(w, 1, m)[i] = s[i]
  BY <1>4, <1>5, SubSeqProperties
<1>9. /\ SubSeq(s, 1, m) \in Seq(Byte \ {Nul})
      /\ Len(SubSeq(s, 1, m)) = m
      /\ \A i \in 1 .. m : SubSeq(s, 1, m)[i] = s[i]
  BY <1>4, <1>5, SubSeqProperties
<1>10. SubSeq(w, 1, m) = SubSeq(s, 1, m)
  BY <1>8, <1>9, SeqEqual
<1> QED
  BY <1>7, <1>10 DEF m, Take

\* What fits is read whole, by those who read one byte less, too.
LEMMA FieldString ==
  ASSUME NEW b, NEW at \in Int, NEW n \in Nat, NEW k \in 0 .. n, NEW s,
         Field(b, at, n, s), Fits(s, k + 1)
  PROVE  StringAt(b, at, k) = s
<1>1. s \in Seq(Byte \ {Nul}) /\ Len(s) \in 0 .. k
  BY LenProperties DEF Fits
<1>2. StringAt(b, at, k) = Take(s, k)
  BY <1>1, FieldText
<1>3. Take(s, k) = SubSeq(s, 1, Len(s))
  BY <1>1 DEF Take
<1> QED
  BY <1>1, <1>2, <1>3, SubSeqFull

LEMMA FitsMore ==
  ASSUME NEW s, NEW m \in Int, NEW n \in Int, Fits(s, m), m <= n
  PROVE  Fits(s, n)
  BY LenProperties DEF Fits

-----------------------------------------------------------------------------
(* Datagrams.                                                              *)

\* Datagram d bears this address and this random number.
Bears(d, mac, random) ==
  /\ Field(d, MacAt, MAC_ADDRESS_LENGTH, mac)
  /\ Field(d, RandomAt, RANDOM_NUM_LENGTH, random)

\* The lengths and offsets are numbers, in this order.
LEMMA Offsets ==
  /\ MAC_ADDRESS_LENGTH \in Nat /\ RANDOM_NUM_LENGTH \in Nat /\ PORT_LENGTH \in Nat
  /\ DATA_UDP_LENGTH \in Nat /\ PORT_LENGTH <= DATA_UDP_LENGTH
  /\ MAC_ADDRESS_LENGTH > 1 /\ RANDOM_NUM_LENGTH > 1 /\ PORT_LENGTH > 1
  /\ MacAt = 1 /\ RandomAt = 1 + MAC_ADDRESS_LENGTH
  /\ DataAt = 1 + MAC_ADDRESS_LENGTH + RANDOM_NUM_LENGTH
  /\ MAX_UDP_MESSAGE_SIZE = 1 + MAC_ADDRESS_LENGTH + RANDOM_NUM_LENGTH + DATA_UDP_LENGTH
  /\ Cell = 0 .. MAX_UDP_MESSAGE_SIZE - 1
  BY LengthAssumption DEF MacAt, RandomAt, DataAt, MAX_UDP_MESSAGE_SIZE, Cell

\* encode_bytes makes n bytes.
LEMMA Encoded ==
  ASSUME NEW s, NEW n \in Nat
  PROVE  /\ \E S : encode_bytes(s, n) \in Seq(S)
         /\ Len(encode_bytes(s, n)) = n
         /\ \A i \in 1 .. n : encode_bytes(s, n)[i] = IF i <= Len(s) THEN s[i] ELSE Nul
<1> DEFINE e(i) == IF i <= Len(s) THEN s[i] ELSE Nul
           S == {e(i) : i \in 1 .. n}
<1>1. \A i \in 1 .. n : e(i) \in S
  OBVIOUS
<1>2. encode_bytes(s, n) = [i \in 1 .. n |-> e(i)]
  BY DEF encode_bytes
<1> HIDE DEF S, e
<1>3. encode_bytes(s, n) \in [1 .. n -> S]
  BY <1>1, <1>2
<1>4. encode_bytes(s, n) \in Seq(S) /\ Len(encode_bytes(s, n)) = n
  BY <1>3, Sequence
<1> QED
  BY <1>4, <1>2 DEF e

\* What the client packs is at these places.
LEMMA Packed ==
  ASSUME NEW type, NEW mac, NEW random, NEW data
  PROVE  /\ Bears(get_packet(type, mac, random, data), mac, random)
         /\ Field(get_packet(type, mac, random, data), DataAt, DATA_UDP_LENGTH, data)
         /\ get_packet(type, mac, random, data)[0] = type
<1> DEFINE packet == get_packet(type, mac, random, data)
<1>1. PICK a, b, c, d : /\ a = <<type>>
                        /\ b = encode_bytes(mac, MAC_ADDRESS_LENGTH)
                        /\ c = encode_bytes(random, RANDOM_NUM_LENGTH)
                        /\ d = encode_bytes(data, DATA_UDP_LENGTH)
  OBVIOUS
<1>2. \A i \in Cell : packet[i] = (a \o b \o c \o d)[i + 1]
  BY <1>1 DEF get_packet
<1>3. /\ Len(b) = MAC_ADDRESS_LENGTH
      /\ \A i \in 1 .. MAC_ADDRESS_LENGTH : b[i] = IF i <= Len(mac) THEN mac[i] ELSE Nul
      /\ Len(c) = RANDOM_NUM_LENGTH
      /\ \A i \in 1 .. RANDOM_NUM_LENGTH : c[i] = IF i <= Len(random) THEN random[i] ELSE Nul
      /\ Len(d) = DATA_UDP_LENGTH
      /\ \A i \in 1 .. DATA_UDP_LENGTH : d[i] = IF i <= Len(data) THEN data[i] ELSE Nul
  BY <1>1, Offsets, Encoded
<1>4. PICK B : b \in Seq(B)
  BY <1>1, Offsets, Encoded
<1>5. PICK R : c \in Seq(R)
  BY <1>1, Offsets, Encoded
<1>6. PICK D : d \in Seq(D)
  BY <1>1, Offsets, Encoded
<1>7. PICK S : S = {type} \cup B \cup R \cup D
  OBVIOUS
<1>8. a \in Seq(S) /\ Len(a) = 1 /\ a[1] = type
  BY <1>1, <1>7
<1>9. b \in Seq(S) /\ c \in Seq(S) /\ d \in Seq(S)
  BY <1>4, <1>5, <1>6, <1>7, SeqMonotonic
<1>10. PICK m \in Nat, n \in Nat, k \in Nat :
         /\ m = Len(a) /\ n = Len(b) /\ k = Len(c)
         /\ m = 1 /\ n = MAC_ADDRESS_LENGTH /\ k = RANDOM_NUM_LENGTH
  BY <1>3, <1>8, Offsets
<1>11. PICK all : all = a \o b \o c \o d
  OBVIOUS
<1>12. \A i \in 1 .. m + n + k + Len(d) :
         all[i] = IF i <= m THEN a[i]
                  ELSE IF i <= m + n THEN b[i - m]
                  ELSE IF i <= m + n + k THEN c[i - m - n] ELSE d[i - m - n - k]
  <2>1. PICK ab, abc : ab = a \o b /\ abc = ab \o c /\ all = abc \o d
    BY <1>11
  <2>2. /\ ab \in Seq(S) /\ Len(ab) = m + n
        /\ \A i \in 1 .. m + n : ab[i] = IF i <= m THEN a[i] ELSE b[i - m]
    <3>1. a \in Seq(S) /\ b \in Seq(S)
      BY <1>8, <1>9
    <3>2. /\ ab \in Seq(S) /\ Len(ab) = Len(a) + Len(b)
          /\ \A i \in 1 .. Len(a) + Len(b) : ab[i] = IF i <= Len(a) THEN a[i] ELSE b[i - Len(a)]
      BY <2>1, <3>1, ConcatProperties
    <3> QED
      BY <1>10, <3>2
  <2>3. /\ abc \in Seq(S) /\ Len(abc) = (m + n) + k
        /\ \A i \in 1 .. (m + n) + k : abc[i] = IF i <= m + n THEN ab[i] ELSE c[i - (m + n)]
    <3>1. ab \in Seq(S) /\ c \in Seq(S)
      BY <1>9, <2>2
    <3>2. /\ abc \in Seq(S) /\ Len(abc) = Len(ab) + Len(c)
          /\ \A i \in 1 .. Len(ab) + Len(c) :
               abc[i] = IF i <= Len(ab) THEN ab[i] ELSE c[i - Len(ab)]
      BY <2>1, <3>1, ConcatProperties
    <3> QED
      BY <1>10, <2>2, <3>2
  <2>4. \A i \in 1 .. (m + n + k) + Len(d) :
          all[i] = IF i <= m + n + k THEN abc[i] ELSE d[i - (m + n + k)]
    <3>1. abc \in Seq(S) /\ d \in Seq(S)
      BY <1>9, <2>3
    <3>2. \A i \in 1 .. Len(abc) + Len(d) :
            all[i] = IF i <= Len(abc) THEN abc[i] ELSE d[i - Len(abc)]
      BY <2>1, <3>1, ConcatProperties
    <3> QED
      BY <2>3, <3>2
  <2> SUFFICES ASSUME NEW i \in 1 .. m + n + k + Len(d)
               PROVE  all[i] = IF i <= m THEN a[i]
                               ELSE IF i <= m + n THEN b[i - m]
                               ELSE IF i <= m + n + k THEN c[i - m - n] ELSE d[i - m - n - k]
    OBVIOUS
  <2>5. i \in Int /\ Len(d) \in Nat /\ i >= 1
    BY <1>9, LenProperties
  <2>6. CASE i <= m + n + k
    <3>1. all[i] = abc[i]
      BY <2>4, <2>5, <2>6
    <3>2. abc[i] = IF i <= m + n THEN ab[i] ELSE c[i - (m + n)]
      BY <2>3, <2>5, <2>6
    <3>3. i <= m + n => ab[i] = IF i <= m THEN a[i] ELSE b[i - m]
      BY <2>2, <2>5
    <3>4. i - (m + n) = i - m - n
      BY <2>5
    <3> QED
      BY <2>5, <2>6, <3>1, <3>2, <3>3, <3>4
  <2>7. CASE ~(i <= m + n + k)
    <3>1. all[i] = d[i - (m + n + k)]
      BY <2>4, <2>5, <2>7
    <3>2. i - (m + n + k) = i - m - n - k /\ ~(i <= m + n) /\ ~(i <= m)
      BY <2>5, <2>7
    <3> QED
      BY <2>7, <3>1, <3>2
  <2> QED
    BY <2>6, <2>7
<1> HIDE DEF packet
<1>13. Field(packet, MacAt, MAC_ADDRESS_LENGTH, mac)
  <2> SUFFICES ASSUME NEW i \in 1 .. MAC_ADDRESS_LENGTH
               PROVE  packet[MacAt + i - 1] = IF i <= Len(mac) THEN mac[i] ELSE Nul
    BY DEF Field
  <2>1. PICK j : j = m + i
    OBVIOUS
  <2>2. /\ MacAt + i - 1 \in Cell /\ (MacAt + i - 1) + 1 = j
        /\ j \in 1 .. m + n + k + Len(d) /\ ~(j <= m) /\ j <= m + n /\ j - m = i
    BY <1>3, <1>10, <2>1, Offsets
  <2>3. packet[MacAt + i - 1] = all[j]
    BY <1>2, <1>11, <2>2
  <2>4. all[j] = b[i]
    BY <1>12, <2>2
  <2> QED
    BY <1>3, <2>3, <2>4
<1>14. Field(packet, RandomAt, RANDOM_NUM_LENGTH, random)
  <2> SUFFICES ASSUME NEW i \in 1 .. RANDOM_NUM_LENGTH
               PROVE  packet[RandomAt + i - 1] = IF i <= Len(random) THEN random[i] ELSE Nul
    BY DEF Field
  <2>1. PICK j : j = m + n + i
    OBVIOUS
  <2>2. /\ RandomAt + i - 1 \in Cell /\ (RandomAt + i - 1) + 1 = j
        /\ j \in 1 .. m + n + k + Len(d) /\ ~(j <= m) /\ ~(j <= m + n) /\ j <= m + n + k
        /\ j - m - n = i
    BY <1>3, <1>10, <2>1, Offsets
  <2>3. packet[RandomAt + i - 1] = all[j]
    BY <1>2, <1>11, <2>2
  <2>4. all[j] = c[i]
    BY <1>12, <2>2
  <2> QED
    BY <1>3, <2>3, <2>4
<1>15. Field(packet, DataAt, DATA_UDP_LENGTH, data)
  <2> SUFFICES ASSUME NEW i \in 1 .. DATA_UDP_LENGTH
               PROVE  packet[DataAt + i - 1] = IF i <= Len(data) THEN data[i] ELSE Nul
    BY DEF Field
  <2>1. PICK j : j = m + n + k + i
    OBVIOUS
  <2>2. /\ DataAt + i - 1 \in Cell /\ (DataAt + i - 1) + 1 = j
        /\ j \in 1 .. m + n + k + Len(d)
        /\ ~(j <= m) /\ ~(j <= m + n) /\ ~(j <= m + n + k) /\ j - m - n - k = i
    BY <1>3, <1>10, <2>1, Offsets
  <2>3. packet[DataAt + i - 1] = all[j]
    BY <1>2, <1>11, <2>2
  <2>4. all[j] = d[i]
    BY <1>12, <2>2
  <2> QED
    BY <1>3, <2>3, <2>4
<1>16. packet[0] = type
  <2>1. 0 \in Cell /\ 0 + 1 = 1 /\ 1 \in 1 .. m + n + k + Len(d) /\ 1 <= m
    BY <1>3, <1>10, Offsets
  <2>2. packet[0] = all[1] /\ all[1] = a[1]
    BY <1>2, <1>11, <1>12, <2>1
  <2> QED
    BY <1>8, <2>2
<1> QED
  BY <1>13, <1>14, <1>15, <1>16 DEF Bears, packet

\* write_to_buffer fills the bytes between its offsets, and leaves the others.
LEMMA Written ==
  ASSUME NEW b, NEW s, NEW at \in Int, NEW end \in Int, NEW C, C = DOMAIN b,
         at .. end - 1 \subseteq C, NEW w, w = write_to_buffer(b, s, at, end)
  PROVE  /\ DOMAIN w = C
         /\ \A i \in C : i \notin at .. end - 1 => w[i] = b[i]
         /\ \A n \in Nat : end = at + n /\ Len(s) \in Nat => Field(w, at, n, s)
<1>1. /\ DOMAIN w = C
      /\ \A i \in C : w[i] = IF i \notin at .. end - 1 THEN b[i]
                             ELSE IF i - at < Len(s) THEN s[i - at + 1] ELSE Nul
  BY DEF write_to_buffer
<1>2. ASSUME NEW n \in Nat, end = at + n, NEW i \in 1 .. n, Len(s) \in Nat
      PROVE  w[at + i - 1] = IF i <= Len(s) THEN s[i] ELSE Nul
  <2>1. PICK k \in Int : k = at + i - 1
    OBVIOUS
  <2>2. /\ k \in at .. end - 1 /\ k - at + 1 = i
        /\ k - at < Len(s) <=> i <= Len(s)
    BY <1>2, <2>1
  <2>3. k \in C
    BY <2>2
  <2>4. w[k] = IF k - at < Len(s) THEN s[k - at + 1] ELSE Nul
    BY <1>1, <2>2, <2>3
  <2> QED
    BY <2>1, <2>2, <2>4
<1> QED
  BY <1>1, <1>2 DEF Field

\* Where a field lies within buffer b it lies within buffer d.
LEMMA FieldKept ==
  ASSUME NEW b, NEW d, NEW at \in Int, NEW n \in Nat, NEW s, Field(b, at, n, s),
         \A i \in at .. at + n - 1 : d[i] = b[i]
  PROVE  Field(d, at, n, s)
<1> SUFFICES ASSUME NEW i \in 1 .. n
             PROVE  d[at + i - 1] = b[at + i - 1]
  BY DEF Field
<1>1. at + i - 1 \in at .. at + n - 1
  OBVIOUS
<1> QED
  BY <1>1

\* What the server puts together is at these places, and nothing after it.
LEMMA Created ==
  ASSUME NEW type, NEW random, NEW text, NEW length \in Nat, length <= DATA_UDP_LENGTH,
         Len(random) \in Nat
  PROVE  /\ Bears(create_pdu(type, random, text, length), SrvMac, random)
         /\ Len(text) \in Nat => Field(create_pdu(type, random, text, length), DataAt, length, text)
         /\ \A i \in Cell : i >= DataAt + length => create_pdu(type, random, text, length)[i] = Nul
<1>1. PICK typed, addressed, numbered, said, d :
        /\ typed = Typed(type)
        /\ addressed = write_to_buffer(typed, SrvMac, MacAt, MacAt + MAC_ADDRESS_LENGTH)
        /\ numbered = write_to_buffer(addressed, random, RandomAt, RandomAt + RANDOM_NUM_LENGTH)
        /\ said = write_to_buffer(numbered, text, DataAt, DataAt + length)
        /\ d = fill_empty_to_buffer(said, DataAt + length)
  OBVIOUS
<1>2. create_pdu(type, random, text, length) = d
  BY <1>1 DEF create_pdu
<1>3. /\ MacAt .. (MacAt + MAC_ADDRESS_LENGTH) - 1 \subseteq Cell
      /\ RandomAt .. (RandomAt + RANDOM_NUM_LENGTH) - 1 \subseteq Cell
      /\ DataAt .. (DataAt + length) - 1 \subseteq Cell
      /\ MacAt \in Int /\ RandomAt \in Int /\ DataAt \in Int
      /\ MacAt + MAC_ADDRESS_LENGTH \in Int /\ RandomAt + RANDOM_NUM_LENGTH \in Int
      /\ DataAt + length \in Int
      /\ MAC_ADDRESS_LENGTH \in Nat /\ RANDOM_NUM_LENGTH \in Nat
  BY Offsets
<1>4. Len(SrvMac) \in Nat
  BY TextAssumption, LenProperties DEF Fits
<1>5. DOMAIN typed = Cell
  BY <1>1 DEF Typed
<1>6. DOMAIN addressed = Cell /\ Field(addressed, MacAt, MAC_ADDRESS_LENGTH, SrvMac)
  BY <1>1, <1>3, <1>4, <1>5, Written
<1>7. /\ DOMAIN numbered = Cell /\ Field(numbered, RandomAt, RANDOM_NUM_LENGTH, random)
      /\ \A i \in Cell :
           i \notin RandomAt .. RandomAt + RANDOM_NUM_LENGTH - 1 => numbered[i] = addressed[i]
  BY <1>1, <1>3, <1>6, Written
<1>8. /\ DOMAIN said = Cell /\ (Len(text) \in Nat => Field(said, DataAt, length, text))
      /\ \A i \in Cell : i \notin DataAt .. DataAt + length - 1 => said[i] = numbered[i]
  BY <1>1, <1>3, <1>7, Written
<1>9. \A i \in Cell : d[i] = IF i >= DataAt + length THEN Nul ELSE said[i]
  BY <1>1, <1>8 DEF fill_empty_to_buffer
<1>10. \A i \in MacAt .. MacAt + MAC_ADDRESS_LENGTH - 1 :
         /\ i \in Cell /\ ~(i >= DataAt + length)
         /\ i \notin DataAt .. DataAt + length - 1
         /\ i \notin RandomAt .. RandomAt + RANDOM_NUM_LENGTH - 1
  BY Offsets
<1>11. \A i \in MacAt .. MacAt + MAC_ADDRESS_LENGTH - 1 : d[i] = addressed[i]
  BY <1>7, <1>8, <1>9, <1>10
<1>12. Field(d, MacAt, MAC_ADDRESS_LENGTH, SrvMac)
  BY <1>3, <1>6, <1>11, FieldKept
<1>13. \A i \in RandomAt .. RandomAt + RANDOM_NUM_LENGTH - 1 :
         /\ i \in Cell /\ ~(i >= DataAt + length)
         /\ i \notin DataAt .. DataAt + length - 1
  BY Offsets
<1>14. \A i \in RandomAt .. RandomAt + RANDOM_NUM_LENGTH - 1 : d[i] = numbered[i]
  BY <1>8, <1>9, <1>13
<1>15. Field(d, RandomAt, RANDOM_NUM_LENGTH, random)
  BY <1>3, <1>7, <1>14, FieldKept
<1>16. \A i \in DataAt .. DataAt + length - 1 : i \in Cell /\ ~(i >= DataAt + length)
  BY Offsets
<1>17. Len(text) \in Nat => Field(d, DataAt, length, text)
  BY <1>3, <1>8, <1>9, <1>16, FieldKept
<1> QED
  BY <1>2, <1>9, <1>12, <1>15, <1>17 DEF Bears

\* A text that fits: NULs follow it to the end of the data.
LEMMA CreatedText ==
  ASSUME NEW type, NEW random, Len(random) \in Nat, NEW text, Len(text) \in Nat,
         NEW length \in Nat, Len(text) <= length, length <= DATA_UDP_LENGTH
  PROVE  Field(create_pdu(type, random, text, length), DataAt, DATA_UDP_LENGTH, text)
<1>1. PICK d : d = create_pdu(type, random, text, length)
  OBVIOUS
<1>2. /\ Field(d, DataAt, length, text)
      /\ \A i \in Cell : i >= DataAt + length => d[i] = Nul
  BY <1>1, Created
<1>3. ASSUME NEW i \in 1 .. DATA_UDP_LENGTH
      PROVE  d[DataAt + i - 1] = IF i <= Len(text) THEN text[i] ELSE Nul
  <2>1. CASE i <= length
    <3>1. i \in 1 .. length
      BY <2>1
    <3> QED
      BY <1>2, <3>1 DEF Field
  <2>2. CASE ~(i <= length)
    <3>1. /\ DataAt + i - 1 \in Cell /\ DataAt + i - 1 >= DataAt + length
          /\ ~(i <= Len(text))
      BY <2>2, Offsets
    <3> QED
      BY <1>2, <3>1
  <2> QED
    BY <2>1, <2>2
<1> QED
  BY <1>1, <1>3 DEF Field

\* A port in SUBS_ACK or INFO_ACK.
LEMMA CreatedPort ==
  ASSUME NEW type, NEW random, Len(random) \in Nat, NEW port
  PROVE  /\ Bears(create_pdu_port(type, random, port), SrvMac, random)
         /\ Fits(port, PORT_LENGTH) =>
              Field(create_pdu_port(type, random, port), DataAt, DATA_UDP_LENGTH, port)
<1>1. Bears(create_pdu_port(type, random, port), SrvMac, random)
  BY Created, Offsets DEF create_pdu_port
<1>2. ASSUME Fits(port, PORT_LENGTH)
      PROVE  Field(create_pdu_port(type, random, port), DataAt, DATA_UDP_LENGTH, port)
  <2>1. port \in Seq(Byte \ {Nul}) /\ Len(port) \in Nat /\ Len(port) <= PORT_LENGTH - 1
    BY <1>2, Offsets, LenProperties DEF Fits
  <2>2. Take(port, PORT_LENGTH - 1) = port
    BY <2>1, Offsets, SubSeqFull DEF Take
  <2>3. Field(create_pdu(type, random, port, PORT_LENGTH), DataAt, DATA_UDP_LENGTH, port)
    BY <2>1, Offsets, CreatedText
  <2> QED
    BY <2>2, <2>3 DEF create_pdu_port
<1> QED
  BY <1>1, <1>2

-----------------------------------------------------------------------------
(* The session.                                                            *)

\* Both sides read the address and the random number that are there.
LEMMA Reads ==
  ASSUME NEW mac, NEW random, Bears(wire, mac, random),
         Fits(mac, MAC_ADDRESS_LENGTH), Fits(random, RANDOM_NUM_LENGTH)
  PROVE  /\ ReadMac = mac /\ ReadRandom = random
         /\ decode_bytes(MacAt, RandomAt - 1) = mac
         /\ decode_bytes(RandomAt, DataAt - 1) = random
<1>1. \A i \in Cell : Received[i] = wire[i]
  BY DEF Received
<1>2. Field(Received, MacAt, MAC_ADDRESS_LENGTH, mac)
  <2>1. MacAt \in Int /\ MAC_ADDRESS_LENGTH \in Nat
        /\ \A i \in MacAt .. MacAt + MAC_ADDRESS_LENGTH - 1 : i \in Cell
    BY Offsets
  <2> QED
    BY <1>1, <2>1, FieldKept DEF Bears
<1>3. Field(Received, RandomAt, RANDOM_NUM_LENGTH, random)
  <2>1. RandomAt \in Int /\ RANDOM_NUM_LENGTH \in Nat
        /\ \A i \in RandomAt .. RandomAt + RANDOM_NUM_LENGTH - 1 : i \in Cell
    BY Offsets
  <2> QED
    BY <1>1, <2>1, FieldKept DEF Bears
<1>4. /\ Fits(mac, MAC_ADDRESS_LENGTH + 1) /\ Fits(mac, (MAC_ADDRESS_LENGTH - 1) + 1)
      /\ Fits(random, RANDOM_NUM_LENGTH + 1) /\ Fits(random, (RANDOM_NUM_LENGTH - 1) + 1)
  BY Offsets, FitsMore
<1>5. ReadMac = mac
  BY <1>2, <1>4, Offsets, FieldString DEF ReadMac, read_from_buffer
<1>6. ReadRandom = random
  BY <1>3, <1>4, Offsets, FieldString DEF ReadRandom, read_from_buffer
<1>7. decode_bytes(MacAt, RandomAt - 1) = mac
  <2>1. StringAt(wire, MacAt, MAC_ADDRESS_LENGTH - 1) = mac
    BY <1>4, Offsets, FieldString DEF Bears
  <2>2. (RandomAt - 1) - MacAt = MAC_ADDRESS_LENGTH - 1
    BY Offsets
  <2> QED
    BY <2>1, <2>2 DEF decode_bytes
<1>8. decode_bytes(RandomAt, DataAt - 1) = random
  <2>1. StringAt(wire, RandomAt, RANDOM_NUM_LENGTH - 1) = random
    BY <1>4, Offsets, FieldString DEF Bears
  <2>2. (DataAt - 1) - RandomAt = RANDOM_NUM_LENGTH - 1
    BY Offsets
  <2> QED
    BY <2>1, <2>2 DEF decode_bytes
<1> QED
  BY <1>5, <1>6, <1>7, <1>8

\* The client reads the port that is there, one byte less than the data or not.
LEMMA ReadsPort ==
  ASSUME NEW port, Field(wire, DataAt, DATA_UDP_LENGTH, port), Fits(port, PORT_LENGTH)
  PROVE  decode_bytes(DataAt, MAX_UDP_MESSAGE_SIZE - 1) = port
<1>1. Fits(port, (DATA_UDP_LENGTH - 1) + 1)
  BY Offsets, FitsMore
<1>2. StringAt(wire, DataAt, DATA_UDP_LENGTH - 1) = port
  BY <1>1, Offsets, FieldString
<1>3. (MAX_UDP_MESSAGE_SIZE - 1) - DataAt = DATA_UDP_LENGTH - 1
  BY Offsets
<1> QED
  BY <1>2, <1>3 DEF decode_bytes

\* The index is that of a controller that was found.
LEMMA FoundIs ==
  ASSUME NEW at, validate_sub_req(at) # 0
  PROVE  /\ validate_sub_req(at) \in DOMAIN Table
         /\ Found(at, validate_sub_req(at))
<1> DEFINE T == {i \in DOMAIN Table : Found(at, i)}
<1>1. DOMAIN Table \subseteq Nat
  BY TextAssumption, LenProperties
<1>2. PICK x \in T : \A y \in T : x <= y
  <2>1. T \in SUBSET Nat /\ T # {}
    BY <1>1 DEF validate_sub_req
  <2> QED
    BY <2>1, Least
<1>3. \A j \in 1 .. x - 1 : ~Found(at, j)
  <2>1. DOMAIN Table = 1 .. Len(Table) /\ Len(Table) \in Nat
    BY TextAssumption, LenProperties
  <2>2. ASSUME NEW j \in 1 .. x - 1
        PROVE  j \in DOMAIN Table /\ ~(x <= j)
    BY <1>2, <2>1
  <2> QED
    BY <1>2, <2>2
<1> DEFINE P(i) == Found(at, i) /\ \A j \in 1 .. i - 1 : ~Found(at, j)
<1>4. validate_sub_req(at) = CHOOSE i \in DOMAIN Table : P(i)
  BY DEF validate_sub_req
<1>5. x \in DOMAIN Table /\ P(x)
  BY <1>2, <1>3
<1> HIDE DEF P
<1>6. validate_sub_req(at) \in DOMAIN Table /\ P(validate_sub_req(at))
  BY <1>4, <1>5
<1> QED
  BY <1>6 DEF P

InSession == {"informed", "acknowledged", "hello", "greeted", "echo"}

\* The records have their fields, and the random numbers fit in their arrays.
Held ==
  /\ DOMAIN client = {"random_num", "mac", "udp", "tcp"}
  /\ DOMAIN entry = {"pos", "situation", "random_num", "udp_port", "tcp_port",
                     "elements_data", "data_hello"}
  /\ cfg \in Config
  /\ Fits(claim, RANDOM_NUM_LENGTH)
  /\ Fits(client.random_num, RANDOM_NUM_LENGTH)
  /\ Fits(entry.random_num, RANDOM_NUM_LENGTH)

\* What the last datagram says.
OnWire ==
  /\ point \in {"asked", "informed", "greeted"} => Bears(wire, cfg.mac, claim)
  /\ point \in {"offered", "acknowledged"} => Bears(wire, SrvMac, entry.random_num)
  /\ point = "offered" =>
       Fits(entry.udp_port, PORT_LENGTH) /\ Field(wire, DataAt, DATA_UDP_LENGTH, entry.udp_port)

\* What the two sides have made of it.
Same ==
  /\ point \in {"offered"} \cup InSession => Table[entry.pos].mac = cfg.mac
  /\ point \in InSession =>
       /\ client.random_num = entry.random_num
       /\ client.mac = SrvMac
       /\ client.udp = entry.udp_port

PduInv == Held /\ OnWire /\ Same

LEMMA ZerosFit == Fits(Zeros, RANDOM_NUM_LENGTH)
<1>1. RANDOM_NUM_LENGTH - 1 \in Nat
  BY Offsets
<1>2. Zeros \in [1 .. RANDOM_NUM_LENGTH - 1 -> Byte \ {Nul}]
  BY DEF Zeros, Byte, Nul
<1>3. Zeros \in Seq(Byte \ {Nul}) /\ Len(Zeros) = RANDOM_NUM_LENGTH - 1
  BY <1>1, <1>2, Sequence
<1> QED
  BY <1>3, Offsets DEF Fits

LEMMA FitsLength ==
  ASSUME NEW s, NEW n, Fits(s, n)
  PROVE  Len(s) \in Nat
  BY LenProperties DEF Fits

LEMMA PduInitially == Init => PduInv
  BY ZerosFit DEF Init, PduInv, Held, OnWire, Same, InSession

\* Each action keeps what the two sides have read, or reads it.
LEMMA PduStep ==
  ASSUME PduInv, [Next]_vars
  PROVE  PduInv'
<1> USE DEF Step
<1>1. CASE SendReq
  <2>1. Bears(wire', cfg.mac, claim')
    BY <1>1, Packed DEF SendReq, Send
  <2> QED
    BY <1>1, <2>1 DEF SendReq, Send, PduInv, Held, OnWire, Same, InSession
<1>2. CASE SubsAck
  <2>1. PICK at \in NameFrom, random \in RandomNum, port \in UdpPort :
          /\ validate_sub_req(at) # 0
          /\ entry' = [entry EXCEPT !.pos = validate_sub_req(at), !.situation = Situation(at),
                                    !.random_num = random, !.udp_port = port]
          /\ wire' = create_pdu_port(SUBS_ACK, random, port)
    BY <1>2 DEF SubsAck
  <2>2. Fits(random, RANDOM_NUM_LENGTH) /\ Fits(port, PORT_LENGTH)
    BY TextAssumption
  <2>3. /\ DOMAIN entry' = DOMAIN entry
        /\ entry'.pos = validate_sub_req(at)
        /\ entry'.random_num = random /\ entry'.udp_port = port
    BY <2>1 DEF PduInv, Held
  <2>4. Bears(wire', SrvMac, random) /\ Field(wire', DataAt, DATA_UDP_LENGTH, port)
    BY <2>1, <2>2, FitsLength, CreatedPort
  <2>5. ReadMac = cfg.mac
    <3>1. Bears(wire, cfg.mac, claim) /\ Fits(claim, RANDOM_NUM_LENGTH)
          /\ Fits(cfg.mac, MAC_ADDRESS_LENGTH)
      BY <1>2, TextAssumption DEF SubsAck, PduInv, Held, OnWire
    <3> QED
      BY <3>1, Reads
  <2>6. Table[entry'.pos].mac = cfg.mac
    BY <2>1, <2>3, <2>5, FoundIs DEF Found
  <2>7. point' = "offered" /\ UNCHANGED <<cfg, client, claim>>
    BY <1>2 DEF SubsAck
  <2> QED
    BY <2>2, <2>3, <2>4, <2>6, <2>7 DEF PduInv, Held, OnWire, Same, InSession
<1>3. CASE SubsRej
  BY <1>3 DEF SubsRej, PduInv, Held, OnWire, Same, InSession
<1>4. CASE ReadRej
  BY <1>4, ZerosFit DEF ReadRej, PduInv, Held, OnWire, Same, InSession
<1>5. CASE SendInfo
  <2>1. /\ decode_bytes(MacAt, RandomAt - 1) = SrvMac
        /\ decode_bytes(RandomAt, DataAt - 1) = entry.random_num
    <3>1. Bears(wire, SrvMac, entry.random_num) /\ Fits(entry.random_num, RANDOM_NUM_LENGTH)
          /\ Fits(SrvMac, MAC_ADDRESS_LENGTH)
      BY <1>5, TextAssumption DEF SendInfo, PduInv, Held, OnWire
    <3> QED
      BY <3>1, Reads
  <2>2. decode_bytes(DataAt, MAX_UDP_MESSAGE_SIZE - 1) = entry.udp_port
    BY <1>5, ReadsPort DEF SendInfo, PduInv, OnWire
  <2>3. /\ DOMAIN client' = DOMAIN client
        /\ client'.random_num = entry.random_num /\ client'.mac = SrvMac
        /\ client'.udp = entry.udp_port
    BY <1>5, <2>1, <2>2 DEF SendInfo, PduInv, Held
  <2>4. Bears(wire', cfg.mac, claim') /\ claim' = client'.random_num
    BY <1>5, Packed DEF SendInfo, Send
  <2>5. point' = "informed" /\ point = "offered" /\ UNCHANGED <<cfg, entry>>
    BY <1>5 DEF SendInfo
  <2> QED
    BY <2>3, <2>4, <2>5 DEF PduInv, Held, OnWire, Same, InSession
<1>6. CASE Late
  <2>1. /\ Bears(wire', cfg.mac, claim') /\ Fits(claim', RANDOM_NUM_LENGTH)
    BY <1>6, Packed, TextAssumption DEF Late, Send
  <2>2. point \in {"informed", "greeted"} /\ UNCHANGED <<point, cfg, client, entry>>
    BY <1>6 DEF Late
  <2> QED
    BY <2>1, <2>2 DEF PduInv, Held, OnWire, Same, InSession
<1>7. CASE InfoAck
  <2>1. PICK port, elements :
          entry' = [entry EXCEPT !.tcp_port = port, !.elements_data = elements]
    BY <1>7 DEF InfoAck
  <2>2. /\ DOMAIN entry' = DOMAIN entry
        /\ entry'.pos = entry.pos
        /\ entry'.random_num = entry.random_num /\ entry'.udp_port = entry.udp_port
    BY <2>1 DEF PduInv, Held
  <2>3. Bears(wire', SrvMac, entry.random_num)
    BY <1>7, FitsLength, CreatedPort DEF InfoAck, PduInv, Held
  <2>4. point = "informed" /\ point' = "acknowledged" /\ UNCHANGED <<cfg, client, claim>>
    BY <1>7 DEF InfoAck
  <2> QED
    BY <2>2, <2>3, <2>4 DEF PduInv, Held, OnWire, Same, InSession
<1>8. CASE InfoRej \/ HelloRej
  BY <1>8, ZerosFit DEF InfoRej, HelloRej, PduInv, Held, OnWire, Same, InSession
<1>9. CASE ReadInfoAck
  BY <1>9 DEF ReadInfoAck, PduInv, Held, OnWire, Same, InSession
<1>10. CASE SendHello
  <2>1. Bears(wire', cfg.mac, claim') /\ claim' = client.random_num
    BY <1>10, Packed DEF SendHello, Send
  <2>2. point = "hello" /\ point' = "greeted" /\ UNCHANGED <<cfg, client, entry>>
    BY <1>10 DEF SendHello
  <2> QED
    BY <2>1, <2>2 DEF PduInv, Held, OnWire, Same, InSession
<1>11. CASE HelloBack
  BY <1>11 DEF HelloBack, PduInv, Held, OnWire, Same, InSession
<1>12. CASE ReadHello
  BY <1>12 DEF ReadHello, PduInv, Held, OnWire, Same, InSession
<1>13. CASE SendRej
  BY <1>13 DEF SendRej, PduInv, Held, OnWire, Same, InSession
<1>14. CASE TakeRej
  BY <1>14, ZerosFit DEF TakeRej, PduInv, Held, OnWire, Same, InSession
<1>15. CASE UNCHANGED vars
  BY <1>15 DEF vars, PduInv, Held, OnWire, Same, InSession
<1> QED
  BY <1>1, <1>2, <1>3, <1>4, <1>5, <1>6, <1>7, <1>8, <1>9, <1>10, <1>11, <1>12, <1>13, <1>14,
     <1>15 DEF Next

-----------------------------------------------------------------------------
\* For all lengths, texts and tables.
THEOREM Invariant == Spec => []PduInv
<1>1. PduInv /\ [Next]_vars => PduInv'
  BY PduStep
<1> QED
  BY <1>1, PduInitially, PTL DEF Spec

\* The server takes SUBS_INFO and HELLO exactly when they carry the number of
\* its SUBS_ACK, whatever the lengths of the fields.
THEOREM Accepts == Spec => []AcceptsOffer
<1>1. PduInv => AcceptsOffer
  <2> SUFFICES ASSUME PduInv, point \in {"informed", "greeted"}
               PROVE  Valid <=> claim = entry.random_num
    BY DEF AcceptsOffer
  <2>1. /\ Bears(wire, cfg.mac, claim) /\ Fits(claim, RANDOM_NUM_LENGTH)
        /\ Fits(cfg.mac, MAC_ADDRESS_LENGTH) /\ Table[entry.pos].mac = cfg.mac
    BY TextAssumption DEF PduInv, Held, OnWire, Same, InSession
  <2>2. ReadMac = cfg.mac /\ ReadRandom = claim
    BY <2>1, Reads
  <2> QED
    BY <2>1, <2>2 DEF Valid
<1> QED
  BY <1>1, Invariant, PTL

\* In a session the client has the number, the address and the port of the
\* server's table, and takes its INFO_ACK.
THEOREM Agrees == Spec => []Agreed
<1>1. PduInv => Agreed
  <2> SUFFICES ASSUME PduInv
               PROVE  Agreed
    OBVIOUS
  <2>1. ASSUME point = "acknowledged"
        PROVE  CheckInfoAck
    <3>1. /\ Bears(wire, SrvMac, entry.random_num) /\ Fits(entry.random_num, RANDOM_NUM_LENGTH)
          /\ Fits(SrvMac, MAC_ADDRESS_LENGTH)
          /\ client.random_num = entry.random_num /\ client.mac = SrvMac
      BY <2>1, TextAssumption DEF PduInv, Held, OnWire, Same, InSession
    <3> QED
      BY <3>1, Reads DEF CheckInfoAck
  <2> QED
    BY <2>1 DEF Agreed, PduInv, Same, InSession
<1> QED
  BY <1>1, Invariant, PTL

=============================================================================
