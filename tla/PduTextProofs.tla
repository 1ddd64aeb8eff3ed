---------------------------- MODULE PduTextProofs ----------------------------
(***************************************************************************)
(* The texts in the datagrams: every byte of one is written, the server    *)
(* finds the sender, stores its port and elements with at most the bytes   *)
(* after them it never wrote, and echoes its data, for all lengths and     *)
(* texts of TextAssumption.                                                *)
(***************************************************************************)
EXTENDS PduProofs

-----------------------------------------------------------------------------
(* Sequences of bytes.                                                     *)

\* The first n of a sequence, or all of it.
LEMMA TakeIs ==
  ASSUME NEW S, NEW s \in Seq(S), NEW n \in Nat
  PROVE  /\ Take(s, n) \in Seq(S)
         /\ Len(Take(s, n)) = IF n < Len(s) THEN n ELSE Len(s)
         /\ \A i \in 1 .. Len(Take(s, n)) : Take(s, n)[i] = s[i]
         /\ Len(s) <= n => Take(s, n) = s
<1>1. PICK m \in 0 .. Len(s) : m = IF n < Len(s) THEN n ELSE Len(s)
  BY LenProperties
<1>2. Take(s, n) = SubSeq(s, 1, m)
  BY <1>1 DEF Take
<1>3. /\ \A i \in 1 .. m : s[i] \in S
      /\ Len(s) \in Nat
  BY <1>1, ElementOfSeq, LenProperties
<1>4. /\ SubSeq(s, 1, m) \in Seq(S)
      /\ Len(SubSeq(s, 1, m)) = m
      /\ \A i \in 1 .. m : SubSeq(s, 1, m)[i] = s[i]
  BY <1>3, SubSeqProperties
<1>5. Len(s) <= n => SubSeq(s, 1, m) = s
  BY <1>1, <1>3, SubSeqFull
<1> QED
  BY <1>1, <1>2, <1>4, <1>5

\* A text, a comma and another text.
LEMMA JoinedIs ==
  ASSUME NEW S, Comma \in S, NEW a \in Seq(S), NEW b \in Seq(S)
  PROVE  /\ Joined(a, b) \in Seq(S)
         /\ Len(Joined(a, b)) = Len(a) + 1 + Len(b)
         /\ \A i \in 1 .. Len(a) + 1 + Len(b) :
              Joined(a, b)[i] = IF i <= Len(a) THEN a[i]
                                ELSE IF i = Len(a) + 1 THEN Comma ELSE b[i - Len(a) - 1]
<1>1. Len(a) \in Nat /\ Len(b) \in Nat
  BY LenProperties
<1> DEFINE c == <<Comma>>
<1>2. c \in Seq(S) /\ Len(c) = 1 /\ c[1] = Comma
  OBVIOUS
<1> HIDE DEF c
<1> DEFINE ac == a \o c
<1>3. /\ ac \in Seq(S) /\ Len(ac) = Len(a) + 1
      /\ \A i \in 1 .. Len(a) + 1 : ac[i] = IF i <= Len(a) THEN a[i] ELSE c[i - Len(a)]
  <2>1. c \in Seq(S) /\ Len(c) = 1
    BY <1>2
  <2>2. /\ ac \in Seq(S) /\ Len(ac) = Len(a) + Len(c)
        /\ \A i \in 1 .. Len(a) + Len(c) :
             ac[i] = IF i <= Len(a) THEN a[i] ELSE c[i - Len(a)]
    BY <2>1, ConcatProperties
  <2> QED
    BY <2>1, <2>2
<1> HIDE DEF ac
<1>4. /\ ac \o b \in Seq(S) /\ Len(ac \o b) = Len(ac) + Len(b)
      /\ \A i \in 1 .. Len(ac) + Len(b) :
           (ac \o b)[i] = IF i <= Len(ac) THEN ac[i] ELSE b[i - Len(ac)]
  <2>1. ac \in Seq(S)
    BY <1>3
  <2> QED
    BY <2>1, ConcatProperties
<1>5. Joined(a, b) = ac \o b
  BY DEF Joined, ac, c
<1>6. ASSUME NEW i \in 1 .. Len(a) + 1 + Len(b)
      PROVE  (ac \o b)[i] = IF i <= Len(a) THEN a[i]
                            ELSE IF i = Len(a) + 1 THEN Comma ELSE b[i - Len(a) - 1]
  <2>1. CASE i <= Len(a) + 1
    <3>1. (ac \o b)[i] = IF i <= Len(a) THEN a[i] ELSE c[i - Len(a)]
      BY <1>1, <1>3, <1>4, <2>1
    <3> QED
      BY <1>1, <1>2, <2>1, <3>1
  <2>2. CASE i > Len(a) + 1
    BY <1>1, <1>3, <1>4, <2>2
  <2>3. i <= Len(a) + 1 \/ i > Len(a) + 1
    BY <1>1
  <2> QED
    BY <2>1, <2>2, <2>3, Zenon
<1> QED
  BY <1>1, <1>3, <1>4, <1>5, <1>6

\* What is cut off after a text is cut off after the text joined to another.
LEMMA JoinedTake ==
  ASSUME NEW S, Comma \in S, NEW a \in Seq(S), NEW b \in Seq(S), NEW n \in Nat,
         n > Len(a)
  PROVE  Joined(a, Take(b, n - Len(a) - 1)) = Take(Joined(a, b), n)
<1>1. Len(a) \in Nat /\ Len(b) \in Nat
  BY LenProperties
<1>2. PICK k : k = n - Len(a) - 1
  OBVIOUS
<1>3. PICK c : c = Take(b, k)
  OBVIOUS
<1>4. PICK u : u = Joined(a, c)
  OBVIOUS
<1>5. PICK v : v = Joined(a, b)
  OBVIOUS
<1>6. PICK w : w = Take(v, n)
  OBVIOUS
<1>7. k \in Nat
  BY <1>1, <1>2
<1>8. /\ c \in Seq(S) /\ Len(c) = IF k < Len(b) THEN k ELSE Len(b)
      /\ \A i \in 1 .. Len(c) : c[i] = b[i]
  BY <1>3, <1>7, TakeIs
<1>9. /\ u \in Seq(S) /\ Len(u) = Len(a) + 1 + Len(c)
      /\ \A i \in 1 .. Len(a) + 1 + Len(c) :
           u[i] = IF i <= Len(a) THEN a[i]
                  ELSE IF i = Len(a) + 1 THEN Comma ELSE c[i - Len(a) - 1]
  <2>1. c \in Seq(S)
    BY <1>8
  <2>2. /\ Joined(a, c) \in Seq(S) /\ Len(Joined(a, c)) = Len(a) + 1 + Len(c)
        /\ \A i \in 1 .. Len(a) + 1 + Len(c) :
             Joined(a, c)[i] = IF i <= Len(a) THEN a[i]
                               ELSE IF i = Len(a) + 1 THEN Comma ELSE c[i - Len(a) - 1]
    BY <2>1, JoinedIs
  <2> QED
    BY <1>4, <2>2, Zenon
<1>10. /\ v \in Seq(S) /\ Len(v) = Len(a) + 1 + Len(b)
       /\ \A i \in 1 .. Len(a) + 1 + Len(b) :
            v[i] = IF i <= Len(a) THEN a[i]
                   ELSE IF i = Len(a) + 1 THEN Comma ELSE b[i - Len(a) - 1]
  BY <1>5, JoinedIs
<1>11. /\ w \in Seq(S) /\ Len(w) = IF n < Len(v) THEN n ELSE Len(v)
       /\ \A i \in 1 .. Len(w) : w[i] = v[i]
  BY <1>6, <1>10, TakeIs
<1>12. Len(u) = Len(w)
  <2>1. Len(u) = Len(a) + 1 + (IF k < Len(b) THEN k ELSE Len(b))
    BY <1>8, <1>9
  <2>2. Len(w) = IF n < Len(a) + 1 + Len(b) THEN n ELSE Len(a) + 1 + Len(b)
    BY <1>10, <1>11
  <2>3. k < Len(b) <=> n < Len(a) + 1 + Len(b)
    BY <1>1, <1>2
  <2>4. Len(a) + 1 + k = n
    BY <1>1, <1>2
  <2>5. CASE k < Len(b)
    BY <2>1, <2>2, <2>3, <2>4, <2>5
  <2>6. CASE ~(k < Len(b))
    <3>1. Len(u) = Len(a) + 1 + Len(b)
      BY <2>1, <2>6
    <3>2. Len(w) = Len(a) + 1 + Len(b)
      BY <2>2, <2>3, <2>6
    <3> QED
      BY <3>1, <3>2
  <2> QED
    BY <2>5, <2>6
<1>13. ASSUME NEW i \in 1 .. Len(u)
       PROVE  u[i] = v[i]
  <2>1. Len(c) \in Nat /\ Len(c) <= Len(b)
    BY <1>1, <1>7, <1>8
  <2>2. i \in 1 .. Len(a) + 1 + Len(c) /\ i \in 1 .. Len(a) + 1 + Len(b)
    BY <1>1, <1>9, <2>1
  <2>3. CASE i <= Len(a) + 1
    <3>1. u[i] = IF i <= Len(a) THEN a[i] ELSE Comma
      BY <1>1, <1>9, <2>2, <2>3
    <3>2. v[i] = IF i <= Len(a) THEN a[i] ELSE Comma
      BY <1>1, <1>10, <2>2, <2>3
    <3> QED
      BY <3>1, <3>2
  <2>4. CASE i > Len(a) + 1
    <3>1. i - Len(a) - 1 \in 1 .. Len(c)
      BY <1>1, <2>1, <2>2, <2>4
    <3> QED
      BY <1>1, <1>8, <1>9, <1>10, <2>2, <2>4, <3>1
  <2> QED
    BY <1>1, <2>2, <2>3, <2>4
<1>14. u = w
  BY <1>9, <1>11, <1>12, <1>13, SeqEqual
<1> QED
  BY <1>2, <1>3, <1>4, <1>5, <1>6, <1>14

\* A sequence is the beginning of one that begins like it.
LEMMA TakePrefix ==
  ASSUME NEW S, NEW s \in Seq(S), NEW a \in Seq(S), Len(a) <= Len(s),
         \A i \in 1 .. Len(a) : s[i] = a[i]
  PROVE  Take(s, Len(a)) = a
<1>1. PICK t : t = Take(s, Len(a))
  OBVIOUS
<1>2. Len(a) \in Nat /\ Len(s) \in Nat
  BY LenProperties
<1>3. /\ t \in Seq(S) /\ Len(t) = IF Len(a) < Len(s) THEN Len(a) ELSE Len(s)
      /\ \A i \in 1 .. Len(t) : t[i] = s[i]
  BY <1>1, <1>2, TakeIs
<1>4. Len(t) = Len(a)
  BY <1>2, <1>3
<1>5. t = a
  BY <1>3, <1>4, SeqEqual
<1> QED
  BY <1>1, <1>5

\* A sequence that goes on like s up to where it stops gives that much of s.
LEMMA UntilTake ==
  ASSUME NEW S, NEW s \in Seq(S), NEW w, NEW k \in Nat, Len(w) = k, NEW stop,
         \A i \in 1 .. k : i <= Len(s) => w[i] = s[i] /\ s[i] \notin stop,
         Len(s) < k => w[Len(s) + 1] \in stop
  PROVE  Until(w, stop) = Take(s, k)
<1>1. PICK m \in 0 .. k : /\ m = IF k < Len(s) THEN k ELSE Len(s)
                          /\ m \in 0 .. Len(s)
  BY LenProperties
<1>2. Len(s) \in Nat
  BY LenProperties
<1>3. \A i \in 1 .. m : w[i] = s[i] /\ s[i] \notin stop /\ s[i] \in S
  BY <1>1, <1>2, ElementOfSeq
<1>4. StopsAt(w, stop, m)
  BY <1>1, <1>2, <1>3 DEF StopsAt
<1>5. Until(w, stop) = SubSeq(w, 1, m)
  BY <1>4, UntilIs
<1>6. /\ SubSeq(w, 1, m) \in Seq(S)
      /\ Len(SubSeq(w, 1, m)) = m
      /\ \A i \in 1 .. m : SubSeq(w, 1, m)[i] = s[i]
  BY <1>3, SubSeqProperties
<1>7. /\ SubSeq(s, 1, m) \in Seq(S)
      /\ Len(SubSeq(s, 1, m)) = m
      /\ \A i \in 1 .. m : SubSeq(s, 1, m)[i] = s[i]
  BY <1>3, SubSeqProperties
<1>8. SubSeq(w, 1, m) = SubSeq(s, 1, m)
  BY <1>6, <1>7, SeqEqual
<1> QED
  BY <1>1, <1>5, <1>8 DEF Take

\* What Until returns is as much of the sequence as is clear.
LEMMA UntilFirst ==
  ASSUME NEW S, NEW s \in Seq(S), NEW stop, NEW n \in 0 .. Len(s),
         \A i \in 1 .. n : s[i] \notin stop
  PROVE  /\ Until(s, stop) \in Seq(S)
         /\ Len(Until(s, stop)) \in n .. Len(s)
         /\ \A i \in 1 .. n : Until(s, stop)[i] = s[i]
<1>1. Len(s) \in Nat
  BY LenProperties
<1>2. PICK k : StopsAt(s, stop, k)
  BY Stops
<1>3. k \in 0 .. Len(s) /\ \A i \in 1 .. k : s[i] \in S
  BY <1>1, <1>2, ElementOfSeq DEF StopsAt
<1>4. n <= k
  <2> SUFFICES ASSUME k < n
               PROVE  FALSE
    BY <1>3
  <2>1. s[k + 1] \in stop /\ k + 1 \in 1 .. n
    BY <1>1, <1>2, <1>3 DEF StopsAt
  <2> QED
    BY <2>1
<1>5. Until(s, stop) = SubSeq(s, 1, k)
  BY <1>1, <1>2, UntilIs
<1>6. /\ SubSeq(s, 1, k) \in Seq(S)
      /\ Len(SubSeq(s, 1, k)) = k
      /\ \A i \in 1 .. k : SubSeq(s, 1, k)[i] = s[i]
  BY <1>3, SubSeqProperties
<1> QED
  BY <1>3, <1>4, <1>5, <1>6

\* A sequence that is clear is kept whole.
LEMMA UntilAll ==
  ASSUME NEW S, NEW s \in Seq(S), NEW stop, \A i \in 1 .. Len(s) : s[i] \notin stop
  PROVE  Until(s, stop) = s
<1>1. Len(s) \in Nat
  BY LenProperties
<1>2. StopsAt(s, stop, Len(s))
  BY <1>1 DEF StopsAt
<1> QED
  BY <1>1, <1>2, UntilIs, SubSeqFull

\* A string is no longer than where it may lie, and ends before a NUL there.
LEMMA StringShort ==
  ASSUME NEW b, NEW at \in Int, NEW n \in Nat
  PROVE  /\ Len(StringAt(b, at, n)) \in 0 .. n
         /\ n > 0 /\ b[at + n - 1] = Nul => Len(StringAt(b, at, n)) < n
<1>1. PICK S : Bytes(b, at, n) \in Seq(S)
  BY BytesAre
<1>2. /\ Len(Bytes(b, at, n)) = n /\ StringAt(b, at, n) = Until(Bytes(b, at, n), {Nul})
      /\ \A i \in 1 .. n : Bytes(b, at, n)[i] = b[at + i - 1]
  BY BytesAre
<1>3. PICK k : StopsAt(Bytes(b, at, n), {Nul}, k)
  BY <1>1, Stops
<1>4. StringAt(b, at, n) = SubSeq(Bytes(b, at, n), 1, k)
  BY <1>2, <1>3, UntilIs
<1>5. k \in 0 .. n /\ \A i \in 1 .. k : Bytes(b, at, n)[i] \in S
  BY <1>1, <1>2, <1>3, ElementOfSeq DEF StopsAt
<1>6. Len(StringAt(b, at, n)) = k
  BY <1>4, <1>5, SubSeqProperties
<1>7. ASSUME n > 0, b[at + n - 1] = Nul
      PROVE  k < n
  <2>1. Bytes(b, at, n)[n] = Nul
    BY <1>2, <1>7
  <2> QED
    BY <1>3, <1>5, <1>7, <2>1 DEF StopsAt
<1> QED
  BY <1>5, <1>6, <1>7

\* The part of a field from its byte j on.
LEMMA FieldTail ==
  ASSUME NEW b, NEW at \in Int, NEW n \in Nat, NEW s, Field(b, at, n, s),
         NEW j \in 0 .. n, NEW t, Len(t) \in Nat, Len(s) = j + Len(t),
         \A i \in 1 .. Len(t) : s[j + i] = t[i]
  PROVE  Field(b, at + j, n - j, t)
<1> SUFFICES ASSUME NEW i \in 1 .. n - j
             PROVE  b[(at + j) + i - 1] = IF i <= Len(t) THEN t[i] ELSE Nul
  BY DEF Field
<1>1. PICK k \in 1 .. n : k = j + i
  OBVIOUS
<1>2. b[at + k - 1] = IF k <= Len(s) THEN s[k] ELSE Nul
  BY DEF Field
<1>3. at + k - 1 = (at + j) + i - 1 /\ (k <= Len(s) <=> i <= Len(t))
  BY <1>1
<1> QED
  BY <1>1, <1>2, <1>3

-----------------------------------------------------------------------------
(* The bytes of a datagram.                                                *)

LEMMA NulByte == Nul \in Byte
  BY DEF Nul, Byte

\* A field is made of bytes when its text is.
LEMMA FieldBytes ==
  ASSUME NEW b, NEW at \in Int, NEW n \in Nat, NEW s \in Seq(Byte), Field(b, at, n, s)
  PROVE  \A i \in at .. at + n - 1 : b[i] \in Byte
<1> SUFFICES ASSUME NEW i \in at .. at + n - 1
             PROVE  b[i] \in Byte
  OBVIOUS
<1>1. PICK k \in 1 .. n : k = i - at + 1
  OBVIOUS
<1>2. b[at + k - 1] = IF k <= Len(s) THEN s[k] ELSE Nul
  BY DEF Field
<1>3. at + k - 1 = i
  BY <1>1
<1>4. k <= Len(s) => s[k] \in Byte
  BY ElementOfSeq, LenProperties
<1>5. b[i] = IF k <= Len(s) THEN s[k] ELSE Nul
  BY <1>2, <1>3
<1> QED
  BY <1>4, <1>5, NulByte

\* Every cell lies in the type or in one of the three fields.
LEMMA CellIn ==
  ASSUME NEW i \in Cell
  PROVE  \/ i = 0
         \/ i \in MacAt .. MacAt + MAC_ADDRESS_LENGTH - 1
         \/ i \in RandomAt .. RandomAt + RANDOM_NUM_LENGTH - 1
         \/ i \in DataAt .. DataAt + DATA_UDP_LENGTH - 1
  BY Offsets

\* What the client sends is made of bytes.
LEMMA PackedBytes ==
  ASSUME NEW type \in Byte, NEW mac \in Seq(Byte), NEW random \in Seq(Byte),
         NEW data \in Seq(Byte)
  PROVE  get_packet(type, mac, random, data) \in [Cell -> Byte]
<1>1. PICK d : d = get_packet(type, mac, random, data)
  OBVIOUS
<1>2. /\ Field(d, MacAt, MAC_ADDRESS_LENGTH, mac)
      /\ Field(d, RandomAt, RANDOM_NUM_LENGTH, random)
      /\ Field(d, DataAt, DATA_UDP_LENGTH, data)
      /\ d[0] = type
  BY <1>1, Packed DEF Bears
<1>3. \A i \in MacAt .. MacAt + MAC_ADDRESS_LENGTH - 1 : d[i] \in Byte
  BY <1>2, Offsets, FieldBytes
<1>4. \A i \in RandomAt .. RandomAt + RANDOM_NUM_LENGTH - 1 : d[i] \in Byte
  BY <1>2, Offsets, FieldBytes
<1>5. \A i \in DataAt .. DataAt + DATA_UDP_LENGTH - 1 : d[i] \in Byte
  BY <1>2, Offsets, FieldBytes
<1>6. \A i \in Cell : d[i] \in Byte
  BY <1>2, <1>3, <1>4, <1>5, CellIn
<1>7. d = [i \in Cell |-> d[i]]
  BY <1>1 DEF get_packet
<1> QED
  BY <1>1, <1>6, <1>7

\* Writing bytes leaves bytes, in the cells written to and where there were some.
LEMMA WrittenBytes ==
  ASSUME NEW b, DOMAIN b = Cell, NEW s \in Seq(Byte), NEW at \in Int, NEW end \in Int,
         NEW w, w = write_to_buffer(b, s, at, end)
  PROVE  /\ DOMAIN w = Cell
         /\ \A i \in Cell : i \in at .. end - 1 \/ b[i] \in Byte => w[i] \in Byte
<1>1. /\ DOMAIN w = Cell
      /\ \A i \in Cell : w[i] = IF i \notin at .. end - 1 THEN b[i]
                                ELSE IF i - at < Len(s) THEN s[i - at + 1] ELSE Nul
  BY DEF write_to_buffer
<1>2. ASSUME NEW i \in Cell, i \in at .. end - 1
      PROVE  w[i] \in Byte
  <2>1. PICK k \in Nat \ {0} : k = i - at + 1
    BY <1>2
  <2>2. i - at < Len(s) => s[k] \in Byte
    BY <2>1, ElementOfSeq, LenProperties
  <2>3. w[i] = IF i - at < Len(s) THEN s[k] ELSE Nul
    BY <1>1, <1>2, <2>1
  <2> QED
    BY <2>2, <2>3, NulByte
<1>3. ASSUME NEW i \in Cell, i \notin at .. end - 1, b[i] \in Byte
      PROVE  w[i] \in Byte
  BY <1>1, <1>3
<1> QED
  BY <1>1, <1>2, <1>3

\* What the server sends is made of bytes, however long the text.
LEMMA CreatedBytes ==
  ASSUME NEW type \in Byte, NEW random \in Seq(Byte), NEW text \in Seq(Byte),
         NEW length \in Nat
  PROVE  create_pdu(type, random, text, length) \in [Cell -> Byte]
<1>1. PICK typed, addressed, numbered, said, d :
        /\ typed = Typed(type)
        /\ addressed = write_to_buffer(typed, SrvMac, MacAt, MacAt + MAC_ADDRESS_LENGTH)
        /\ numbered = write_to_buffer(addressed, random, RandomAt, RandomAt + RANDOM_NUM_LENGTH)
        /\ said = write_to_buffer(numbered, text, DataAt, DataAt + length)
        /\ d = fill_empty_to_buffer(said, DataAt + length)
  OBVIOUS
<1>2. create_pdu(type, random, text, length) = d
  BY <1>1 DEF create_pdu
<1>3. /\ MacAt \in Int /\ RandomAt \in Int /\ DataAt \in Int
      /\ MacAt + MAC_ADDRESS_LENGTH \in Int /\ RandomAt + RANDOM_NUM_LENGTH \in Int
      /\ DataAt + length \in Int
  BY Offsets
<1>4. SrvMac \in Seq(Byte)
  BY TextAssumption, SeqMonotonic DEF Fits
<1>5. DOMAIN typed = Cell /\ typed[0] \in Byte
  BY <1>1, Offsets DEF Typed
<1>6. /\ DOMAIN addressed = Cell
      /\ \A i \in Cell : i \in MacAt .. (MacAt + MAC_ADDRESS_LENGTH) - 1 \/ typed[i] \in Byte
                           => addressed[i] \in Byte
  BY <1>1, <1>3, <1>4, <1>5, WrittenBytes
<1>7. /\ DOMAIN numbered = Cell
      /\ \A i \in Cell : i \in RandomAt .. (RandomAt + RANDOM_NUM_LENGTH) - 1
                           \/ addressed[i] \in Byte => numbered[i] \in Byte
  BY <1>1, <1>3, <1>6, WrittenBytes
<1>8. /\ DOMAIN said = Cell
      /\ \A i \in Cell : i \in DataAt .. (DataAt + length) - 1 \/ numbered[i] \in Byte
                           => said[i] \in Byte
  BY <1>1, <1>3, <1>7, WrittenBytes
<1>9. d = [i \in Cell |-> IF i >= DataAt + length THEN Nul ELSE said[i]]
  BY <1>1, <1>8 DEF fill_empty_to_buffer
<1>10. ASSUME NEW i \in Cell
       PROVE  i >= DataAt + length \/ said[i] \in Byte
  <2>1. CASE i = 0
    BY <1>5, <1>6, <1>7, <1>8, <2>1
  <2>2. CASE i \in MacAt .. (MacAt + MAC_ADDRESS_LENGTH) - 1
    BY <1>6, <1>7, <1>8, <2>2
  <2>3. CASE i \in RandomAt .. (RandomAt + RANDOM_NUM_LENGTH) - 1
    BY <1>7, <1>8, <2>3
  <2>4. CASE i \in DataAt .. DataAt + DATA_UDP_LENGTH - 1
    <3>1. i >= DataAt + length \/ i \in DataAt .. (DataAt + length) - 1
      BY <2>4, Offsets
    <3> QED
      BY <1>8, <3>1
  <2>5. \/ i = 0
        \/ i \in MacAt .. (MacAt + MAC_ADDRESS_LENGTH) - 1
        \/ i \in RandomAt .. (RandomAt + RANDOM_NUM_LENGTH) - 1
        \/ i \in DataAt .. DataAt + DATA_UDP_LENGTH - 1
    BY CellIn, Offsets
  <2> QED
    BY <2>1, <2>2, <2>3, <2>4, <2>5
<1>11. Nul \in Byte
  BY DEF Nul, Byte
<1> QED
  BY <1>2, <1>9, <1>10, <1>11

-----------------------------------------------------------------------------
(* What the two sides read.                                                *)

\* The string of a field that a NUL follows is as much of the text as the
\* field holds.
LEMMA EndedText ==
  ASSUME NEW b, NEW at \in Int, NEW n \in Nat, NEW s \in Seq(Byte \ {Nul}),
         Field(b, at, n, s), b[at + n] = Nul
  PROVE  StringAt(b, at, n + 1) = Take(s, n)
<1>1. PICK t : t = Take(s, n)
  OBVIOUS
<1>2. /\ t \in Seq(Byte \ {Nul})
      /\ Len(t) = IF n < Len(s) THEN n ELSE Len(s)
      /\ \A i \in 1 .. Len(t) : t[i] = s[i]
  BY <1>1, TakeIs
<1>3. Len(s) \in Nat /\ Len(t) \in 0 .. n
  BY <1>2, LenProperties
<1>4. ASSUME NEW i \in 1 .. n + 1
      PROVE  b[at + i - 1] = IF i <= Len(t) THEN t[i] ELSE Nul
  <2>1. CASE i = n + 1
    BY <1>3, <2>1
  <2>2. CASE i \in 1 .. n
    <3>1. b[at + i - 1] = IF i <= Len(s) THEN s[i] ELSE Nul
      BY <2>2 DEF Field
    <3>2. i <= Len(s) <=> i <= Len(t)
      BY <1>2, <1>3, <2>2
    <3> QED
      BY <1>2, <1>3, <2>2, <3>1, <3>2
  <2> QED
    BY <2>1, <2>2
<1>5. Field(b, at, n + 1, t)
  BY <1>4 DEF Field
<1>6. Fits(t, (n + 1) + 1)
  BY <1>2, <1>3 DEF Fits
<1>7. StringAt(b, at, n + 1) = t
  BY <1>5, <1>6, FieldString
<1> QED
  BY <1>1, <1>7

\* The server receives what was sent, and a NUL.
LEMMA ReceivedIs ==
  /\ \A s : Field(wire, DataAt, DATA_UDP_LENGTH, s) => Field(Received, DataAt, DATA_UDP_LENGTH, s)
  /\ \A i \in Cell : Received[i] = wire[i]
  /\ Received[DataAt + DATA_UDP_LENGTH] = Nul
<1>1. \A i \in Cell : Received[i] = wire[i]
  BY DEF Received
<1>2. ASSUME NEW s, Field(wire, DataAt, DATA_UDP_LENGTH, s)
      PROVE  Field(Received, DataAt, DATA_UDP_LENGTH, s)
  <2>1. DataAt \in Int /\ DATA_UDP_LENGTH \in Nat
        /\ \A i \in DataAt .. DataAt + DATA_UDP_LENGTH - 1 : i \in Cell
    BY Offsets
  <2> QED
    BY <1>1, <1>2, <2>1, FieldKept
<1>3. Received[MAX_UDP_MESSAGE_SIZE] = Nul
  BY Offsets DEF Received
<1>4. DataAt + DATA_UDP_LENGTH = MAX_UDP_MESSAGE_SIZE
  BY Offsets
<1> QED
  BY <1>1, <1>2, <1>3, <1>4

\* Looking in the right place, the server reads as much of the name as fits.
LEMMA NameRead ==
  ASSUME NEW name \in Seq(Byte \ {Nul, Comma}), NEW situation \in Seq(Byte \ {Nul}),
         Field(wire, DataAt, DATA_UDP_LENGTH, Joined(name, situation))
  PROVE  /\ RawName(DataAt) = Take(name, NAME_LENGTH - 1)
         /\ Until(RawName(DataAt), {Nul}) = Take(name, NAME_LENGTH - 1)
<1>1. PICK k : k = NAME_LENGTH - 1
  OBVIOUS
<1>2. k \in Nat /\ k <= DATA_UDP_LENGTH
  BY <1>1, LengthAssumption
<1>3. PICK w : w = Bytes(Received, DataAt, k)
  OBVIOUS
<1>4. /\ RawName(DataAt) = Until(w, {Comma})
      /\ Len(w) = k
      /\ \A i \in 1 .. k : w[i] = Received[DataAt + i - 1]
  BY <1>1, <1>2, <1>3, BytesAre, Offsets DEF RawName, Bytes
<1>5. PICK j : j = Joined(name, situation)
  OBVIOUS
<1>6. Len(name) \in Nat /\ Len(situation) \in Nat
  BY LenProperties
<1>7. /\ Len(j) = Len(name) + 1 + Len(situation)
      /\ \A i \in 1 .. Len(name) + 1 + Len(situation) :
           j[i] = IF i <= Len(name) THEN name[i]
                  ELSE IF i = Len(name) + 1 THEN Comma ELSE situation[i - Len(name) - 1]
  <2>1. Comma \in Byte /\ name \in Seq(Byte) /\ situation \in Seq(Byte)
    BY SeqMonotonic DEF Comma, Byte
  <2>2. /\ Len(Joined(name, situation)) = Len(name) + 1 + Len(situation)
        /\ \A i \in 1 .. Len(name) + 1 + Len(situation) :
             Joined(name, situation)[i] =
               IF i <= Len(name) THEN name[i]
               ELSE IF i = Len(name) + 1 THEN Comma ELSE situation[i - Len(name) - 1]
    BY <2>1, JoinedIs
  <2> QED
    BY <1>5, <2>2, Zenon
<1>8. Field(Received, DataAt, DATA_UDP_LENGTH, j)
  BY <1>5, ReceivedIs
<1>9. ASSUME NEW i \in 1 .. k, i <= Len(name) + 1
      PROVE  w[i] = IF i <= Len(name) THEN name[i] ELSE Comma
  <2>1. w[i] = IF i <= Len(j) THEN j[i] ELSE Nul
    <3>1. i \in 1 .. DATA_UDP_LENGTH
      BY <1>2, Offsets
    <3>2. Received[DataAt + i - 1] = IF i <= Len(j) THEN j[i] ELSE Nul
      BY <1>8, <3>1 DEF Field
    <3> QED
      BY <1>4, <3>2
  <2>2. i <= Len(j) /\ i \in 1 .. Len(name) + 1 + Len(situation)
    BY <1>2, <1>6, <1>7, <1>9
  <2>3. j[i] = IF i <= Len(name) THEN name[i] ELSE Comma
    BY <1>2, <1>6, <1>7, <1>9, <2>2
  <2> QED
    BY <2>1, <2>2, <2>3
<1>10. \A i \in 1 .. k : i <= Len(name) => w[i] = name[i] /\ name[i] \notin {Comma}
  <2> SUFFICES ASSUME NEW i \in 1 .. k, i <= Len(name)
               PROVE  w[i] = name[i] /\ name[i] \notin {Comma}
    OBVIOUS
  <2>1. name[i] \in Byte \ {Nul, Comma}
    BY <1>6, ElementOfSeq
  <2> QED
    BY <1>2, <1>6, <1>9, <2>1
<1>11. Len(name) < k => w[Len(name) + 1] \in {Comma}
  BY <1>2, <1>6, <1>9
<1>12. Until(w, {Comma}) = Take(name, k)
  BY <1>2, <1>4, <1>10, <1>11, UntilTake
<1>13. PICK t : t = Take(name, k)
  OBVIOUS
<1>14. t \in Seq(Byte \ {Nul, Comma})
  BY <1>2, <1>13, TakeIs
<1>15. \A i \in 1 .. Len(t) : t[i] \notin {Nul}
  BY <1>14, ElementOfSeq
<1>16. Until(t, {Nul}) = t
  BY <1>14, <1>15, UntilAll
<1> QED
  BY <1>1, <1>4, <1>12, <1>13, <1>16

\* Looking one byte early, it finds nobody: the NUL that ends the random number
\* is the first of the name.
LEMMA NameMissed ==
  ASSUME NEW random, Fits(random, RANDOM_NUM_LENGTH),
         Field(wire, RandomAt, RANDOM_NUM_LENGTH, random)
  PROVE  validate_sub_req(DataAt - 1) = 0
<1>1. PICK at : at = DataAt - 1
  OBVIOUS
<1>2. at \in Int /\ at = RandomAt + RANDOM_NUM_LENGTH - 1 /\ at \in Cell
  BY <1>1, Offsets
<1>3. Received[at] = Nul
  <2>1. Len(random) \in Nat /\ Len(random) < RANDOM_NUM_LENGTH
    BY LenProperties DEF Fits
  <2>2. RANDOM_NUM_LENGTH \in 1 .. RANDOM_NUM_LENGTH /\ ~(RANDOM_NUM_LENGTH <= Len(random))
    BY <2>1, Offsets
  <2>3. wire[RandomAt + RANDOM_NUM_LENGTH - 1] = Nul
    BY <2>2 DEF Field
  <2> QED
    BY <1>2, <2>3, ReceivedIs
<1>4. PICK k : k = NAME_LENGTH - 1
  OBVIOUS
<1>5. k \in Nat /\ 1 <= k
  BY <1>4, LengthAssumption
<1>6. PICK w : w = Bytes(Received, at, k)
  OBVIOUS
<1>7. /\ RawName(at) = Until(w, {Comma})
      /\ Len(w) = k
      /\ \A i \in 1 .. k : w[i] = Received[at + i - 1]
  BY <1>2, <1>4, <1>5, <1>6, BytesAre DEF RawName, Bytes
<1>8. PICK S : w \in Seq(S)
  BY <1>2, <1>5, <1>6, BytesAre
<1>9. w[1] = Nul
  <2>1. 1 \in 1 .. k /\ at + 1 - 1 = at
    BY <1>2, <1>5
  <2> QED
    BY <1>3, <1>7, <2>1
<1>10. PICK raw : raw = RawName(at)
  OBVIOUS
<1>11. raw \in Seq(S) /\ Len(raw) >= 1 /\ raw[1] = Nul
  <2>1. 1 \in 0 .. Len(w) /\ \A i \in 1 .. 1 : w[i] \notin {Comma}
    BY <1>5, <1>7, <1>9 DEF Nul, Comma
  <2>2. /\ Until(w, {Comma}) \in Seq(S)
        /\ Len(Until(w, {Comma})) \in 1 .. Len(w)
        /\ \A i \in 1 .. 1 : Until(w, {Comma})[i] = w[i]
    BY <1>8, <2>1, UntilFirst
  <2> QED
    BY <1>7, <1>9, <1>10, <2>2
<1>12. Until(raw, {Nul}) = <<>>
  <2>1. StopsAt(raw, {Nul}, 0) /\ Len(raw) \in Nat
    BY <1>11, LenProperties DEF StopsAt
  <2>2. Until(raw, {Nul}) = SubSeq(raw, 1, 0)
    BY <2>1, UntilIs
  <2> QED
    BY <2>2, SubSeqEmpty
<1>13. ASSUME NEW i \in DOMAIN Table
       PROVE  ~Found(at, i)
  <2>1. PICK R : R = [name : Seq(Byte) \ {<<>>}, mac : Seq(Byte)]
    OBVIOUS
  <2>2. Table[i] \in R
    <3>1. Table \in Seq(R)
      BY <2>1, TextAssumption
    <3> QED
      BY <3>1, LenProperties
  <2>3. Table[i].name # <<>>
    BY <2>1, <2>2
  <2> QED
    BY <1>10, <1>12, <2>3 DEF Found
<1> QED
  BY <1>1, <1>13 DEF validate_sub_req

\* Looking in the right place, it reads a situation that no array cuts as far as
\* it was sent.
LEMMA SituationRead ==
  ASSUME NEW name \in Seq(Byte \ {Nul, Comma}), NEW situation \in Seq(Byte \ {Nul}),
         Field(wire, DataAt, DATA_UDP_LENGTH, Joined(name, situation)),
         Len(name) < NAME_LENGTH
  PROVE  Situation(DataAt) = Take(situation, DATA_UDP_LENGTH - Len(name) - 1)
<1>1. /\ Len(name) \in Nat /\ Len(situation) \in Nat
      /\ NAME_LENGTH \in Nat /\ NAME_LENGTH <= DATA_UDP_LENGTH
  BY LengthAssumption, LenProperties
<1>2. RawName(DataAt) = name
  <2>1. NAME_LENGTH - 1 \in Nat /\ Len(name) <= NAME_LENGTH - 1
    BY <1>1
  <2>2. Take(name, NAME_LENGTH - 1) = name
    BY <2>1, TakeIs
  <2> QED
    BY <2>2, NameRead
<1>3. PICK s : s = Joined(name, situation)
  OBVIOUS
<1>4. PICK j : j = Len(name) + 1
  OBVIOUS
<1>5. j \in 0 .. DATA_UDP_LENGTH
  BY <1>1, <1>4, Offsets
<1>6. /\ Len(s) = j + Len(situation)
      /\ \A i \in 1 .. Len(situation) : s[j + i] = situation[i]
  <2>1. Comma \in Byte /\ name \in Seq(Byte) /\ situation \in Seq(Byte)
    BY SeqMonotonic DEF Comma, Byte
  <2>2. /\ Len(Joined(name, situation)) = Len(name) + 1 + Len(situation)
        /\ \A i \in 1 .. Len(name) + 1 + Len(situation) :
             Joined(name, situation)[i] =
               IF i <= Len(name) THEN name[i]
               ELSE IF i = Len(name) + 1 THEN Comma ELSE situation[i - Len(name) - 1]
    BY <2>1, JoinedIs
  <2>3. ASSUME NEW i \in 1 .. Len(situation)
        PROVE  s[j + i] = situation[i]
    <3>1. PICK k : k = j + i
      OBVIOUS
    <3>2. k \in 1 .. Len(name) + 1 + Len(situation) /\ ~(k <= Len(name)) /\ k # Len(name) + 1
          /\ k - Len(name) - 1 = i
      BY <1>1, <1>4, <3>1
    <3> QED
      BY <1>3, <2>2, <3>1, <3>2
  <2> QED
    BY <1>3, <1>4, <2>2, <2>3
<1>7. Field(Received, DataAt + j, DATA_UDP_LENGTH - j, situation)
  <2>1. Field(Received, DataAt, DATA_UDP_LENGTH, s)
    BY <1>3, ReceivedIs
  <2>2. DataAt \in Int /\ DATA_UDP_LENGTH \in Nat
    BY Offsets
  <2>3. Len(situation) \in Nat
    BY <1>1
  <2> QED
    BY <1>5, <1>6, <2>1, <2>2, <2>3, FieldTail, Zenon
<1>8. PICK from, n : from = DataAt + j /\ n = DATA_UDP_LENGTH - j
  OBVIOUS
<1>9. /\ from \in Int /\ n \in Nat
      /\ from + n = DataAt + DATA_UDP_LENGTH
      /\ MAX_UDP_MESSAGE_SIZE + 1 - from = n + 1
      /\ from = DataAt + Len(name) + 1
  BY <1>1, <1>4, <1>5, <1>8, Offsets
<1>10. StringAt(Received, from, n + 1) = Take(situation, n)
  BY <1>7, <1>8, <1>9, ReceivedIs, EndedText
<1>11. Situation(DataAt) = StringAt(Received, from, MAX_UDP_MESSAGE_SIZE + 1 - from)
  BY <1>2, <1>9 DEF Situation
<1>12. n = DATA_UDP_LENGTH - Len(name) - 1
  BY <1>1, <1>4, <1>8, Offsets
<1> QED
  BY <1>9, <1>10, <1>11, <1>12

\* Wherever it looks, what it takes for the situation fits.
LEMMA SituationFits ==
  ASSUME Len(RawName(DataAt)) \in 0 .. NAME_LENGTH - 1
  PROVE  Len(Situation(DataAt)) < DATA_UDP_LENGTH
<1>1. PICK from, n : /\ from = DataAt + Len(RawName(DataAt)) + 1
                     /\ n = MAX_UDP_MESSAGE_SIZE + 1 - from
  OBVIOUS
<1>2. /\ from \in Int /\ n \in Nat /\ n > 0 /\ n <= DATA_UDP_LENGTH
      /\ from + n - 1 = DataAt + DATA_UDP_LENGTH
  BY <1>1, Offsets, LengthAssumption
<1>3. Situation(DataAt) = StringAt(Received, from, n)
  BY <1>1 DEF Situation
<1>4. Received[from + n - 1] = Nul
  BY <1>2, ReceivedIs
<1>5. /\ Len(StringAt(Received, from, n)) \in 0 .. n
      /\ Len(StringAt(Received, from, n)) < n
  BY <1>2, <1>4, StringShort
<1> QED
  BY <1>2, <1>3, <1>5, Offsets

-----------------------------------------------------------------------------
(* What the server makes of SUBS_INFO.                                     *)

\* What a configuration is made of.
LEMMA ConfigIs ==
  ASSUME cfg \in Config
  PROVE  /\ cfg.name \in Seq(Byte \ {Nul, Comma}) /\ cfg.mac \in Seq(Byte)
         /\ cfg.situation \in Seq(Byte \ {Nul})
         /\ cfg.port \in Seq(Digit) /\ Len(cfg.port) \in 1 .. PORT_LENGTH
         /\ cfg.elements \in Seq(Byte \ {Nul})
<1>1. cfg \in [name : Seq(Byte \ {Nul, Comma}), mac : Seq(Byte),
               situation : Seq(Byte \ {Nul}), port : Seq(Digit) \ {<<>>},
               elements : Seq(Byte \ {Nul})]
  BY TextAssumption
<1>2. cfg.port \in Seq(Digit) /\ cfg.port # <<>> /\ Len(cfg.port) <= PORT_LENGTH
  BY <1>1, TextAssumption
<1>3. Len(cfg.port) \in Nat \ {0}
  BY <1>2, EmptySeq
<1> QED
  BY <1>1, <1>2, <1>3, Offsets

\* The client's texts have no NUL.
LEMMA SaidIs ==
  ASSUME cfg \in Config
  PROVE  /\ NameAndSituation \in Seq(Byte \ {Nul})
         /\ PortAndElements \in Seq(Byte \ {Nul})
<1>1. /\ cfg.name \in Seq(Byte \ {Nul, Comma}) /\ cfg.situation \in Seq(Byte \ {Nul})
      /\ cfg.port \in Seq(Digit) /\ cfg.elements \in Seq(Byte \ {Nul})
  BY ConfigIs
<1>2. /\ Comma \in Byte \ {Nul}
      /\ Byte \ {Nul, Comma} \subseteq Byte \ {Nul} /\ Digit \subseteq Byte \ {Nul}
  BY DEF Comma, Byte, Nul, Digit
<1>3. cfg.name \in Seq(Byte \ {Nul}) /\ cfg.port \in Seq(Byte \ {Nul})
  BY <1>1, <1>2, SeqMonotonic
<1> QED
  BY <1>1, <1>2, <1>3, JoinedIs DEF NameAndSituation, PortAndElements

\* The server reads what of port and elements was sent, and the port in it.
LEMMA InfoRead ==
  ASSUME cfg \in Config, Field(wire, DataAt, DATA_UDP_LENGTH, PortAndElements)
  PROVE  InfoText = Take(PortAndElements, DATA_UDP_LENGTH) /\ PortText = cfg.port
<1>1. PICK s \in Seq(Byte \ {Nul}) : s = PortAndElements
  BY SaidIs
<1>2. PICK p : p = cfg.port
  OBVIOUS
<1>3. /\ p \in Seq(Byte) /\ Len(p) \in Nat
      /\ Len(p) <= PORT_LENGTH /\ Len(p) <= DATA_UDP_LENGTH
      /\ \A i \in 1 .. Len(p) : p[i] # Comma
  <2>1. p \in Seq(Digit) /\ Len(p) \in 1 .. PORT_LENGTH
    BY <1>2, ConfigIs
  <2>2. Digit \subseteq Byte /\ Comma \notin Digit
    BY DEF Digit, Byte, Comma
  <2>3. p \in Seq(Byte)
    BY <2>1, <2>2, SeqMonotonic
  <2>4. \A i \in 1 .. Len(p) : p[i] \in Digit
    BY <2>1, ElementOfSeq
  <2> QED
    BY <2>1, <2>2, <2>3, <2>4, Offsets
<1>4. PICK e : e = cfg.elements
  OBVIOUS
<1>5. e \in Seq(Byte) /\ Len(e) \in Nat
  <2>1. e \in Seq(Byte \ {Nul})
    BY <1>4, ConfigIs
  <2> QED
    BY <2>1, SeqMonotonic, LenProperties
<1>6. /\ Len(s) = Len(p) + 1 + Len(e)
      /\ \A i \in 1 .. Len(p) + 1 + Len(e) :
           s[i] = IF i <= Len(p) THEN p[i]
                  ELSE IF i = Len(p) + 1 THEN Comma ELSE e[i - Len(p) - 1]
  <2>1. Comma \in Byte
    BY DEF Comma, Byte
  <2>2. /\ Len(Joined(p, e)) = Len(p) + 1 + Len(e)
        /\ \A i \in 1 .. Len(p) + 1 + Len(e) :
             Joined(p, e)[i] = IF i <= Len(p) THEN p[i]
                               ELSE IF i = Len(p) + 1 THEN Comma ELSE e[i - Len(p) - 1]
    BY <1>3, <1>5, <2>1, JoinedIs
  <2>3. s = Joined(p, e)
    BY <1>1, <1>2, <1>4 DEF PortAndElements
  <2> QED
    BY <2>2, <2>3, Zenon
<1>7. PICK t : t = Take(s, DATA_UDP_LENGTH)
  OBVIOUS
<1>8. InfoText = t
  <2>1. Field(Received, DataAt, DATA_UDP_LENGTH, s)
    BY <1>1, ReceivedIs
  <2>2. DataAt \in Int /\ DATA_UDP_LENGTH \in Nat /\ DATA_UDP_LENGTH \in 0 .. DATA_UDP_LENGTH
    BY Offsets
  <2> QED
    BY <1>7, <2>1, <2>2, FieldText DEF InfoText
<1>9. /\ Len(t) = IF DATA_UDP_LENGTH < Len(s) THEN DATA_UDP_LENGTH ELSE Len(s)
      /\ \A i \in 1 .. Len(t) : t[i] = s[i]
  BY <1>7, Offsets, TakeIs
<1>10. Len(t) \in Nat /\ Len(p) <= Len(t)
  BY <1>3, <1>5, <1>6, <1>9, Offsets
<1>11. \A i \in 1 .. Len(t) : i <= Len(p) => t[i] = p[i] /\ p[i] \notin {Comma}
  <2> SUFFICES ASSUME NEW i \in 1 .. Len(t), i <= Len(p)
               PROVE  t[i] = p[i] /\ p[i] \notin {Comma}
    OBVIOUS
  <2>1. i \in 1 .. Len(p) /\ i \in 1 .. Len(p) + 1 + Len(e)
    BY <1>3, <1>5, <1>10
  <2> QED
    BY <1>3, <1>6, <1>9, <2>1
<1>12. Len(p) < Len(t) => t[Len(p) + 1] \in {Comma}
  <2> SUFFICES ASSUME Len(p) < Len(t)
               PROVE  t[Len(p) + 1] \in {Comma}
    OBVIOUS
  <2>1. PICK i : i = Len(p) + 1
    OBVIOUS
  <2>2. i \in 1 .. Len(t) /\ i \in 1 .. Len(p) + 1 + Len(e) /\ ~(i <= Len(p))
    BY <1>3, <1>5, <1>10, <2>1
  <2> QED
    BY <1>6, <1>9, <2>1, <2>2
<1>13. Until(t, {Comma}) = Take(p, Len(t))
  BY <1>3, <1>10, <1>11, <1>12, UntilTake
<1>14. Take(p, Len(t)) = p /\ Take(p, PORT_LENGTH) = p
  BY <1>3, <1>10, Offsets, TakeIs
<1> QED
  BY <1>1, <1>2, <1>7, <1>8, <1>13, <1>14 DEF PortText

\* The port it stores begins with the client's and fits in its array.
LEMMA InfoPortIs ==
  ASSUME cfg \in Config, PortText = cfg.port,
         NEW fresh \in [1 .. PORT_LENGTH - Len(PortText) -> Fresh]
  PROVE  /\ InfoPort(fresh) \in Seq(Byte)
         /\ Len(cfg.port) <= Len(InfoPort(fresh)) /\ Len(InfoPort(fresh)) <= PORT_LENGTH
         /\ Take(InfoPort(fresh), Len(cfg.port)) = cfg.port
<1>1. PICK p : p = cfg.port
  OBVIOUS
<1>2. p \in Seq(Digit) /\ Len(p) \in Nat /\ Len(p) <= PORT_LENGTH
  BY <1>1, ConfigIs
<1>3. p \in Seq(Byte)
  <2>1. Digit \subseteq Byte
    BY DEF Digit, Byte
  <2> QED
    BY <1>2, <2>1, SeqMonotonic
<1>4. fresh \in Seq(Byte)
  <2>1. PORT_LENGTH - Len(p) \in Nat
    BY <1>2, Offsets
  <2>2. fresh \in [1 .. PORT_LENGTH - Len(p) -> Byte]
    BY <1>1, TextAssumption
  <2> QED
    BY <2>1, <2>2, Sequence
<1>5. PICK w : w = p \o fresh
  OBVIOUS
<1>6. /\ w \in Seq(Byte) /\ Len(w) = Len(p) + Len(fresh)
      /\ \A i \in 1 .. Len(p) + Len(fresh) :
           w[i] = IF i <= Len(p) THEN p[i] ELSE fresh[i - Len(p)]
  BY <1>3, <1>4, <1>5, ConcatProperties
<1>7. Len(p) \in 0 .. Len(w)
  BY <1>2, <1>4, <1>6, LenProperties
<1>8. ASSUME NEW i \in 1 .. Len(p)
      PROVE  w[i] = p[i] /\ w[i] \notin Byte \ Digit
  <2>1. i \in 1 .. Len(p) + Len(fresh)
    BY <1>2, <1>6, <1>7
  <2>2. p[i] \in Digit
    BY <1>2, ElementOfSeq
  <2> QED
    BY <1>6, <2>1, <2>2
<1>9. PICK stop, u : stop = Byte \ Digit /\ u = Until(w, stop)
  OBVIOUS
<1>10. /\ u \in Seq(Byte) /\ Len(u) \in Len(p) .. Len(w)
       /\ \A i \in 1 .. Len(p) : u[i] = w[i]
  <2>1. \A i \in 1 .. Len(p) : w[i] \notin stop
    BY <1>8, <1>9
  <2>2. /\ Until(w, stop) \in Seq(Byte)
        /\ Len(Until(w, stop)) \in Len(p) .. Len(w)
        /\ \A i \in 1 .. Len(p) : Until(w, stop)[i] = w[i]
    <3>1. PICK n : n = Len(p)
      OBVIOUS
    <3>2. w \in Seq(Byte) /\ n \in 0 .. Len(w) /\ \A i \in 1 .. n : w[i] \notin stop
      BY <1>6, <1>7, <2>1, <3>1
    <3>3. /\ Until(w, stop) \in Seq(Byte)
          /\ Len(Until(w, stop)) \in n .. Len(w)
          /\ \A i \in 1 .. n : Until(w, stop)[i] = w[i]
      BY <3>2, UntilFirst
    <3> QED
      BY <3>1, <3>3
  <2> QED
    BY <1>9, <2>2
<1>11. Len(p) <= Len(u) /\ \A i \in 1 .. Len(p) : u[i] = p[i]
  BY <1>8, <1>10
<1>12. Take(u, Len(p)) = p
  BY <1>3, <1>10, <1>11, TakePrefix
<1>13. InfoPort(fresh) = u
  BY <1>1, <1>5, <1>9 DEF InfoPort
<1>14. Len(u) <= PORT_LENGTH
  <2>1. Len(fresh) = PORT_LENGTH - Len(p)
    BY <1>1, <1>2, <1>4, Offsets, LenProperties
  <2> QED
    BY <1>2, <1>6, <1>10, <2>1, Offsets
<1> QED
  BY <1>1, <1>10, <1>11, <1>12, <1>13, <1>14

\* The elements it stores are the client's, as far as they were sent, and at
\* most one byte.
LEMMA InfoElementsAre ==
  ASSUME cfg \in Config, NEW text, text = Take(PortAndElements, DATA_UDP_LENGTH),
         InfoText = text, PortText = cfg.port, NEW fresh \in Fresh,
         NEW elements, elements = From(text, Len(cfg.port) + 2)
  PROVE  /\ Take(InfoElements(fresh), Len(elements)) = elements
         /\ Len(InfoElements(fresh)) <= Len(elements) + 1
         /\ Len(InfoElements(fresh)) < DATA_UDP_LENGTH
<1>1. PICK n : n = Len(cfg.port)
  OBVIOUS
<1>2. n \in Nat /\ n >= 1
  BY <1>1, ConfigIs
<1>3. text \in Seq(Byte \ {Nul}) /\ Len(text) \in Nat /\ Len(text) <= DATA_UDP_LENGTH
  <2>1. /\ text \in Seq(Byte \ {Nul})
        /\ Len(text) = IF DATA_UDP_LENGTH < Len(PortAndElements) THEN DATA_UDP_LENGTH
                       ELSE Len(PortAndElements)
    BY SaidIs, Offsets, TakeIs
  <2>2. Len(text) \in Nat /\ Len(PortAndElements) \in Nat
    BY <2>1, SaidIs, LenProperties
  <2> QED
    BY <2>1, <2>2, Offsets
<1>4. text \in Seq(Byte)
  BY <1>3, SeqMonotonic
<1>5. /\ elements \in Seq(Byte) /\ Len(elements) \in Nat
      /\ Len(elements) <= Len(text) - n - 1 \/ Len(elements) = 0
  <2>1. \A i \in n + 2 .. Len(text) : text[i] \in Byte
    <3>1. \A i \in n + 2 .. Len(text) : i \in 1 .. Len(text)
      BY <1>2, <1>3
    <3> QED
      BY <1>4, <3>1, ElementOfSeq
  <2>2. elements = SubSeq(text, n + 2, Len(text))
    BY <1>1 DEF From
  <2>3. PICK m, k : m = n + 2 /\ k = Len(text)
    OBVIOUS
  <2>4. m \in Int /\ k \in Int /\ \A i \in m .. k : text[i] \in Byte
    BY <1>2, <1>3, <2>1, <2>3
  <2>5. /\ SubSeq(text, m, k) \in Seq(Byte)
        /\ Len(SubSeq(text, m, k)) = IF m <= k THEN k - m + 1 ELSE 0
    BY <2>4, SubSeqProperties
  <2>6. elements \in Seq(Byte) /\ Len(elements) = IF m <= k THEN k - m + 1 ELSE 0
    BY <2>2, <2>3, <2>5
  <2> QED
    BY <1>2, <1>3, <2>3, <2>4, <2>6
<1>6. CASE PortText = InfoText
  <2>1. InfoElements(fresh) = <<>> /\ Len(InfoElements(fresh)) = 0
    BY <1>6 DEF InfoElements
  <2>2. Len(text) = n
    BY <1>1, <1>6
  <2>3. elements = <<>>
    BY <1>1, <1>2, <2>2, SubSeqEmpty DEF From
  <2>4. Take(<<>>, Len(elements)) = <<>>
    BY <2>3, SubSeqEmpty DEF Take
  <2> QED
    BY <1>5, <2>1, <2>3, <2>4, Offsets
<1>7. CASE PortText # InfoText
  <2>1. PICK u : u = Until(<<fresh>>, {Nul})
    OBVIOUS
  <2>2. u \in Seq(Byte) /\ Len(u) \in 0 .. 1
    <3>1. PICK w : w = <<fresh>>
      OBVIOUS
    <3>2. w \in Seq(Byte) /\ Len(w) = 1
      BY <3>1, TextAssumption
    <3>3. 0 \in 0 .. Len(w) /\ \A i \in 1 .. 0 : w[i] \notin {Nul}
      BY <3>2
    <3>4. Until(w, {Nul}) \in Seq(Byte) /\ Len(Until(w, {Nul})) \in 0 .. Len(w)
      BY <3>2, <3>3, UntilFirst
    <3> QED
      BY <2>1, <3>1, <3>2, <3>4
  <2>3. PICK w : w = elements \o u
    OBVIOUS
  <2>4. InfoElements(fresh) = w
    BY <1>7, <2>1, <2>3 DEF InfoElements
  <2>5. /\ w \in Seq(Byte) /\ Len(w) = Len(elements) + Len(u)
        /\ \A i \in 1 .. Len(elements) + Len(u) :
             w[i] = IF i <= Len(elements) THEN elements[i] ELSE u[i - Len(elements)]
    BY <1>5, <2>2, <2>3, ConcatProperties
  <2>6. Len(elements) <= Len(w) /\ \A i \in 1 .. Len(elements) : w[i] = elements[i]
    <3>1. \A i \in 1 .. Len(elements) : i \in 1 .. Len(elements) + Len(u)
      BY <1>5, <2>2
    <3> QED
      BY <1>5, <2>2, <2>5, <3>1
  <2>7. Take(w, Len(elements)) = elements
    BY <1>5, <2>5, <2>6, TakePrefix
  <2>8. Len(w) <= Len(elements) + 1 /\ Len(w) < DATA_UDP_LENGTH
    <3>1. PICK k, m : k = Len(elements) /\ m = Len(u)
      OBVIOUS
    <3>2. k \in Nat /\ m \in 0 .. 1 /\ Len(w) = k + m /\ DATA_UDP_LENGTH \in Nat
      BY <1>5, <2>2, <2>5, <3>1, Offsets
    <3>3. k <= DATA_UDP_LENGTH - 2
      BY <1>2, <1>3, <1>5, <3>1, Offsets
    <3>4. k + m <= k + 1 /\ k + m < DATA_UDP_LENGTH
      BY <3>2, <3>3
    <3> QED
      BY <3>1, <3>2, <3>4, Zenon
  <2> QED
    BY <2>4, <2>7, <2>8
<1> QED
  BY <1>6, <1>7

-----------------------------------------------------------------------------
(* The session.                                                            *)

\* What text the last datagram has.
Said ==
  /\ point \in {"asked", "greeted"} => Field(wire, DataAt, DATA_UDP_LENGTH, NameAndSituation)
  /\ point = "informed" => Field(wire, DataAt, DATA_UDP_LENGTH, PortAndElements)
  /\ point = "acknowledged" /\ Len(cfg.port) = PORT_LENGTH - 1 =>
       Field(wire, DataAt, DATA_UDP_LENGTH, cfg.port)
  /\ point = "echo" =>
       /\ Bears(wire, SrvMac, entry.random_num)
       /\ Field(wire, DataAt, DATA_UDP_LENGTH, entry.data_hello)
       /\ entry.data_hello = Take(NameAndSituation, DATA_UDP_LENGTH)

\* What the client sends in its HELLO_REJ as the server's address.
KnownMac == client.mac \in {<<>>, SrvMac}

\* What ReadHello has found, in this session or in an earlier one.
EchoKept ==
  point # "echo" /\ entry.data_hello # <<>> =>
    (echoed <=> Len(NameAndSituation) < DATA_UDP_LENGTH)

TextInv == PduInv /\ TypeOK /\ Said /\ KnownMac /\ FoundIsSender /\ InfoKept /\ EchoKept

\* Where the server has found the sender it has looked in the right place.
LEMMA FoundAtData ==
  ASSUME PduInv, point = "asked", NEW at \in NameFrom, validate_sub_req(at) # 0
  PROVE  at = DataAt
<1>1. Fits(claim, RANDOM_NUM_LENGTH) /\ Field(wire, RandomAt, RANDOM_NUM_LENGTH, claim)
  BY DEF PduInv, Held, OnWire, Bears
<1>2. validate_sub_req(DataAt - 1) = 0
  BY <1>1, NameMissed
<1> QED
  BY <1>2 DEF NameFrom

\* What the server has of a client it has found.
LEMMA AskedIs ==
  ASSUME PduInv, Said, point = "asked", validate_sub_req(DataAt) # 0
  PROVE  /\ Table[validate_sub_req(DataAt)].mac = cfg.mac
         /\ Table[validate_sub_req(DataAt)].name = Take(cfg.name, NAME_LENGTH - 1)
         /\ Len(cfg.name) < NAME_LENGTH =>
              Joined(cfg.name, Situation(DataAt)) = Take(NameAndSituation, DATA_UDP_LENGTH)
         /\ Len(Situation(DataAt)) < DATA_UDP_LENGTH
<1>1. /\ cfg.name \in Seq(Byte \ {Nul, Comma}) /\ cfg.situation \in Seq(Byte \ {Nul})
      /\ Field(wire, DataAt, DATA_UDP_LENGTH, Joined(cfg.name, cfg.situation))
  BY ConfigIs DEF PduInv, Held, Said, NameAndSituation
<1>2. PICK t : t = Take(cfg.name, NAME_LENGTH - 1)
  OBVIOUS
<1>3. RawName(DataAt) = t /\ Until(RawName(DataAt), {Nul}) = t
  BY <1>1, <1>2, NameRead
<1>4. ReadMac = cfg.mac
  <2>1. Bears(wire, cfg.mac, claim) /\ Fits(claim, RANDOM_NUM_LENGTH)
        /\ Fits(cfg.mac, MAC_ADDRESS_LENGTH)
    BY TextAssumption DEF PduInv, Held, OnWire
  <2> QED
    BY <2>1, Reads
<1>5. Found(DataAt, validate_sub_req(DataAt))
  BY FoundIs
<1>6. ASSUME Len(cfg.name) < NAME_LENGTH
      PROVE  Joined(cfg.name, Situation(DataAt)) = Take(NameAndSituation, DATA_UDP_LENGTH)
  <2>1. Situation(DataAt) = Take(cfg.situation, DATA_UDP_LENGTH - Len(cfg.name) - 1)
    BY <1>1, <1>6, SituationRead
  <2>2. cfg.name \in Seq(Byte) /\ cfg.situation \in Seq(Byte) /\ Comma \in Byte
    BY <1>1, SeqMonotonic DEF Comma, Byte
  <2>3. DATA_UDP_LENGTH \in Nat /\ DATA_UDP_LENGTH > Len(cfg.name)
    BY <1>1, <1>6, LenProperties, LengthAssumption
  <2>4. Joined(cfg.name, Take(cfg.situation, DATA_UDP_LENGTH - Len(cfg.name) - 1))
          = Take(Joined(cfg.name, cfg.situation), DATA_UDP_LENGTH)
    BY <2>2, <2>3, JoinedTake
  <2> QED
    BY <2>1, <2>4 DEF NameAndSituation
<1>7. Len(Situation(DataAt)) < DATA_UDP_LENGTH
  <2>1. NAME_LENGTH - 1 \in Nat
    BY LengthAssumption
  <2>2. /\ t \in Seq(Byte \ {Nul, Comma})
        /\ Len(t) = IF NAME_LENGTH - 1 < Len(cfg.name) THEN NAME_LENGTH - 1 ELSE Len(cfg.name)
    BY <1>1, <1>2, <2>1, TakeIs
  <2>3. Len(t) \in Nat /\ Len(cfg.name) \in Nat
    BY <1>1, <2>2, LenProperties
  <2>4. Len(t) \in 0 .. NAME_LENGTH - 1
    BY <2>1, <2>2, <2>3
  <2> QED
    BY <1>3, <2>4, SituationFits
<1> QED
  BY <1>2, <1>3, <1>4, <1>5, <1>6, <1>7 DEF Found

\* What the server makes of SUBS_INFO, whatever its memory holds.
LEMMA InformedIs ==
  ASSUME PduInv, Said, point = "informed",
         NEW fresh \in [1 .. PORT_LENGTH - Len(PortText) -> Fresh], NEW byte \in Fresh,
         NEW elements,
         elements = From(Take(PortAndElements, DATA_UDP_LENGTH), Len(cfg.port) + 2)
  PROVE  /\ InfoPort(fresh) \in Seq(Byte)
         /\ Take(InfoPort(fresh), Len(cfg.port)) = cfg.port
         /\ Len(InfoPort(fresh)) <= PORT_LENGTH
         /\ Take(InfoElements(byte), Len(elements)) = elements
         /\ Len(InfoElements(byte)) <= Len(elements) + 1
         /\ Len(InfoElements(byte)) < DATA_UDP_LENGTH
<1>1. cfg \in Config /\ Field(wire, DataAt, DATA_UDP_LENGTH, PortAndElements)
  BY DEF PduInv, Held, Said
<1>2. PICK text : text = Take(PortAndElements, DATA_UDP_LENGTH)
  OBVIOUS
<1>3. InfoText = text /\ PortText = cfg.port
  BY <1>1, <1>2, InfoRead
<1>4. /\ InfoPort(fresh) \in Seq(Byte) /\ Take(InfoPort(fresh), Len(cfg.port)) = cfg.port
      /\ Len(InfoPort(fresh)) <= PORT_LENGTH
  BY <1>1, <1>3, InfoPortIs
<1>5. /\ Take(InfoElements(byte), Len(elements)) = elements
      /\ Len(InfoElements(byte)) <= Len(elements) + 1
      /\ Len(InfoElements(byte)) < DATA_UDP_LENGTH
  BY <1>1, <1>2, <1>3, InfoElementsAre
<1> QED
  BY <1>4, <1>5

\* What the server reads in a HELLO: as much of the client's data as was sent.
LEMMA GreetedIs ==
  ASSUME PduInv, Said, point = "greeted",
         NEW data, data = read_from_buffer(Received, DataAt, DATA_UDP_LENGTH)
  PROVE  /\ data = Take(NameAndSituation, DATA_UDP_LENGTH)
         /\ data \in Seq(Byte \ {Nul})
         /\ Len(data) \in Nat /\ Len(data) <= DATA_UDP_LENGTH
         /\ Len(data) = IF DATA_UDP_LENGTH < Len(NameAndSituation) THEN DATA_UDP_LENGTH
                        ELSE Len(NameAndSituation)
<1>1. NameAndSituation \in Seq(Byte \ {Nul})
  BY SaidIs DEF PduInv, Held
<1>2. Field(Received, DataAt, DATA_UDP_LENGTH, NameAndSituation)
  BY ReceivedIs DEF Said
<1>3. DataAt \in Int /\ DATA_UDP_LENGTH \in Nat /\ DATA_UDP_LENGTH \in 0 .. DATA_UDP_LENGTH
  BY Offsets
<1>4. data = Take(NameAndSituation, DATA_UDP_LENGTH)
  BY <1>1, <1>2, <1>3, FieldText DEF read_from_buffer
<1>5. /\ data \in Seq(Byte \ {Nul})
      /\ Len(data) = IF DATA_UDP_LENGTH < Len(NameAndSituation) THEN DATA_UDP_LENGTH
                     ELSE Len(NameAndSituation)
  BY <1>1, <1>3, <1>4, TakeIs
<1>6. Len(data) \in Nat /\ Len(NameAndSituation) \in Nat
  BY <1>1, <1>5, LenProperties
<1> QED
  BY <1>3, <1>4, <1>5, <1>6

\* The client takes the echo for its own when the last byte of the data is free.
LEMMA EchoedIs ==
  ASSUME PduInv, Said, point = "echo"
  PROVE  /\ decode_bytes(MacAt, RandomAt - 1) = client.mac
         /\ decode_bytes(RandomAt, DataAt - 1) = client.random_num
         /\ decode_bytes(DataAt, MAX_UDP_MESSAGE_SIZE - 1) = NameAndSituation
              <=> Len(NameAndSituation) < DATA_UDP_LENGTH
<1>1. /\ decode_bytes(MacAt, RandomAt - 1) = client.mac
      /\ decode_bytes(RandomAt, DataAt - 1) = client.random_num
  <2>1. /\ Bears(wire, SrvMac, entry.random_num) /\ Fits(entry.random_num, RANDOM_NUM_LENGTH)
        /\ Fits(SrvMac, MAC_ADDRESS_LENGTH)
        /\ client.random_num = entry.random_num /\ client.mac = SrvMac
    BY TextAssumption DEF PduInv, Held, Same, InSession, Said
  <2> QED
    BY <2>1, Reads
<1>2. PICK s \in Seq(Byte \ {Nul}) : s = NameAndSituation
  BY SaidIs DEF PduInv, Held
<1>3. PICK t : t = Take(s, DATA_UDP_LENGTH)
  OBVIOUS
<1>4. /\ t \in Seq(Byte \ {Nul}) /\ Len(t) \in Nat /\ Len(s) \in Nat
      /\ Len(s) <= DATA_UDP_LENGTH => t = s
  <2>1. t \in Seq(Byte \ {Nul}) /\ (Len(s) <= DATA_UDP_LENGTH => t = s)
    BY <1>3, Offsets, TakeIs
  <2> QED
    BY <2>1, LenProperties
<1>5. PICK k : k = DATA_UDP_LENGTH - 1
  OBVIOUS
<1>6. /\ k \in Nat /\ k \in 0 .. DATA_UDP_LENGTH
      /\ DataAt \in Int /\ DATA_UDP_LENGTH \in Nat
      /\ (MAX_UDP_MESSAGE_SIZE - 1) - DataAt = k
  BY <1>5, Offsets
<1>7. PICK u : u = Take(t, k)
  OBVIOUS
<1>8. decode_bytes(DataAt, MAX_UDP_MESSAGE_SIZE - 1) = u
  <2>1. Field(wire, DataAt, DATA_UDP_LENGTH, t)
    BY <1>2, <1>3 DEF Said
  <2>2. StringAt(wire, DataAt, k) = Take(t, k)
    BY <1>4, <1>6, <2>1, FieldText
  <2> QED
    BY <1>6, <1>7, <2>2 DEF decode_bytes
<1>9. /\ Len(u) = IF k < Len(t) THEN k ELSE Len(t)
      /\ Len(t) <= k => u = t
  BY <1>4, <1>6, <1>7, TakeIs
<1>10. u = s <=> Len(s) < DATA_UDP_LENGTH
  <2>1. ASSUME u = s
        PROVE  Len(s) < DATA_UDP_LENGTH
    <3>1. Len(u) <= k
      BY <1>4, <1>6, <1>9
    <3> QED
      BY <1>4, <1>5, <1>6, <2>1, <3>1
  <2>2. ASSUME Len(s) < DATA_UDP_LENGTH
        PROVE  u = s
    <3>1. t = s /\ Len(t) <= k
      BY <1>4, <1>5, <1>6, <2>2
    <3> QED
      BY <1>9, <3>1
  <2> QED
    BY <2>1, <2>2
<1> QED
  BY <1>1, <1>2, <1>8, <1>10

-----------------------------------------------------------------------------
(* Each action.                                                            *)

LEMMA TextInitially == Init => TextInv
<1> SUFFICES ASSUME Init
             PROVE  TextInv
  OBVIOUS
<1>1. PduInv
  BY PduInitially
<1>2. wire \in [Cell -> Byte]
  BY NulByte DEF Init
<1>3. TypeOK
  <2>1. /\ entry.pos = 0 /\ entry.data_hello = <<>> /\ entry.elements_data = <<>>
        /\ entry.situation = <<>> /\ echoed = TRUE /\ cfg \in Config
    BY DEF Init
  <2>2. DATA_UDP_LENGTH > 0 /\ Len(<<>>) = 0 /\ DATA_UDP_LENGTH \in Nat
    BY Offsets
  <2> QED
    BY <1>2, <2>1, <2>2 DEF TypeOK
<1>4. Said /\ KnownMac /\ FoundIsSender /\ InfoKept /\ EchoKept
  BY DEF Init, Said, KnownMac, FoundIsSender, InfoKept, EchoKept
<1> QED
  BY <1>1, <1>3, <1>4 DEF TextInv

LEMMA SaidStep ==
  ASSUME TextInv, [Next]_vars
  PROVE  Said'
<1> USE DEF Step
<1>1. CASE SendReq \/ SendHello
  <2>1. Field(wire', DataAt, DATA_UDP_LENGTH, NameAndSituation)
    BY <1>1, Packed DEF SendReq, SendHello, Send
  <2>2. point' \in {"asked", "greeted"} /\ cfg' = cfg
    BY <1>1 DEF SendReq, SendHello
  <2> QED
    BY <2>1, <2>2 DEF Said, NameAndSituation
<1>2. CASE SendInfo
  <2>1. Field(wire', DataAt, DATA_UDP_LENGTH, PortAndElements)
    BY <1>2, Packed DEF SendInfo, Send
  <2>2. point' = "informed" /\ cfg' = cfg
    BY <1>2 DEF SendInfo
  <2> QED
    BY <2>1, <2>2 DEF Said, PortAndElements
<1>3. CASE Late
  <2>1. /\ point = "informed" => Field(wire', DataAt, DATA_UDP_LENGTH, PortAndElements)
        /\ point = "greeted" => Field(wire', DataAt, DATA_UDP_LENGTH, NameAndSituation)
    BY <1>3, Packed DEF Late, Send
  <2>2. point' = point /\ point \in {"informed", "greeted"} /\ cfg' = cfg
    BY <1>3 DEF Late
  <2> QED
    BY <2>1, <2>2 DEF Said, PortAndElements, NameAndSituation
<1>4. CASE InfoAck
  <2>1. PICK fresh \in [1 .. PORT_LENGTH - Len(PortText) -> Fresh], byte \in Fresh :
          entry' = [entry EXCEPT !.tcp_port = InfoPort(fresh),
                                 !.elements_data = InfoElements(byte)]
    BY <1>4 DEF InfoAck
  <2>2. PduInv /\ Said /\ point = "informed"
    BY <1>4 DEF InfoAck, TextInv
  <2>3. PICK elements :
          elements = From(Take(PortAndElements, DATA_UDP_LENGTH), Len(cfg.port) + 2)
    OBVIOUS
  <2>4. Take(InfoPort(fresh), Len(cfg.port)) = cfg.port
    BY <2>2, <2>3, InformedIs
  <2>5. entry'.tcp_port = InfoPort(fresh)
    BY <2>1, <2>2 DEF PduInv, Held
  <2>6. wire' = create_pdu(INFO_ACK, entry.random_num, Take(InfoPort(fresh), PORT_LENGTH - 1),
                           PORT_LENGTH)
    BY <1>4, <2>5 DEF InfoAck, create_pdu_port
  <2>7. Len(cfg.port) \in 1 .. PORT_LENGTH
    BY <2>2, ConfigIs DEF PduInv, Held
  <2>8. ASSUME Len(cfg.port) = PORT_LENGTH - 1
        PROVE  Field(wire', DataAt, DATA_UDP_LENGTH, cfg.port)
    <3>1. wire' = create_pdu(INFO_ACK, entry.random_num, cfg.port, PORT_LENGTH)
      BY <2>4, <2>6, <2>8
    <3>2. Len(entry.random_num) \in Nat
      BY <2>2, FitsLength DEF PduInv, Held
    <3>3. Len(cfg.port) \in Nat /\ Len(cfg.port) <= PORT_LENGTH
      BY <2>7, Offsets
    <3> QED
      BY <3>1, <3>2, <3>3, Offsets, CreatedText
  <2>9. point' = "acknowledged" /\ cfg' = cfg
    BY <1>4 DEF InfoAck
  <2> QED
    BY <2>8, <2>9 DEF Said
<1>5. CASE HelloBack
  <2>1. PICK data : data = read_from_buffer(Received, DataAt, DATA_UDP_LENGTH)
    OBVIOUS
  <2>2. PduInv /\ Said /\ point = "greeted"
    BY <1>5 DEF HelloBack, TextInv
  <2>3. /\ data = Take(NameAndSituation, DATA_UDP_LENGTH)
        /\ Len(data) \in Nat /\ Len(data) <= DATA_UDP_LENGTH
    BY <2>1, <2>2, GreetedIs
  <2>4. entry'.data_hello = data /\ entry'.random_num = entry.random_num
    BY <1>5, <2>1, <2>2 DEF HelloBack, PduInv, Held
  <2>5. wire' = create_pdu(HELLO, entry.random_num, data, Len(data))
    BY <1>5, <2>4 DEF HelloBack, create_pdu_hello
  <2>6. Len(entry.random_num) \in Nat
    BY <2>2, FitsLength DEF PduInv, Held
  <2>7. Bears(wire', SrvMac, entry.random_num)
    BY <2>3, <2>5, <2>6, Created
  <2>8. Field(wire', DataAt, DATA_UDP_LENGTH, data)
    BY <2>3, <2>5, <2>6, CreatedText
  <2>9. point' = "echo" /\ cfg' = cfg
    BY <1>5 DEF HelloBack
  <2> QED
    BY <2>3, <2>4, <2>7, <2>8, <2>9 DEF Said, NameAndSituation
<1>6. CASE SubsAck \/ SubsRej \/ ReadRej \/ InfoRej \/ ReadInfoAck \/ HelloRej \/ SendRej \/ TakeRej
  BY <1>6 DEF SubsAck, SubsRej, ReadRej, InfoRej, ReadInfoAck, HelloRej, SendRej, TakeRej, Said
<1>7. CASE ReadHello
  <2>1. point' \in {"hello", "differs"}
    BY <1>7 DEF ReadHello
  <2> QED
    BY <2>1 DEF Said
<1>8. CASE UNCHANGED vars
  BY <1>8 DEF vars, TextInv, Said, NameAndSituation, PortAndElements
<1> QED
  BY <1>1, <1>2, <1>3, <1>4, <1>5, <1>6, <1>7, <1>8 DEF Next

LEMMA KnownMacStep ==
  ASSUME TextInv, [Next]_vars
  PROVE  KnownMac'
<1>1. CASE SendInfo
  <2>1. PduInv' /\ point' = "informed"
    BY <1>1, PduStep DEF TextInv, SendInfo, Step
  <2> QED
    BY <2>1 DEF PduInv, Same, InSession, KnownMac
<1>2. CASE ~SendInfo
  <2>1. client'.mac = client.mac
    BY <1>2 DEF Next, vars, SendReq, SubsAck, SubsRej, ReadRej, Late, InfoAck, InfoRej,
                ReadInfoAck, SendHello, HelloBack, HelloRej, ReadHello, SendRej, TakeRej,
                TextInv, PduInv, Held
  <2> QED
    BY <2>1 DEF TextInv, KnownMac
<1> QED
  BY <1>1, <1>2

LEMMA FoundIsSenderStep ==
  ASSUME TextInv, [Next]_vars
  PROVE  FoundIsSender'
<1>1. CASE SubsAck
  <2>1. PICK at \in NameFrom, random \in RandomNum, port \in UdpPort :
          /\ validate_sub_req(at) # 0
          /\ entry' = [entry EXCEPT !.pos = validate_sub_req(at), !.situation = Situation(at),
                                    !.random_num = random, !.udp_port = port]
    BY <1>1 DEF SubsAck
  <2>2. PduInv /\ Said /\ point = "asked" /\ cfg' = cfg
    BY <1>1 DEF SubsAck, Step, TextInv
  <2>3. at = DataAt
    BY <2>1, <2>2, FoundAtData
  <2>4. /\ entry'.pos = validate_sub_req(DataAt)
        /\ entry'.situation = Situation(DataAt)
    BY <2>1, <2>2, <2>3 DEF PduInv, Held
  <2>5. /\ Table[validate_sub_req(DataAt)].mac = cfg.mac
        /\ Table[validate_sub_req(DataAt)].name = Take(cfg.name, NAME_LENGTH - 1)
        /\ Len(cfg.name) < NAME_LENGTH =>
             Joined(cfg.name, Situation(DataAt)) = Take(NameAndSituation, DATA_UDP_LENGTH)
    BY <2>1, <2>2, <2>3, AskedIs
  <2> QED
    BY <2>2, <2>4, <2>5 DEF FoundIsSender, NameAndSituation
<1>2. CASE ~SubsAck
  <2>1. entry'.pos = entry.pos /\ entry'.situation = entry.situation /\ cfg' = cfg
    BY <1>2 DEF Next, vars, Step, SendReq, SubsRej, ReadRej, SendInfo, Late, InfoAck, InfoRej,
                ReadInfoAck, SendHello, HelloBack, HelloRej, ReadHello, SendRej, TakeRej,
                TextInv, PduInv, Held
  <2> QED
    BY <2>1 DEF TextInv, FoundIsSender, NameAndSituation
<1> QED
  BY <1>1, <1>2

LEMMA InfoKeptStep ==
  ASSUME TextInv, [Next]_vars
  PROVE  InfoKept'
<1> USE DEF Step
<1>1. CASE InfoAck
  <2>1. PICK fresh \in [1 .. PORT_LENGTH - Len(PortText) -> Fresh], byte \in Fresh :
          entry' = [entry EXCEPT !.tcp_port = InfoPort(fresh),
                                 !.elements_data = InfoElements(byte)]
    BY <1>1 DEF InfoAck
  <2>2. PduInv /\ Said /\ point = "informed"
    BY <1>1 DEF InfoAck, TextInv
  <2>3. PICK elements :
          elements = From(Take(PortAndElements, DATA_UDP_LENGTH), Len(cfg.port) + 2)
    OBVIOUS
  <2>4. /\ Take(InfoPort(fresh), Len(cfg.port)) = cfg.port
        /\ Len(InfoPort(fresh)) <= PORT_LENGTH
        /\ Take(InfoElements(byte), Len(elements)) = elements
        /\ Len(InfoElements(byte)) <= Len(elements) + 1
    BY <2>2, <2>3, InformedIs
  <2>5. entry'.tcp_port = InfoPort(fresh) /\ entry'.elements_data = InfoElements(byte)
    BY <2>1, <2>2 DEF PduInv, Held
  <2>6. point' = "acknowledged" /\ cfg' = cfg
    BY <1>1 DEF InfoAck
  <2>7. elements = From(Take(PortAndElements', DATA_UDP_LENGTH), Len(cfg'.port) + 2)
    BY <2>3, <2>6 DEF PortAndElements
  <2> QED
    BY <2>4, <2>5, <2>6, <2>7 DEF InfoKept
<1>2. CASE ReadInfoAck
  <2>1. ASSUME Len(cfg.port) = PORT_LENGTH - 1
        PROVE  client'.tcp = cfg.port
    <3>1. Field(wire, DataAt, DATA_UDP_LENGTH, cfg.port)
      BY <1>2, <2>1 DEF ReadInfoAck, TextInv, Said
    <3>2. Fits(cfg.port, PORT_LENGTH)
      <4>1. cfg.port \in Seq(Digit)
        BY ConfigIs DEF TextInv, PduInv, Held
      <4>2. Digit \subseteq Byte \ {Nul}
        BY DEF Digit, Byte, Nul
      <4> QED
        BY <2>1, <4>1, <4>2, SeqMonotonic, Offsets DEF Fits
    <3>3. decode_bytes(DataAt, MAX_UDP_MESSAGE_SIZE - 1) = cfg.port
      BY <3>1, <3>2, ReadsPort
    <3> QED
      BY <1>2, <3>3 DEF ReadInfoAck, TextInv, PduInv, Held
  <2>2. point = "acknowledged" /\ UNCHANGED <<cfg, entry>>
    BY <1>2 DEF ReadInfoAck
  <2> QED
    BY <2>1, <2>2 DEF TextInv, InfoKept, PortAndElements
<1>3. CASE SendHello \/ HelloBack \/ ReadHello \/ Late \/ UNCHANGED vars
  <2>1. /\ entry'.tcp_port = entry.tcp_port /\ entry'.elements_data = entry.elements_data
        /\ client' = client /\ cfg' = cfg
    BY <1>3 DEF SendHello, HelloBack, ReadHello, Late, vars, TextInv, PduInv, Held
  <2>2. point' \in {"hello", "greeted", "echo"} => point \in {"hello", "greeted", "echo"}
    BY <1>3 DEF SendHello, HelloBack, ReadHello, Late, vars
  <2>3. point' = "acknowledged" => point = "acknowledged"
    BY <1>3 DEF SendHello, HelloBack, ReadHello, Late, vars
  <2> QED
    BY <2>1, <2>2, <2>3 DEF TextInv, InfoKept, PortAndElements
<1>4. CASE SendReq \/ SubsAck \/ SubsRej \/ ReadRej \/ SendInfo \/ InfoRej \/ HelloRej \/ SendRej
             \/ TakeRej
  BY <1>4 DEF SendReq, SubsAck, SubsRej, ReadRej, SendInfo, InfoRej, HelloRej, SendRej, TakeRej,
              InfoKept
<1> QED
  BY <1>1, <1>2, <1>3, <1>4 DEF Next

LEMMA EchoKeptStep ==
  ASSUME TextInv, [Next]_vars
  PROVE  EchoKept'
<1> USE DEF Step
<1>1. CASE ReadHello
  <2>1. (decode_bytes(MacAt, RandomAt - 1) = client.mac
           /\ decode_bytes(RandomAt, DataAt - 1) = client.random_num
           /\ decode_bytes(DataAt, MAX_UDP_MESSAGE_SIZE - 1) = NameAndSituation)
          <=> Len(NameAndSituation) < DATA_UDP_LENGTH
    BY <1>1, EchoedIs DEF ReadHello, TextInv
  <2>2. echoed' <=> Len(NameAndSituation) < DATA_UDP_LENGTH
    BY <1>1, <2>1 DEF ReadHello
  <2>3. cfg' = cfg
    BY <1>1 DEF ReadHello
  <2> QED
    BY <2>2, <2>3 DEF EchoKept, NameAndSituation
<1>2. CASE HelloBack
  BY <1>2 DEF HelloBack, EchoKept
<1>3. CASE ~ReadHello /\ ~HelloBack
  <2>1. entry'.data_hello = entry.data_hello /\ cfg' = cfg
    BY <1>3 DEF Next, vars, SendReq, SubsAck, SubsRej, ReadRej, SendInfo, Late, InfoAck, InfoRej,
                ReadInfoAck, SendHello, HelloRej, SendRej, TakeRej, TextInv, PduInv, Held
  <2>2. echoed' = echoed
    BY <1>3 DEF Next, vars, SendReq, SubsAck, SubsRej, ReadRej, SendInfo, Late, InfoAck, InfoRej,
                ReadInfoAck, SendHello, HelloRej, SendRej, TakeRej
  <2>3. point' # "echo" => point # "echo"
    BY <1>3 DEF Next, vars, SendReq, SubsAck, SubsRej, ReadRej, SendInfo, Late, InfoAck, InfoRej,
                ReadInfoAck, SendHello, HelloRej, SendRej, TakeRej
  <2>4. EchoKept
    BY DEF TextInv
  <2> QED
    BY <2>1, <2>2, <2>3, <2>4 DEF EchoKept, NameAndSituation
<1> QED
  BY <1>1, <1>2, <1>3

\* Each datagram is written to its last byte.
LEMMA WireStep ==
  ASSUME TextInv, [Next]_vars
  PROVE  wire' \in [Cell -> Byte]
<1> USE DEF Step
<1>1. /\ cfg.mac \in Seq(Byte) /\ client.mac \in Seq(Byte)
      /\ NameAndSituation \in Seq(Byte) /\ PortAndElements \in Seq(Byte)
      /\ client.random_num \in Seq(Byte) /\ entry.random_num \in Seq(Byte)
      /\ Zeros \in Seq(Byte) /\ Reason \in Seq(Byte) /\ Len(Reason) \in Nat
  <2>1. /\ Fits(client.random_num, RANDOM_NUM_LENGTH) /\ Fits(entry.random_num, RANDOM_NUM_LENGTH)
        /\ Fits(Zeros, RANDOM_NUM_LENGTH) /\ Fits(SrvMac, MAC_ADDRESS_LENGTH)
    BY ZerosFit, TextAssumption DEF TextInv, PduInv, Held
  <2>2. \A s, n : Fits(s, n) => s \in Seq(Byte)
    BY SeqMonotonic DEF Fits
  <2>3. client.mac \in Seq(Byte)
    BY <2>1, <2>2, EmptySeq DEF TextInv, KnownMac
  <2>4. cfg.mac \in Seq(Byte)
    BY ConfigIs DEF TextInv, PduInv, Held
  <2>5. NameAndSituation \in Seq(Byte \ {Nul}) /\ PortAndElements \in Seq(Byte \ {Nul})
    BY SaidIs DEF TextInv, PduInv, Held
  <2>6. NameAndSituation \in Seq(Byte) /\ PortAndElements \in Seq(Byte)
    BY <2>5, SeqMonotonic
  <2>7. Reason \in Seq(Byte) /\ Len(Reason) \in Nat
    BY TextAssumption, LenProperties
  <2> QED
    BY <2>1, <2>2, <2>3, <2>4, <2>6, <2>7
<1>2. {SUBS_REQ, SUBS_ACK, SUBS_REJ, SUBS_INFO, INFO_ACK, HELLO, HELLO_REJ} \subseteq Byte
  BY DEF SUBS_REQ, SUBS_ACK, SUBS_REJ, SUBS_INFO, INFO_ACK, HELLO, HELLO_REJ, Byte
<1>3. PORT_LENGTH \in Nat /\ PORT_LENGTH - 1 \in Nat
  BY Offsets
<1>4. \A r \in RandomNum : r \in Seq(Byte)
  BY TextAssumption, SeqMonotonic DEF Fits
<1>5. CASE SendReq \/ SendHello
  <2>1. wire' = get_packet(SUBS_REQ, cfg.mac, client.random_num, NameAndSituation)
          \/ wire' = get_packet(HELLO, cfg.mac, client.random_num, NameAndSituation)
    BY <1>5 DEF SendReq, SendHello, Send
  <2>2. get_packet(SUBS_REQ, cfg.mac, client.random_num, NameAndSituation) \in [Cell -> Byte]
    BY <1>1, <1>2, PackedBytes
  <2>3. get_packet(HELLO, cfg.mac, client.random_num, NameAndSituation) \in [Cell -> Byte]
    BY <1>1, <1>2, PackedBytes
  <2> QED
    BY <2>1, <2>2, <2>3
<1>6. CASE SendInfo
  <2>1. Fits(client'.random_num, RANDOM_NUM_LENGTH)
    BY PduStep DEF TextInv, PduInv, Held
  <2>2. client'.random_num \in Seq(Byte)
    BY <2>1, SeqMonotonic DEF Fits
  <2>3. wire' = get_packet(SUBS_INFO, cfg.mac, client'.random_num, PortAndElements)
    BY <1>6 DEF SendInfo, Send
  <2> QED
    BY <1>1, <1>2, <2>2, <2>3, PackedBytes
<1>7. CASE Late
  <2>1. PICK random \in RandomNum :
          wire' = get_packet(SUBS_INFO, cfg.mac, random, PortAndElements)
            \/ wire' = get_packet(HELLO, cfg.mac, random, NameAndSituation)
    BY <1>7 DEF Late, Send
  <2>2. random \in Seq(Byte)
    BY <1>4
  <2>3. get_packet(SUBS_INFO, cfg.mac, random, PortAndElements) \in [Cell -> Byte]
    BY <1>1, <1>2, <2>2, PackedBytes
  <2>4. get_packet(HELLO, cfg.mac, random, NameAndSituation) \in [Cell -> Byte]
    BY <1>1, <1>2, <2>2, PackedBytes
  <2> QED
    BY <2>1, <2>3, <2>4
<1>8. CASE SubsAck
  <2>1. PICK random \in RandomNum, port \in UdpPort :
          wire' = create_pdu(SUBS_ACK, random, Take(port, PORT_LENGTH - 1), PORT_LENGTH)
    BY <1>8 DEF SubsAck, create_pdu_port
  <2>2. random \in Seq(Byte) /\ port \in Seq(Byte)
    BY <1>4, TextAssumption, SeqMonotonic DEF Fits
  <2>3. Take(port, PORT_LENGTH - 1) \in Seq(Byte)
    BY <1>3, <2>2, TakeIs
  <2> QED
    BY <1>2, <1>3, <2>1, <2>2, <2>3, CreatedBytes
<1>9. CASE SubsRej \/ InfoRej
  <2>1. wire' = create_pdu(SUBS_REJ, Zeros, Reason, Len(Reason))
    BY <1>9 DEF SubsRej, InfoRej, create_pdu_subs_rej
  <2> QED
    BY <1>1, <1>2, <2>1, CreatedBytes
<1>10. CASE InfoAck
  <2>1. PICK fresh \in [1 .. PORT_LENGTH - Len(PortText) -> Fresh], byte \in Fresh :
          entry' = [entry EXCEPT !.tcp_port = InfoPort(fresh),
                                 !.elements_data = InfoElements(byte)]
    BY <1>10 DEF InfoAck
  <2>2. PduInv /\ Said /\ point = "informed"
    BY <1>10 DEF InfoAck, TextInv
  <2>3. PICK elements :
          elements = From(Take(PortAndElements, DATA_UDP_LENGTH), Len(cfg.port) + 2)
    OBVIOUS
  <2>4. InfoPort(fresh) \in Seq(Byte)
    BY <2>2, <2>3, InformedIs
  <2>5. Take(InfoPort(fresh), PORT_LENGTH - 1) \in Seq(Byte)
    BY <1>3, <2>4, TakeIs
  <2>6. entry'.tcp_port = InfoPort(fresh)
    BY <2>1, <2>2 DEF PduInv, Held
  <2>7. wire' = create_pdu(INFO_ACK, entry.random_num, Take(InfoPort(fresh), PORT_LENGTH - 1),
                           PORT_LENGTH)
    BY <1>10, <2>6 DEF InfoAck, create_pdu_port
  <2> QED
    BY <1>1, <1>2, <1>3, <2>5, <2>7, CreatedBytes
<1>11. CASE HelloBack
  <2>1. PICK data : data = read_from_buffer(Received, DataAt, DATA_UDP_LENGTH)
    OBVIOUS
  <2>2. PduInv /\ Said /\ point = "greeted"
    BY <1>11 DEF HelloBack, TextInv
  <2>3. data \in Seq(Byte \ {Nul}) /\ Len(data) \in Nat
    BY <2>1, <2>2, GreetedIs
  <2>4. data \in Seq(Byte)
    BY <2>3, SeqMonotonic
  <2>5. entry'.data_hello = data
    BY <1>11, <2>1, <2>2 DEF HelloBack, PduInv, Held
  <2>6. wire' = create_pdu(HELLO, entry.random_num, data, Len(data))
    BY <1>11, <2>5 DEF HelloBack, create_pdu_hello
  <2> QED
    BY <1>1, <1>2, <2>3, <2>4, <2>6, CreatedBytes
<1>12. CASE HelloRej
  <2>1. wire' = fill_empty_to_buffer(Typed(HELLO_REJ), 1)
    BY <1>12 DEF HelloRej, create_pdu_hello_rej
  <2>2. wire' = [i \in Cell |-> IF i >= 1 THEN Nul ELSE IF i = 0 THEN HELLO_REJ ELSE Unset]
    BY <2>1 DEF fill_empty_to_buffer, Typed
  <2>3. \A i \in Cell : i >= 1 \/ i = 0
    BY Offsets
  <2> QED
    BY <1>2, <2>2, <2>3, NulByte
<1>13. CASE SendRej
  <2>1. wire' = get_packet(HELLO_REJ, client.mac, client.random_num, Reason)
    BY <1>13 DEF SendRej
  <2> QED
    BY <1>1, <1>2, <2>1, PackedBytes
<1>14. CASE ReadRej \/ ReadInfoAck \/ ReadHello \/ TakeRej \/ UNCHANGED vars
  BY <1>14 DEF ReadRej, ReadInfoAck, ReadHello, TakeRej, vars, TextInv, TypeOK
<1> QED
  BY <1>5, <1>6, <1>7, <1>8, <1>9, <1>10, <1>11, <1>12, <1>13, <1>14 DEF Next

LEMMA TypeStep ==
  ASSUME TextInv, [Next]_vars
  PROVE  TypeOK'
<1> USE DEF Step
<1>1. wire' \in [Cell -> Byte]
  BY WireStep
<1>2. cfg' \in Config
  BY PduStep DEF TextInv, PduInv, Held
<1>3. echoed' \in BOOLEAN
  <2>1. CASE ReadHello
    BY <2>1 DEF ReadHello
  <2>2. CASE ~ReadHello
    <3>1. echoed' = echoed
      BY <2>2 DEF Next, vars, SendReq, SubsAck, SubsRej, ReadRej, SendInfo, Late, InfoAck,
                  InfoRej, ReadInfoAck, SendHello, HelloBack, HelloRej, SendRej, TakeRej
    <3> QED
      BY <3>1 DEF TextInv, TypeOK
  <2> QED
    BY <2>1, <2>2
<1>4. CASE SubsAck
  <2>1. PICK at \in NameFrom, random \in RandomNum, port \in UdpPort :
          /\ validate_sub_req(at) # 0
          /\ entry' = [entry EXCEPT !.pos = validate_sub_req(at), !.situation = Situation(at),
                                    !.random_num = random, !.udp_port = port]
    BY <1>4 DEF SubsAck
  <2>2. PduInv /\ Said /\ point = "asked"
    BY <1>4 DEF SubsAck, TextInv
  <2>3. at = DataAt
    BY <2>1, <2>2, FoundAtData
  <2>4. validate_sub_req(DataAt) \in DOMAIN Table
    BY <2>1, <2>3, FoundIs
  <2>5. Len(Situation(DataAt)) < DATA_UDP_LENGTH
    BY <2>1, <2>2, <2>3, AskedIs
  <2>6. /\ entry'.pos = validate_sub_req(DataAt) /\ entry'.situation = Situation(DataAt)
        /\ entry'.data_hello = entry.data_hello /\ entry'.elements_data = entry.elements_data
    BY <2>1, <2>2, <2>3 DEF PduInv, Held
  <2> QED
    BY <1>1, <1>2, <1>3, <2>4, <2>5, <2>6 DEF TextInv, TypeOK
<1>5. CASE InfoAck
  <2>1. PICK fresh \in [1 .. PORT_LENGTH - Len(PortText) -> Fresh], byte \in Fresh :
          entry' = [entry EXCEPT !.tcp_port = InfoPort(fresh),
                                 !.elements_data = InfoElements(byte)]
    BY <1>5 DEF InfoAck
  <2>2. PduInv /\ Said /\ point = "informed"
    BY <1>5 DEF InfoAck, TextInv
  <2>3. PICK elements :
          elements = From(Take(PortAndElements, DATA_UDP_LENGTH), Len(cfg.port) + 2)
    OBVIOUS
  <2>4. Len(InfoElements(byte)) < DATA_UDP_LENGTH
    BY <2>2, <2>3, InformedIs
  <2>5. /\ entry'.elements_data = InfoElements(byte) /\ entry'.pos = entry.pos
        /\ entry'.data_hello = entry.data_hello /\ entry'.situation = entry.situation
    BY <2>1, <2>2 DEF PduInv, Held
  <2> QED
    BY <1>1, <1>2, <1>3, <2>4, <2>5 DEF TextInv, TypeOK
<1>6. CASE HelloBack
  <2>1. PICK data : data = read_from_buffer(Received, DataAt, DATA_UDP_LENGTH)
    OBVIOUS
  <2>2. PduInv /\ Said /\ point = "greeted"
    BY <1>6 DEF HelloBack, TextInv
  <2>3. Len(data) <= DATA_UDP_LENGTH
    BY <2>1, <2>2, GreetedIs
  <2>4. /\ entry'.data_hello = data /\ entry'.pos = entry.pos
        /\ entry'.elements_data = entry.elements_data /\ entry'.situation = entry.situation
    BY <1>6, <2>1, <2>2 DEF HelloBack, PduInv, Held
  <2> QED
    BY <1>1, <1>2, <1>3, <2>3, <2>4 DEF TextInv, TypeOK
<1>7. CASE ~SubsAck /\ ~InfoAck /\ ~HelloBack
  <2>1. /\ entry'.pos = entry.pos /\ entry'.data_hello = entry.data_hello
        /\ entry'.elements_data = entry.elements_data /\ entry'.situation = entry.situation
    BY <1>7 DEF Next, vars, SendReq, SubsRej, ReadRej, SendInfo, Late, InfoRej, ReadInfoAck,
                SendHello, HelloRej, ReadHello, SendRej, TakeRej, TextInv, PduInv, Held
  <2> QED
    BY <1>1, <1>2, <1>3, <2>1 DEF TextInv, TypeOK
<1> QED
  BY <1>4, <1>5, <1>6, <1>7

-----------------------------------------------------------------------------
\* For all lengths, texts and tables.
THEOREM Texts == Spec => []TextInv
<1>1. TextInv /\ [Next]_vars => TextInv'
  <2> SUFFICES ASSUME TextInv, [Next]_vars
               PROVE  TextInv'
    OBVIOUS
  <2>1. PduInv'
    BY PduStep DEF TextInv
  <2>2. TypeOK' /\ Said' /\ KnownMac'
    BY TypeStep, SaidStep, KnownMacStep
  <2>3. FoundIsSender' /\ InfoKept' /\ EchoKept'
    BY FoundIsSenderStep, InfoKeptStep, EchoKeptStep
  <2> QED
    BY <2>1, <2>2, <2>3 DEF TextInv
<1> QED
  BY <1>1, TextInitially, PTL DEF Spec

\* Every byte of every datagram has been written, and no text outgrows its array.
THEOREM AllWritten == Spec => []TypeOK
<1>1. TextInv => TypeOK
  BY DEF TextInv
<1> QED
  BY <1>1, Texts, PTL

\* The controller the server finds is the sender, whatever the write past
\* mac_to_check does to the offset of the name, and however long the texts are.
THEOREM Finds == Spec => []FoundIsSender
<1>1. TextInv => FoundIsSender
  BY DEF TextInv
<1> QED
  BY <1>1, Texts, PTL

\* The port the server stores begins with the client's digits and fits in its
\* array, and the elements it stores are the client's and one byte more at most,
\* whatever its unwritten bytes hold.
THEOREM Keeps == Spec => []InfoKept
<1>1. TextInv => InfoKept
  BY DEF TextInv
<1> QED
  BY <1>1, Texts, PTL

\* The client knows the echo of its HELLO exactly when its data leave the last
\* byte free, for every DATA_UDP_LENGTH.
THEOREM Echoes == Spec => []EchoBoundary
<1>1. TextInv => EchoBoundary
  BY DEF TextInv, EchoKept, EchoBoundary
<1> QED
  BY <1>1, Texts, PTL
=============================================================================
