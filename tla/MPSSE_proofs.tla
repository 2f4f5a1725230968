---------------------------- MODULE MPSSE_proofs ----------------------------
(***************************************************************************)
(* Proofs about MPSSE, for packets, transfers, blocks and reads of any     *)
(* size: what libftdi's packet arithmetic gives back, the types, the order *)
(* of the bytes, and that driver and cable stay in step.                   *)
(***************************************************************************)
EXTENDS MPSSE, SequenceTheorems, TLAPS

\* Division as the packet arithmetic uses it.
LEMMA DivMod ==
  ASSUME NEW a \in Nat, NEW b \in Nat, b > 0
  PROVE  /\ a \div b \in Nat /\ a % b \in 0..(b - 1)
         /\ a = b * (a \div b) + (a % b)
BY SMT

LEMMA DivIs ==
  ASSUME NEW a \in Nat, NEW b \in Nat, NEW q \in Nat, NEW r \in Nat,
         b > 0, r < b, a = b * q + r
  PROVE  a \div b = q /\ a % b = r
<1> DEFINE k == a \div b
           m == a % b
<1>1. k \in Nat /\ m \in 0..(b - 1) /\ a = b * k + m
  BY DivMod
<1>2. CASE k >= q + 1
  <2>1. b * k >= b * q + b BY <1>1, <1>2, SMT
  <2> QED BY <2>1, <1>1, SMT
<1>3. CASE q >= k + 1
  <2>1. b * q >= b * k + b BY <1>1, <1>3, SMT
  <2> QED BY <2>1, <1>1, SMT
<1>4. CASE k = q
  BY <1>4, <1>1, SMT
<1> QED BY <1>1, <1>2, <1>3, <1>4, SMT

LEMMA PayloadType == Payload \in Nat /\ Payload > 0
<1>1. Data \in Nat /\ Data > 0 /\ Packets \in Nat /\ Packets > 0
  BY MpsseAssumption DEF Data
<1> QED BY <1>1, SMT DEF Payload

\* The packets of a transfer of n data bytes: c with data in them, the last with r,
\* and behind a full last one possibly (e) one that is a status alone.
LEMMA PacketsOf ==
  ASSUME NEW n \in 1..Payload
  PROVE  \E c \in Nat \ {0}, r \in 1..Data, e \in {0, 1} :
            /\ n = Data * (c - 1) + r /\ RawLength(n) = n + 2 * (c + e)
            /\ e = 1 => r = Data
<1>1. Data \in Nat /\ Data > 0 /\ Packets \in Nat \ {0}
  BY MpsseAssumption DEF Data
<1>2. CASE n = Payload
  <2>1. Payload = Data * (Packets - 1) + Data
    BY <1>1, SMT DEF Payload
  <2>2. RawLength(n) = n + 2 * (Packets + 0)
    BY <1>1, <1>2 DEF RawLength
  <2>3. Data \in 1..Data
    BY <1>1
  <2> QED BY <1>1, <1>2, <2>1, <2>2, <2>3
<1>3. CASE n # Payload
  <2> DEFINE i == n \div Data
             j == n % Data
  <2>1. n \in Nat /\ n > 0
    BY PayloadType
  <2>2. i \in Nat /\ j \in 0..(Data - 1) /\ n = Data * i + j
    BY <1>1, <2>1, DivMod
  <2>3. RawLength(n) = n + 2 * (i + 1)
    BY <1>3 DEF RawLength
  <2> HIDE DEF i, j
  <2>4. CASE j = 0
    <3>1. i # 0
      BY <1>1, <2>1, <2>2, <2>4, SMT
    <3>2. n = Data * (i - 1) + Data
      BY <1>1, <2>2, <2>4, SMT
    <3>3. i \in Nat \ {0} /\ Data \in 1..Data
      BY <1>1, <2>2, <3>1
    <3> QED BY <2>3, <3>2, <3>3
  <2>5. CASE j # 0
    <3>1. i + 1 \in Nat \ {0} /\ j \in 1..Data /\ (i + 1) - 1 = i /\ (i + 1) + 0 = i + 1
      BY <1>1, <2>2, <2>5
    <3>2. n = Data * ((i + 1) - 1) + j /\ RawLength(n) = n + 2 * ((i + 1) + 0)
      BY <2>2, <2>3, <3>1
    <3> QED BY <3>1, <3>2
  <2> QED BY <2>4, <2>5
<1> QED BY <1>2, <1>3

\* The length arithmetic gives n back, and every packet with data is moved.
LEMMA LengthIsRight ==
  ASSUME NEW n \in 1..Payload
  PROVE  /\ DataLength(RawLength(n)) = n
         /\ \E c \in Nat \ {0}, r \in 1..Data :
              /\ n = Data * (c - 1) + r /\ RawLength(n) \in Nat /\ RawLength(n) >= n + 2 * c
              /\ Moved(RawLength(n)) = c - 1
<1>1. /\ Data \in Nat /\ Data > 0 /\ PacketSize = Data + 2 /\ PacketSize \in Nat
      /\ n \in Nat /\ n > 0
  BY MpsseAssumption, PayloadType DEF Data
<1>2. PICK c \in Nat \ {0}, r \in 1..Data, e \in {0, 1} :
         /\ n = Data * (c - 1) + r /\ RawLength(n) = n + 2 * (c + e)
         /\ e = 1 => r = Data
  BY PacketsOf
<1> DEFINE a == RawLength(n)
<1>3. a \in Nat /\ a = n + 2 * (c + e) /\ a > 2 /\ c >= 1
  BY <1>1, <1>2
<1> HIDE DEF a
<1>4. DataLength(a) = n /\ Moved(a) = c - 1
  <2>1. CASE c = 1 /\ e = 0
    <3>1. a - 2 <= Data /\ a - 2 = n
      BY <1>1, <1>2, <1>3, <2>1, SMT
    <3> QED BY <2>1, <3>1, <1>3 DEF DataLength, Moved
  <2>2. CASE c > 1 \/ e = 1
    <3>1. a - 2 > Data
      <4>1. CASE c > 1
        <5>1. Data * (c - 1) >= Data
          BY <1>1, <4>1, SMT
        <5> QED BY <5>1, <1>1, <1>2, <1>3, <4>1, SMT
      <4>2. CASE e = 1
        <5>1. Data * (c - 1) >= 0
          BY <1>1, <1>3, SMT
        <5> QED BY <5>1, <1>1, <1>2, <1>3, <4>2, SMT
      <4> QED BY <2>2, <4>1, <4>2
    <3>2. CASE r < Data
      <4>1. e = 0
        BY <1>2, <3>2
      <4>2. a = PacketSize * (c - 1) + (r + 2)
        BY <1>1, <1>2, <1>3, <4>1, SMT
      <4>3. a \div PacketSize = c - 1 /\ a % PacketSize = r + 2
        BY <4>2, <1>1, <1>3, <3>2, DivIs, c - 1 \in Nat, r + 2 \in Nat, r + 2 < PacketSize
      <4> QED BY <4>1, <4>3, <3>1, <1>1, <1>2, <1>3 DEF DataLength, Moved
    <3>3. CASE r = Data
      <4>1. a = PacketSize * c + 2 * e
        BY <1>1, <1>2, <1>3, <3>3, SMT
      <4>2. 2 * e \in Nat /\ 2 * e < PacketSize /\ ~(2 * e > 2)
        BY <1>1
      <4>3. a \div PacketSize = c /\ a % PacketSize = 2 * e
        BY <4>1, <4>2, <1>1, <1>3, DivIs
      <4> QED BY <4>2, <4>3, <3>1, <1>1, <1>2, <1>3 DEF DataLength, Moved
    <3> QED BY <1>2, <3>2, <3>3, <1>1
  <2> QED BY <1>2, <1>3, <2>1, <2>2
<1>5. a >= n + 2 * c
  BY <1>1, <1>2, <1>3
<1> QED BY <1>2, <1>3, <1>4, <1>5 DEF a

\* The data byte p of a transfer of n is found where the moves take it from.
LEMMA WhereDataIs ==
  ASSUME NEW n \in 1..Payload, NEW p \in 1..n
  PROVE  LET i == (p - 1) \div Data
             q == p + 1 + 2 * i
         IN  /\ i <= Moved(RawLength(n))
             /\ q \in 0..(RawLength(n) - 1)
             /\ ~(q % PacketSize < 2)
             /\ (q \div PacketSize) * Data + (q % PacketSize) - 1 = p
<1> DEFINE i == (p - 1) \div Data
           j == (p - 1) % Data
           q == p + 1 + 2 * i
<1>1. Data \in Nat /\ Data > 0 /\ PacketSize = Data + 2 /\ n \in Nat /\ p \in Nat /\ p > 0
  BY MpsseAssumption, PayloadType DEF Data
<1>2. i \in Nat /\ j \in 0..(Data - 1) /\ p - 1 = Data * i + j
  BY <1>1, DivMod
<1>3. PICK c \in Nat \ {0}, r \in 1..Data :
         /\ n = Data * (c - 1) + r /\ RawLength(n) \in Nat /\ RawLength(n) >= n + 2 * c
         /\ Moved(RawLength(n)) = c - 1
  BY LengthIsRight
<1>4. i <= c - 1
  <2>1. SUFFICES ASSUME i >= c PROVE FALSE
    BY <1>2, <1>3
  <2>2. Data * i >= Data * (c - 1) + Data
    BY <2>1, <1>1, <1>2, <1>3, SMT
  <2> QED BY <2>2, <1>1, <1>2, <1>3, SMT
<1>5. q \in 0..(RawLength(n) - 1)
  BY <1>1, <1>2, <1>3, <1>4, SMT
<1>6. q = PacketSize * i + (j + 2)
  BY <1>1, <1>2, SMT
<1>7. q \div PacketSize = i /\ q % PacketSize = j + 2
  BY <1>6, <1>1, <1>2, <1>5, DivIs, q \in Nat, j + 2 \in Nat, j + 2 < PacketSize
<1>8. (q \div PacketSize) * Data + (q % PacketSize) - 1 = p
  BY <1>7, <1>2, <1>1, SMT
<1>9. ~(q % PacketSize < 2)
  BY <1>7, <1>2
<1> QED BY <1>3, <1>4, <1>5, <1>8, <1>9

\* ftdi_read_data gives back exactly the data bytes the cable sent, whether the
\* last packet of the transfer is short, full, or a status behind full ones.
THEOREM ReceivedIsSent ==
  ASSUME NEW s \in Seq(Nat), Len(s) <= Payload
  PROVE  Received(s) = s
<1> DEFINE n == Len(s)
<1>1. n \in Nat /\ s = [p \in 1..n |-> s[p]]
  OBVIOUS
<1>2. DataLength(RawLength(n)) = n
  <2>1. CASE n = 0
    <3>1. 0 \div Data = 0 /\ Payload # 0
      BY MpsseAssumption, PayloadType, DivIs, 0 = Data * 0 + 0, Data \in Nat, Data > 0 DEF Data
    <3>2. RawLength(0) = 2
      BY <3>1 DEF RawLength
    <3> QED BY <2>1, <3>2 DEF DataLength
  <2>2. CASE n # 0
    <3>1. n \in 1..Payload
      BY <1>1, <2>2, PayloadType
    <3> QED BY <3>1, LengthIsRight
  <2> QED BY <2>1, <2>2
<1>3. ASSUME NEW p \in 1..n
      PROVE  LET i == (p - 1) \div Data
             IN  Raw(s)[p + 1 + IF i <= Moved(RawLength(n)) THEN 2 * i ELSE 0] = s[p]
  <2> DEFINE i == (p - 1) \div Data
             q == p + 1 + 2 * i
  <2>1. n \in 1..Payload
    BY <1>1, PayloadType
  <2>2. /\ i <= Moved(RawLength(n))
        /\ q \in 0..(RawLength(n) - 1)
        /\ ~(q % PacketSize < 2)
        /\ (q \div PacketSize) * Data + (q % PacketSize) - 1 = p
    BY <1>1, <2>1, WhereDataIs
  <2> HIDE DEF q
  <2>3. Raw(s)[q] = s[p]
    BY <2>2 DEF Raw
  <2> QED BY <2>2, <2>3 DEF q
<1> QED BY <1>1, <1>2, <1>3 DEF Received, Strip

-----------------------------------------------------------------------------
(* Types                                                                   *)

LEMMA LesserType ==
  ASSUME NEW a \in Nat, NEW b \in Nat
  PROVE  /\ Lesser(a, b) \in Nat /\ Lesser(a, b) <= a /\ Lesser(a, b) <= b
         /\ a > 0 /\ b > 0 => Lesser(a, b) > 0
         /\ Lesser(a, b) \in {a, b}
BY DEF Lesser

LEMMA FifoPart ==
  ASSUME fifo \in Seq(Nat)
  PROVE  /\ Lesser(Len(fifo), Payload) \in 0..Len(fifo)
         /\ Lesser(Len(fifo), Payload) <= Payload
<1>1. Len(fifo) \in Nat
  OBVIOUS
<1>2. /\ Lesser(Len(fifo), Payload) \in Nat /\ Lesser(Len(fifo), Payload) <= Len(fifo)
      /\ Lesser(Len(fifo), Payload) <= Payload
  BY <1>1, PayloadType, LesserType, Zenon
<1> QED BY <1>1, <1>2

LEMMA SplitAt ==
  ASSUME NEW s \in Seq(Nat), NEW n \in 0..Len(s)
  PROVE  /\ First(s, n) \in Seq(Nat) /\ Len(First(s, n)) = n
         /\ \A i \in 1..n : First(s, n)[i] = s[i]
         /\ Behind(s, n) \in Seq(Nat) /\ Len(Behind(s, n)) = Len(s) - n
         /\ \A i \in 1..(Len(s) - n) : Behind(s, n)[i] = s[n + i]
BY DEF First, Behind

\* Sending a command changes the cable within its types.
LEMMA SendTypes ==
  ASSUME MpsseTypeOK, NEW n \in Nat, NEW sel \in BOOLEAN,
         Sent(n, sel) \/ NotSent(n, sel)
  PROVE  owed' \in Nat /\ cut' \in BOOLEAN /\ selected' \in BOOLEAN /\ disturbed' \in BOOLEAN
<1>1. \A k \in Junk : k \in Nat
  BY MpsseAssumption DEF Junk
<1>2. Reaches(n, sel) => owed' \in Nat /\ cut' \in BOOLEAN /\ selected' \in BOOLEAN
  BY <1>1 DEF Reaches, MpsseTypeOK
<1> QED BY <1>2 DEF Sent, NotSent, MpsseTypeOK

\* So does delivering bytes to a call that wants at least so many.
LEMMA DeliverTypes ==
  ASSUME MpsseTypeOK, NEW s \in Seq(Nat), NEW rest \in Seq(Nat), Len(s) <= block,
         Deliver(s, rest), UNCHANGED left, call = "recv"
  PROVE  /\ got' \in Seq(Nat) /\ readbuffer' \in Seq(Nat) /\ block' \in Nat
         /\ call' \in {"none", "request", "recv"} /\ ret' \in BOOLEAN
         /\ call' = "recv" => block' > 0
         /\ call' = "request" => left' > 0
<1>1. got \in Seq(Nat) /\ block \in Nat /\ left \in Nat /\ ret \in BOOLEAN /\ Len(s) \in Nat
  BY DEF MpsseTypeOK
<1>2. got' \in Seq(Nat) /\ readbuffer' \in Seq(Nat) /\ block' \in Nat
  BY <1>1 DEF Deliver
<1>3. ret' \in BOOLEAN /\ call' \in {"none", "request", "recv"}
  BY <1>1, Zenon DEF Deliver, Return
<1>4. /\ call' = "recv" => block' > 0
      /\ call' = "request" => left' > 0
  BY <1>1 DEF Deliver, Return
<1> QED BY <1>2, <1>3, <1>4

\* The type invariant in two parts: the provers take them separately.
Flags ==
  /\ opened \in BOOLEAN /\ ret \in BOOLEAN /\ cut \in BOOLEAN /\ selected \in BOOLEAN
  /\ disturbed \in BOOLEAN /\ lowGpio \in BOOLEAN

Sizes ==
  /\ status \in {"Stopped", "Started"}
  /\ call \in {"none", "stop", "write", "request", "recv"}
  /\ left \in Nat /\ block \in Nat
  /\ got \in Seq(Nat) /\ readbuffer \in Seq(Nat) /\ fifo \in Seq(Nat)
  /\ owed \in Nat /\ clocked \in Nat /\ first \in Nat
  /\ call = "recv" => block > 0
  /\ call \in {"request", "write"} => left > 0

LEMMA TypeParts == (MpsseTypeOK <=> Flags /\ Sizes) /\ (MpsseTypeOK' <=> Flags' /\ Sizes')
BY DEF MpsseTypeOK, Flags, Sizes

\* Types of every reachable state, for any sizes of packets, transfers and blocks.
LEMMA TypeInit == Init => MpsseTypeOK
<1>1. Init => Flags
  BY Zenon DEF Init, Flags
<1>2. Init => Sizes
  BY SMT DEF Init, Sizes
<1> QED BY <1>1, <1>2, TypeParts

LEMMA TypeCalls == MpsseTypeOK /\ Call => MpsseTypeOK'
<1> SUFFICES ASSUME MpsseTypeOK, Call PROVE MpsseTypeOK'
  OBVIOUS
<1> USE DEF Return, chipVars, history
<1>1. CASE OpenSucceeds
  <2>0. /\ opened' = TRUE /\ ret' = TRUE /\ cut' = FALSE /\ selected' = FALSE /\ lowGpio' = FALSE
        /\ disturbed' = FALSE \/ disturbed' = TRUE
    BY <1>1, Zenon DEF OpenSucceeds
  <2>1. Flags' BY <2>0, Zenon DEF Flags
  <2>2. clocked \in Nat /\ <<clocked + 1>> \in Seq(Nat) /\ <<>> \in Seq(Nat)
    BY DEF MpsseTypeOK
  <2>3. /\ fifo' \in Seq(Nat) /\ clocked' \in Nat /\ first' \in Nat
        /\ got' \in Seq(Nat) /\ readbuffer' \in Seq(Nat)
        /\ left' = 0 /\ block' = 0 /\ owed' = 0 /\ status' = "Stopped" /\ call' = "none"
    <3>1. /\ \/ fifo' = <<>> /\ clocked' = clocked
             \/ fifo' = <<clocked + 1>> /\ clocked' = clocked + 1
          /\ first' = clocked + 1 /\ got' = <<>> /\ readbuffer' = <<>>
          /\ left' = 0 /\ block' = 0 /\ owed' = 0 /\ status' = "Stopped" /\ call' = "none"
      BY <1>1, Zenon DEF OpenSucceeds
    <3>2. clocked + 1 \in Nat BY <2>2
    <3> QED BY <2>2, <3>1, <3>2, Zenon
  <2>4. Sizes' BY <2>3, SMT DEF Sizes
  <2> QED BY <2>1, <2>4, TypeParts
<1>2. CASE OpenFails
  <2>0. /\ opened' = FALSE /\ ret' = FALSE /\ lowGpio' = lowGpio /\ disturbed' = TRUE
        /\ cut' = cut \/ cut' \in BOOLEAN
        /\ selected' = selected \/ selected' = FALSE
    BY <1>2, Zenon DEF OpenFails
  <2>1. Flags' BY <2>0, TypeParts, Zenon DEF Flags
  <2>2. Sizes BY TypeParts
  <2>3. /\ fifo' \in Seq(Nat) /\ readbuffer' \in Seq(Nat) /\ owed' \in Nat /\ call' = "none"
        /\ UNCHANGED <<status, left, block, got, clocked, first>>
    <3>1. \/ fifo' = fifo /\ readbuffer' = readbuffer /\ owed' = owed
          \/ fifo' = <<>> /\ readbuffer' = <<>> /\ owed' = 0
      BY <1>2 DEF OpenFails
    <3>2. call' = "none" /\ UNCHANGED <<status, left, block, got, clocked, first>>
      BY <1>2 DEF OpenFails
    <3>3. /\ fifo \in Seq(Nat) /\ readbuffer \in Seq(Nat) /\ owed \in Nat
          /\ <<>> \in Seq(Nat) /\ 0 \in Nat
      BY <2>2 DEF Sizes
    <3> QED BY <3>1, <3>2, <3>3, Zenon
  <2>4. Sizes' BY <2>2, <2>3, SMT DEF Sizes
  <2> QED BY <2>1, <2>4, TypeParts
<1>3. CASE Close
  BY <1>3 DEF Close, MpsseTypeOK
<1>4. CASE Refused
  BY <1>4 DEF Refused, MpsseTypeOK
<1>5. CASE Start
  <2>1. Sent(0, TRUE) \/ NotSent(0, TRUE) BY <1>5 DEF Start
  <2>2. owed' \in Nat /\ cut' \in BOOLEAN /\ selected' \in BOOLEAN /\ disturbed' \in BOOLEAN
    BY <2>1, SendTypes
  <2> QED BY <1>5, <2>2 DEF Start, MpsseTypeOK
<1>6. CASE StopBegin
  <2>1. Sent(0, FALSE) \/ NotSent(0, FALSE) BY <1>6 DEF StopBegin
  <2>2. owed' \in Nat /\ cut' \in BOOLEAN /\ selected' \in BOOLEAN /\ disturbed' \in BOOLEAN
    BY <2>1, SendTypes
  <2> QED BY <1>6, <2>2 DEF StopBegin, MpsseTypeOK
<1>7. CASE SetGpioHigh
  <2>1. selected \in BOOLEAN /\ (Sent(0, selected) \/ NotSent(0, selected))
    BY <1>7 DEF SetGpioHigh, MpsseTypeOK
  <2>2. owed' \in Nat /\ cut' \in BOOLEAN /\ selected' \in BOOLEAN /\ disturbed' \in BOOLEAN
    BY <2>1, SendTypes
  <2> QED BY <1>7, <2>2 DEF SetGpioHigh, MpsseTypeOK
<1>8. CASE SetGpioLow
  <2>1. Sent(0, TRUE) \/ NotSent(0, TRUE) BY <1>8 DEF SetGpioLow
  <2>2. owed' \in Nat /\ cut' \in BOOLEAN /\ selected' \in BOOLEAN /\ disturbed' \in BOOLEAN
    BY <2>1, SendTypes
  <2> QED BY <1>8, <2>2 DEF SetGpioLow, MpsseTypeOK
<1>9. CASE \E n \in 0..MaxRead : WriteBegin(n) \/ ReadBegin(n)
  <2>1. PICK n \in 0..MaxRead : WriteBegin(n) \/ ReadBegin(n) BY <1>9
  <2>2. n \in Nat BY MpsseAssumption
  <2>3. CASE WriteBegin(n)
    <3>1. Flags' BY <2>3, TypeParts, Zenon DEF WriteBegin, Flags
    <3>2. Sizes' BY <2>2, <2>3, TypeParts, SMT DEF WriteBegin, Sizes, Ready
    <3> QED BY <3>1, <3>2, TypeParts
  <2>4. CASE ReadBegin(n)
    <3>1. Flags' BY <2>4, TypeParts, Zenon DEF ReadBegin, Flags
    <3>2. Sizes' BY <2>2, <2>4, TypeParts, SMT DEF ReadBegin, Sizes, Ready, Asked
    <3> QED BY <3>1, <3>2, TypeParts
  <2> QED BY <2>1, <2>3, <2>4
<1> QED BY <1>1, <1>2, <1>3, <1>4, <1>5, <1>6, <1>7, <1>8, <1>9 DEF Call

LEMMA TypeSteps == MpsseTypeOK /\ (DriverStep \/ BulkFails \/ ClockIn) => MpsseTypeOK'
<1> SUFFICES ASSUME MpsseTypeOK, DriverStep \/ BulkFails \/ ClockIn PROVE MpsseTypeOK'
  OBVIOUS
<1> USE DEF Return, chipVars, history
<1>0. selected \in BOOLEAN /\ left \in Nat /\ block \in Nat /\ TxSize \in Nat /\ TxSize > 0
  BY MpsseAssumption DEF MpsseTypeOK
<1>1. CASE StopEnd
  <2>1. Sent(0, FALSE) \/ NotSent(0, FALSE) BY <1>1 DEF StopEnd
  <2>2. owed' \in Nat /\ cut' \in BOOLEAN /\ selected' \in BOOLEAN /\ disturbed' \in BOOLEAN
    BY <2>1, SendTypes
  <2> QED BY <1>1, <2>2 DEF StopEnd, MpsseTypeOK
<1>2. CASE WriteBlock
  <2>1. Sent(0, selected) \/ NotSent(0, selected) BY <1>2 DEF WriteBlock
  <2>2. owed' \in Nat /\ cut' \in BOOLEAN /\ selected' \in BOOLEAN /\ disturbed' \in BOOLEAN
    BY <1>0, <2>1, SendTypes
  <2>3. Lesser(left, TxSize) \in Nat /\ Lesser(left, TxSize) <= left
    BY <1>0, LesserType
  <2>4. Flags' BY <1>2, <2>2, TypeParts, Zenon DEF WriteBlock, Flags
  <2>5. Sizes' BY <1>0, <1>2, <2>2, <2>3, TypeParts, SMT DEF WriteBlock, Sizes
  <2> QED BY <2>4, <2>5, TypeParts
<1>3. CASE Request
  <2>1. Lesser(left, TxSize) \in Nat /\ Lesser(left, TxSize) <= left /\ Lesser(left, TxSize) > 0
    <3>1. left > 0 BY <1>3 DEF Request, MpsseTypeOK
    <3> QED BY <1>0, <3>1, LesserType
  <2>2. Sent(Lesser(left, TxSize), selected) \/ NotSent(Lesser(left, TxSize), selected)
    BY <1>3 DEF Request
  <2>3. owed' \in Nat /\ cut' \in BOOLEAN /\ selected' \in BOOLEAN /\ disturbed' \in BOOLEAN
    BY <1>0, <2>1, <2>2, SendTypes
  <2>4. Flags' BY <1>3, <2>3, TypeParts, Zenon DEF Request, Flags
  <2>5. Sizes' BY <1>0, <1>3, <2>1, <2>3, TypeParts, SMT DEF Request, Sizes
  <2> QED BY <2>4, <2>5, TypeParts
<1>4. CASE TakeBuffered
  <2> DEFINE n == Lesser(block, Len(readbuffer))
  <2>1. readbuffer \in Seq(Nat) /\ n \in 0..Len(readbuffer) /\ n <= block
    <3>1. readbuffer \in Seq(Nat) /\ Len(readbuffer) \in Nat BY DEF MpsseTypeOK
    <3>2. n \in Nat /\ n <= Len(readbuffer) /\ n <= block BY <1>0, <3>1, LesserType, Zenon
    <3> QED BY <3>1, <3>2
  <2>2. /\ First(readbuffer, n) \in Seq(Nat) /\ Len(First(readbuffer, n)) = n
        /\ Behind(readbuffer, n) \in Seq(Nat)
    BY <2>1, SplitAt
  <2>3. Deliver(First(readbuffer, n), Behind(readbuffer, n)) /\ UNCHANGED left /\ call = "recv"
    BY <1>4 DEF TakeBuffered
  <2>4. /\ got' \in Seq(Nat) /\ readbuffer' \in Seq(Nat) /\ block' \in Nat
        /\ call' \in {"none", "request", "recv"} /\ ret' \in BOOLEAN
        /\ call' = "recv" => block' > 0
        /\ call' = "request" => left' > 0
    BY <2>1, <2>2, <2>3, DeliverTypes
  <2> QED BY <1>4, <2>4 DEF TakeBuffered, MpsseTypeOK
<1>5. CASE BulkRead
  <2> DEFINE k == Lesser(Len(fifo), Payload)
             data == Received(First(fifo, k))
             n == Lesser(block, Len(data))
  <2>1. fifo \in Seq(Nat) /\ k \in 0..Len(fifo) /\ k <= Payload
    BY FifoPart DEF MpsseTypeOK
  <2>2. data \in Seq(Nat) /\ data = First(fifo, k) /\ Behind(fifo, k) \in Seq(Nat)
    BY <2>1, SplitAt, ReceivedIsSent
  <2>3. n \in 0..Len(data) /\ n <= block
    <3>1. Len(data) \in Nat BY <2>2
    <3> HIDE DEF data
    <3> QED BY <1>0, <3>1, LesserType
  <2>4. /\ First(data, n) \in Seq(Nat) /\ Len(First(data, n)) = n
        /\ Behind(data, n) \in Seq(Nat)
    BY <2>2, <2>3, SplitAt
  <2>5. Deliver(First(data, n), Behind(data, n)) /\ UNCHANGED left /\ call = "recv" /\ fifo' = Behind(fifo, k)
    BY <1>5 DEF BulkRead
  <2>6. /\ got' \in Seq(Nat) /\ readbuffer' \in Seq(Nat) /\ block' \in Nat
        /\ call' \in {"none", "request", "recv"} /\ ret' \in BOOLEAN
        /\ call' = "recv" => block' > 0
        /\ call' = "request" => left' > 0
    BY <2>3, <2>4, <2>5, DeliverTypes
  <2> HIDE DEF k, data, n
  <2> QED BY <1>5, <2>2, <2>5, <2>6 DEF BulkRead, MpsseTypeOK
<1>6. CASE BulkFails
  <2>1. PICK k \in 0..Lesser(Len(fifo), Payload) : fifo' = Behind(fifo, k)
    BY <1>6 DEF BulkFails
  <2>2. fifo \in Seq(Nat) /\ k \in 0..Len(fifo)
    BY FifoPart DEF MpsseTypeOK
  <2>3. fifo' \in Seq(Nat)
    BY <2>1, <2>2, SplitAt
  <2> QED BY <1>6, <2>3 DEF BulkFails, MpsseTypeOK
<1>7. CASE ClockIn
  BY <1>7 DEF ClockIn, MpsseTypeOK, hostVars
<1> QED BY <1>1, <1>2, <1>3, <1>4, <1>5, <1>6, <1>7 DEF DriverStep

LEMMA TypeNext == MpsseTypeOK /\ [Next]_vars => MpsseTypeOK'
<1>1. MpsseTypeOK /\ UNCHANGED vars => MpsseTypeOK'
  BY DEF vars, hostVars, chipVars, history, MpsseTypeOK
<1> QED BY <1>1, TypeCalls, TypeSteps DEF Next

\* Every state of driver, libftdi and cable is well typed (MPSSE.cpp, ftdi.c).
THEOREM MpsseTyped == Spec => []MpsseTypeOK
BY TypeInit, TypeNext, PTL DEF Spec

-----------------------------------------------------------------------------
(* The order of the bytes.  The pipe from the cable to the caller only     *)
(* loses pieces and gains the byte clocked in last.                        *)

Rising(s, m) ==
  /\ \A i, j \in 1..Len(s) : i < j => s[i] < s[j]
  /\ \A i \in 1..Len(s) : s[i] \in 1..m

LEMMA RisingIsOrder == BytesKeepOrder <=> Rising(Pipe, clocked)
BY DEF BytesKeepOrder, Rising

LEMMA RisingParts ==
  ASSUME NEW a \in Seq(Nat), NEW b \in Seq(Nat), NEW m \in Nat, Rising(a \o b, m)
  PROVE  Rising(a, m) /\ Rising(b, m)
<1>1. /\ Len(a) \in Nat /\ Len(b) \in Nat /\ Len(a \o b) = Len(a) + Len(b)
      /\ \A i \in 1..Len(a) : (a \o b)[i] = a[i]
      /\ \A i \in 1..Len(b) : (a \o b)[Len(a) + i] = b[i]
  OBVIOUS
<1>2. ASSUME NEW i \in 1..Len(a)
      PROVE  a[i] \in 1..m /\ \A j \in 1..Len(a) : i < j => a[i] < a[j]
  <2>1. i \in 1..Len(a \o b) /\ (a \o b)[i] = a[i]
    BY <1>1
  <2>2. ASSUME NEW j \in 1..Len(a), i < j PROVE a[i] < a[j]
    <3>1. j \in 1..Len(a \o b) /\ (a \o b)[j] = a[j]
      BY <1>1, <2>2
    <3> QED BY <2>1, <2>2, <3>1 DEF Rising
  <2> QED BY <2>1, <2>2 DEF Rising
<1>3. ASSUME NEW i \in 1..Len(b)
      PROVE  b[i] \in 1..m /\ \A j \in 1..Len(b) : i < j => b[i] < b[j]
  <2>1. Len(a) + i \in 1..Len(a \o b) /\ (a \o b)[Len(a) + i] = b[i]
    BY <1>1
  <2>2. ASSUME NEW j \in 1..Len(b), i < j PROVE b[i] < b[j]
    <3>1. Len(a) + j \in 1..Len(a \o b) /\ (a \o b)[Len(a) + j] = b[j] /\ Len(a) + i < Len(a) + j
      BY <1>1, <2>2
    <3> QED BY <2>1, <3>1 DEF Rising
  <2> QED BY <2>1, <2>2 DEF Rising
<1> QED BY <1>2, <1>3 DEF Rising

\* Where the elements of a concatenation come from.
LEMMA JoinIndex ==
  ASSUME NEW a \in Seq(Nat), NEW b \in Seq(Nat)
  PROVE  /\ Len(a) \in Nat /\ Len(b) \in Nat /\ a \o b \in Seq(Nat)
         /\ Len(a \o b) = Len(a) + Len(b)
         /\ \A i \in 1..Len(a) : (a \o b)[i] = a[i]
         /\ \A j \in 1..Len(b) : (a \o b)[Len(a) + j] = b[j]
OBVIOUS

LEMMA RisingJoin ==
  ASSUME NEW a \in Seq(Nat), NEW b \in Seq(Nat), NEW m \in Nat, Rising(a, m), Rising(b, m),
         \A i \in 1..Len(a), j \in 1..Len(b) : a[i] < b[j]
  PROVE  Rising(a \o b, m)
<1>1. /\ Len(a) \in Nat /\ Len(b) \in Nat /\ Len(a \o b) = Len(a) + Len(b)
      /\ \A i \in 1..(Len(a) + Len(b)) : (a \o b)[i] = IF i <= Len(a) THEN a[i] ELSE b[i - Len(a)]
  OBVIOUS
<1>2. ASSUME NEW i \in 1..(Len(a) + Len(b))
      PROVE  (a \o b)[i] \in 1..m
  BY <1>1, <1>2 DEF Rising
<1>3. ASSUME NEW i \in 1..(Len(a) + Len(b)), NEW j \in 1..(Len(a) + Len(b)), i < j
      PROVE  (a \o b)[i] < (a \o b)[j]
  <2>1. CASE j <= Len(a)
    BY <1>1, <1>3, <2>1 DEF Rising
  <2>2. CASE i <= Len(a) /\ j > Len(a)
    <3>1. i \in 1..Len(a) /\ j - Len(a) \in 1..Len(b) BY <1>1, <1>3, <2>2
    <3> QED BY <1>1, <1>3, <2>2, <3>1
  <2>3. CASE i > Len(a)
    <3>1. i - Len(a) \in 1..Len(b) /\ j - Len(a) \in 1..Len(b) /\ i - Len(a) < j - Len(a)
      BY <1>1, <1>3, <2>3
    <3>2. b[i - Len(a)] < b[j - Len(a)]
      BY <3>1 DEF Rising
    <3>3. (a \o b)[i] = b[i - Len(a)] /\ (a \o b)[j] = b[j - Len(a)]
      BY <1>1, <1>3, <2>3
    <3> QED BY <3>2, <3>3
  <2> QED BY <1>1, <1>3, <2>1, <2>2, <2>3
<1> QED BY <1>1, <1>2, <1>3 DEF Rising

\* Pieces in the middle may be lost.
LEMMA RisingDrop ==
  ASSUME NEW a \in Seq(Nat), NEW b \in Seq(Nat), NEW c \in Seq(Nat), NEW m \in Nat,
         Rising(a \o (b \o c), m)
  PROVE  Rising(a \o c, m)
<1>1. b \o c \in Seq(Nat) /\ Len(b \o c) = Len(b) + Len(c) /\ Len(a) \in Nat /\ Len(b) \in Nat
      /\ Len(c) \in Nat
  OBVIOUS
<1>2. Rising(a, m) /\ Rising(b \o c, m) /\ Rising(c, m)
  BY <1>1, RisingParts
<1>3. ASSUME NEW i \in 1..Len(a), NEW j \in 1..Len(c) PROVE a[i] < c[j]
  <2> DEFINE d == b \o c
             t == a \o d
             k == Len(a) + (Len(b) + j)
  <2>1. d \in Seq(Nat) /\ Len(d) = Len(b) + Len(c) /\ d[Len(b) + j] = c[j]
    BY JoinIndex
  <2> HIDE DEF d
  <2>2. Len(b) + j \in 1..Len(d)
    <3>1. Len(b) \in Nat /\ Len(c) \in Nat
      OBVIOUS
    <3>2. Len(b) + j \in 1..(Len(b) + Len(c))
      BY <3>1
    <3> QED BY <2>1, <3>2
  <2>3. Len(t) = Len(a) + Len(d) /\ t[i] = a[i] /\ t[k] = d[Len(b) + j]
    <3>1. /\ Len(t) = Len(a) + Len(d)
          /\ \A l \in 1..Len(a) : t[l] = a[l]
          /\ \A l \in 1..Len(d) : t[Len(a) + l] = d[l]
      BY <2>1, JoinIndex, Zenon
    <3> HIDE DEF t
    <3> QED BY <2>2, <3>1
  <2>4. Rising(t, m)
    BY Zenon DEF d
  <2> HIDE DEF t
  <2>5. i \in 1..Len(t) /\ k \in 1..Len(t) /\ i < k
    BY <1>1, <2>1, <2>2, <2>3
  <2>6. t[i] < t[k]
    BY <2>4, <2>5 DEF Rising
  <2> QED BY <2>1, <2>3, <2>6
<1> QED BY <1>2, <1>3, RisingJoin

LEMMA RisingAppend ==
  ASSUME NEW s \in Seq(Nat), NEW m \in Nat, Rising(s, m)
  PROVE  Rising(Append(s, m + 1), m + 1)
<1>1. /\ Len(s) \in Nat /\ Len(Append(s, m + 1)) = Len(s) + 1
      /\ \A i \in 1..Len(s) : Append(s, m + 1)[i] = s[i]
      /\ Append(s, m + 1)[Len(s) + 1] = m + 1
  OBVIOUS
<1> QED BY <1>1 DEF Rising

LEMMA RisingEmpty == \A m \in Nat : Rising(<<>>, m)
BY DEF Rising

LEMMA JoinSplit ==
  ASSUME NEW s \in Seq(Nat), NEW n \in 0..Len(s)
  PROVE  First(s, n) \o Behind(s, n) = s
<1>1. SubSeq(s, 1, n) \o SubSeq(s, n + 1, Len(s)) = SubSeq(s, 1, Len(s))
  BY ConcatAdjacentSubSeq, 1 \in 1..(Len(s) + 1), n \in (1 - 1)..Len(s), Len(s) \in n..Len(s)
<1>2. SubSeq(s, 1, Len(s)) = s
  BY SubSeqFull
<1> QED BY <1>1, <1>2 DEF First, Behind

LEMMA Assoc ==
  \A a, b, c \in Seq(Nat) : (a \o b) \o c = a \o (b \o c)
BY ConcatAssociative

LEMMA PipeType ==
  ASSUME MpsseTypeOK
  PROVE  /\ got \in Seq(Nat) /\ readbuffer \in Seq(Nat) /\ fifo \in Seq(Nat) /\ clocked \in Nat
         /\ Pipe \in Seq(Nat) /\ Pipe = got \o (readbuffer \o fifo)
         /\ readbuffer \o fifo \in Seq(Nat) /\ got \o readbuffer \in Seq(Nat)
<1>1. got \in Seq(Nat) /\ readbuffer \in Seq(Nat) /\ fifo \in Seq(Nat) /\ clocked \in Nat
  BY Zenon DEF MpsseTypeOK
<1>2. got \o readbuffer \in Seq(Nat) /\ readbuffer \o fifo \in Seq(Nat) /\ Pipe \in Seq(Nat)
  BY <1>1 DEF Pipe
<1>3. (got \o readbuffer) \o fifo = got \o (readbuffer \o fifo)
  BY <1>1, Assoc, Zenon
<1> QED BY <1>1, <1>2, <1>3 DEF Pipe

LEMMA OrderInit == Init => BytesKeepOrder
<1> SUFFICES ASSUME Init PROVE BytesKeepOrder
  OBVIOUS
<1>1. Pipe = <<>>
  BY DEF Init, Pipe
<1> QED BY <1>1 DEF BytesKeepOrder

\* Calls that move no byte.
LEMMA OrderStays ==
  ASSUME BytesKeepOrder, UNCHANGED <<got, readbuffer, fifo, clocked>>
  PROVE  BytesKeepOrder'
BY DEF BytesKeepOrder, Pipe

LEMMA OrderCalls == MpsseTypeOK /\ BytesKeepOrder /\ Call => BytesKeepOrder'
<1> SUFFICES ASSUME MpsseTypeOK, BytesKeepOrder, Call PROVE BytesKeepOrder'
  OBVIOUS
<1>0. /\ got \in Seq(Nat) /\ readbuffer \in Seq(Nat) /\ fifo \in Seq(Nat) /\ clocked \in Nat
      /\ readbuffer \o fifo \in Seq(Nat) /\ Rising(got \o (readbuffer \o fifo), clocked)
  BY PipeType, RisingIsOrder
<1>1. Rising(got, clocked) /\ Rising(readbuffer \o fifo, clocked)
  BY <1>0, RisingParts
<1>2. CASE OpenSucceeds
  <2>1. \/ Pipe' = <<>> /\ clocked' = clocked
        \/ Pipe' = <<clocked + 1>> /\ clocked' = clocked + 1
    <3>1. \/ fifo' = <<>> /\ clocked' = clocked
          \/ fifo' = <<clocked + 1>> /\ clocked' = clocked + 1
      BY <1>2, Zenon DEF OpenSucceeds
    <3>2. got' = <<>> /\ readbuffer' = <<>>
      BY <1>2 DEF OpenSucceeds
    <3> QED BY <1>0, <3>1, <3>2 DEF Pipe
  <2>2. CASE Pipe' = <<>> /\ clocked' = clocked
    BY <2>2 DEF BytesKeepOrder
  <2>3. CASE Pipe' = <<clocked + 1>> /\ clocked' = clocked + 1
    BY <1>0, <2>3 DEF BytesKeepOrder
  <2> QED BY <2>1, <2>2, <2>3
<1>3. CASE OpenFails
  <2>1. CASE UNCHANGED <<fifo, readbuffer>>
    <3>1. UNCHANGED <<got, clocked>> BY <1>3 DEF OpenFails
    <3> QED BY <2>1, <3>1, OrderStays
  <2>2. CASE fifo' = <<>> /\ readbuffer' = <<>>
    <3>1. UNCHANGED <<got, clocked>> BY <1>3 DEF OpenFails
    <3>2. Pipe' = got BY <1>0, <2>2, <3>1 DEF Pipe
    <3> QED BY <1>1, <3>1, <3>2 DEF BytesKeepOrder, Rising
  <2>3. UNCHANGED <<fifo, readbuffer>> \/ (fifo' = <<>> /\ readbuffer' = <<>>)
    BY <1>3 DEF OpenFails
  <2> QED BY <2>1, <2>2, <2>3
<1>4. CASE Close \/ Refused \/ Start \/ StopBegin \/ SetGpioHigh \/ SetGpioLow
  <2>1. UNCHANGED <<got, readbuffer, fifo, clocked>>
    BY <1>4 DEF Close, Refused, Start, StopBegin, SetGpioHigh, SetGpioLow, chipVars
  <2> QED BY <2>1, OrderStays
<1>5. ASSUME NEW n \in 0..MaxRead, WriteBegin(n) PROVE BytesKeepOrder'
  <2>1. UNCHANGED <<got, readbuffer, fifo, clocked>>
    BY <1>5 DEF WriteBegin, chipVars
  <2> QED BY <2>1, OrderStays
<1>6. ASSUME NEW n \in 0..MaxRead, ReadBegin(n) PROVE BytesKeepOrder'
  <2>1. got' = <<>> /\ UNCHANGED <<readbuffer, fifo, clocked>>
    BY <1>6 DEF ReadBegin, chipVars
  <2>2. Pipe' = readbuffer \o fifo
    BY <1>0, <2>1 DEF Pipe
  <2> QED BY <1>1, <2>1, <2>2 DEF BytesKeepOrder, Rising
<1> QED BY <1>2, <1>3, <1>4, <1>5, <1>6 DEF Call

\* What is delivered leaves the front of the buffer it was in.
LEMMA DeliverKeeps ==
  ASSUME NEW g \in Seq(Nat), NEW s \in Seq(Nat), NEW n \in 0..Len(s), NEW u \in Seq(Nat)
  PROVE  ((g \o First(s, n)) \o Behind(s, n)) \o u = (g \o s) \o u
<1>1. First(s, n) \in Seq(Nat) /\ Behind(s, n) \in Seq(Nat)
  BY SplitAt
<1>2. (g \o First(s, n)) \o Behind(s, n) = g \o (First(s, n) \o Behind(s, n))
  BY <1>1, Assoc, Zenon
<1>3. First(s, n) \o Behind(s, n) = s
  BY JoinSplit
<1> QED BY <1>2, <1>3, Zenon

\* A transfer d, of which the first n bytes are delivered, and the bytes v behind it.
LEMMA BulkKeeps ==
  ASSUME NEW g \in Seq(Nat), NEW d \in Seq(Nat), NEW v \in Seq(Nat), NEW n \in 0..Len(d)
  PROVE  ((g \o First(d, n)) \o Behind(d, n)) \o v = (g \o <<>>) \o (d \o v)
<1>1. ((g \o First(d, n)) \o Behind(d, n)) \o v = (g \o d) \o v
  BY DeliverKeeps
<1>2. (g \o d) \o v = g \o (d \o v)
  BY Assoc, Zenon
<1>3. g \o <<>> = g
  OBVIOUS
<1> QED BY <1>1, <1>2, <1>3

\* The driver knows which part of its buffers a step moves.
LEMMA TakeParts ==
  ASSUME MpsseTypeOK
  PROVE  /\ Lesser(block, Len(readbuffer)) \in 0..Len(readbuffer)
         /\ Lesser(Len(fifo), Payload) \in 0..Len(fifo)
         /\ Lesser(Len(fifo), Payload) <= Payload
         /\ \A s \in Seq(Nat) : Lesser(block, Len(s)) \in 0..Len(s) /\ Lesser(block, Len(s)) <= block
<1>1. block \in Nat /\ readbuffer \in Seq(Nat) /\ fifo \in Seq(Nat)
  BY DEF MpsseTypeOK
<1>2. ASSUME NEW s \in Seq(Nat)
      PROVE  Lesser(block, Len(s)) \in 0..Len(s) /\ Lesser(block, Len(s)) <= block
  <2>1. Len(s) \in Nat
    OBVIOUS
  <2>2. Lesser(block, Len(s)) \in Nat /\ Lesser(block, Len(s)) <= Len(s) /\ Lesser(block, Len(s)) <= block
    BY <1>1, <2>1, LesserType, Zenon
  <2> QED BY <2>1, <2>2
<1> QED BY <1>1, <1>2, FifoPart

LEMMA OrderSteps == MpsseTypeOK /\ BytesKeepOrder /\ (DriverStep \/ BulkFails \/ ClockIn) => BytesKeepOrder'
<1> SUFFICES ASSUME MpsseTypeOK, BytesKeepOrder, DriverStep \/ BulkFails \/ ClockIn
             PROVE  BytesKeepOrder'
  OBVIOUS
<1>0. /\ got \in Seq(Nat) /\ readbuffer \in Seq(Nat) /\ fifo \in Seq(Nat) /\ clocked \in Nat
      /\ readbuffer \o fifo \in Seq(Nat) /\ Rising(got \o (readbuffer \o fifo), clocked)
      /\ Rising(Pipe, clocked) /\ Pipe \in Seq(Nat) /\ got \o readbuffer \in Seq(Nat)
  BY PipeType, RisingIsOrder
<1>1. CASE StopEnd \/ WriteBlock \/ Request
  <2>1. StopEnd => UNCHANGED <<got, readbuffer, fifo, clocked>>
    BY DEF StopEnd
  <2>2. WriteBlock => UNCHANGED <<got, readbuffer, fifo, clocked>>
    BY DEF WriteBlock
  <2>3. Request => UNCHANGED <<got, readbuffer, fifo, clocked>>
    BY DEF Request
  <2> QED BY <1>1, <2>1, <2>2, <2>3, OrderStays
<1>2. CASE TakeBuffered
  <2>1. PICK n \in 0..Len(readbuffer) : n = Lesser(block, Len(readbuffer))
    BY TakeParts
  <2>2. /\ got' = got \o First(readbuffer, n) /\ readbuffer' = Behind(readbuffer, n)
        /\ fifo' = fifo /\ clocked' = clocked
    BY <1>2, <2>1 DEF TakeBuffered, Deliver, chipVars
  <2>3. ((got \o First(readbuffer, n)) \o Behind(readbuffer, n)) \o fifo = (got \o readbuffer) \o fifo
    <3>1. got \in Seq(Nat) /\ readbuffer \in Seq(Nat) /\ fifo \in Seq(Nat)
      BY <1>0
    <3> QED BY <3>1, DeliverKeeps
  <2>4. Pipe' = Pipe
    BY <2>2, <2>3, Zenon DEF Pipe
  <2> QED BY <2>2, <2>4 DEF BytesKeepOrder
<1>3. CASE BulkRead
  <2> DEFINE k == Lesser(Len(fifo), Payload)
             data == First(fifo, k)
             n == Lesser(block, Len(data))
  <2>1. k \in 0..Len(fifo) /\ k <= Payload
    BY TakeParts
  <2>2. data \in Seq(Nat) /\ Behind(fifo, k) \in Seq(Nat) /\ Received(data) = data
    BY <1>0, <2>1, SplitAt, ReceivedIsSent
  <2>3. n \in 0..Len(data)
    BY <2>2, TakeParts
  <2>4. /\ readbuffer = <<>> /\ got' = got \o First(data, n) /\ readbuffer' = Behind(data, n)
        /\ fifo' = Behind(fifo, k) /\ UNCHANGED clocked
    BY <1>3, <2>2 DEF BulkRead, Deliver
  <2>5. data \o Behind(fifo, k) = fifo
    BY <1>0, <2>1, JoinSplit
  <2>6. ((got \o First(data, n)) \o Behind(data, n)) \o Behind(fifo, k)
          = (got \o <<>>) \o (data \o Behind(fifo, k))
    <3>1. \A d, v \in Seq(Nat) : \A m \in 0..Len(d) :
             ((got \o First(d, m)) \o Behind(d, m)) \o v = (got \o <<>>) \o (d \o v)
      BY <1>0, BulkKeeps
    <3> HIDE DEF k, data, n
    <3> QED BY <2>2, <2>3, <3>1, Zenon
  <2>7. Pipe' = ((got \o First(data, n)) \o Behind(data, n)) \o Behind(fifo, k)
    BY <2>4, Zenon DEF Pipe
  <2>8. Pipe' = Pipe
    BY <2>4, <2>5, <2>6, <2>7, Zenon DEF Pipe
  <2> HIDE DEF k, data, n
  <2> QED BY <2>4, <2>8 DEF BytesKeepOrder
<1>4. CASE BulkFails
  <2>1. PICK k \in 0..Lesser(Len(fifo), Payload) : fifo' = Behind(fifo, k)
    BY <1>4 DEF BulkFails
  <2>2. k \in 0..Len(fifo)
    BY TakeParts
  <2>3. /\ First(fifo, k) \in Seq(Nat) /\ Behind(fifo, k) \in Seq(Nat)
        /\ First(fifo, k) \o Behind(fifo, k) = fifo
    BY <1>0, <2>2, SplitAt, JoinSplit
  <2>4. readbuffer = <<>> /\ UNCHANGED <<got, readbuffer, clocked>>
    BY <1>4 DEF BulkFails
  <2>5. readbuffer \o fifo = First(fifo, k) \o Behind(fifo, k) /\ Pipe' = got \o Behind(fifo, k)
    BY <1>0, <2>1, <2>3, <2>4 DEF Pipe
  <2>6. Rising(got \o Behind(fifo, k), clocked)
    BY <1>0, <2>3, <2>5, RisingDrop
  <2> QED BY <2>4, <2>5, <2>6 DEF BytesKeepOrder, Rising
<1>5. CASE ClockIn
  <2>1. fifo' = Append(fifo, clocked + 1) /\ clocked' = clocked + 1 /\ UNCHANGED <<got, readbuffer>>
    BY <1>5 DEF ClockIn, hostVars
  <2>2. Pipe' = Append(Pipe, clocked + 1)
    BY <1>0, <2>1 DEF Pipe
  <2>3. Rising(Append(Pipe, clocked + 1), clocked + 1)
    BY <1>0, RisingAppend
  <2> QED BY <2>1, <2>2, <2>3 DEF BytesKeepOrder, Rising
<1> QED BY <1>1, <1>2, <1>3, <1>4, <1>5 DEF DriverStep

\* Bytes reach the caller in the order in which they were clocked in, each at
\* most once, whatever transfers fail (ftdi.c ftdi_read_data, MPSSE.cpp ftdiRecv).
THEOREM BytesKeepOrderHolds == Spec => []BytesKeepOrder
<1>1. MpsseTypeOK /\ BytesKeepOrder /\ [Next]_vars => BytesKeepOrder'
  <2>1. BytesKeepOrder /\ UNCHANGED vars => BytesKeepOrder'
    BY OrderStays DEF vars, hostVars, chipVars
  <2> QED BY <2>1, OrderCalls, OrderSteps DEF Next
<1> QED BY <1>1, OrderInit, MpsseTyped, PTL DEF Spec

-----------------------------------------------------------------------------
(* Driver and cable in step.  While nothing failed, the cable holds and    *)
(* owes exactly what the current block still lacks, and what it holds      *)
(* follows what the read has; libftdi's buffer stays empty, since no more  *)
(* than the block ever arrives.                                            *)

Undisturbed == ~disturbed /\ opened

InStepInv ==
  Undisturbed =>
    /\ ~cut
    /\ readbuffer = <<>>
    /\ Len(fifo) + owed = IF call = "recv" THEN block ELSE 0
    /\ \A i \in 1..Len(got) : got[i] = first + i - 1
    /\ \A i \in 1..Len(fifo) : fifo[i] = first + Len(got) + i - 1
    /\ call \in {"request", "recv"} => clocked = first + Len(got) + Len(fifo) - 1

SelectInv ==
  Undisturbed /\ ~lowGpio =>
    /\ ~cut
    /\ call = "stop" => ~selected
    /\ call # "stop" => (selected <=> status = "Started")

LEMMA InStepIsAnswer == MpsseTypeOK /\ InStepInv /\ SelectInv => BusInStep
<1> SUFFICES ASSUME MpsseTypeOK, InStepInv, SelectInv PROVE BusInStep
  OBVIOUS
<1>1. SelectFollowsStatus
  BY Zenon DEF SelectInv, SelectFollowsStatus, Undisturbed
<1>2. ASSUME Undisturbed
      PROVE  /\ \A i \in 1..Len(got) : got[i] = first + i - 1
             /\ call = "none" => readbuffer = <<>> /\ fifo = <<>> /\ owed = 0
  <2>1. Len(fifo) \in Nat /\ owed \in Nat /\ fifo \in Seq(Nat)
    BY DEF MpsseTypeOK
  <2>2. /\ readbuffer = <<>> /\ \A i \in 1..Len(got) : got[i] = first + i - 1
        /\ Len(fifo) + owed = IF call = "recv" THEN block ELSE 0
    BY <1>2 DEF InStepInv
  <2>3. call = "none" => Len(fifo) = 0 /\ owed = 0
    BY <2>1, <2>2
  <2> QED BY <2>1, <2>2, <2>3, EmptySeq
<1>3. AnswerIsOwn
  BY <1>2 DEF AnswerIsOwn, Undisturbed
<1> QED BY <1>1, <1>3 DEF BusInStep

LEMMA SentInStep ==
  ASSUME NEW n \in Nat, NEW sel \in BOOLEAN, Sent(n, sel), ~cut
  PROVE  owed' = owed + n /\ ~cut' /\ selected' = sel /\ disturbed' = disturbed
<1>1. owed' = owed + n
  BY DEF Sent, Reaches
<1>2. ~cut' /\ selected' = sel /\ disturbed' = disturbed
  BY Zenon DEF Sent, Reaches
<1> QED BY <1>1, <1>2

LEMMA NotSentDisturbs ==
  ASSUME NEW n, NEW sel, NotSent(n, sel)
  PROVE  ~Undisturbed'
BY Zenon DEF NotSent, Undisturbed

\* A command that asks for nothing, outside of a read.
LEMMA InStepKept ==
  ASSUME InStepInv, UNCHANGED <<opened, got, readbuffer, fifo, first>>, NEW sel \in BOOLEAN,
         call \notin {"request", "recv"}, call' \notin {"request", "recv"}, owed \in Nat,
         Sent(0, sel) \/ NotSent(0, sel)
  PROVE  InStepInv'
<1>1. CASE NotSent(0, sel)
  BY <1>1, NotSentDisturbs DEF InStepInv
<1>2. CASE Sent(0, sel)
  <2> SUFFICES ASSUME Undisturbed' PROVE InStepInv'
    BY DEF InStepInv
  <2>1. Undisturbed
    BY <1>2, Zenon DEF Undisturbed, Sent
  <2>2. /\ ~cut /\ readbuffer = <<>> /\ Len(fifo) + owed = 0
        /\ \A i \in 1..Len(got) : got[i] = first + i - 1
        /\ \A i \in 1..Len(fifo) : fifo[i] = first + Len(got) + i - 1
    BY <2>1 DEF InStepInv
  <2>3. owed' = owed + 0 /\ ~cut'
    BY <1>2, <2>2, SentInStep, 0 \in Nat
  <2>4. Len(fifo') + owed' = 0
    BY <2>2, <2>3
  <2> QED BY <2>2, <2>3, <2>4 DEF InStepInv
<1> QED BY <1>1, <1>2

\* A call that neither sends nor moves a byte.
LEMMA InStepQuiet ==
  ASSUME InStepInv, UNCHANGED <<got, readbuffer, fifo, first, owed, cut>>, Undisturbed' => Undisturbed,
         call \notin {"request", "recv"}, call' \notin {"request", "recv"}
  PROVE  InStepInv'
BY DEF InStepInv

LEMMA InStepCalls == MpsseTypeOK /\ InStepInv /\ Call => InStepInv'
<1> SUFFICES ASSUME MpsseTypeOK, InStepInv, Call PROVE InStepInv'
  OBVIOUS
<1>0. /\ selected \in BOOLEAN /\ owed \in Nat /\ clocked \in Nat
      /\ fifo \in Seq(Nat) /\ Len(fifo) \in Nat
  BY DEF MpsseTypeOK
<1>1. CASE OpenSucceeds
  <2>1. SUFFICES ASSUME ~disturbed' PROVE InStepInv'
    BY Zenon DEF InStepInv, Undisturbed
  <2>2. /\ ~cut' /\ call' = "none"
        /\ fifo' = <<>> /\ owed' = 0 /\ got' = <<>> /\ readbuffer' = <<>>
    BY <1>1, <2>1, Zenon DEF OpenSucceeds, Return
  <2> QED BY <2>2 DEF InStepInv
<1>2. CASE OpenFails
  BY <1>2, Zenon DEF OpenFails, InStepInv, Undisturbed
<1>3. CASE Close
  BY <1>3, Zenon DEF Close, InStepInv, Undisturbed
<1>4. CASE Refused
  BY <1>4, Zenon DEF Refused, InStepInv, Undisturbed
<1>5. CASE Start
  <2>1. /\ UNCHANGED <<opened, got, readbuffer, fifo, first>> /\ call = "none" /\ call' = "none"
        /\ Sent(0, TRUE) \/ NotSent(0, TRUE)
    BY <1>5 DEF Start, Ready, Return
  <2> QED BY <1>0, <2>1, InStepKept
<1>6. CASE StopBegin
  <2>1. /\ UNCHANGED <<opened, got, readbuffer, fifo, first>>
        /\ call = "none" /\ (call' = "none" \/ call' = "stop")
        /\ Sent(0, FALSE) \/ NotSent(0, FALSE)
    BY <1>6 DEF StopBegin, Ready, Return
  <2> QED BY <1>0, <2>1, InStepKept
<1>7. CASE SetGpioHigh
  <2>1. /\ UNCHANGED <<opened, got, readbuffer, fifo, first>> /\ call = "none" /\ call' = "none"
        /\ Sent(0, selected) \/ NotSent(0, selected)
    BY <1>7 DEF SetGpioHigh, Ready, Return
  <2> QED BY <1>0, <2>1, InStepKept
<1>8. CASE SetGpioLow
  <2>1. /\ UNCHANGED <<opened, got, readbuffer, fifo, first>> /\ call = "none" /\ call' = "none"
        /\ Sent(0, TRUE) \/ NotSent(0, TRUE)
    BY <1>8 DEF SetGpioLow, Ready, Return
  <2> QED BY <1>0, <2>1, InStepKept
<1>9. ASSUME NEW n \in 0..MaxRead, WriteBegin(n) PROVE InStepInv'
  <2>1. call = "none" /\ (call' = "none" \/ call' = "write")
    BY <1>9 DEF WriteBegin, Ready, Return
  <2>2. UNCHANGED <<opened, got, readbuffer, fifo, first, owed, cut, disturbed>>
    BY <1>9 DEF WriteBegin, chipVars, history
  <2> QED BY <2>1, <2>2, InStepQuiet DEF Undisturbed
<1>10. ASSUME NEW n \in 0..MaxRead, ReadBegin(n) PROVE InStepInv'
  <2>1. call = "none" /\ (call' = "none" \/ call' = "request")
    BY <1>10 DEF ReadBegin, Ready, Return
  <2>2. UNCHANGED <<opened, readbuffer, fifo, owed, cut, clocked, disturbed>> /\ got' = <<>>
        /\ first' = clocked + owed + 1
    BY <1>10 DEF ReadBegin, Asked, chipVars
  <2>3. SUFFICES ASSUME Undisturbed' PROVE InStepInv'
    BY DEF InStepInv
  <2>4. Undisturbed
    BY <2>2, <2>3 DEF Undisturbed
  <2>5. ~cut /\ readbuffer = <<>> /\ Len(fifo) + owed = 0
    BY <2>1, <2>4 DEF InStepInv
  <2>6. Len(fifo) = 0 /\ owed = 0 /\ fifo' = fifo /\ Len(got') = 0
    BY <1>0, <2>2, <2>5
  <2>7. clocked' = first' + Len(got') + Len(fifo') - 1
    BY <1>0, <2>2, <2>6
  <2> QED BY <2>1, <2>2, <2>5, <2>6, <2>7 DEF InStepInv
<1> QED BY <1>1, <1>2, <1>3, <1>4, <1>5, <1>6, <1>7, <1>8, <1>9, <1>10 DEF Call

LEMMA JoinAt ==
  ASSUME NEW a \in Seq(Nat), NEW b \in Seq(Nat)
  PROVE  /\ Len(a \o b) = Len(a) + Len(b)
         /\ \A i \in 1..Len(a) : (a \o b)[i] = a[i]
         /\ \A i \in 1..Len(b) : (a \o b)[Len(a) + i] = b[i]
OBVIOUS

LEMMA InStepSteps == MpsseTypeOK /\ InStepInv /\ (DriverStep \/ BulkFails \/ ClockIn) => InStepInv'
<1> SUFFICES ASSUME MpsseTypeOK, InStepInv, DriverStep \/ BulkFails \/ ClockIn PROVE InStepInv'
  OBVIOUS
<1>0. /\ selected \in BOOLEAN /\ owed \in Nat /\ clocked \in Nat /\ first \in Nat /\ block \in Nat
      /\ fifo \in Seq(Nat) /\ Len(fifo) \in Nat /\ got \in Seq(Nat) /\ Len(got) \in Nat
  BY DEF MpsseTypeOK
<1>1. CASE StopEnd
  <2>1. /\ UNCHANGED <<opened, got, readbuffer, fifo, first>> /\ call = "stop" /\ call' = "none"
        /\ Sent(0, FALSE) \/ NotSent(0, FALSE)
    BY <1>1 DEF StopEnd, Return
  <2> QED BY <1>0, <2>1, InStepKept
<1>2. CASE WriteBlock
  <2>1. /\ UNCHANGED <<opened, got, readbuffer, fifo, first>>
        /\ call = "write" /\ (call' = "none" \/ call' = "write")
        /\ Sent(0, selected) \/ NotSent(0, selected)
    BY <1>2 DEF WriteBlock, Return
  <2> QED BY <1>0, <2>1, InStepKept
<1>3. CASE Request
  <2> DEFINE m == Lesser(left, TxSize)
  <2>1. m \in Nat
    BY MpsseAssumption, LesserType DEF MpsseTypeOK
  <2>2. CASE NotSent(m, selected)
    BY <2>2, NotSentDisturbs DEF InStepInv
  <2>3. CASE Sent(m, selected) /\ block' = m /\ call' = "recv"
    <3>1. SUFFICES ASSUME Undisturbed' PROVE InStepInv'
      BY DEF InStepInv
    <3>2. Undisturbed
      BY <1>3, <2>3, <3>1, Zenon DEF Undisturbed, Sent, Request
    <3>3. call = "request" /\ UNCHANGED <<got, readbuffer, fifo, clocked, first>>
      BY <1>3 DEF Request
    <3>4. /\ ~cut /\ readbuffer = <<>> /\ Len(fifo) + owed = 0
          /\ \A i \in 1..Len(got) : got[i] = first + i - 1
          /\ \A i \in 1..Len(fifo) : fifo[i] = first + Len(got) + i - 1
          /\ clocked = first + Len(got) + Len(fifo) - 1
      BY <3>2, <3>3 DEF InStepInv
    <3>5. owed' = owed + m /\ ~cut'
      BY <1>0, <2>1, <2>3, <3>4, SentInStep
    <3>6. Len(fifo') + owed' = block'
      BY <1>0, <2>1, <2>3, <3>3, <3>4, <3>5
    <3> QED BY <2>3, <3>3, <3>4, <3>5, <3>6 DEF InStepInv
  <2> QED BY <1>3, <2>2, <2>3 DEF Request
<1>4. CASE TakeBuffered
  <2>1. readbuffer # <<>> /\ UNCHANGED <<opened, disturbed>>
    BY <1>4 DEF TakeBuffered, history
  <2> QED BY <2>1 DEF InStepInv, Undisturbed
<1>5. CASE BulkRead
  <2> DEFINE k == Lesser(Len(fifo), Payload)
             data == First(fifo, k)
             n == Lesser(block, Len(data))
  <2>1. k \in 0..Len(fifo) /\ k <= Payload
    BY TakeParts
  <2>2. /\ data \in Seq(Nat) /\ Len(data) = k /\ Received(data) = data
        /\ \A i \in 1..k : data[i] = fifo[i]
        /\ Behind(fifo, k) \in Seq(Nat) /\ Len(Behind(fifo, k)) = Len(fifo) - k
        /\ \A i \in 1..(Len(fifo) - k) : Behind(fifo, k)[i] = fifo[k + i]
    BY <1>0, <2>1, SplitAt, ReceivedIsSent
  <2>3. SUFFICES ASSUME Undisturbed' PROVE InStepInv'
    BY DEF InStepInv
  <2>4. /\ call = "recv" /\ UNCHANGED <<opened, disturbed, cut, owed, clocked, first>>
        /\ fifo' = Behind(fifo, k) /\ Deliver(First(data, n), Behind(data, n))
    BY <1>5, <2>2 DEF BulkRead, history
  <2>5. Undisturbed
    BY <2>3, <2>4 DEF Undisturbed
  <2>6. /\ ~cut /\ readbuffer = <<>> /\ Len(fifo) + owed = block
        /\ \A i \in 1..Len(got) : got[i] = first + i - 1
        /\ \A i \in 1..Len(fifo) : fifo[i] = first + Len(got) + i - 1
        /\ clocked = first + Len(got) + Len(fifo) - 1
    BY <2>4, <2>5 DEF InStepInv
  <2>7. n = k
    BY <1>0, <2>1, <2>2, <2>6 DEF Lesser
  <2> HIDE DEF k
  <2>8. First(data, n) = data /\ Behind(data, n) = <<>>
    BY <2>1, <2>2, <2>7, SubSeqFull, SubSeqEmpty DEF First, Behind
  <2>9. got' = got \o data /\ readbuffer' = <<>> /\ block' = block - k
        /\ call' = IF block' > 0 THEN "recv" ELSE IF left > 0 THEN "request" ELSE "none"
    BY <2>2, <2>4, <2>8 DEF Deliver, Return
  <2> HIDE DEF data, n
  <2>10. /\ Len(got') = Len(got) + k
         /\ \A i \in 1..Len(got) : got'[i] = got[i]
         /\ \A i \in 1..k : got'[Len(got) + i] = data[i]
    <3>1. got \in Seq(Nat) /\ data \in Seq(Nat) /\ Len(data) = k /\ got' = got \o data
      BY <1>0, <2>2, <2>9
    <3> QED BY <3>1, JoinAt
  <2>11. \A i \in 1..Len(got') : got'[i] = first' + i - 1
    <3> SUFFICES ASSUME NEW i \in 1..Len(got') PROVE got'[i] = first' + i - 1
      OBVIOUS
    <3>1. CASE i <= Len(got)
      BY <1>0, <2>1, <2>4, <2>6, <2>10, <3>1
    <3>2. CASE i > Len(got)
      <4>1. i - Len(got) \in 1..k /\ i = Len(got) + (i - Len(got))
        BY <1>0, <2>1, <2>10, <3>2
      <4>2. got'[i] = fifo[i - Len(got)] /\ i - Len(got) \in 1..Len(fifo)
        <5>1. got'[i] = data[i - Len(got)] BY <2>10, <4>1
        <5>2. data[i - Len(got)] = fifo[i - Len(got)] BY <2>2, <4>1
        <5>3. i - Len(got) \in 1..Len(fifo) BY <1>0, <2>1, <4>1
        <5> QED BY <5>1, <5>2, <5>3
      <4> QED BY <1>0, <2>4, <2>6, <4>1, <4>2
    <3> QED BY <1>0, <2>1, <2>10, <3>1, <3>2
  <2>12. \A i \in 1..Len(fifo') : fifo'[i] = first' + Len(got') + i - 1
    <3> SUFFICES ASSUME NEW i \in 1..Len(fifo') PROVE fifo'[i] = first' + Len(got') + i - 1
      OBVIOUS
    <3>1. k + i \in 1..Len(fifo) /\ fifo'[i] = fifo[k + i]
      BY <1>0, <2>1, <2>2, <2>4
    <3> QED BY <1>0, <2>1, <2>4, <2>6, <2>10, <3>1
  <2>13. /\ Len(fifo') + owed' = block - k
         /\ clocked' = first' + Len(got') + Len(fifo') - 1
    <3>1. Len(fifo') = Len(fifo) - k /\ owed' = owed /\ k \in Nat
      BY <2>1, <2>2, <2>4
    <3>2. clocked' = clocked /\ first' = first
      BY <2>4
    <3> QED BY <1>0, <2>6, <2>10, <3>1, <3>2
  <2>14. call' = "recv" \/ block - k = 0
    <3>1. k <= block BY <1>0, <2>1, <2>6
    <3> QED BY <1>0, <2>1, <2>9, <3>1
  <2>15. call' # "recv" => ~(block - k > 0)
    BY <2>9
  <2>16. Len(fifo') + owed' = IF call' = "recv" THEN block' ELSE 0
    BY <2>9, <2>13, <2>14
  <2> QED BY <2>4, <2>6, <2>9, <2>11, <2>12, <2>13, <2>16 DEF InStepInv
<1>6. CASE BulkFails
  BY <1>6, Zenon DEF BulkFails, InStepInv, Undisturbed
<1>7. CASE ClockIn
  <2>1. SUFFICES ASSUME Undisturbed' PROVE InStepInv'
    BY DEF InStepInv
  <2>2. /\ UNCHANGED <<opened, call, block, got, readbuffer, cut, first, disturbed>>
        /\ owed > 0 /\ owed' = owed - 1 /\ clocked' = clocked + 1 /\ fifo' = Append(fifo, clocked + 1)
    BY <1>7 DEF ClockIn, hostVars, history
  <2>3. Undisturbed
    BY <2>1, <2>2 DEF Undisturbed
  <2>4. /\ ~cut /\ readbuffer = <<>> /\ Len(fifo) + owed = IF call = "recv" THEN block ELSE 0
        /\ \A i \in 1..Len(got) : got[i] = first + i - 1
        /\ \A i \in 1..Len(fifo) : fifo[i] = first + Len(got) + i - 1
        /\ call \in {"request", "recv"} => clocked = first + Len(got) + Len(fifo) - 1
    BY <2>3 DEF InStepInv
  <2>5. call = "recv" /\ clocked = first + Len(got) + Len(fifo) - 1
    BY <1>0, <2>2, <2>4
  <2>6. /\ Len(fifo') = Len(fifo) + 1 /\ fifo'[Len(fifo) + 1] = clocked + 1
        /\ \A i \in 1..Len(fifo) : fifo'[i] = fifo[i]
    BY <1>0, <2>2
  <2>7. \A i \in 1..Len(fifo') : fifo'[i] = first' + Len(got') + i - 1
    <3>1. first' = first /\ Len(got') = Len(got)
      BY <2>2
    <3> SUFFICES ASSUME NEW i \in 1..(Len(fifo) + 1) PROVE fifo'[i] = first + Len(got) + i - 1
      BY <2>6, <3>1
    <3>2. CASE i = Len(fifo) + 1
      BY <1>0, <2>5, <2>6, <3>2
    <3>3. CASE i # Len(fifo) + 1
      <4>1. i \in 1..Len(fifo) BY <1>0, <3>3
      <4> QED BY <2>4, <2>6, <4>1
    <3> QED BY <3>2, <3>3
  <2>8. Len(fifo') + owed' = block'
    <3>1. Len(fifo) + owed = block /\ block' = block
      BY <2>2, <2>4, <2>5
    <3>2. owed' = owed - 1 /\ Len(fifo') = Len(fifo) + 1 /\ owed \in Nat /\ Len(fifo) \in Nat
      BY <1>0, <2>2, <2>6
    <3> QED BY <3>1, <3>2
  <2>9. clocked' = first' + Len(got') + Len(fifo') - 1
    BY <1>0, <2>2, <2>5, <2>6
  <2> QED BY <2>2, <2>4, <2>5, <2>7, <2>8, <2>9 DEF InStepInv
<1> QED BY <1>1, <1>2, <1>3, <1>4, <1>5, <1>6, <1>7 DEF DriverStep

LEMMA BusInit == Init => InStepInv /\ SelectInv
BY Zenon DEF Init, InStepInv, SelectInv, Undisturbed

\* A command that leaves CS as it is, outside of stop.
LEMMA SelectKept ==
  ASSUME SelectInv, selected \in BOOLEAN, UNCHANGED <<opened, status, lowGpio>>, NEW n \in Nat,
         call # "stop", call' # "stop", Sent(n, selected) \/ NotSent(n, selected)
  PROVE  SelectInv'
<1>1. CASE NotSent(n, selected)
  BY <1>1, NotSentDisturbs DEF SelectInv
<1>2. CASE Sent(n, selected)
  <2>1. SUFFICES ASSUME Undisturbed', ~lowGpio' PROVE SelectInv'
    BY DEF SelectInv
  <2>2. Undisturbed /\ ~lowGpio
    BY <1>2, <2>1, Zenon DEF Undisturbed, Sent
  <2>3. ~cut /\ (selected <=> status = "Started")
    BY <2>2 DEF SelectInv
  <2>4. ~cut' /\ selected' = selected
    BY <1>2, <2>3, SentInStep
  <2> QED BY <2>3, <2>4, Zenon DEF SelectInv
<1> QED BY <1>1, <1>2

\* A step that sends nothing.
LEMMA SelectQuiet ==
  ASSUME SelectInv, UNCHANGED <<opened, status, lowGpio, cut, selected, disturbed>>,
         call = "stop" <=> call' = "stop"
  PROVE  SelectInv'
BY Zenon DEF SelectInv, Undisturbed

LEMMA SelectCalls == MpsseTypeOK /\ SelectInv /\ Call => SelectInv'
<1> SUFFICES ASSUME MpsseTypeOK, SelectInv, Call PROVE SelectInv'
  OBVIOUS
<1>0. selected \in BOOLEAN
  BY DEF MpsseTypeOK
<1>1. CASE OpenSucceeds
  BY <1>1 DEF OpenSucceeds, SelectInv, Return
<1>2. CASE OpenFails \/ Close
  BY <1>2, Zenon DEF OpenFails, Close, SelectInv, Undisturbed
<1>3. CASE Refused
  BY <1>3, Zenon DEF Refused, SelectInv, Undisturbed
<1>4. CASE Start
  <2>1. CASE NotSent(0, TRUE)
    BY <2>1, NotSentDisturbs DEF SelectInv
  <2>2. CASE Sent(0, TRUE) /\ status' = "Started"
    <3>1. UNCHANGED <<opened, lowGpio>> /\ call' = "none" /\ call = "none"
      BY <1>4 DEF Start, Ready, Return
    <3>2. SUFFICES ASSUME Undisturbed', ~lowGpio' PROVE SelectInv'
      BY DEF SelectInv
    <3>3. ~cut
      BY <2>2, <3>1, <3>2, Zenon DEF SelectInv, Undisturbed, Sent
    <3>4. ~cut' /\ selected' = TRUE
      BY <2>2, <3>3, SentInStep, 0 \in Nat, TRUE \in BOOLEAN
    <3> QED BY <2>2, <3>1, <3>4 DEF SelectInv
  <2> QED BY <1>4, <2>1, <2>2 DEF Start
<1>5. CASE StopBegin
  <2>1. CASE NotSent(0, FALSE)
    BY <2>1, NotSentDisturbs DEF SelectInv
  <2>2. CASE Sent(0, FALSE) /\ call' = "stop"
    <3>1. UNCHANGED <<opened, lowGpio>> /\ call = "none"
      BY <1>5 DEF StopBegin, Ready
    <3>2. SUFFICES ASSUME Undisturbed', ~lowGpio' PROVE SelectInv'
      BY DEF SelectInv
    <3>3. ~cut
      BY <2>2, <3>1, <3>2, Zenon DEF SelectInv, Undisturbed, Sent
    <3>4. ~cut' /\ selected' = FALSE
      BY <2>2, <3>3, SentInStep, 0 \in Nat, FALSE \in BOOLEAN
    <3> QED BY <2>2, <3>4 DEF SelectInv
  <2> QED BY <1>5, <2>1, <2>2 DEF StopBegin
<1>6. CASE SetGpioHigh
  <2>1. /\ UNCHANGED <<opened, status, lowGpio>> /\ call # "stop" /\ call' # "stop"
        /\ Sent(0, selected) \/ NotSent(0, selected)
    BY <1>6 DEF SetGpioHigh, Ready, Return
  <2> QED BY <1>0, <2>1, SelectKept, 0 \in Nat
<1>7. CASE SetGpioLow
  BY <1>7 DEF SetGpioLow, SelectInv
<1>8. ASSUME NEW n \in 0..MaxRead, WriteBegin(n) \/ ReadBegin(n) PROVE SelectInv'
  <2>1. call # "stop" /\ call' # "stop" /\ UNCHANGED <<opened, status, lowGpio, cut, selected, disturbed>>
    BY <1>8 DEF WriteBegin, ReadBegin, Ready, Return, chipVars, history
  <2> QED BY <2>1, SelectQuiet
<1> QED BY <1>1, <1>2, <1>3, <1>4, <1>5, <1>6, <1>7, <1>8 DEF Call

LEMMA SelectSteps == MpsseTypeOK /\ SelectInv /\ (DriverStep \/ BulkFails \/ ClockIn) => SelectInv'
<1> SUFFICES ASSUME MpsseTypeOK, SelectInv, DriverStep \/ BulkFails \/ ClockIn PROVE SelectInv'
  OBVIOUS
<1>0. selected \in BOOLEAN
  BY DEF MpsseTypeOK
<1>1. CASE StopEnd
  <2>1. CASE NotSent(0, FALSE)
    BY <2>1, NotSentDisturbs DEF SelectInv
  <2>2. CASE Sent(0, FALSE) /\ status' = "Stopped"
    <3>1. UNCHANGED <<opened, lowGpio>> /\ call = "stop" /\ call' = "none"
      BY <1>1 DEF StopEnd, Return
    <3>2. SUFFICES ASSUME Undisturbed', ~lowGpio' PROVE SelectInv'
      BY DEF SelectInv
    <3>3. ~cut
      BY <2>2, <3>1, <3>2, Zenon DEF SelectInv, Undisturbed, Sent
    <3>4. ~cut' /\ selected' = FALSE
      BY <2>2, <3>3, SentInStep, 0 \in Nat, FALSE \in BOOLEAN
    <3> QED BY <2>2, <3>1, <3>4 DEF SelectInv
  <2> QED BY <1>1, <2>1, <2>2 DEF StopEnd
<1>2. CASE WriteBlock
  <2>1. /\ UNCHANGED <<opened, status, lowGpio>> /\ call # "stop" /\ call' # "stop"
        /\ Sent(0, selected) \/ NotSent(0, selected)
    BY <1>2 DEF WriteBlock, Return
  <2> QED BY <1>0, <2>1, SelectKept, 0 \in Nat
<1>3. CASE Request
  <2>1. Lesser(left, TxSize) \in Nat
    BY MpsseAssumption, LesserType DEF MpsseTypeOK
  <2>2. /\ UNCHANGED <<opened, status, lowGpio>> /\ call # "stop" /\ call' # "stop"
        /\ Sent(Lesser(left, TxSize), selected) \/ NotSent(Lesser(left, TxSize), selected)
    BY <1>3 DEF Request, Return
  <2> QED BY <1>0, <2>1, <2>2, SelectKept
<1>4. CASE TakeBuffered \/ BulkRead
  <2>1. /\ call # "stop" /\ call' # "stop"
        /\ UNCHANGED <<opened, status, lowGpio, cut, selected, disturbed>>
    <3>1. call = "recv" /\ UNCHANGED <<opened, status, lowGpio, cut, selected, disturbed>>
      BY <1>4 DEF TakeBuffered, BulkRead, chipVars, history
    <3>2. \A s, rest : Deliver(s, rest) => call' \in {call, "request", "none"}
      BY Zenon DEF Deliver, Return
    <3>3. \E s, rest : Deliver(s, rest)
      <4>1. CASE TakeBuffered BY <4>1, Zenon DEF TakeBuffered
      <4>2. CASE BulkRead
        <5> DEFINE data == Received(First(fifo, Lesser(Len(fifo), Payload)))
                   n == Lesser(block, Len(data))
        <5>1. Deliver(First(data, n), Behind(data, n)) BY <4>2, Zenon DEF BulkRead
        <5> QED BY <5>1, Zenon
      <4> QED BY <1>4, <4>1, <4>2
    <3>4. call' \in {call, "request", "none"}
      BY <3>2, <3>3, Zenon
    <3> QED BY <3>1, <3>4
  <2> QED BY <2>1, SelectQuiet
<1>5. CASE BulkFails
  BY <1>5, Zenon DEF BulkFails, SelectInv, Undisturbed
<1>6. CASE ClockIn
  <2>1. UNCHANGED <<opened, status, lowGpio, cut, selected, disturbed, call>>
    BY <1>6 DEF ClockIn, hostVars, history
  <2> QED BY <2>1, SelectQuiet
<1> QED BY <1>1, <1>2, <1>3, <1>4, <1>5, <1>6 DEF DriverStep

\* While no transfer fails a read returns its own bytes, nothing is left over for
\* the next one, and CS follows the driver's state (MPSSE.cpp read, ftdiRecv, stop).
THEOREM BusInStepHolds == Spec => []BusInStep
<1>1. MpsseTypeOK /\ InStepInv /\ SelectInv /\ [Next]_vars => InStepInv' /\ SelectInv'
  <2>1. SelectInv /\ UNCHANGED vars => SelectInv'
    BY SelectQuiet DEF vars, hostVars, chipVars, history
  <2>2. ASSUME InStepInv, UNCHANGED vars PROVE InStepInv'
    <3>1. UNCHANGED <<opened, call, block, got, readbuffer, fifo, owed, cut, clocked, first, disturbed>>
      BY <2>2 DEF vars, hostVars, chipVars, history
    <3> QED BY <2>2, <3>1 DEF InStepInv, Undisturbed
  <2> QED BY <2>1, <2>2, InStepCalls, InStepSteps, SelectCalls, SelectSteps DEF Next
<1> QED BY <1>1, BusInit, InStepIsAnswer, MpsseTyped, PTL DEF Spec
=============================================================================
