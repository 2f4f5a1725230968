-------------------------------- MODULE MPSSE --------------------------------
(***************************************************************************)
(* The SPI side of the FTDI cable (hw-dev/src/main/cpp/hw/proto/MPSSE.cpp) *)
(* on libftdi's ftdi_write_data and ftdi_read_data (lib-ext/ftdi1).  A     *)
(* command that is written to the cable may ask it to clock bytes in; they *)
(* come back in a FIFO, in USB transfers made of packets whose first two   *)
(* bytes are the modem status.  Nothing in an answer says whose it is: a   *)
(* read takes the next bytes there are, from libftdi's read buffer, from   *)
(* the FIFO, or as they arrive.  A byte is the number of its clocking.     *)
(***************************************************************************)
EXTENDS Integers, Sequences

CONSTANTS
  PacketSize,  \* USB packet, two status bytes included (max_packet_size)
  Packets,     \* packets in a bulk transfer (readbuffer_chunksize / max_packet_size)
  TxSize,      \* the driver's block (txsize, SPI_RW_SIZE)
  MaxRead,     \* bound: bytes of one read or write
  MaxBytes     \* bound: bytes asked for when another call begins

ASSUME MpsseAssumption ==
  /\ PacketSize \in Nat /\ PacketSize > 2
  /\ Packets \in Nat \ {0}
  /\ TxSize \in Nat \ {0}
  /\ MaxRead \in Nat
  /\ MaxBytes \in Nat

VARIABLES
  opened,     \* profile is set
  status,     \* Impl::status
  call,       \* where the call in progress is, or "none"
  left,       \* bytes of the call behind the current block
  block,      \* bytes of the current block still to be received
  got,        \* bytes the last read has so far
  ret,        \* what the last call returned
  readbuffer, \* libftdi's: received and not yet asked for
  fifo,       \* bytes the cable has clocked in and not sent up
  owed,       \* bytes it is still to clock in
  cut,        \* part of a command is in the cable: what follows is misread
  selected,   \* the chip select line is low
  clocked,    \* history: number of the byte clocked in last
  first,      \* history: number of the first byte the last read asked for
  disturbed,  \* history: a transfer failed since the device was opened
  lowGpio     \* history: one of GPIOL0-3 was set since then

hostVars == <<opened, status, call, left, block, got, ret, readbuffer>>
chipVars == <<fifo, owed, cut, selected, clocked>>
history  == <<first, disturbed, lowGpio>>
vars     == <<hostVars, chipVars, history>>

Asked == clocked + owed

Lesser(a, b) == IF a < b THEN a ELSE b

-----------------------------------------------------------------------------
(* USB transfers.  A transfer brings up to Payload data bytes; every       *)
(* packet of it but the last is full.  It ends with the first packet that  *)
(* is not, which is a status alone when the data filled the ones before    *)
(* it, or when it fills the chunk.  Positions count from 0, as in C.       *)

Data    == PacketSize - 2
Payload == Packets * Data

StatusByte == 0

\* How many bytes n data bytes are, with the status of their packets: with a rest
\* or without one, a packet that is not full follows the full ones, if it can.
RawLength(n) == n + 2 * IF n = Payload THEN Packets ELSE n \div Data + 1

\* What the cable sends for the data bytes s.
Raw(s) ==
  [q \in 0..(RawLength(Len(s)) - 1) |->
     IF q % PacketSize < 2 THEN StatusByte
     ELSE s[(q \div PacketSize) * Data + (q % PacketSize) - 1]]

\* A faulty variant: a status alone at the end is not taken off the length.
DataLengthForgetsRest(actual) ==
  LET chunks == actual \div PacketSize
      remains == actual % PacketSize
  IN  IF actual <= 2 THEN 0
      ELSE IF actual - 2 <= Data THEN actual - 2
      ELSE IF remains > 2 THEN actual - 2 - 2 * chunks
      ELSE actual - 2 - 2 * (chunks - 1)

\* actual_length as ftdi_read_data corrects it
DataLength(actual) ==
  LET chunks == actual \div PacketSize
      remains == actual % PacketSize
  IN  IF actual <= 2 THEN 0
      ELSE IF actual - 2 <= Data THEN actual - 2
      ELSE IF remains > 2 THEN actual - 2 - 2 * chunks
      ELSE actual - 2 - (2 * (chunks - 1) + remains)

\* The last packet of the transfer that is moved, counting from 0.
Moved(actual) ==
  IF actual - 2 <= Data THEN 0
  ELSE IF actual % PacketSize > 2 THEN actual \div PacketSize
  ELSE actual \div PacketSize - 1

\* A faulty variant: the whole rest behind the first status is taken as data.
StripFirstOnly(raw, actual) ==
  [p \in 1..DataLength(actual) |-> raw[p + 1]]

\* The moves of ftdi_read_data: packet i of the transfer comes to lie behind
\* packet i - 1, the status bytes of the first being skipped by the offset.
Strip(raw, actual) ==
  [p \in 1..DataLength(actual) |->
     LET i == (p - 1) \div Data
     IN  raw[p + 1 + IF i <= Moved(actual) THEN 2 * i ELSE 0]]

Received(s) == Strip(Raw(s), RawLength(Len(s)))

-----------------------------------------------------------------------------
(* Commands to the cable.  One that is cut off leaves it in the middle of  *)
(* a command: it takes what follows for the rest, and may be made to clock *)
(* in any number of bytes.                                                 *)

Junk == {k \in 0..MaxRead : Asked + k <= MaxBytes}

\* The cable carries out a command that asks for n bytes and sets CS to sel.
Reaches(n, sel) ==
  /\ \E k \in IF cut THEN Junk ELSE {n} : owed' = owed + k
  /\ selected' \in IF cut THEN {selected, sel} ELSE {sel}
  /\ UNCHANGED cut

\* ftdiSend: true.
Sent(n, sel) == Reaches(n, sel) /\ UNCHANGED disturbed

\* ftdiSend: false, whatever part of it arrived.
NotSent(n, sel) ==
  /\ disturbed' = TRUE
  /\ \/ UNCHANGED <<owed, cut, selected>>
     \/ Reaches(n, sel)
     \/ cut' = TRUE /\ UNCHANGED <<owed, selected>>

Return(v) == call' = "none" /\ ret' = v

Room == Asked + MaxRead <= MaxBytes

Ready == call = "none" /\ opened /\ Room

-----------------------------------------------------------------------------
(* open, close                                                             *)

\* Every transfer of the set-up succeeds.  The reset empties the cable and
\* libftdi's buffer.  A command of setMode that this cable does not know is
\* answered with an error byte, which the flush at the end clears, if it works.
OpenSucceeds ==
  /\ call = "none" /\ Room
  /\ opened' = TRUE /\ status' = "Stopped" /\ selected' = FALSE
  /\ owed' = 0 /\ cut' = FALSE
  /\ readbuffer' = <<>> /\ got' = <<>>
  /\ left' = 0 /\ block' = 0 /\ first' = clocked + 1
  /\ lowGpio' = FALSE
  /\ \/ fifo' = <<>> /\ disturbed' = FALSE /\ UNCHANGED clocked
     \/ fifo' = <<clocked + 1>> /\ disturbed' = TRUE /\ clocked' = clocked + 1
  /\ Return(TRUE)

\* No device, or a step of the set-up fails: before the reset, or behind it.
OpenFails ==
  /\ call = "none" /\ Room
  /\ opened' = FALSE /\ disturbed' = TRUE
  /\ \/ UNCHANGED <<fifo, owed, cut, selected, readbuffer>>
     \/ /\ fifo' = <<>> /\ readbuffer' = <<>> /\ owed' = 0
        /\ cut' \in BOOLEAN /\ selected' \in {selected, FALSE}
  /\ Return(FALSE)
  /\ UNCHANGED <<status, left, block, got, clocked, first, lowGpio>>

Close ==
  /\ call = "none" /\ opened
  /\ opened' = FALSE
  /\ Return(TRUE)
  /\ UNCHANGED <<status, left, block, got, readbuffer, chipVars, history>>

\* Every other call returns false when no device is open.
Refused ==
  /\ call = "none" /\ ~opened
  /\ Return(FALSE)
  /\ UNCHANGED <<opened, status, left, block, got, readbuffer, chipVars, history>>

-----------------------------------------------------------------------------
(* start, stop, setGpio: bits of the ports                                 *)

\* pstart has CS low.
Start ==
  /\ Ready
  /\ \/ Sent(0, TRUE) /\ status' = "Started" /\ Return(TRUE)
     \/ NotSent(0, TRUE) /\ UNCHANGED status /\ Return(FALSE)
  /\ UNCHANGED <<opened, left, block, got, readbuffer, fifo, clocked, first, lowGpio>>

\* pstop, then pidle, both with CS high.
StopBegin ==
  /\ Ready
  /\ \/ Sent(0, FALSE) /\ call' = "stop" /\ UNCHANGED ret
     \/ NotSent(0, FALSE) /\ Return(FALSE)
  /\ UNCHANGED <<opened, status, left, block, got, readbuffer, fifo, clocked, first, lowGpio>>

StopEnd ==
  /\ call = "stop"
  /\ \/ Sent(0, FALSE) /\ status' = "Stopped" /\ Return(TRUE)
     \/ NotSent(0, FALSE) /\ UNCHANGED status /\ Return(FALSE)
  /\ UNCHANGED <<opened, left, block, got, readbuffer, fifo, clocked, first, lowGpio>>

\* GPIOH0-7 are on the other port.
SetGpioHigh ==
  /\ Ready
  /\ \/ Sent(0, selected) /\ Return(TRUE)
     \/ NotSent(0, selected) /\ Return(FALSE)
  /\ UNCHANGED <<opened, status, left, block, got, readbuffer, fifo, clocked, first, lowGpio>>

\* GPIOL0-3, only while Stopped: the code sends pstart, in which CS is low.
SetGpioLow ==
  /\ Ready /\ status = "Stopped"
  /\ lowGpio' = TRUE
  /\ \/ Sent(0, TRUE) /\ Return(TRUE)
     \/ NotSent(0, TRUE) /\ Return(FALSE)
  /\ UNCHANGED <<opened, status, left, block, got, readbuffer, fifo, clocked, first>>

-----------------------------------------------------------------------------
(* write: n bytes in blocks of TxSize                                      *)

WriteBegin(n) ==
  /\ Ready
  /\ left' = n
  /\ IF n = 0 THEN Return(TRUE) ELSE call' = "write" /\ UNCHANGED ret
  /\ UNCHANGED <<opened, status, block, got, readbuffer, chipVars, history>>

WriteBlock ==
  /\ call = "write"
  /\ \/ /\ Sent(0, selected)
        /\ left' = left - Lesser(left, TxSize)
        /\ IF left' = 0 THEN Return(TRUE) ELSE UNCHANGED <<call, ret>>
     \/ NotSent(0, selected) /\ UNCHANGED left /\ Return(FALSE)
  /\ UNCHANGED <<opened, status, block, got, readbuffer, fifo, clocked, first, lowGpio>>

-----------------------------------------------------------------------------
(* read: n bytes in blocks of TxSize, each asked for and then received     *)

\* Faulty variants: a loop that is entered for no bytes, a command whose length
\* field is n and not n - 1, or one too small.
ReadBeginAlways(n) ==
  /\ Ready
  /\ left' = n /\ got' = <<>> /\ block' = 0
  /\ first' = Asked + 1
  /\ call' = "request"
  /\ UNCHANGED <<opened, status, ret, readbuffer, chipVars, disturbed, lowGpio>>

RequestAsking(n) ==
  /\ call = "request"
  /\ Sent(n, selected)
  /\ block' = Lesser(left, TxSize) /\ left' = left - Lesser(left, TxSize)
  /\ call' = "recv" /\ UNCHANGED ret
  /\ UNCHANGED <<opened, status, got, readbuffer, fifo, clocked, first, lowGpio>>

RequestOneMore == RequestAsking(Lesser(left, TxSize) + 1)
RequestOneLess == RequestAsking(Lesser(left, TxSize) - 1)

ReadBegin(n) ==
  /\ Ready
  /\ left' = n /\ got' = <<>> /\ block' = 0
  /\ first' = Asked + 1
  /\ IF n = 0 THEN Return(TRUE) ELSE call' = "request" /\ UNCHANGED ret
  /\ UNCHANGED <<opened, status, readbuffer, chipVars, disturbed, lowGpio>>

Request ==
  /\ call = "request"
  /\ \/ /\ Sent(Lesser(left, TxSize), selected)
        /\ block' = Lesser(left, TxSize) /\ left' = left - Lesser(left, TxSize)
        /\ call' = "recv" /\ UNCHANGED ret
     \/ NotSent(Lesser(left, TxSize), selected) /\ Return(FALSE) /\ UNCHANGED <<block, left>>
  /\ UNCHANGED <<opened, status, got, readbuffer, fifo, clocked, first, lowGpio>>

\* n bytes s reach the caller's buffer; the rest stays in libftdi's.
Deliver(s, rest) ==
  /\ got' = got \o s
  /\ readbuffer' = rest
  /\ block' = block - Len(s)
  /\ IF block' > 0 THEN UNCHANGED <<call, ret>>
     ELSE IF left > 0 THEN call' = "request" /\ UNCHANGED ret
     ELSE Return(TRUE)

First(s, n)  == SubSeq(s, 1, n)
Behind(s, n) == SubSeq(s, n + 1, Len(s))

\* ftdi_read_data, what is in the read buffer: all that is wanted, or a part
TakeBuffered ==
  /\ call = "recv" /\ readbuffer # <<>>
  /\ LET n == Lesser(block, Len(readbuffer))
     IN  Deliver(First(readbuffer, n), Behind(readbuffer, n))
  /\ UNCHANGED <<opened, status, left, chipVars, history>>

\* ftdi_read_data, one bulk transfer, which brings what the cable has.  With no
\* data in it the function returns and ftdiRecv calls it again.
BulkRead ==
  /\ call = "recv" /\ readbuffer = <<>>
  /\ LET k    == Lesser(Len(fifo), Payload)
         data == Received(First(fifo, k))
         n    == Lesser(block, Len(data))
     IN  /\ fifo' = Behind(fifo, k)
         /\ Deliver(First(data, n), Behind(data, n))
  /\ UNCHANGED <<opened, status, left, owed, cut, selected, clocked, history>>

\* A transfer fails: what it brought is gone, and so is what was copied.
BulkFails ==
  /\ call = "recv" /\ readbuffer = <<>>
  /\ \E k \in 0..Lesser(Len(fifo), Payload) : fifo' = Behind(fifo, k)
  /\ disturbed' = TRUE
  /\ Return(FALSE)
  /\ UNCHANGED <<opened, status, left, block, got, readbuffer, owed, cut, selected, clocked,
                 first, lowGpio>>

-----------------------------------------------------------------------------
(* The cable clocks a byte in.                                             *)

ClockIn ==
  /\ owed > 0
  /\ owed' = owed - 1 /\ clocked' = clocked + 1
  /\ fifo' = Append(fifo, clocked + 1)
  /\ UNCHANGED <<hostVars, cut, selected, history>>

-----------------------------------------------------------------------------

Init ==
  /\ opened = FALSE /\ status = "Stopped" /\ call = "none" /\ left = 0 /\ block = 0
  /\ got = <<>> /\ ret = TRUE /\ readbuffer = <<>>
  /\ fifo = <<>> /\ owed = 0 /\ cut = FALSE /\ selected = FALSE /\ clocked = 0
  /\ first = 1 /\ disturbed = FALSE /\ lowGpio = FALSE

\* What the driver does once a call has begun.
DriverStep == StopEnd \/ WriteBlock \/ Request \/ TakeBuffered \/ BulkRead

Call ==
  \/ OpenSucceeds \/ OpenFails \/ Close \/ Refused
  \/ Start \/ StopBegin \/ SetGpioHigh \/ SetGpioLow
  \/ \E n \in 0..MaxRead : WriteBegin(n) \/ ReadBegin(n)

Next == Call \/ DriverStep \/ BulkFails \/ ClockIn

Spec == Init /\ [][Next]_vars

\* The driver's thread goes on and so does the cable; no transfer has to fail.
FairSpec == Spec /\ WF_vars(DriverStep) /\ WF_vars(ClockIn)

-----------------------------------------------------------------------------
(* Properties                                                              *)

\* Types: buffers hold numbers of bytes that were clocked in, and a call that
\* receives has something left to receive.
MpsseTypeOK ==
  /\ opened \in BOOLEAN /\ status \in {"Stopped", "Started"}
  /\ call \in {"none", "stop", "write", "request", "recv"}
  /\ left \in Nat /\ block \in Nat
  /\ ret \in BOOLEAN
  /\ got \in Seq(Nat) /\ readbuffer \in Seq(Nat) /\ fifo \in Seq(Nat)
  /\ owed \in Nat /\ clocked \in Nat /\ first \in Nat
  /\ cut \in BOOLEAN /\ selected \in BOOLEAN /\ disturbed \in BOOLEAN /\ lowGpio \in BOOLEAN
  /\ call = "recv" => block > 0
  /\ call \in {"request", "write"} => left > 0

Consecutive(s) == \A i \in 1..Len(s) : s[i] = s[1] + i - 1

\* While no transfer has failed since open(), what a read has is its own bytes,
\* from the first it asked for on, and nothing is left over for another read
\* (MPSSE.cpp read, ftdiRecv; ftdi.c ftdi_read_data).
AnswerIsOwn ==
  ~disturbed /\ opened =>
    /\ \A i \in 1..Len(got) : got[i] = first + i - 1
    /\ call = "none" => readbuffer = <<>> /\ fifo = <<>> /\ owed = 0

\* While no transfer has failed and no low GPIO was set, CS is low exactly while
\* the driver is Started or half way out of it (MPSSE.cpp start, stop).
SelectFollowsStatus ==
  ~disturbed /\ opened /\ ~lowGpio /\ call # "stop" => (selected <=> status = "Started")

\* Driver and cable agree as long as no transfer fails: on whose bytes are on the
\* way, and on the chip select line.
BusInStep == AnswerIsOwn /\ SelectFollowsStatus

Pipe == got \o readbuffer \o fifo

\* Whatever transfers fail, bytes come to the caller in the order in which they
\* were clocked in, none twice, and no status byte among them (ftdi_read_data's
\* read buffer and its moves).  It is about order, not about whose bytes they
\* are: a read after a failed one may get the bytes of that one.
BytesKeepOrder ==
  /\ \A i, j \in 1..Len(Pipe) : i < j => Pipe[i] < Pipe[j]
  /\ \A i \in 1..Len(Pipe) : Pipe[i] \in 1..clocked

\* A read ends, with its bytes or with an error, unless part of a command is in
\* the cable: ftdiRecv itself has no limit and calls on while it gets nothing
\* (MPSSE.cpp 762).
ReadReturns == (call \in {"request", "recv"} /\ ~cut) ~> (call = "none")
=============================================================================
