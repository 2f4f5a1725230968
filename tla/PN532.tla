------------------------------- MODULE PN532 -------------------------------
(***************************************************************************)
(* A PN532 on a serial line: HSU::transmit (hw-dev hw/proto/HSU.cpp), the  *)
(* commands of hw/ic/PN532.cpp and the loop of main-pn532.cpp that uses    *)
(* them.  The chip acknowledges a frame and answers it later, over the     *)
(* same line; neither the acknowledgement nor the answer says which frame  *)
(* it belongs to, and the driver does not look at the answer's code.  A    *)
(* piece of what the chip sends is marked own when it belongs to the call  *)
(* in progress.                                                            *)
(***************************************************************************)
EXTENDS Integers, Sequences, SequencesExt

CONSTANT MaxFaults  \* bound: writes that fail, time-outs before what the chip is about
                    \* to send, calls that begin while it is sending, answers to
                    \* an older call while a frame is on its way, garbled pieces

ASSUME PN532Assumption == MaxFaults \in Nat

VARIABLES
  stage,      \* what main-pn532 does: a call, or "stopped"
  pc,         \* where HSU::transmit is: "idle", or the read it is in
  powerMode,  \* HSU's guess of the chip's power mode
  timed,      \* the read of the acknowledgement has a time-out
  answer,     \* the body received: its piece, or none
  card,       \* the target is selected
  rx,         \* pieces that arrived and were not read
  tx,         \* pieces the chip is sending
  inbox,      \* command frames on their way to the chip
  chip,       \* "idle", "target" (waits for a reader), "getting" (for its command)
  exec,       \* the command the chip is at is the call's own
  asleep,     \* the chip hears no frame without a wake-up
  active,     \* a reader has activated it
  field,      \* a reader is near
  faults,     \* history: how many of these there were
  clean,      \* history: no older acknowledgement was due when the call began
  foreign     \* history: the call that returned last took another's answer

hostVars == <<stage, pc, powerMode, timed, answer, card, rx>>
chipVars == <<tx, inbox, chip, exec, asleep, active, field>>
history  == <<faults, clean, foreign>>
vars     == <<hostVars, chipVars, history>>

-----------------------------------------------------------------------------
(* What is sent, marked with the command it is for, and what the program   *)
(* does: set-up calls of four kinds, then the emulation loop               *)

Setup  == {"status", "config", "register", "params"}
Stages == Setup \cup {"init", "get", "set", "stopped"}

Parts  == {"ack", "hdr", "body", "post", "noise"}
Status == {"ok", "err"}
Piece  == [part : Parts, own : BOOLEAN, to : Stages, status : Status]

P(part, own, to, status) == [part |-> part, own |-> own, to |-> to, status |-> status]

Answer(own, to, status) ==
  <<P("hdr", own, to, status), P("body", own, to, status), P("post", own, to, status)>>

\* Everything sent so far belongs to an earlier call.
Old(s) == [i \in 1..Len(s) |-> [s[i] EXCEPT !.own = FALSE]]

\* The purge may come in the middle of the piece that is arriving.
Garbled(p) == [p EXCEPT !.part = "noise"]
Torn(s)    == [i \in 1..Len(s) |-> IF i = 1 THEN Garbled(s[i]) ELSE s[i]]

-----------------------------------------------------------------------------
(* What the program makes of a result                                      *)

\* getFirmwareVersion, getGeneralStatus; setSAMConfiguration; readRegister and
\* writeRegister, whose results nobody looks at; setParameters.  One call stands
\* for the calls of its kind that follow each other.
AfterSetup(s, ok) ==
  IF ~ok /\ s # "register" THEN "stopped"
  ELSE CASE s = "status"   -> "config"
         [] s = "config"   -> "register"
         [] s = "register" -> "params"
         [] OTHER          -> "init"

\* 500 ms and 5 s; the other calls wait for their answer for ever.
Timed(s) == s \in {"status", "init"}

\* What the program does with a result: ok that of the call, st the status in
\* its answer, which a failed tgSetData leaves at the 0 of the tgGetData before.
NextStage(ok, st) ==
  CASE stage \in Setup -> AfterSetup(stage, ok)
    [] stage = "init"  -> IF ok THEN "get" ELSE "init"
    [] stage = "get"   -> IF ok /\ st = "ok" THEN "set" ELSE "init"
    [] stage = "set"   -> IF ok /\ st # "ok" THEN "init" ELSE "get"
    [] OTHER           -> stage

Return(ok, st) ==
  /\ pc' = "idle"
  /\ stage' = NextStage(ok, st)
  /\ card' = (stage' \in {"get", "set"})

\* The answer is taken for the call's own; that to another command may be too
\* short for it.
Succeed ==
  /\ foreign' = ~answer.own
  /\ IF answer.to = stage THEN Return(TRUE, answer.status)
     ELSE \E ok \in BOOLEAN, st \in Status : Return(ok, st)

Fail == Return(FALSE, "err") /\ foreign' = FALSE

-----------------------------------------------------------------------------
(* HSU::transmit                                                           *)

\* No older acknowledgement is on its way or due.
NoOldAck == inbox = <<>> /\ \A i \in 1..Len(tx) : tx[i].part # "ack"

Count(fault) == IF fault THEN faults < MaxFaults /\ faults' = faults + 1 ELSE UNCHANGED faults

\* Faulty variants: no purge before a command; the acknowledgement, or the
\* checksum of the body, is not looked at.
BeginUnpurged ==
  /\ pc = "idle" /\ stage # "stopped"
  /\ rx' = Old(rx) /\ tx' = Old(tx)
  /\ inbox' = Append(Old(inbox), [kind |-> stage, own |-> TRUE, wake |-> powerMode # "Normal"])
  /\ timed' = (Timed(stage) \/ powerMode # "Normal")
  /\ powerMode' = IF stage = "init" THEN "PowerDown" ELSE "Normal"
  /\ exec' = FALSE /\ clean' = NoOldAck /\ foreign' = FALSE
  /\ pc' = "ack" /\ Count(tx # <<>>)
  /\ UNCHANGED <<stage, answer, card, chip, asleep, active, field>>

ReadAckUnchecked ==
  /\ pc = "ack" /\ rx # <<>>
  /\ powerMode' = IF stage = "init" THEN "Normal" ELSE powerMode
  /\ pc' = "hdr" /\ rx' = Tail(rx)
  /\ UNCHANGED <<stage, timed, answer, card, chipVars, history>>

ReadBodyUnchecked ==
  /\ pc = "body" /\ rx # <<>>
  /\ pc' = "post" /\ rx' = Tail(rx) /\ answer' = Head(rx)
  /\ UNCHANGED <<stage, card, powerMode, timed, chipVars, history>>

\* purge, send: a frame is put on the line, behind a wake-up unless the chip is
\* taken to be awake, which after a TgInitAsTarget it is not.
Begin ==
  /\ pc = "idle" /\ stage # "stopped"
  /\ rx' = <<>> /\ tx' \in {Old(tx), Torn(Old(tx))}
  /\ inbox' = Append(Old(inbox), [kind |-> stage, own |-> TRUE, wake |-> powerMode # "Normal"])
  /\ timed' = (Timed(stage) \/ powerMode # "Normal")
  /\ powerMode' = IF stage = "init" THEN "PowerDown" ELSE "Normal"
  /\ exec' = FALSE /\ clean' = NoOldAck /\ foreign' = FALSE
  /\ pc' = "ack" /\ Count(tx # <<>>)
  /\ UNCHANGED <<stage, answer, card, chip, asleep, active, field>>

\* The write of the wake-up fails, or that of the frame behind it.
WriteFails ==
  /\ pc = "idle" /\ stage # "stopped"
  /\ rx' = <<>> /\ tx' \in {Old(tx), Torn(Old(tx))}
  /\ inbox' = Old(inbox) /\ exec' = FALSE /\ clean' = NoOldAck
  /\ \/ UNCHANGED <<powerMode, asleep>>
     \/ powerMode # "Normal" /\ powerMode' = "Normal" /\ asleep' = FALSE
  /\ Count(TRUE)
  /\ Fail
  /\ UNCHANGED <<timed, answer, chip, active, field>>

\* Some of what is there is taken for the piece that was expected.
Swallow == \E k \in 1..Len(rx) : rx' = SubSeq(rx, k + 1, Len(rx))

ReadAck ==
  /\ pc = "ack" /\ rx # <<>>
  /\ powerMode' = IF stage = "init" THEN "Normal" ELSE powerMode
  /\ IF Head(rx).part = "ack"
     THEN pc' = "hdr" /\ rx' = Tail(rx) /\ UNCHANGED <<stage, card, foreign>>
     ELSE Fail /\ Swallow
  /\ UNCHANGED <<timed, answer, chipVars, faults, clean>>

\* recv: a wrong start code is left at that, a wrong length empties the line.
ReadHeader ==
  /\ pc = "hdr" /\ rx # <<>>
  /\ IF Head(rx).part = "hdr"
     THEN pc' = "body" /\ rx' = Tail(rx) /\ UNCHANGED <<stage, card, foreign>>
     ELSE /\ Fail
          /\ IF Head(rx).part = "ack" THEN rx' = <<>> ELSE rx' = <<>> \/ Swallow
  /\ UNCHANGED <<powerMode, timed, answer, chipVars, faults, clean>>

ReadBody ==
  /\ pc = "body" /\ rx # <<>>
  /\ IF Head(rx).part = "body"
     THEN pc' = "post" /\ rx' = Tail(rx) /\ answer' = Head(rx) /\ UNCHANGED <<stage, card, foreign>>
     ELSE Fail /\ rx' = <<>> /\ UNCHANGED answer
  /\ UNCHANGED <<powerMode, timed, chipVars, faults, clean>>

ReadPostamble ==
  /\ pc = "post" /\ rx # <<>>
  /\ IF Head(rx).part = "post" THEN Succeed /\ rx' = Tail(rx) ELSE Fail /\ rx' = <<>>
  /\ UNCHANGED <<powerMode, timed, answer, chipVars, faults, clean>>

\* The chip has nothing to send and will have nothing unless a reader does something.
ChipSilent == tx = <<>> /\ inbox = <<>> /\ (chip = "target" => ~field)

\* A read gives up: of the acknowledgement, the header (with the call's time-out,
\* if it has one), the body or the postamble (100 ms).
ReadTimeOut ==
  /\ rx = <<>>
  /\ \/ pc = "ack" /\ timed
     \/ pc = "hdr" /\ Timed(stage)
     \/ pc \in {"body", "post"}
  /\ Count(~ChipSilent)
  /\ Fail
  /\ UNCHANGED <<powerMode, timed, answer, rx, chipVars, clean>>

-----------------------------------------------------------------------------
(* The line and the chip                                                   *)

Pass(p) ==
  /\ rx' = Append(rx, p) /\ tx' = Tail(tx)
  /\ UNCHANGED <<stage, pc, powerMode, timed, answer, card, inbox, chip, exec, asleep, active,
                 field, clean, foreign>>

Arrive == tx # <<>> /\ Pass(Head(tx)) /\ UNCHANGED faults

\* The piece is of the right length, but no check accepts it.
ArriveGarbled == tx # <<>> /\ Pass(Garbled(Head(tx))) /\ Count(TRUE)

\* A frame reaches the chip.  It drops the command it is at and acknowledges; a
\* TgInitAsTarget it answers when a reader comes, asleep until then.
TakeCommand ==
  /\ inbox # <<>>
  /\ inbox' = Tail(inbox)
  /\ LET m == Head(inbox)
         ack == <<P("ack", m.own, m.kind, "ok")>>
     IN  IF asleep /\ ~m.wake THEN UNCHANGED <<tx, chip, exec, asleep, active>>
         ELSE /\ exec' = m.own
              /\ asleep' = (m.kind = "init")
              /\ active' = (active /\ m.kind # "init")
              /\ CASE m.kind = "init" -> chip' = "target" /\ tx' = tx \o ack
                   [] m.kind = "get" /\ active -> chip' = "getting" /\ tx' = tx \o ack
                   [] OTHER -> /\ chip' = "idle"
                               /\ tx' = tx \o ack \o
                                    Answer(m.own, m.kind, IF m.kind \in Setup \/ active THEN "ok" ELSE "err")
  /\ UNCHANGED <<hostVars, field, history>>

\* The reader's field wakes the chip, and the reader selects it.
Activate ==
  /\ chip = "target" /\ field
  /\ chip' = "idle" /\ active' = TRUE /\ asleep' = FALSE
  /\ tx' = tx \o Answer(exec, "init", "ok")
  /\ Count(inbox # <<>>)
  /\ UNCHANGED <<hostVars, inbox, exec, field, clean, foreign>>

ReaderCommand ==
  /\ chip = "getting" /\ active
  /\ chip' = "idle"
  /\ tx' = tx \o Answer(exec, "get", "ok")
  /\ UNCHANGED <<hostVars, inbox, exec, asleep, active, field, history>>

ReaderComes ==
  /\ ~field
  /\ field' = TRUE
  /\ UNCHANGED <<hostVars, tx, inbox, chip, exec, asleep, active, history>>

\* A command in progress is answered with an error status.
ReaderLeaves ==
  /\ field
  /\ field' = FALSE /\ active' = FALSE
  /\ IF chip = "getting" THEN chip' = "idle" /\ tx' = tx \o Answer(exec, "get", "err")
     ELSE UNCHANGED <<chip, tx>>
  /\ UNCHANGED <<hostVars, inbox, exec, asleep, history>>

-----------------------------------------------------------------------------

Init ==
  /\ stage = "status" /\ pc = "idle" /\ powerMode = "LowPower" /\ timed = FALSE
  /\ answer = P("noise", FALSE, "init", "err") /\ card = FALSE /\ rx = <<>>
  /\ tx = <<>> /\ inbox = <<>> /\ chip = "idle" /\ exec = FALSE
  /\ asleep = TRUE /\ active = FALSE /\ field \in BOOLEAN
  /\ faults = 0 /\ clean = TRUE /\ foreign = FALSE

HostStep == Begin \/ ReadAck \/ ReadHeader \/ ReadBody \/ ReadPostamble \/ ReadTimeOut

ChipStep == Arrive \/ TakeCommand \/ Activate

Next == HostStep \/ WriteFails \/ ChipStep \/ ReaderCommand \/ ReaderComes \/ ReaderLeaves
        \/ ArriveGarbled

Spec == Init /\ [][Next]_vars

\* The program's thread runs, and line and chip do their part.
FairSpec == Spec /\ WF_vars(HostStep) /\ WF_vars(ChipStep)

-----------------------------------------------------------------------------
(* Properties                                                              *)

Command == [kind : Stages \ {"stopped"}, own : BOOLEAN, wake : BOOLEAN]

\* Types: what arrived and what is sent are pieces, the target is selected
\* exactly in the inner loop, and what is taken for an answer was a body.
Pn532TypeOK ==
  /\ stage \in Stages /\ pc \in {"idle", "ack", "hdr", "body", "post"}
  /\ powerMode \in {"Normal", "LowPower", "PowerDown"} /\ timed \in BOOLEAN
  /\ answer \in Piece /\ rx \in Seq(Piece) /\ tx \in Seq(Piece) /\ inbox \in Seq(Command)
  /\ chip \in {"idle", "target", "getting"}
  /\ exec \in BOOLEAN /\ asleep \in BOOLEAN /\ active \in BOOLEAN /\ field \in BOOLEAN
  /\ faults \in 0..MaxFaults /\ clean \in BOOLEAN /\ foreign \in BOOLEAN
  /\ card = (stage \in {"get", "set"})
  /\ pc = "post" => answer.part = "body"

\* A call that returns with an answer has its own, whatever time-outs and torn
\* answers came before, unless an acknowledgement was still due when it began
\* (HSU.cpp transmit: purge 137, check of the acknowledgement 218): a late answer
\* alone is never taken for another call's.
AnswerIsOwn == foreign => ~clean

\* Once the set-up is done, a reader that stays gets the card: a TgInitAsTarget that
\* timed out, left the chip asleep without the driver knowing (HSU.cpp 191-208), or
\* lost its answer is tried again until one is answered.
ReaderIsServed == (field /\ stage = "init") ~> (card \/ ~field)
=============================================================================
