---------------------------- MODULE PN532_proofs ----------------------------
(***************************************************************************)
(* Proofs about PN532: the types, and that a call begun with no older      *)
(* acknowledgement due takes its own answer.                               *)
(***************************************************************************)
EXTENDS PN532, TLAPS, SequenceTheorems

AllOwn(s)  == \A i \in 1..Len(s) : s[i].own
AnyOwn(s)  == \E i \in 1..Len(s) : s[i].own
AcksOwn(s) == \A i \in 1..Len(s) : s[i].part = "ack" => s[i].own
OwnLast(s) == \A i, j \in 1..Len(s) : i < j /\ s[i].own => s[j].own

-----------------------------------------------------------------------------
(* Sequences of pieces                                                     *)

LEMMA TailPieces ==
  ASSUME NEW s \in Seq(Piece), s # <<>>
  PROVE  /\ Tail(s) \in Seq(Piece) /\ Head(s) \in Piece /\ Head(s) = s[1]
         /\ Len(Tail(s)) = Len(s) - 1 /\ Len(s) \in Nat \ {0}
         /\ \A i \in 1..Len(Tail(s)) : Tail(s)[i] = s[i + 1] /\ i + 1 \in 1..Len(s)
  BY HeadTailProperties

LEMMA TailKeeps ==
  ASSUME NEW s \in Seq(Piece), s # <<>>
  PROVE  /\ AllOwn(s) => AllOwn(Tail(s))
         /\ AnyOwn(Tail(s)) => AnyOwn(s)
         /\ AcksOwn(s) => AcksOwn(Tail(s))
         /\ OwnLast(s) => OwnLast(Tail(s))
         /\ OwnLast(s) /\ Head(s).own => AllOwn(Tail(s))
         /\ Head(s).own => AnyOwn(s)
         /\ AcksOwn(s) /\ Head(s).part = "ack" => Head(s).own
         /\ AllOwn(s) => Head(s).own
<1>1. 1 \in 1..Len(s) /\ \A i \in 1..Len(Tail(s)) : 1 < i + 1
  BY TailPieces
<1>2. \A i, j \in 1..Len(Tail(s)) : i < j => i + 1 < j + 1
  BY TailPieces
<1> QED
  BY <1>1, <1>2, TailPieces DEF AllOwn, AnyOwn, AcksOwn, OwnLast

LEMMA ConcatPieces ==
  ASSUME NEW s \in Seq(Piece), NEW t \in Seq(Piece)
  PROVE  /\ s \o t \in Seq(Piece)
         /\ Len(s \o t) = Len(s) + Len(t) /\ Len(s) \in Nat /\ Len(t) \in Nat
         /\ \A i \in 1..Len(s \o t) :
               \/ i \in 1..Len(s) /\ (s \o t)[i] = s[i]
               \/ i - Len(s) \in 1..Len(t) /\ (s \o t)[i] = t[i - Len(s)]
<1>1. /\ s \o t \in Seq(Piece) /\ Len(s \o t) = Len(s) + Len(t)
      /\ \A i \in 1..Len(s) + Len(t) :
            (s \o t)[i] = IF i <= Len(s) THEN s[i] ELSE t[i - Len(s)]
  BY ConcatProperties
<1>2. Len(s) \in Nat /\ Len(t) \in Nat
  OBVIOUS
<1> QED
  BY <1>1, <1>2

LEMMA ConcatKeeps ==
  ASSUME NEW s \in Seq(Piece), NEW t \in Seq(Piece)
  PROVE  /\ AllOwn(s) /\ AllOwn(t) => AllOwn(s \o t)
         /\ AnyOwn(s \o t) => AnyOwn(s) \/ AnyOwn(t)
         /\ AcksOwn(s) /\ AcksOwn(t) => AcksOwn(s \o t)
         /\ OwnLast(s) /\ OwnLast(t) /\ (AnyOwn(s) => AllOwn(t)) => OwnLast(s \o t)
<1> DEFINE c == s \o t
<1>0. \A i \in 1..Len(c) : \/ i \in 1..Len(s) /\ c[i] = s[i]
                           \/ i - Len(s) \in 1..Len(t) /\ c[i] = t[i - Len(s)]
  BY ConcatPieces
<1>1. /\ AllOwn(s) /\ AllOwn(t) => AllOwn(c)
      /\ AnyOwn(c) => AnyOwn(s) \/ AnyOwn(t)
      /\ AcksOwn(s) /\ AcksOwn(t) => AcksOwn(c)
  <2> HIDE DEF c
  <2> QED
    BY <1>0 DEF AllOwn, AnyOwn, AcksOwn
<1>2. ASSUME OwnLast(s), OwnLast(t), AnyOwn(s) => AllOwn(t),
             NEW i \in 1..Len(c), NEW j \in 1..Len(c), i < j, c[i].own
      PROVE  c[j].own
  <2>1. CASE j \in 1..Len(s) /\ c[j] = s[j]
    <3>1. i \in 1..Len(s) /\ c[i] = s[i]
      BY <2>1, <1>2, ConcatPieces
    <3> QED
      BY <2>1, <3>1, <1>2 DEF OwnLast
  <2>2. CASE j - Len(s) \in 1..Len(t) /\ c[j] = t[j - Len(s)] /\ i \in 1..Len(s) /\ c[i] = s[i]
    BY <2>2, <1>2 DEF AnyOwn, AllOwn
  <2>3. CASE /\ j - Len(s) \in 1..Len(t) /\ c[j] = t[j - Len(s)]
             /\ i - Len(s) \in 1..Len(t) /\ c[i] = t[i - Len(s)]
    <3>1. i - Len(s) < j - Len(s)
      BY <1>2, ConcatPieces
    <3> QED
      BY <2>3, <3>1, <1>2 DEF OwnLast
  <2> QED
    BY <2>1, <2>2, <2>3, <1>0, ConcatPieces
<1> QED
  BY <1>1, <1>2 DEF OwnLast

LEMMA OnePiece ==
  ASSUME NEW p \in Piece
  PROVE  /\ <<p>> \in Seq(Piece)
         /\ AllOwn(<<p>>) <=> p.own
         /\ AnyOwn(<<p>>) <=> p.own
         /\ AcksOwn(<<p>>) <=> (p.part = "ack" => p.own)
         /\ OwnLast(<<p>>)
<1>1. Len(<<p>>) = 1 /\ <<p>>[1] = p
  OBVIOUS
<1> QED
  BY <1>1 DEF AllOwn, AnyOwn, AcksOwn, OwnLast

\* The pieces of an answer are alike, and none is an acknowledgement.
LEMMA AnswerPieces ==
  ASSUME NEW own \in BOOLEAN, NEW to \in Stages, NEW status \in Status
  PROVE  /\ Answer(own, to, status) \in Seq(Piece)
         /\ AllOwn(Answer(own, to, status)) <=> own
         /\ AnyOwn(Answer(own, to, status)) <=> own
         /\ AcksOwn(Answer(own, to, status))
         /\ OwnLast(Answer(own, to, status))
<1> DEFINE a == Answer(own, to, status)
<1>1. /\ Len(a) = 3 /\ a \in Seq(Piece)
      /\ \A i \in 1..3 : a[i].own = own /\ a[i].part # "ack"
  BY DEF Answer, P, Piece, Parts
<1> QED
  BY <1>1 DEF AllOwn, AnyOwn, AcksOwn, OwnLast

LEMMA SeqTyped ==
  ASSUME NEW S, NEW n \in Nat, NEW f \in [1..n -> S]
  PROVE  f \in Seq(S) /\ Len(f) = n
  BY LenProperties

LEMMA OldPiece ==
  ASSUME NEW p \in Piece
  PROVE  /\ [p EXCEPT !.own = FALSE] \in Piece
         /\ [p EXCEPT !.own = FALSE].own = FALSE
         /\ [p EXCEPT !.own = FALSE].part = p.part
         /\ Garbled(p) \in Piece /\ Garbled(p).own = p.own /\ Garbled(p).part = "noise"
  BY DEF Piece, Parts, Garbled

LEMMA OldPieces ==
  ASSUME NEW s \in Seq(Piece)
  PROVE  /\ Old(s) \in Seq(Piece) /\ Torn(Old(s)) \in Seq(Piece)
         /\ ~AnyOwn(Old(s)) /\ ~AnyOwn(Torn(Old(s)))
         /\ OwnLast(Old(s)) /\ OwnLast(Torn(Old(s)))
         /\ (\A i \in 1..Len(s) : s[i].part # "ack") => AcksOwn(Old(s)) /\ AcksOwn(Torn(Old(s)))
<1>1. Len(s) \in Nat /\ \A i \in 1..Len(s) : s[i] \in Piece
  OBVIOUS
<1>2. Old(s) \in [1..Len(s) -> Piece]
  BY <1>1, OldPiece DEF Old
<1>3. \A i \in 1..Len(s) : Old(s)[i].own = FALSE /\ Old(s)[i].part = s[i].part
  BY <1>1, OldPiece DEF Old
<1>4. Old(s) \in Seq(Piece) /\ Len(Old(s)) = Len(s)
  BY <1>1, <1>2, LenProperties
<1> DEFINE o == Old(s)
           g == Torn(o)
<1>5. \A i \in 1..Len(o) : o[i] \in Piece
  BY <1>2, <1>4
<1> HIDE DEF o
<1>6. g \in [1..Len(o) -> Piece]
  BY <1>5, OldPiece DEF Torn
<1>7. \A i \in 1..Len(o) : /\ g[i].own = o[i].own
                           /\ g[i].part = o[i].part \/ g[i].part = "noise"
  BY <1>5, OldPiece DEF Torn
<1>8. g \in Seq(Piece) /\ Len(g) = Len(s)
  BY <1>1, <1>4, <1>6, LenProperties DEF o
<1>9. o \in Seq(Piece) /\ Len(o) = Len(s)
      /\ \A i \in 1..Len(s) : /\ o[i].own = FALSE /\ o[i].part = s[i].part
                              /\ g[i].own = FALSE
                              /\ g[i].part = s[i].part \/ g[i].part = "noise"
  BY <1>3, <1>4, <1>7 DEF o
<1> HIDE DEF o, g
<1>10. /\ ~AnyOwn(o) /\ ~AnyOwn(g) /\ OwnLast(o) /\ OwnLast(g)
       /\ (\A i \in 1..Len(s) : s[i].part # "ack") => AcksOwn(o) /\ AcksOwn(g)
  BY <1>8, <1>9 DEF AnyOwn, AcksOwn, OwnLast
<1> QED
  BY <1>8, <1>9, <1>10 DEF o, g

LEMMA OldFrames ==
  ASSUME NEW s \in Seq(Command)
  PROVE  Old(s) \in Seq(Command)
<1>1. Len(s) \in Nat /\ \A i \in 1..Len(s) : s[i] \in Command
  OBVIOUS
<1>2. ASSUME NEW m \in Command PROVE [m EXCEPT !.own = FALSE] \in Command
  BY DEF Command
<1>3. Old(s) \in [1..Len(s) -> Command]
  BY <1>1, <1>2 DEF Old
<1> QED
  BY <1>1, <1>3, LenProperties

-----------------------------------------------------------------------------
(* Types                                                                   *)

\* The sequences, and the rest.
Lines == rx \in Seq(Piece) /\ tx \in Seq(Piece) /\ inbox \in Seq(Command)

Scalars ==
  /\ stage \in Stages /\ pc \in {"idle", "ack", "hdr", "body", "post"}
  /\ powerMode \in {"Normal", "LowPower", "PowerDown"} /\ timed \in BOOLEAN
  /\ answer \in Piece
  /\ chip \in {"idle", "target", "getting"}
  /\ exec \in BOOLEAN /\ asleep \in BOOLEAN /\ active \in BOOLEAN /\ field \in BOOLEAN
  /\ faults \in 0..MaxFaults /\ clean \in BOOLEAN /\ foreign \in BOOLEAN
  /\ card = (stage \in {"get", "set"})
  /\ pc = "post" => answer.part = "body"

LEMMA TypeParts == Pn532TypeOK <=> Lines /\ Scalars
  BY Zenon DEF Pn532TypeOK, Lines, Scalars

LEMMA ReturnTyped ==
  ASSUME stage \in Stages, NEW ok \in BOOLEAN, NEW st \in Status, Return(ok, st)
  PROVE  pc' = "idle" /\ stage' \in Stages /\ card' = (stage' \in {"get", "set"})
  BY DEF Return, NextStage, AfterSetup, Stages, Setup

LEMMA FailTyped ==
  ASSUME stage \in Stages, Fail
  PROVE  /\ pc' = "idle" /\ stage' \in Stages /\ card' = (stage' \in {"get", "set"})
         /\ foreign' = FALSE
<1>1. "err" \in Status
  BY DEF Status
<1> QED
  BY <1>1, ReturnTyped DEF Fail

LEMMA SucceedTyped ==
  ASSUME stage \in Stages, answer \in Piece, Succeed
  PROVE  /\ pc' = "idle" /\ stage' \in Stages /\ card' = (stage' \in {"get", "set"})
         /\ foreign' = ~answer.own /\ foreign' \in BOOLEAN
<1>1. answer.status \in Status
  BY DEF Piece
<1>2. PICK ok \in BOOLEAN, st \in Status : Return(ok, st)
  BY <1>1 DEF Succeed
<1> QED
  BY <1>2, ReturnTyped DEF Succeed

LEMMA CountTyped ==
  ASSUME faults \in 0..MaxFaults, NEW c, Count(c)
  PROVE  faults' \in 0..MaxFaults
  BY PN532Assumption DEF Count

LEMMA Swallowed ==
  ASSUME rx \in Seq(Piece), Swallow
  PROVE  rx' \in Seq(Piece)
<1>1. PICK k \in 1..Len(rx) : rx' = SubSeq(rx, k + 1, Len(rx))
  BY DEF Swallow
<1>2. Len(rx) \in Nat
  BY LenProperties
<1> QED
  BY <1>1, <1>2, SubSeqProperties

\* Every step keeps the sequences typed.
LEMMA LinesStep ==
  ASSUME Lines, Scalars, [Next]_vars
  PROVE  Lines'
<1>1. CASE Begin
  <2> DEFINE m == [kind |-> stage, own |-> TRUE, wake |-> powerMode # "Normal"]
  <2>1. m \in Command
    <3>1. stage \in Stages \ {"stopped"} /\ (powerMode # "Normal") \in BOOLEAN
      BY <1>1, Zenon DEF Begin, Scalars
    <3> QED
      BY <3>1 DEF Command
  <2>2. inbox' \in Seq(Command)
    <3>1. Old(inbox) \in Seq(Command)
      BY OldFrames DEF Lines
    <3>2. inbox' = Append(Old(inbox), m)
      BY <1>1, Zenon DEF Begin
    <3> QED
      BY <3>1, <3>2, <2>1
  <2> QED
    BY <1>1, <2>2, OldPieces, EmptySeq DEF Begin, Lines
<1>2. CASE WriteFails
  BY <1>2, OldPieces, OldFrames, EmptySeq DEF WriteFails, Lines
<1>3. CASE ReadAck \/ ReadHeader \/ ReadBody \/ ReadPostamble
  <2>1. rx # <<>>
    BY <1>3, Zenon DEF ReadAck, ReadHeader, ReadBody, ReadPostamble
  <2>2. Tail(rx) \in Seq(Piece)
    BY <2>1, TailPieces, Zenon DEF Lines
  <2>3. rx' = Tail(rx) \/ rx' = <<>> \/ Swallow
    BY <1>3, Zenon DEF ReadAck, ReadHeader, ReadBody, ReadPostamble
  <2>4. UNCHANGED <<tx, inbox>>
    BY <1>3 DEF ReadAck, ReadHeader, ReadBody, ReadPostamble, chipVars
  <2> QED
    BY <2>2, <2>3, <2>4, Swallowed, EmptySeq DEF Lines
<1>4. CASE ReadTimeOut
  BY <1>4 DEF ReadTimeOut, Lines, chipVars
<1>5. CASE Arrive \/ ArriveGarbled
  <2>1. tx # <<>>
    BY <1>5, Zenon DEF Arrive, ArriveGarbled
  <2>2. Tail(tx) \in Seq(Piece) /\ Head(tx) \in Piece /\ Garbled(Head(tx)) \in Piece
    BY <2>1, TailPieces, OldPiece DEF Lines
  <2>3. PICK p \in Piece : Pass(p)
    BY <1>5, <2>2, Zenon DEF Arrive, ArriveGarbled
  <2> QED
    BY <2>2, <2>3 DEF Pass, Lines
<1>6. CASE TakeCommand
  <2> DEFINE m == Head(inbox)
             ack == <<P("ack", m.own, m.kind, "ok")>>
             ans == Answer(m.own, m.kind, IF m.kind \in Setup \/ active THEN "ok" ELSE "err")
  <2>1. inbox # <<>> /\ inbox' = Tail(inbox) /\ UNCHANGED rx
    BY <1>6 DEF TakeCommand, hostVars
  <2>2. m \in Command /\ Tail(inbox) \in Seq(Command)
    BY <2>1 DEF Lines
  <2>3. m.own \in BOOLEAN /\ m.kind \in Stages
    BY <2>2 DEF Command
  <2>4. ack \in Seq(Piece) /\ ans \in Seq(Piece)
    <3>1. P("ack", m.own, m.kind, "ok") \in Piece
      BY <2>3 DEF P, Piece, Parts, Status
    <3>2. (IF m.kind \in Setup \/ active THEN "ok" ELSE "err") \in Status
      BY DEF Status
    <3> QED
      BY <2>3, <3>1, <3>2, OnePiece, AnswerPieces
  <2>5. tx' = tx \/ tx' = tx \o ack \/ tx' = tx \o ack \o ans
    BY <1>6, Zenon DEF TakeCommand
  <2> HIDE DEF ack, ans
  <2>6. tx' \in Seq(Piece)
    <3>1. tx \in Seq(Piece) /\ tx \o ack \in Seq(Piece)
      BY <2>4, ConcatPieces DEF Lines
    <3>2. tx \o ack \o ans \in Seq(Piece)
      BY <2>4, <3>1, ConcatPieces
    <3> QED
      BY <2>5, <3>1, <3>2, Zenon
  <2> QED
    BY <2>1, <2>2, <2>6 DEF Lines
<1>7. CASE Activate \/ ReaderCommand \/ ReaderLeaves
  <2>1. PICK to \in Stages, st \in Status : tx' = tx \o Answer(exec, to, st) \/ tx' = tx
    <3>1. "ok" \in Status /\ "err" \in Status /\ "init" \in Stages /\ "get" \in Stages
      BY DEF Status, Stages
    <3> QED
      BY <1>7, <3>1, Zenon DEF Activate, ReaderCommand, ReaderLeaves
  <2>2. Answer(exec, to, st) \in Seq(Piece)
    BY AnswerPieces DEF Scalars
  <2>3. tx' \in Seq(Piece)
    BY <2>1, <2>2, ConcatPieces DEF Lines
  <2>4. UNCHANGED <<rx, inbox>>
    BY <1>7 DEF Activate, ReaderCommand, ReaderLeaves, hostVars
  <2> QED
    BY <2>3, <2>4 DEF Lines
<1>8. CASE ReaderComes \/ UNCHANGED vars
  BY <1>8 DEF ReaderComes, Lines, vars, hostVars, chipVars
<1> QED
  BY <1>1, <1>2, <1>3, <1>4, <1>5, <1>6, <1>7, <1>8 DEF Next, HostStep, ChipStep

\* Every step keeps the rest typed.
LEMMA ScalarsStep ==
  ASSUME Lines, Scalars, [Next]_vars
  PROVE  Scalars'
<1>0. stage \in Stages /\ answer \in Piece /\ faults \in 0..MaxFaults
  BY Zenon DEF Scalars
<1>1. CASE Begin
  <2>1. faults' \in 0..MaxFaults
    BY <1>0, <1>1, CountTyped DEF Begin
  <2>2. timed' \in BOOLEAN /\ clean' \in BOOLEAN
    BY <1>1, Zenon DEF Begin, Timed, NoOldAck
  <2> QED
    BY <1>1, <2>1, <2>2 DEF Begin, Scalars
<1>2. CASE WriteFails
  <2>1. faults' \in 0..MaxFaults
    BY <1>0, <1>2, CountTyped DEF WriteFails
  <2>2. clean' \in BOOLEAN
    BY <1>2, Zenon DEF WriteFails, NoOldAck
  <2>3. Fail
    BY <1>2 DEF WriteFails
  <2> QED
    BY <1>0, <1>2, <2>1, <2>2, <2>3, FailTyped DEF WriteFails, Scalars
<1>3. CASE ReadAck
  <2>1. CASE Fail
    BY <1>0, <1>3, <2>1, FailTyped DEF ReadAck, Scalars, chipVars
  <2>2. CASE pc' = "hdr" /\ UNCHANGED <<stage, card, foreign>>
    BY <1>3, <2>2 DEF ReadAck, Scalars, chipVars
  <2> QED
    BY <1>3, <2>1, <2>2, Zenon DEF ReadAck
<1>4. CASE ReadHeader
  <2>1. CASE Fail
    BY <1>0, <1>4, <2>1, FailTyped DEF ReadHeader, Scalars, chipVars
  <2>2. CASE pc' = "body" /\ UNCHANGED <<stage, card, foreign>>
    BY <1>4, <2>2 DEF ReadHeader, Scalars, chipVars
  <2> QED
    BY <1>4, <2>1, <2>2, Zenon DEF ReadHeader
<1>5. CASE ReadBody
  <2>1. CASE Fail /\ UNCHANGED answer
    BY <1>0, <1>5, <2>1, FailTyped DEF ReadBody, Scalars, chipVars
  <2>2. CASE pc' = "post" /\ answer' = Head(rx) /\ Head(rx).part = "body"
             /\ UNCHANGED <<stage, card, foreign>>
    <3>1. answer' \in Piece /\ answer'.part = "body"
      BY <1>5, <2>2, TailPieces DEF ReadBody, Lines
    <3> QED
      BY <1>5, <2>2, <3>1 DEF ReadBody, Scalars, chipVars
  <2> QED
    BY <1>5, <2>1, <2>2, Zenon DEF ReadBody
<1>6. CASE ReadPostamble
  <2>1. CASE Fail
    BY <1>0, <1>6, <2>1, FailTyped DEF ReadPostamble, Scalars, chipVars
  <2>2. CASE Succeed
    BY <1>0, <1>6, <2>2, SucceedTyped DEF ReadPostamble, Scalars, chipVars
  <2> QED
    BY <1>6, <2>1, <2>2, Zenon DEF ReadPostamble
<1>7. CASE ReadTimeOut
  <2>1. Fail /\ faults' \in 0..MaxFaults
    BY <1>0, <1>7, CountTyped DEF ReadTimeOut
  <2> QED
    BY <1>0, <1>7, <2>1, FailTyped DEF ReadTimeOut, Scalars, chipVars
<1>8. CASE Arrive
  BY <1>8 DEF Arrive, Pass, Scalars
<1>9. CASE ArriveGarbled
  <2>1. faults' \in 0..MaxFaults
    BY <1>0, <1>9, CountTyped DEF ArriveGarbled
  <2> QED
    BY <1>9, <2>1 DEF ArriveGarbled, Pass, Scalars
<1>10. CASE TakeCommand
  <2>1. Head(inbox).own \in BOOLEAN
    <3>1. inbox # <<>>
      BY <1>10, Zenon DEF TakeCommand
    <3>2. Head(inbox) \in Command
      BY <3>1 DEF Lines
    <3> QED
      BY <3>2 DEF Command
  <2>2. exec' \in BOOLEAN /\ asleep' \in BOOLEAN /\ active' \in BOOLEAN
    <3>1. exec' = exec \/ exec' = Head(inbox).own
      BY <1>10, Zenon DEF TakeCommand
    <3>2. asleep' \in BOOLEAN /\ active' \in BOOLEAN
      BY <1>10, Zenon DEF TakeCommand, Scalars
    <3> QED
      BY <2>1, <3>1, <3>2, Zenon DEF Scalars
  <2>3. chip' \in {"idle", "target", "getting"}
    <3>1. chip' = chip \/ chip' = "target" \/ chip' = "getting" \/ chip' = "idle"
      BY <1>10, Zenon DEF TakeCommand
    <3> QED
      BY <3>1 DEF Scalars
  <2>4. UNCHANGED <<stage, pc, powerMode, timed, answer, card, field, faults, clean, foreign>>
    BY <1>10 DEF TakeCommand, hostVars, history
  <2> QED
    BY <2>2, <2>3, <2>4, Zenon DEF Scalars
<1>11. CASE Activate
  <2>1. faults' \in 0..MaxFaults
    BY <1>0, <1>11, CountTyped DEF Activate
  <2> QED
    BY <1>11, <2>1 DEF Activate, Scalars, hostVars
<1>12. CASE ReaderCommand \/ ReaderComes \/ ReaderLeaves
  BY <1>12 DEF ReaderCommand, ReaderComes, ReaderLeaves, Scalars, hostVars, history
<1>13. CASE UNCHANGED vars
  BY <1>13 DEF vars, hostVars, chipVars, history, Scalars
<1> QED
  BY <1>1, <1>2, <1>3, <1>4, <1>5, <1>6, <1>7, <1>8, <1>9, <1>10, <1>11, <1>12, <1>13
  DEF Next, HostStep, ChipStep

\* Every reachable state is well typed, the target is selected exactly in the inner
\* loop, and what is taken for an answer was a body that passed its checksum
\* (HSU.cpp recv 221-318).
THEOREM Pn532Typed == Spec => []Pn532TypeOK
<1>1. Init => Lines
  BY EmptySeq DEF Init, Lines
<1>2. Init => Scalars
  <2>1. P("noise", FALSE, "init", "err") \in Piece
    BY DEF Piece, P, Parts, Status, Stages
  <2>2. "status" \in Stages /\ 0 \in 0..MaxFaults
    BY PN532Assumption DEF Stages, Setup
  <2>3. Init => card = (stage \in {"get", "set"}) /\ pc # "post"
    <3>1. ("status" \in {"get", "set"}) = FALSE /\ "idle" # "post"
      OBVIOUS
    <3> QED
      BY <3>1, Zenon DEF Init
  <2>4. Init => /\ pc \in {"idle", "ack", "hdr", "body", "post"}
                /\ powerMode \in {"Normal", "LowPower", "PowerDown"}
                /\ chip \in {"idle", "target", "getting"}
    BY DEF Init
  <2>5. Init => stage \in Stages /\ answer \in Piece /\ faults \in 0..MaxFaults
    BY <2>1, <2>2, Zenon DEF Init
  <2>6. Init => /\ timed \in BOOLEAN /\ exec \in BOOLEAN /\ asleep \in BOOLEAN
                /\ active \in BOOLEAN /\ field \in BOOLEAN
                /\ clean \in BOOLEAN /\ foreign \in BOOLEAN
    BY Zenon DEF Init
  <2> QED
    BY <2>3, <2>4, <2>5, <2>6, Zenon DEF Scalars
<1>3. Pn532TypeOK /\ [Next]_vars => Pn532TypeOK'
  <2>1. Lines /\ Scalars /\ [Next]_vars => Lines' /\ Scalars'
    BY LinesStep, ScalarsStep
  <2> QED
    BY <2>1 DEF Pn532TypeOK, Lines, Scalars
<1>4. Init => Pn532TypeOK
  BY <1>1, <1>2, TypeParts
<1> QED
  BY <1>3, <1>4, PTL DEF Spec

-----------------------------------------------------------------------------
(* Answers                                                                 *)

\* r has arrived and s is on the line: what belongs to the call comes last, no
\* acknowledgement of another is among it, and the chip, e, is at the call's
\* command once any of it was sent.
LineOf(r, s, e) ==
  /\ AcksOwn(r) /\ AcksOwn(s) /\ OwnLast(r) /\ OwnLast(s)
  /\ AnyOwn(r) => AllOwn(s)
  /\ AnyOwn(r) \/ AnyOwn(s) => e

\* The inductive invariant: in a call that began with no older acknowledgement due,
\* nothing older is left behind the acknowledgement, so that the answer is its own.
Mine ==
  clean /\ pc # "idle" =>
    /\ LineOf(rx, tx, exec) /\ AllOwn(inbox)
    /\ pc # "ack" => exec /\ AllOwn(rx) /\ AllOwn(tx)
    /\ pc = "post" => answer.own

LEMMA Sent ==
  ASSUME NEW r \in Seq(Piece), NEW s \in Seq(Piece), NEW t \in Seq(Piece),
         NEW e \in BOOLEAN, NEW own \in BOOLEAN, LineOf(r, s, e), e => own,
         own => AllOwn(t), AnyOwn(t) => own, AcksOwn(t), OwnLast(t)
  PROVE  LineOf(r, s \o t, own) /\ (own /\ AllOwn(s) => AllOwn(s \o t))
<1>1. AnyOwn(s) => AllOwn(t)
  BY DEF LineOf
<1>2. AnyOwn(r) => AllOwn(s) /\ AllOwn(t)
  BY DEF LineOf
<1> QED
  BY <1>1, <1>2, ConcatKeeps DEF LineOf

LEMMA Moved ==
  ASSUME NEW r \in Seq(Piece), NEW s \in Seq(Piece), NEW e \in BOOLEAN, LineOf(r, s, e),
         s # <<>>, NEW p \in Piece, p.own = Head(s).own, p.part = "ack" => p.own
  PROVE  /\ LineOf(Append(r, p), Tail(s), e)
         /\ AllOwn(r) /\ AllOwn(s) => AllOwn(Append(r, p)) /\ AllOwn(Tail(s))
<1>1. Append(r, p) = r \o <<p>>
  OBVIOUS
<1>2. AnyOwn(r) => p.own /\ AllOwn(Tail(s))
  BY TailKeeps DEF LineOf
<1>3. p.own => AllOwn(Tail(s)) /\ e
  BY TailKeeps DEF LineOf
<1>4. AcksOwn(Tail(s)) /\ OwnLast(Tail(s)) /\ (AnyOwn(Tail(s)) => e)
  BY TailKeeps DEF LineOf
<1>5. /\ <<p>> \in Seq(Piece) /\ AcksOwn(<<p>>) /\ OwnLast(<<p>>)
      /\ AllOwn(<<p>>) <=> p.own
      /\ AnyOwn(<<p>>) <=> p.own
  BY OnePiece
<1>6. /\ AcksOwn(r \o <<p>>) /\ OwnLast(r \o <<p>>)
      /\ AnyOwn(r \o <<p>>) => AnyOwn(r) \/ p.own
      /\ AllOwn(r) /\ p.own => AllOwn(r \o <<p>>)
  BY <1>2, <1>5, ConcatKeeps DEF LineOf
<1>7. LineOf(r \o <<p>>, Tail(s), e)
  BY <1>2, <1>3, <1>4, <1>6, Zenon DEF LineOf
<1>8. AllOwn(r) /\ AllOwn(s) => AllOwn(r \o <<p>>) /\ AllOwn(Tail(s))
  BY <1>6, TailKeeps
<1> QED
  BY <1>1, <1>7, <1>8, Zenon

LEMMA Taken ==
  ASSUME NEW r \in Seq(Piece), NEW s \in Seq(Piece), NEW e \in BOOLEAN, LineOf(r, s, e), r # <<>>
  PROVE  /\ LineOf(Tail(r), s, e)
         /\ AllOwn(r) => Head(r).own /\ AllOwn(Tail(r))
         /\ Head(r).part = "ack" => e /\ AllOwn(Tail(r)) /\ AllOwn(s)
  BY TailKeeps, Zenon DEF LineOf

\* A call begins: everything there is belongs to others.
LEMMA BeginOwn ==
  ASSUME Lines, Scalars, Begin
  PROVE  Mine'
<1> SUFFICES ASSUME clean', pc' # "idle" PROVE Mine'
  BY DEF Mine
<1> DEFINE m == [kind |-> stage, own |-> TRUE, wake |-> powerMode # "Normal"]
<1>1. inbox = <<>> /\ \A i \in 1..Len(tx) : tx[i].part # "ack"
  BY DEF Begin, NoOldAck
<1>2. rx' = <<>> /\ (tx' = Old(tx) \/ tx' = Torn(Old(tx))) /\ exec' = FALSE /\ pc' = "ack"
  BY DEF Begin
<1>3. ~AnyOwn(tx') /\ OwnLast(tx') /\ AcksOwn(tx')
  BY <1>1, <1>2, OldPieces DEF Lines
<1>4. ~AnyOwn(rx') /\ OwnLast(rx') /\ AcksOwn(rx')
  BY <1>2 DEF AnyOwn, OwnLast, AcksOwn
<1>5. AllOwn(inbox')
  <2>1. Old(<<>>) = <<>>
    BY DEF Old
  <2>2. inbox' = <<m>>
    <3>1. inbox' = Append(Old(inbox), m)
      BY Zenon DEF Begin
    <3>2. \A x : Append(<<>>, x) = <<x>>
      OBVIOUS
    <3> QED
      BY <1>1, <2>1, <3>1, <3>2, Zenon
  <2>3. Len(<<m>>) = 1 /\ <<m>>[1] = m /\ m.own
    OBVIOUS
  <2> HIDE DEF m
  <2> QED
    BY <2>2, <2>3 DEF AllOwn
<1> QED
  BY <1>2, <1>3, <1>4, <1>5, Zenon DEF Mine, LineOf

\* A frame is taken: of the call, if the call began clean.
LEMMA TakeOwn ==
  ASSUME Lines, Scalars, Mine, TakeCommand
  PROVE  Mine'
<1> SUFFICES ASSUME clean', pc' # "idle" PROVE Mine'
  BY DEF Mine
<1> DEFINE m   == Head(inbox)
           ack == <<P("ack", m.own, m.kind, "ok")>>
           ans == Answer(m.own, m.kind, IF m.kind \in Setup \/ active THEN "ok" ELSE "err")
<1>1. /\ inbox # <<>> /\ inbox' = Tail(inbox)
      /\ UNCHANGED <<stage, pc, powerMode, timed, answer, card, rx, field, faults, clean, foreign>>
  BY DEF TakeCommand, hostVars, history
<1>2. /\ LineOf(rx, tx, exec) /\ AllOwn(inbox)
      /\ pc # "ack" => exec /\ AllOwn(rx) /\ AllOwn(tx)
      /\ pc = "post" => answer.own
  BY <1>1, Zenon DEF Mine
<1>3. m.own = TRUE /\ m.kind \in Stages
  <2>1. m \in Command /\ m = inbox[1] /\ 1 \in 1..Len(inbox)
    BY <1>1 DEF Lines
  <2>2. m.own
    BY <1>2, <2>1 DEF AllOwn
  <2>3. m.own \in BOOLEAN /\ m.kind \in Stages
    BY <2>1 DEF Command
  <2> QED
    BY <2>2, <2>3
<1>4. AllOwn(inbox')
  <2>1. Len(inbox) \in Nat /\ Len(inbox') = Len(inbox) - 1
        /\ \A i \in 1..Len(inbox') : inbox'[i] = inbox[i + 1]
    BY <1>1 DEF Lines
  <2> QED
    BY <1>2, <2>1 DEF AllOwn
<1>5. CASE UNCHANGED <<tx, chip, exec, asleep, active>>
  BY <1>1, <1>2, <1>4, <1>5, Zenon DEF Mine
<1>6. CASE exec' = m.own /\ (tx' = tx \o ack \/ tx' = tx \o ack \o ans)
  <2>1. exec \in BOOLEAN /\ rx \in Seq(Piece) /\ tx \in Seq(Piece)
    BY Zenon DEF Scalars, Lines
  <2>2. ack \in Seq(Piece) /\ AllOwn(ack) /\ AcksOwn(ack) /\ OwnLast(ack)
    <3>1. /\ P("ack", m.own, m.kind, "ok") \in Piece
          /\ P("ack", m.own, m.kind, "ok").own
      BY <1>3 DEF P, Piece, Parts, Status
    <3> QED
      BY <3>1, OnePiece
  <2>3. ans \in Seq(Piece) /\ AllOwn(ans) /\ AcksOwn(ans) /\ OwnLast(ans)
    <3>1. (IF m.kind \in Setup \/ active THEN "ok" ELSE "err") \in Status
      BY DEF Status
    <3> QED
      BY <1>3, <3>1, AnswerPieces
  <2> HIDE DEF ack, ans, m
  <2>4. LineOf(rx, tx \o ack, TRUE) /\ (AllOwn(tx) => AllOwn(tx \o ack))
    BY <1>2, <2>1, <2>2, Sent
  <2>5. tx \o ack \in Seq(Piece)
    BY <2>1, <2>2, ConcatPieces
  <2>6. LineOf(rx, tx \o ack \o ans, TRUE) /\ (AllOwn(tx) => AllOwn(tx \o ack \o ans))
    BY <2>1, <2>3, <2>4, <2>5, Sent
  <2>7. LineOf(rx, tx', exec') /\ (AllOwn(tx) => AllOwn(tx')) /\ exec'
    BY <1>3, <1>6, <2>4, <2>6, Zenon
  <2> QED
    BY <1>1, <1>2, <1>4, <2>7, Zenon DEF Mine
<1> QED
  BY <1>5, <1>6, Zenon DEF TakeCommand

\* Every step keeps the invariant.
LEMMA MineStep ==
  ASSUME Lines, Scalars, Mine, [Next]_vars
  PROVE  Mine'
<1>0. exec \in BOOLEAN /\ rx \in Seq(Piece) /\ tx \in Seq(Piece)
  BY Zenon DEF Scalars, Lines
<1>1. CASE Begin
  BY <1>1, BeginOwn
<1>2. CASE Fail
  BY <1>2, Zenon DEF Fail, Return, Mine
<1>3. CASE Succeed
  <2>1. pc' = "idle"
    BY <1>3, SucceedTyped, Zenon DEF Scalars
  <2> QED
    BY <2>1, Zenon DEF Mine
<1>4. CASE ReadAck /\ ~Fail
  <2>1. /\ Head(rx).part = "ack" /\ rx # <<>> /\ pc' = "hdr" /\ rx' = Tail(rx) /\ pc # "idle"
        /\ UNCHANGED <<tx, inbox, exec, clean, answer>>
    BY <1>4 DEF ReadAck, chipVars
  <2>2. clean => LineOf(rx, tx, exec) /\ AllOwn(inbox)
    BY <2>1, Zenon DEF Mine
  <2>3. clean => LineOf(rx', tx', exec') /\ exec' /\ AllOwn(rx') /\ AllOwn(tx')
    BY <1>0, <2>1, <2>2, Taken
  <2>4. clean' => AllOwn(inbox')
    BY <2>1, <2>2
  <2> QED
    BY <2>1, <2>3, <2>4 DEF Mine
<1>5. CASE (ReadHeader \/ ReadBody) /\ ~Fail
  <2>1. /\ rx # <<>> /\ rx' = Tail(rx) /\ pc \in {"hdr", "body"}
        /\ UNCHANGED <<tx, inbox, exec, clean>>
        /\ \/ pc' = "body" /\ answer' = answer
           \/ pc' = "post" /\ answer' = Head(rx)
    BY <1>5 DEF ReadHeader, ReadBody, chipVars
  <2>2. clean => /\ LineOf(rx, tx, exec) /\ AllOwn(inbox)
                 /\ exec /\ AllOwn(rx) /\ AllOwn(tx)
    BY <2>1 DEF Mine
  <2>3. clean => LineOf(rx', tx', exec') /\ AllOwn(rx') /\ Head(rx).own
    BY <1>0, <2>1, <2>2, Taken
  <2>4. clean' => AllOwn(inbox') /\ exec' /\ AllOwn(tx')
    BY <2>1, <2>2
  <2>5. clean' => (pc' = "post" => answer'.own)
    BY <2>1, <2>3
  <2> QED
    BY <2>1, <2>3, <2>4, <2>5, Zenon DEF Mine
<1>6. CASE Arrive \/ ArriveGarbled
  <2>1. tx # <<>> /\ Head(tx) \in Piece /\ Garbled(Head(tx)) \in Piece
        /\ Garbled(Head(tx)).own = Head(tx).own /\ Garbled(Head(tx)).part = "noise"
    BY <1>0, <1>6, TailPieces, OldPiece DEF Arrive, ArriveGarbled
  <2>2. PICK p \in Piece : Pass(p) /\ p.own = Head(tx).own /\ (p.part = "ack" => p = Head(tx))
    BY <1>6, <2>1 DEF Arrive, ArriveGarbled
  <2>3. /\ rx' = Append(rx, p) /\ tx' = Tail(tx)
        /\ UNCHANGED <<pc, inbox, exec, clean, answer>>
    BY <2>2 DEF Pass
  <2>4. ASSUME clean, pc # "idle"
        PROVE  /\ LineOf(rx', tx', exec)
               /\ AllOwn(rx) /\ AllOwn(tx) => AllOwn(rx') /\ AllOwn(tx')
    <3>1. LineOf(rx, tx, exec)
      BY <2>4, Zenon DEF Mine
    <3>2. p.part = "ack" => p.own
      BY <1>0, <2>1, <2>2, <3>1, TailKeeps DEF LineOf
    <3> QED
      BY <1>0, <2>1, <2>2, <2>3, <3>1, <3>2, Moved
  <2> QED
    BY <2>3, <2>4, Zenon DEF Mine
<1>7. CASE TakeCommand
  BY <1>7, TakeOwn
<1>8. CASE Activate \/ ReaderCommand \/ ReaderLeaves
  <2>1. PICK to \in Stages, st \in Status : tx' = tx \o Answer(exec, to, st) \/ tx' = tx
    <3>1. "ok" \in Status /\ "err" \in Status /\ "init" \in Stages /\ "get" \in Stages
      BY DEF Status, Stages
    <3> QED
      BY <1>8, <3>1, Zenon DEF Activate, ReaderCommand, ReaderLeaves
  <2>2. UNCHANGED <<rx, pc, answer, inbox, exec, clean>>
    BY <1>8 DEF Activate, ReaderCommand, ReaderLeaves, hostVars, history
  <2>3. ASSUME LineOf(rx, tx, exec)
        PROVE  LineOf(rx, tx', exec) /\ (exec /\ AllOwn(tx) => AllOwn(tx'))
    <3> DEFINE t == Answer(exec, to, st)
    <3>1. t \in Seq(Piece) /\ (exec => AllOwn(t)) /\ (AnyOwn(t) => exec) /\ AcksOwn(t) /\ OwnLast(t)
      BY <1>0, AnswerPieces
    <3> HIDE DEF t
    <3>2. LineOf(rx, tx \o t, exec) /\ (exec /\ AllOwn(tx) => AllOwn(tx \o t))
      BY <1>0, <2>3, <3>1, Sent
    <3> QED
      BY <2>1, <2>3, <3>2 DEF t
  <2> QED
    BY <2>2, <2>3, Zenon DEF Mine
<1>9. CASE ReaderComes \/ UNCHANGED vars
  BY <1>9 DEF ReaderComes, vars, hostVars, chipVars, history, Mine
<1> QED
  BY <1>1, <1>2, <1>3, <1>4, <1>5, <1>6, <1>7, <1>8, <1>9, Zenon
  DEF Next, HostStep, ChipStep, WriteFails, ReadTimeOut, ReadPostamble

\* The history of the answers follows.
LEMMA AnswerStep ==
  ASSUME Lines, Scalars, Mine, AnswerIsOwn, [Next]_vars
  PROVE  AnswerIsOwn'
<1>1. CASE foreign' = FALSE
  BY <1>1 DEF AnswerIsOwn
<1>2. CASE ReadPostamble /\ Succeed
  <2>1. pc = "post" /\ UNCHANGED clean /\ foreign' = ~answer.own
    BY <1>2 DEF ReadPostamble, Succeed
  <2>2. clean => answer.own
    BY <2>1 DEF Mine
  <2> QED
    BY <2>1, <2>2 DEF AnswerIsOwn
<1>3. CASE UNCHANGED <<clean, foreign>>
  BY <1>3 DEF AnswerIsOwn
<1>4. Fail => foreign' = FALSE
  BY DEF Fail
<1>5. ASSUME HostStep \/ WriteFails, ~(ReadPostamble /\ Succeed), foreign' # FALSE
      PROVE  UNCHANGED <<clean, foreign>>
  BY <1>4, <1>5, Zenon
  DEF HostStep, WriteFails, Begin, ReadAck, ReadHeader, ReadBody, ReadPostamble, ReadTimeOut
<1>6. ASSUME Next, ~HostStep, ~WriteFails PROVE UNCHANGED <<clean, foreign>>
  BY <1>6 DEF Next, ChipStep, Arrive, ArriveGarbled, Pass, TakeCommand, Activate, ReaderCommand,
     ReaderComes, ReaderLeaves, history
<1>7. UNCHANGED vars => UNCHANGED <<clean, foreign>>
  BY DEF vars, history
<1> QED
  BY <1>1, <1>2, <1>3, <1>5, <1>6, <1>7, Zenon

\* A call that returns with an answer has its own, unless an acknowledgement of an
\* older one was still due when it began (HSU.cpp transmit 130-150, send 152-219).
THEOREM AnswerIsOwnHolds == Spec => []AnswerIsOwn
<1>1. Init => Mine /\ AnswerIsOwn
  BY DEF Init, Mine, AnswerIsOwn
<1>2. Pn532TypeOK /\ Mine /\ AnswerIsOwn /\ [Next]_vars => Mine' /\ AnswerIsOwn'
  BY TypeParts, MineStep, AnswerStep
<1> QED
  BY <1>1, <1>2, Pn532Typed, PTL DEF Spec
=============================================================================
