--------------------------- MODULE FaultLoopProofs ---------------------------
(***************************************************************************)
(* FaultLoop for every number of lives, HMI starts and waiting             *)
(* connections: as long as no pair of connections was cut in half, the HMI *)
(* serves one life at a time and the two take turns.                       *)
(***************************************************************************)
EXTENDS FaultLoop, TLAPS

-----------------------------------------------------------------------------
(* Facts about sequences                                                    *)

LEMMA SeqFacts ==
  ASSUME NEW S, NEW s \in Seq(S), NEW e \in S
  PROVE  /\ Append(s, e) \in Seq(S) /\ Append(s, e) # <<>>
         /\ Len(Append(s, e)) = Len(s) + 1
         /\ s = <<>> => Head(Append(s, e)) = e /\ Tail(Append(s, e)) = <<>>
         /\ s # <<>> => /\ Head(Append(s, e)) = Head(s)
                        /\ Tail(Append(s, e)) = Append(Tail(s), e)
  OBVIOUS

LEMMA TailFacts ==
  ASSUME NEW S, NEW s \in Seq(S), s # <<>>
  PROVE  Head(s) \in S /\ Tail(s) \in Seq(S) /\ Len(Tail(s)) = Len(s) - 1 /\ Len(s) > 0
  OBVIOUS

LEMMA DropFacts ==
  ASSUME NEW S, NEW s \in Seq(S), NEW n \in 1..Len(s)
  PROVE  SubSeq(s, n + 1, Len(s)) \in Seq(S) /\ Len(SubSeq(s, n + 1, Len(s))) = Len(s) - n
  OBVIOUS

LEMMA NoElement ==
  ASSUME NEW S, NEW s \in Seq(S), Len(s) = 0
  PROVE  s = <<>>
  OBVIOUS

LEMMA Single ==
  ASSUME NEW v
  PROVE  Append(<<>>, v) = <<v>> /\ Head(<<v>>) = v /\ Len(<<v>>) = 1 /\ Len(<<>>) = 0
  OBVIOUS

LEMMA SumAtMostOne ==
  /\ \A a, b \in Nat : a + b <= 1 => (a > 0 => a = 1 /\ b = 0) /\ (b > 0 => b = 1 /\ a = 0)
  /\ \A a \in {0, 1} : a + 0 <= 1 /\ 0 + a <= 1
  OBVIOUS

\* Two sequences with one element between them.
LEMMA OneOfTwo ==
  ASSUME NEW S, NEW T, NEW s \in Seq(S), NEW t \in Seq(T), Len(s) + Len(t) <= 1
  PROVE  /\ s # <<>> => Tail(s) = <<>> /\ t = <<>>
         /\ \A n \in 1..Len(t) :
              n = 1 /\ s = <<>> /\ t # <<>> /\ SubSeq(t, n + 1, Len(t)) = <<>>
  <1>1. Len(s) \in Nat /\ Len(t) \in Nat
    OBVIOUS
  <1>2. \A n \in 1..Len(t) : Len(t) > 0
    BY <1>1
  <1>3. /\ Len(s) > 0 => Len(s) = 1 /\ Len(t) = 0
        /\ Len(t) > 0 => Len(t) = 1 /\ Len(s) = 0
    BY <1>1, SumAtMostOne, Zenon
  <1>4. ASSUME s # <<>> PROVE Tail(s) = <<>> /\ t = <<>>
    <2>1. Len(s) = 1 /\ Len(t) = 0
      BY <1>3, <1>4, TailFacts, Zenon
    <2>2. Tail(s) \in Seq(S) /\ Len(Tail(s)) = 0
      BY <1>4, <2>1, TailFacts
    <2>3. QED
      BY <2>1, <2>2, NoElement
  <1>5. ASSUME NEW n \in 1..Len(t)
        PROVE  n = 1 /\ s = <<>> /\ t # <<>> /\ SubSeq(t, n + 1, Len(t)) = <<>>
    <2>1. Len(t) = 1 /\ Len(s) = 0
      BY <1>2, <1>3, Zenon
    <2>2. n = 1
      BY <2>1
    <2>3. SubSeq(t, 2, 1) \in Seq(T) /\ Len(SubSeq(t, 2, 1)) = 0
      BY <2>1, <2>2, DropFacts
    <2>4. SubSeq(t, n + 1, Len(t)) = <<>>
      BY <2>1, <2>2, <2>3, NoElement
    <2>5. s = <<>> /\ t # <<>>
      <3>1. Len(<<>>) = 0 /\ 0 # 1
        OBVIOUS
      <3>2. s = <<>>
        BY <2>1, NoElement, Zenon
      <3>3. t # <<>>
        BY <2>1, <3>1, Zenon
      <3>4. QED
        BY <3>2, <3>3
    <2>6. QED
      BY <2>2, <2>4, <2>5
  <1>6. QED
    BY <1>4, <1>5

LEMMA RangeFacts ==
  ASSUME NEW S, NEW s \in Seq(S), NEW e \in S
  PROVE  ToSet(s) \subseteq S /\ e \in ToSet(Append(s, e))
  BY DEF ToSet

-----------------------------------------------------------------------------
(* Type correctness                                                         *)

\* A life ends, and the HMI is closed, only when another may follow; the HMI serves
\* connections that were made.
Served ==
  /\ pc = "ended" => life < MaxLives
  /\ hpc = "ended" => starts < MaxStarts
  /\ hpc \in {"acceptSpeaker", "recv"} => hd \in Life
  /\ hpc = "recv" => hs \in Life

TInv == TypeOK /\ Served

LEMMA RtuType == TInv /\ (RtuStep \/ RtuEnd \/ RtuRestart) => TypeOK'
  <1> SUFFICES ASSUME TInv, RtuStep \/ RtuEnd \/ RtuRestart PROVE TypeOK'
    OBVIOUS
  <1> USE DEF TypeOK, TInv, RtuPC
  <1>1. CASE RtuConnectData
    <2>1. dq' \in Seq(Life) /\ Len(dq') <= Backlog
      BY <1>1, SeqFacts, BacklogAssumption DEF RtuConnectData
    <2>2. QED
      BY <1>1, <2>1 DEF RtuConnectData, hmiVars
  <1>2. CASE RtuConnectSpeaker
    <2>1. sq' \in Seq(Life) /\ Len(sq') <= Backlog
      BY <1>2, SeqFacts, BacklogAssumption DEF RtuConnectSpeaker
    <2>2. cut' \in BOOLEAN
      BY <1>2 DEF RtuConnectSpeaker
    <2>3. QED
      BY <1>2, <2>1, <2>2 DEF RtuConnectSpeaker, hmiVars
  <1>3. CASE RtuSend
    <2> PICK r \in Reading :
          /\ value' = r
          /\ readings' = IF life \in dclosed THEN readings
                         ELSE [readings EXCEPT ![life] = Append(@, r)]
      BY <1>3 DEF RtuSend
    <2>1. Append(readings[life], r) \in Seq(Reading)
      BY SeqFacts
    <2>2. readings' \in [Life -> Seq(Reading)]
      BY <2>1
    <2>3. QED
      BY <1>3, <2>2 DEF RtuSend, hmiVars
  <1>4. CASE RtuHear
    <2> PICK n \in 1..Len(verdicts[life]) :
          /\ heard' = IF n = 1 THEN Head(verdicts[life]) ELSE Garbled
          /\ verdicts' = [verdicts EXCEPT ![life] = SubSeq(@, n + 1, Len(@))]
      BY <1>4 DEF RtuHear
    <2>1. SubSeq(verdicts[life], n + 1, Len(verdicts[life])) \in Seq(Verdict)
      BY DropFacts
    <2>2. verdicts' \in [Life -> Seq(Verdict)]
      BY <2>1
    <2>3. heard' \in Verdict \union {"none", Garbled}
      BY TailFacts
    <2>4. QED
      BY <1>4, <2>2, <2>3 DEF RtuHear, hmiVars
  <1>5. CASE RtuAct
    <2>1. coil' \in BOOLEAN
      BY <1>5 DEF RtuAct, WriteCoil
    <2>2. QED
      BY <1>5, <2>1 DEF RtuAct, hmiVars, netVars
  <1>6. CASE RtuRelease
    <2>1. coil' \in BOOLEAN
      BY <1>6 DEF RtuRelease, WriteCoil
    <2>2. QED
      BY <1>6, <2>1 DEF RtuRelease, hmiVars, netVars
  <1>7. CASE RtuEnd
    <2>1. cut' \in BOOLEAN
      BY <1>7 DEF RtuEnd
    <2>2. QED
      BY <1>7, <2>1 DEF RtuEnd, hmiVars, netVars
  <1>8. CASE RtuRestart
    <2>1. life' \in Life
      BY <1>8, LivesAssumption DEF Served, RtuRestart, Life
    <2>2. QED
      BY <1>8, <2>1 DEF RtuRestart, hmiVars, netVars
  <1>9. QED
    BY <1>1, <1>2, <1>3, <1>4, <1>5, <1>6, <1>7, <1>8 DEF RtuStep

LEMMA HmiType == TInv /\ (HmiStep \/ HmiEnd \/ HmiUnpackFails \/ HmiRestart) => TypeOK'
  <1> SUFFICES ASSUME TInv, HmiStep \/ HmiEnd \/ HmiUnpackFails \/ HmiRestart PROVE TypeOK'
    OBVIOUS
  <1> USE DEF TypeOK, TInv, HmiPC
  <1>1. CASE HmiListenData \/ HmiListenSpeaker
    BY <1>1 DEF HmiListenData, HmiListenSpeaker, rtuVars, netVars
  <1>2. CASE HmiAcceptData
    <2>1. hd' \in Life /\ dq' \in Seq(Life) /\ Len(dq') <= Backlog
      BY <1>2, TailFacts, BacklogAssumption DEF HmiAcceptData
    <2>2. QED
      BY <1>2, <2>1 DEF HmiAcceptData, rtuVars
  <1>3. CASE HmiAcceptSpeaker
    <2>1. hs' \in Life /\ sq' \in Seq(Life) /\ Len(sq') <= Backlog
      BY <1>3, TailFacts, BacklogAssumption DEF HmiAcceptSpeaker
    <2>2. sclosed' \subseteq Life
      BY <1>3 DEF HmiAcceptSpeaker
    <2>3. QED
      BY <1>3, <2>1, <2>2 DEF HmiAcceptSpeaker, rtuVars
  <1>4. CASE HmiReply
    <2>1. hd \in Life /\ hs \in Life /\ readings[hd] # <<>>
      BY <1>4 DEF HmiReply, Served
    <2>2. readings[hd] \in Seq(Reading) /\ verdicts[hs] \in Seq(Verdict)
      BY <2>1
    <2>3. Tail(readings[hd]) \in Seq(Reading)
      BY <2>1, <2>2, TailFacts
    <2>4. Judge(Head(readings[hd])) \in Verdict
      BY DEF Judge, Verdict
    <2>5. Append(verdicts[hs], Judge(Head(readings[hd]))) \in Seq(Verdict)
      BY <2>2, <2>4, SeqFacts
    <2>6. readings' \in [Life -> Seq(Reading)] /\ verdicts' \in [Life -> Seq(Verdict)]
      BY <1>4, <2>3, <2>5 DEF HmiReply
    <2>7. QED
      BY <1>4, <2>6 DEF HmiReply, rtuVars, hmiVars
  <1>5. CASE HmiHangUp
    <2>1. dclosed' \subseteq Life
      BY <1>5 DEF HmiHangUp, Served
    <2>2. QED
      BY <1>5, <2>1 DEF HmiHangUp, rtuVars
  <1>6. CASE HmiDown
    <2>1. dclosed' \subseteq Life /\ sclosed' \subseteq Life
      BY <1>6 DEF HmiDown, ToSet
    <2>2. <<>> \in Seq(Life) /\ Len(<<>>) <= Backlog
      BY BacklogAssumption
    <2>3. QED
      BY <1>6, <2>1, <2>2 DEF HmiDown, rtuVars
  <1>7. CASE HmiRestart
    <2>1. starts' \in 1..MaxStarts
      BY <1>7, LivesAssumption DEF HmiRestart, Served
    <2>2. QED
      BY <1>7, <2>1 DEF HmiRestart, rtuVars, netVars
  <1>8. QED
    BY <1>1, <1>2, <1>3, <1>4, <1>5, <1>6, <1>7 DEF HmiStep, HmiEnd, HmiUnpackFails

LEMMA ServedKept == TInv /\ Next => Served'
  <1> SUFFICES ASSUME TInv, Next PROVE Served'
    OBVIOUS
  <1> USE DEF TInv, TypeOK, Served
  <1>1. CASE RtuStep
    BY <1>1 DEF RtuStep, RtuConnectData, RtuConnectSpeaker, RtuSend, RtuHear, RtuAct, RtuRelease,
                hmiVars
  <1>2. CASE RtuEnd \/ RtuRestart
    BY <1>2 DEF RtuEnd, RtuRestart, hmiVars
  <1>3. CASE HmiListenData \/ HmiListenSpeaker \/ HmiRestart
    BY <1>3 DEF HmiListenData, HmiListenSpeaker, HmiRestart, rtuVars
  <1>4. CASE HmiAcceptData
    <2>1. hd' \in Life
      BY <1>4, TailFacts DEF HmiAcceptData
    <2>2. QED
      BY <1>4, <2>1 DEF HmiAcceptData, rtuVars
  <1>5. CASE HmiAcceptSpeaker
    <2>1. hs' \in Life
      BY <1>5, TailFacts DEF HmiAcceptSpeaker
    <2>2. QED
      BY <1>5, <2>1 DEF HmiAcceptSpeaker, rtuVars
  <1>6. CASE HmiReply \/ HmiHangUp
    BY <1>6 DEF HmiReply, HmiHangUp, rtuVars, hmiVars
  <1>7. CASE HmiDown
    BY <1>7 DEF HmiDown, rtuVars
  <1>8. QED
    BY <1>1, <1>2, <1>3, <1>4, <1>5, <1>6, <1>7 DEF Next, HmiStep, HmiEnd, HmiUnpackFails

LEMMA TypeInit == Init => TInv
  <1> SUFFICES ASSUME Init PROVE TInv
    OBVIOUS
  <1> USE DEF Init
  <1>1. life \in Life /\ starts \in 1..MaxStarts
    BY LivesAssumption DEF Life
  <1>2. /\ dq \in Seq(Life) /\ sq \in Seq(Life)
        /\ Len(dq) <= Backlog /\ Len(sq) <= Backlog
    BY BacklogAssumption
  <1>3. readings \in [Life -> Seq(Reading)] /\ verdicts \in [Life -> Seq(Verdict)]
    OBVIOUS
  <1>4. TypeOK
    BY <1>1, <1>2, <1>3 DEF TypeOK, RtuPC, HmiPC
  <1>5. QED
    BY <1>4 DEF TInv, Served

LEMMA TypeStep == TInv /\ [Next]_vars => TInv'
  <1>1. TInv /\ UNCHANGED vars => TInv'
    BY DEF TInv, TypeOK, Served, vars, rtuVars, hmiVars, netVars
  <1>2. QED
    BY <1>1, RtuType, HmiType, ServedKept DEF Next, TInv

LEMMA TypeInvariance == Spec => []TInv
  BY TypeInit, TypeStep, PTL DEF Spec

\* Every variable keeps its type; no backlog grows beyond what the listener holds.
THEOREM TypeCorrect == Spec => []TypeOK
  <1>1. TInv => TypeOK
    BY DEF TInv
  <1>2. QED
    BY <1>1, TypeInvariance, PTL

-----------------------------------------------------------------------------
(* Pairing.  The HMI takes the connections of its two ports in turn, so it   *)
(* pairs them rightly as long as the two backlogs name the same lives.       *)

\* Lives that may have made their data connection.
Made == {l \in Life : l < life \/ (l = life /\ pc # "connectData")}

Fresh ==
  /\ dq \in Seq(Made)
  /\ hd \in Made \union {NoLife}
  /\ dclosed \subseteq Made

\* The speakers that are waiting, and the one that is about to.
Waiting == IF pc = "connectSpeaker" /\ life \notin dclosed THEN Append(sq, life) ELSE sq

Chain ==
  /\ hpc = "acceptSpeaker" => Waiting # <<>> /\ hd = Head(Waiting) /\ dq = Tail(Waiting)
  /\ hpc # "acceptSpeaker" => dq = Waiting
  /\ hpc = "recv" => hd = hs

\* A life and the HMI take turns: nothing is under way but the reading sent last,
\* or its verdict, while the life listens.
Empty(l) == readings[l] = <<>> /\ verdicts[l] = <<>>

TurnOf(l) ==
  /\ Len(readings[l]) + Len(verdicts[l]) <= 1
  /\ l > life => Empty(l)
  /\ l = life /\ pc \notin {"listen", "ended"} => Empty(l)
  /\ l = life /\ pc = "listen" =>
       /\ readings[l] # <<>> => Head(readings[l]) = value
       /\ verdicts[l] # <<>> => Head(verdicts[l]) = Judge(value)

Turn == \A l \in Life : TurnOf(l)

Heard == pc = "act" => heard = Judge(value)

PInv == TInv /\ Fresh /\ (~cut => Chain /\ Turn /\ Heard)

LEMMA SeqGrows ==
  ASSUME NEW S, NEW T, NEW s \in Seq(S), S \subseteq T
  PROVE  s \in Seq(T)
  OBVIOUS

LEMMA FreshKept == TInv /\ TInv' /\ Fresh /\ Next => Fresh'
  <1> SUFFICES ASSUME TInv, TInv', Fresh, Next PROVE Fresh'
    OBVIOUS
  <1>1. life \in Int /\ life' \in Int
    BY LivesAssumption DEF TInv, TypeOK, Life
  <1>2. Made \subseteq Made'
    <2>1. \/ life' = life /\ (pc' = "connectData" => pc = "connectData")
          \/ life' = life + 1
      BY DEF Next, RtuStep, RtuConnectData, RtuConnectSpeaker, RtuSend, RtuHear, RtuAct,
             RtuRelease, RtuEnd, RtuRestart, HmiStep, HmiListenData, HmiListenSpeaker,
             HmiAcceptData, HmiAcceptSpeaker, HmiReply, HmiHangUp, HmiEnd, HmiUnpackFails,
             HmiDown, HmiRestart, rtuVars
    <2>2. ASSUME NEW l \in Made PROVE l \in Made'
      <3>1. l \in Life /\ l \in Int
        BY LivesAssumption DEF Made, Life
      <3>2. QED
        BY <1>1, <2>1, <3>1 DEF Made
    <2>3. QED
      BY <2>2
  <1>3. CASE UNCHANGED <<dq, hd, dclosed>>
    BY <1>2, <1>3, SeqGrows DEF Fresh
  <1>4. CASE RtuConnectData
    <2>1. life \in Made' /\ UNCHANGED <<hd, dclosed>> /\ dq' = Append(dq, life)
      BY <1>4 DEF RtuConnectData, Made, TInv, TypeOK, hmiVars
    <2>2. dq \in Seq(Made')
      BY <1>2, SeqGrows DEF Fresh
    <2>3. dq' \in Seq(Made')
      BY <2>1, <2>2, SeqFacts
    <2>4. QED
      BY <1>2, <2>1, <2>3 DEF Fresh
  <1>5. CASE HmiAcceptData
    <2>1. dq # <<>> /\ hd' = Head(dq) /\ dq' = Tail(dq) /\ dclosed' = dclosed
      BY <1>5 DEF HmiAcceptData
    <2>2. hd' \in Made /\ dq' \in Seq(Made)
      BY <2>1, TailFacts DEF Fresh
    <2>3. QED
      BY <1>2, <2>1, <2>2, SeqGrows DEF Fresh
  <1>6. CASE HmiHangUp
    <2>1. UNCHANGED <<dq, hd>> /\ dclosed' = dclosed \union {hd} /\ hd \in Life
      BY <1>6 DEF HmiHangUp, TInv, Served
    <2>2. hd \in Made
      BY <2>1 DEF Fresh, NoLife, Life
    <2>3. QED
      BY <1>2, <2>1, <2>2, SeqGrows DEF Fresh
  <1>7. CASE HmiDown
    <2>1. ToSet(dq) \subseteq Made
      BY DEF Fresh, ToSet
    <2>2. dq' = <<>> /\ hd' = NoLife
          /\ dclosed' = dclosed \union ToSet(dq) \union ({hd} \ {NoLife})
      BY <1>7 DEF HmiDown
    <2>3. dclosed' \subseteq Made
      BY <2>1, <2>2 DEF Fresh
    <2>4. dq' \in Seq(Made')
      BY <2>2
    <2>5. QED
      BY <1>2, <2>2, <2>3, <2>4 DEF Fresh
  <1>8. QED
    BY <1>3, <1>4, <1>5, <1>6, <1>7
    DEF Next, RtuStep, RtuConnectSpeaker, RtuSend, RtuHear, RtuAct, RtuRelease, RtuEnd,
        RtuRestart, HmiStep, HmiListenData, HmiListenSpeaker, HmiAcceptSpeaker, HmiReply, HmiEnd,
        HmiUnpackFails, HmiRestart, rtuVars, hmiVars, netVars

LEMMA ChainKept == TInv /\ Fresh /\ Chain /\ Next /\ ~cut' => Chain'
  <1> SUFFICES ASSUME TInv, Fresh, Chain, Next, ~cut' PROVE Chain'
    OBVIOUS
  <1>1. sq \in Seq(Life) /\ life \in Life /\ dq \in Seq(Life)
    BY DEF TInv, TypeOK
  <1>2. CASE UNCHANGED <<hpc, hd, hs, dq>> /\ Waiting' = Waiting
    BY <1>2 DEF Chain
  <1>3. CASE RtuConnectData
    <2>1. /\ pc = "connectData" /\ pc' = "connectSpeaker" /\ dq' = Append(dq, life)
          /\ UNCHANGED <<life, sq, dclosed, hpc, hd, hs>>
      BY <1>3 DEF RtuConnectData, hmiVars
    <2>2. life \notin dclosed
      BY <2>1, <1>1, LivesAssumption DEF Fresh, Made, Life
    <2>3. Waiting = sq /\ Waiting' = Append(sq, life)
      BY <2>1, <2>2 DEF Waiting
    <2>4. QED
      BY <1>1, <2>1, <2>3, SeqFacts DEF Chain
  <1>4. CASE RtuConnectSpeaker
    <2>1. /\ pc = "connectSpeaker" /\ pc' = "sense" /\ sq' = Append(sq, life)
          /\ UNCHANGED <<life, dq, dclosed, hpc, hd, hs>>
      BY <1>4 DEF RtuConnectSpeaker, hmiVars
    <2>2. life \notin dclosed
      BY <1>4 DEF RtuConnectSpeaker
    <2>3. Waiting' = Waiting
      BY <2>1, <2>2 DEF Waiting
    <2>4. QED
      BY <1>2, <2>1, <2>3
  <1>5. CASE RtuSend \/ RtuHear \/ RtuAct \/ RtuRelease \/ RtuEnd \/ RtuRestart
    <2>1. /\ UNCHANGED <<hpc, hd, hs, dq, sq>>
          /\ pc # "connectSpeaker" /\ pc' # "connectSpeaker"
      BY <1>5 DEF RtuSend, RtuHear, RtuAct, RtuRelease, RtuEnd, RtuRestart, hmiVars, netVars
    <2>2. QED
      BY <1>2, <2>1 DEF Waiting
  <1>6. CASE HmiListenData \/ HmiListenSpeaker \/ HmiReply \/ HmiRestart
    <2>1. /\ UNCHANGED <<pc, life, dclosed, hd, hs, dq, sq>>
          /\ hpc = hpc' \/ (hpc # "acceptSpeaker" /\ hpc' \notin {"acceptSpeaker", "recv"})
      BY <1>6 DEF HmiListenData, HmiListenSpeaker, HmiReply, HmiRestart, rtuVars, hmiVars, netVars
    <2>2. Waiting' = Waiting
      BY <2>1 DEF Waiting
    <2>3. QED
      BY <2>1, <2>2 DEF Chain
  <1>7. CASE HmiAcceptData
    <2>1. /\ hpc = "acceptData" /\ hpc' = "acceptSpeaker"
          /\ dq # <<>> /\ hd' = Head(dq) /\ dq' = Tail(dq)
          /\ UNCHANGED <<pc, life, dclosed, sq>>
      BY <1>7 DEF HmiAcceptData, rtuVars
    <2>2. Waiting' = Waiting /\ dq = Waiting
      BY <2>1 DEF Waiting, Chain
    <2>3. QED
      BY <2>1, <2>2 DEF Chain
  <1>8. CASE HmiAcceptSpeaker
    <2>1. /\ hpc = "acceptSpeaker" /\ hpc' = "recv"
          /\ sq # <<>> /\ hs' = Head(sq) /\ sq' = Tail(sq)
          /\ UNCHANGED <<pc, life, dclosed, dq, hd>>
      BY <1>8 DEF HmiAcceptSpeaker, rtuVars
    <2>2. CASE pc = "connectSpeaker" /\ life \notin dclosed
      <3>1. Waiting = Append(sq, life) /\ Waiting' = Append(Tail(sq), life)
        BY <2>1, <2>2 DEF Waiting
      <3>2. Head(Waiting) = Head(sq) /\ Tail(Waiting) = Waiting'
        BY <1>1, <2>1, <3>1, SeqFacts
      <3>3. QED
        BY <2>1, <3>2 DEF Chain
    <2>3. CASE ~(pc = "connectSpeaker" /\ life \notin dclosed)
      <3>1. Waiting = sq /\ Waiting' = Tail(sq)
        BY <2>1, <2>3 DEF Waiting
      <3>2. QED
        BY <2>1, <3>1 DEF Chain
    <2>4. QED
      BY <2>2, <2>3
  <1>9. CASE HmiHangUp
    <2>1. /\ hpc = "recv" /\ hpc' = "acceptData"
          /\ dclosed' = dclosed \union {hd} /\ RtuGone(hd)
          /\ UNCHANGED <<pc, life, dq, sq>>
      BY <1>9 DEF HmiHangUp, rtuVars
    <2>2. pc = "connectSpeaker" => hd # life
      BY <1>1, <2>1, LivesAssumption DEF RtuGone, Life
    <2>3. Waiting' = Waiting
      BY <2>1, <2>2 DEF Waiting
    <2>4. QED
      BY <2>1, <2>3 DEF Chain
  <1>10. CASE HmiDown
    <2>1. /\ hpc' = "ended" /\ dq' = <<>> /\ sq' = <<>>
          /\ dclosed' = dclosed \union ToSet(dq) \union ({hd} \ {NoLife})
          /\ UNCHANGED <<pc, life>>
      BY <1>10 DEF HmiDown, rtuVars
    <2>2. ASSUME pc = "connectSpeaker", life \notin dclosed
          PROVE  life \in dclosed'
      <3>1. Waiting = Append(sq, life) /\ life # NoLife
        BY <1>1, <2>2, LivesAssumption DEF Waiting, Life, NoLife
      <3>2. CASE dq = Waiting
        BY <1>1, <2>1, <3>1, <3>2, RangeFacts
      <3>3. CASE hpc = "acceptSpeaker" /\ sq = <<>>
        BY <1>1, <2>1, <3>1, <3>3, SeqFacts DEF Chain
      <3>4. CASE hpc = "acceptSpeaker" /\ sq # <<>>
        <4>1. dq = Append(Tail(sq), life)
          BY <1>1, <3>1, <3>4, SeqFacts DEF Chain
        <4>2. Tail(sq) \in Seq(Life)
          BY <1>1, <3>4, TailFacts
        <4>3. QED
          BY <1>1, <2>1, <4>1, <4>2, RangeFacts
      <3>5. QED
        BY <3>2, <3>3, <3>4 DEF Chain
    <2>3. Waiting' = <<>>
      BY <2>1, <2>2 DEF Waiting
    <2>4. QED
      BY <2>1, <2>3 DEF Chain
  <1>11. QED
    BY <1>3, <1>4, <1>5, <1>6, <1>7, <1>8, <1>9, <1>10
    DEF Next, RtuStep, HmiStep, HmiEnd, HmiUnpackFails

LEMMA TurnKept ==
  TInv /\ TInv' /\ Chain /\ Turn /\ Heard /\ Next => Turn' /\ Heard'
  <1> SUFFICES ASSUME TInv, TInv', Chain, Turn, Heard, Next PROVE Turn' /\ Heard'
    OBVIOUS
  <1>1. /\ life \in Life /\ life' \in Life
        /\ readings \in [Life -> Seq(Reading)] /\ verdicts \in [Life -> Seq(Verdict)]
    BY DEF TInv, TypeOK
  <1>2. Life \subseteq Int
    BY LivesAssumption DEF Life
  <1>3. \A l \in Life : readings[l] \in Seq(Reading) /\ verdicts[l] \in Seq(Verdict)
    BY <1>1
  <1>4. CASE RtuConnectData \/ RtuConnectSpeaker \/ RtuAct \/ RtuRelease
    <2>1. /\ UNCHANGED <<life, readings, verdicts>>
          /\ pc \notin {"listen", "ended"} /\ pc' \notin {"listen", "ended", "act"}
      BY <1>4 DEF RtuConnectData, RtuConnectSpeaker, RtuAct, RtuRelease, netVars
    <2>2. QED
      BY <2>1 DEF Turn, TurnOf, Heard, Empty
  <1>5. CASE RtuSend
    <2>1. /\ pc = "sense" /\ pc' = "listen" /\ value' \in Reading
          /\ UNCHANGED <<life, verdicts>>
          /\ readings' = readings \/ readings' = [readings EXCEPT ![life] = Append(@, value')]
      BY <1>5 DEF RtuSend
    <2>2. readings[life] = <<>> /\ verdicts[life] = <<>>
      BY <1>1, <2>1 DEF Turn, TurnOf, Empty
    <2>4. /\ readings'[life] = <<>> \/ readings'[life] = <<value'>>
          /\ verdicts'[life] = <<>>
          /\ \A l \in Life \ {life} : readings'[l] = readings[l] /\ verdicts'[l] = verdicts[l]
      BY <1>1, <2>1, <2>2, Single
    <2>5. TurnOf(life)'
      <3>1. Len(readings'[life]) \in {0, 1} /\ Len(verdicts'[life]) = 0
        BY <2>4, Single
      <3>2. readings'[life] # <<>> => Head(readings'[life]) = value'
        BY <2>4, Single
      <3>3. life' = life /\ pc' = "listen" /\ ~(life > life)
        BY <2>1, <1>1, <1>2
      <3>4. Len(readings'[life]) + Len(verdicts'[life]) <= 1
        BY <3>1, SumAtMostOne, Zenon
      <3>5. QED
        BY <2>4, <3>2, <3>3, <3>4 DEF TurnOf
    <2>6. ASSUME NEW l \in Life \ {life} PROVE TurnOf(l)'
      BY <2>1, <2>4 DEF Turn, TurnOf, Empty
    <2>7. QED
      BY <2>1, <2>5, <2>6 DEF Turn, Heard
  <1>6. CASE RtuHear
    <2>1. PICK n \in 1..Len(verdicts[life]) :
            /\ heard' = IF n = 1 THEN Head(verdicts[life]) ELSE Garbled
            /\ verdicts' = [verdicts EXCEPT ![life] = SubSeq(@, n + 1, Len(@))]
      BY <1>6 DEF RtuHear
    <2>2. pc = "listen" /\ pc' = "act" /\ UNCHANGED <<life, value, readings>>
      BY <1>6 DEF RtuHear
    <2>3. Len(readings[life]) + Len(verdicts[life]) <= 1
      BY <1>1 DEF Turn, TurnOf
    <2>4. /\ n = 1 /\ readings[life] = <<>> /\ verdicts[life] # <<>>
          /\ SubSeq(verdicts[life], n + 1, Len(verdicts[life])) = <<>>
      BY <1>1, <1>3, <2>3, OneOfTwo
    <2>5. heard' = Head(verdicts[life])
      BY <2>1, <2>4
    <2>6. verdicts'[life] = <<>> /\ \A l \in Life \ {life} : verdicts'[l] = verdicts[l]
      BY <1>1, <2>1, <2>4
    <2>7. TurnOf(life)'
      <3>1. readings'[life] = <<>> /\ verdicts'[life] = <<>> /\ Len(<<>>) = 0
        BY <2>2, <2>4, <2>6, Single
      <3>2. Len(readings'[life]) + Len(verdicts'[life]) <= 1
        BY <3>1
      <3>3. QED
        BY <2>2, <3>1, <3>2 DEF TurnOf, Empty
    <2>8. ASSUME NEW l \in Life \ {life} PROVE TurnOf(l)'
      BY <2>2, <2>6 DEF Turn, TurnOf, Empty
    <2>9. Heard'
      BY <1>1, <2>2, <2>4, <2>5 DEF Turn, TurnOf, Heard, Judge
    <2>10. QED
      BY <2>2, <2>7, <2>8, <2>9 DEF Turn
  <1>7. CASE RtuEnd \/ RtuRestart
    <2>1. /\ UNCHANGED <<readings, verdicts>>
          /\ \/ pc' = "ended" /\ life' = life
             \/ pc' = "connectData" /\ life' = life + 1
      BY <1>7 DEF RtuEnd, RtuRestart, netVars
    <2>2. ASSUME NEW l \in Life PROVE TurnOf(l)'
      BY <1>1, <1>2, <2>1 DEF Turn, TurnOf, Empty
    <2>3. QED
      BY <2>1, <2>2 DEF Turn, Heard
  <1>8. CASE HmiListenData \/ HmiListenSpeaker \/ HmiAcceptData \/ HmiAcceptSpeaker
             \/ HmiHangUp \/ HmiDown \/ HmiRestart
    <2>1. UNCHANGED <<pc, life, value, heard, readings, verdicts>>
      BY <1>8 DEF HmiListenData, HmiListenSpeaker, HmiAcceptData, HmiAcceptSpeaker, HmiHangUp,
                  HmiDown, HmiRestart, rtuVars, netVars
    <2>2. QED
      BY <2>1 DEF Turn, TurnOf, Heard, Empty
  <1>9. CASE HmiReply
    <2>1. hd \in Life /\ hs = hd /\ readings[hd] # <<>>
      BY <1>9 DEF HmiReply, TInv, Served, Chain
    <2>2. PICK l \in Life : l = hd
      BY <2>1
    <2> DEFINE v == Judge(Head(readings[l]))
    <2>3. /\ UNCHANGED <<pc, life, value, heard>>
          /\ readings' = [readings EXCEPT ![l] = Tail(@)]
          /\ verdicts' = verdicts \/ verdicts' = [verdicts EXCEPT ![l] = Append(@, v)]
      BY <1>9, <2>1, <2>2 DEF HmiReply, rtuVars
    <2> HIDE DEF v
    <2>4. TurnOf(l) /\ readings[l] # <<>>
      BY <2>1, <2>2 DEF Turn
    <2>5. Tail(readings[l]) = <<>> /\ verdicts[l] = <<>>
      <3>1. readings[l] \in Seq(Reading) /\ verdicts[l] \in Seq(Verdict)
        BY <1>3
      <3>2. Len(readings[l]) + Len(verdicts[l]) <= 1
        BY <2>4 DEF TurnOf
      <3>3. QED
        BY <2>4, <3>1, <3>2, OneOfTwo
    <2>6. l <= life /\ (l = life => pc \in {"listen", "ended"})
      BY <1>1, <1>2, <2>4 DEF TurnOf, Empty
    <2>7. l = life /\ pc = "listen" => v = Judge(value)
      BY <2>4 DEF TurnOf, v
    <2>8. Append(<<>>, v) = <<v>>
      BY Single
    <2>9. readings'[l] = <<>> /\ (verdicts'[l] = <<>> \/ verdicts'[l] = <<v>>)
      BY <1>1, <2>3, <2>5, <2>8
    <2>10. \A k \in Life \ {l} : readings'[k] = readings[k] /\ verdicts'[k] = verdicts[k]
      BY <1>1, <2>3
    <2>11. TurnOf(l)'
      <3>1. Len(readings'[l]) = 0 /\ Len(verdicts'[l]) \in {0, 1}
        BY <2>9, Single
      <3>2. Len(readings'[l]) + Len(verdicts'[l]) <= 1
        BY <3>1, SumAtMostOne, Zenon
      <3>3. verdicts'[l] # <<>> => Head(verdicts'[l]) = v
        BY <2>9, Single
      <3>4. ~(l > life) /\ (l = life => pc \in {"listen", "ended"})
        BY <1>1, <1>2, <2>6
      <3>5. QED
        BY <2>3, <2>7, <2>9, <3>2, <3>3, <3>4 DEF TurnOf, Judge
    <2>12. ASSUME NEW k \in Life \ {l} PROVE TurnOf(k)'
      BY <2>3, <2>10 DEF Turn, TurnOf, Empty
    <2>13. Heard'
      BY <2>3 DEF Heard, Judge
    <2>14. QED
      BY <2>11, <2>12, <2>13 DEF Turn
  <1>10. QED
    BY <1>4, <1>5, <1>6, <1>7, <1>8, <1>9
    DEF Next, RtuStep, HmiStep, HmiEnd, HmiUnpackFails

LEMMA PairInit == Init => PInv
  <1> SUFFICES ASSUME Init PROVE PInv
    OBVIOUS
  <1>1. life = 1 /\ pc = "connectData" /\ hpc = "start"
        /\ dq = <<>> /\ sq = <<>> /\ hd = NoLife /\ dclosed = {}
        /\ \A l \in Life : readings[l] = <<>> /\ verdicts[l] = <<>>
    BY DEF Init
  <1>2. Fresh
    BY <1>1 DEF Fresh
  <1>3. Chain /\ Heard
    BY <1>1 DEF Chain, Waiting, Heard
  <1>4. Len(<<>>) = 0 /\ 0 + 0 <= 1
    OBVIOUS
  <1>5. ASSUME NEW l \in Life PROVE TurnOf(l)
    <2>1. Len(readings[l]) + Len(verdicts[l]) <= 1
      BY <1>1, <1>4, Zenon
    <2>2. QED
      BY <1>1, <2>1 DEF TurnOf, Empty
  <1>6. TInv
    BY TypeInit
  <1>7. QED
    BY <1>2, <1>3, <1>5, <1>6 DEF PInv, Turn

LEMMA PairStep == TInv /\ TInv' /\ PInv /\ [Next]_vars => PInv'
  <1> SUFFICES ASSUME TInv, TInv', PInv, [Next]_vars PROVE PInv'
    OBVIOUS
  <1>1. CASE Next
    <2>1. Fresh'
      BY <1>1, FreshKept DEF PInv
    <2>2. ~cut' => ~cut
      BY <1>1 DEF Next, RtuStep, RtuConnectData, RtuConnectSpeaker, RtuSend, RtuHear, RtuAct,
                  RtuRelease, RtuEnd, RtuRestart, HmiStep, HmiListenData, HmiListenSpeaker,
                  HmiAcceptData, HmiAcceptSpeaker, HmiReply, HmiHangUp, HmiEnd, HmiUnpackFails,
                  HmiDown, HmiRestart
    <2>3. ~cut' => Chain' /\ Turn' /\ Heard'
      BY <1>1, <2>2, ChainKept, TurnKept DEF PInv
    <2>4. QED
      BY <2>1, <2>3 DEF PInv
  <1>2. CASE UNCHANGED vars
    BY <1>2 DEF vars, rtuVars, hmiVars, netVars, PInv, TInv, TypeOK, Served, Fresh, Made, Chain,
                Waiting, Turn, TurnOf, Empty, Heard
  <1>3. QED
    BY <1>1, <1>2

LEMMA Pairing == Spec => []PInv
  BY PairInit, PairStep, TypeInvariance, PTL DEF Spec

\* The HMI never answers one life with verdicts on the readings of another, unless
\* a pair of connections was cut in half.
THEOREM PairsHold == Spec => []Paired
  <1>1. PInv => Paired
    BY DEF PInv, Chain, Paired
  <1>2. QED
    BY <1>1, Pairing, PTL

\* Coil 1 is raised for a reading outside the band and for nothing else.
THEOREM VerdictsMatch == Spec => []VerdictMatches
  <1>1. PInv => VerdictMatches
    <2> SUFFICES ASSUME PInv, ~cut, pc = "act" PROVE heard = "fault" <=> value = "out"
      BY DEF VerdictMatches
    <2>1. heard = Judge(value)
      BY DEF PInv, Heard
    <2>2. QED
      BY <2>1 DEF Judge
  <1>2. QED
    BY <1>1, Pairing, PTL

\* Neither side ever finds two messages run together.
THEOREM TurnsHold == Spec => []Lockstep
  <1>1. PInv => Lockstep
    BY DEF PInv, Turn, TurnOf, Lockstep
  <1>2. QED
    BY <1>1, Pairing, PTL

-----------------------------------------------------------------------------
(* No standoff                                                              *)

\* A life that has connected stays in the HMI's hands until the HMI closes it: its
\* connection is in the backlog or is the one at hand.
InLine ==
  /\ pc \notin {"connectData", "ended"} /\ life \notin dclosed =>
       life \in ToSet(dq) \/ (hd = life /\ hpc \in {"acceptSpeaker", "recv"})
  /\ hpc \in {"ended", "start"} => dq = <<>>
  /\ hpc = "bound" => pc \in {"connectData", "connectSpeaker", "ended"} \/ life \in dclosed

\* What it has sent is not lost on the way.
UnderWay ==
  pc = "listen" /\ life \notin dclosed => readings[life] # <<>> \/ verdicts[life] # <<>>

QInv == PInv /\ InLine /\ (~cut => UnderWay)

LEMMA InLineKept == TInv /\ InLine /\ Next => InLine'
  <1> SUFFICES ASSUME TInv, InLine, Next PROVE InLine'
    OBVIOUS
  <1>0. life \in Life /\ dq \in Seq(Life) /\ life \in Int /\ NoLife \notin Life
    BY LivesAssumption DEF TInv, TypeOK, Life, NoLife
  <1>1. CASE RtuConnectData
    <2>1. /\ dq' = Append(dq, life) /\ pc' = "connectSpeaker" /\ hpc \notin {"ended", "start"}
          /\ UNCHANGED <<life, hpc, hd, dclosed>>
      BY <1>1 DEF RtuConnectData, ListensData, hmiVars
    <2>2. life \in ToSet(dq')
      BY <1>0, <2>1, RangeFacts
    <2>3. QED
      BY <2>1, <2>2 DEF InLine
  <1>2. CASE RtuConnectSpeaker
    BY <1>2 DEF RtuConnectSpeaker, ListensSpeaker, hmiVars, InLine
  <1>3. CASE RtuSend \/ RtuHear \/ RtuAct \/ RtuRelease
    <2>1. /\ pc \notin {"connectData", "connectSpeaker", "ended"}
          /\ UNCHANGED <<life, hpc, hd, dclosed, dq>>
      BY <1>3 DEF RtuSend, RtuHear, RtuAct, RtuRelease, hmiVars, netVars
    <2>2. QED
      BY <2>1 DEF InLine
  <1>4. CASE RtuEnd \/ RtuRestart
    BY <1>4 DEF RtuEnd, RtuRestart, hmiVars, netVars, InLine
  <1>5. CASE HmiListenData \/ HmiListenSpeaker
    <2>1. UNCHANGED <<pc, life, hd, dclosed, dq>>
      BY <1>5 DEF HmiListenData, HmiListenSpeaker, rtuVars, netVars
    <2>2. ToSet(<<>>) = {}
      BY DEF ToSet
    <2>3. CASE HmiListenData
      BY <2>1, <2>2, <2>3 DEF HmiListenData, InLine
    <2>4. CASE HmiListenSpeaker
      BY <2>1, <2>4 DEF HmiListenSpeaker, InLine
    <2>5. QED
      BY <1>5, <2>3, <2>4
  <1>6. CASE HmiAcceptData
    <2>1. /\ hpc = "acceptData" /\ hpc' = "acceptSpeaker" /\ dq # <<>>
          /\ hd' = Head(dq) /\ dq' = Tail(dq) /\ UNCHANGED <<pc, life, dclosed>>
      BY <1>6 DEF HmiAcceptData, rtuVars
    <2>2. ASSUME life \in ToSet(dq) PROVE life \in ToSet(dq') \/ hd' = life
      <3>1. PICK i \in 1..Len(dq) : dq[i] = life
        BY <1>0, <2>2 DEF ToSet
      <3>2. CASE i = 1
        BY <2>1, <3>1, <3>2
      <3>3. CASE i # 1
        <4>1. i - 1 \in DOMAIN Tail(dq) /\ Tail(dq)[i - 1] = dq[i]
          BY <1>0, <2>1, <3>3
        <4>2. QED
          BY <2>1, <3>1, <4>1 DEF ToSet
      <3>4. QED
        BY <3>2, <3>3
    <2>3. QED
      BY <2>1, <2>2 DEF InLine
  <1>7. CASE HmiAcceptSpeaker
    BY <1>7 DEF HmiAcceptSpeaker, rtuVars, InLine
  <1>8. CASE HmiReply
    BY <1>8 DEF HmiReply, rtuVars, hmiVars, InLine
  <1>9. CASE HmiHangUp
    <2>1. /\ hpc = "recv" /\ hpc' = "acceptData" /\ dclosed' = dclosed \union {hd}
          /\ UNCHANGED <<pc, life, hd, dq>>
      BY <1>9 DEF HmiHangUp, rtuVars
    <2>2. QED
      BY <2>1 DEF InLine
  <1>10. CASE HmiDown
    <2>1. /\ hpc' = "ended" /\ dq' = <<>> /\ UNCHANGED <<pc, life>>
          /\ dclosed' = dclosed \union ToSet(dq) \union ({hd} \ {NoLife})
      BY <1>10 DEF HmiDown, rtuVars
    <2>2. QED
      BY <1>0, <2>1 DEF InLine
  <1>11. CASE HmiRestart
    BY <1>11 DEF HmiRestart, rtuVars, netVars, InLine
  <1>12. QED
    BY <1>1, <1>2, <1>3, <1>4, <1>5, <1>6, <1>7, <1>8, <1>9, <1>10, <1>11
    DEF Next, RtuStep, HmiStep, HmiEnd, HmiUnpackFails

LEMMA UnderWayKept == TInv /\ Chain /\ UnderWay /\ Next => UnderWay'
  <1> SUFFICES ASSUME TInv, Chain, UnderWay, Next PROVE UnderWay'
    OBVIOUS
  <1>0. /\ life \in Life /\ life \in Int
        /\ readings \in [Life -> Seq(Reading)] /\ verdicts \in [Life -> Seq(Verdict)]
    BY LivesAssumption DEF TInv, TypeOK, Life
  <1>1. CASE RtuSend
    <2>1. /\ UNCHANGED <<life, dclosed, verdicts>>
          /\ \E r \in Reading :
               readings' = IF life \in dclosed THEN readings
                           ELSE [readings EXCEPT ![life] = Append(@, r)]
      BY <1>1 DEF RtuSend
    <2>2. PICK r \in Reading :
            readings' = IF life \in dclosed THEN readings
                        ELSE [readings EXCEPT ![life] = Append(@, r)]
      BY <2>1
    <2>3. life \notin dclosed => readings'[life] = Append(readings[life], r)
      BY <1>0, <2>2
    <2>4. Append(readings[life], r) # <<>>
      <3>1. readings[life] \in Seq(Reading)
        BY <1>0
      <3>2. QED
        BY <3>1, SeqFacts
    <2>5. QED
      BY <2>1, <2>3, <2>4 DEF UnderWay
  <1>2. CASE RtuConnectData \/ RtuConnectSpeaker \/ RtuHear \/ RtuAct \/ RtuRelease
             \/ RtuEnd \/ RtuRestart
    <2>1. pc' # "listen"
      BY <1>2 DEF RtuConnectData, RtuConnectSpeaker, RtuHear, RtuAct, RtuRelease, RtuEnd,
                  RtuRestart
    <2>2. QED
      BY <2>1 DEF UnderWay
  <1>3. CASE HmiReply
    <2>1. /\ hd \in Life /\ hs = hd /\ readings[hd] # <<>>
          /\ UNCHANGED <<pc, life, dclosed>>
          /\ readings' = [readings EXCEPT ![hd] = Tail(@)]
          /\ verdicts' = IF RtuGone(hd) THEN verdicts
                         ELSE [verdicts EXCEPT ![hd] = Append(@, Judge(Head(readings[hd])))]
      BY <1>3 DEF HmiReply, TInv, Served, Chain, rtuVars
    <2>2. CASE hd = life /\ pc = "listen"
      <3>1. ~RtuGone(hd)
        BY <1>0, <2>2 DEF RtuGone
      <3> DEFINE v == Judge(Head(readings[hd]))
      <3> HIDE DEF v
      <3>2. verdicts' = [verdicts EXCEPT ![hd] = Append(@, v)]
        BY <2>1, <3>1 DEF v
      <3>3. verdicts'[life] = Append(verdicts[life], v)
        BY <1>0, <2>2, <3>2
      <3>4. v \in Verdict /\ verdicts[life] \in Seq(Verdict)
        BY <1>0 DEF v, Judge, Verdict
      <3>5. Append(verdicts[life], v) # <<>>
        BY <3>4, SeqFacts
      <3>6. QED
        BY <2>1, <3>3, <3>5 DEF UnderWay
    <2>3. CASE ~(hd = life /\ pc = "listen")
      <3>1. pc = "listen" => readings'[life] = readings[life] /\ verdicts'[life] = verdicts[life]
        BY <1>0, <2>1, <2>3
      <3>2. QED
        BY <2>1, <3>1 DEF UnderWay
    <2>4. QED
      BY <2>2, <2>3
  <1>4. CASE HmiListenData \/ HmiListenSpeaker \/ HmiAcceptData \/ HmiAcceptSpeaker
             \/ HmiHangUp \/ HmiDown \/ HmiRestart
    <2>1. UNCHANGED <<pc, life, readings, verdicts>> /\ dclosed \subseteq dclosed'
      BY <1>4 DEF HmiListenData, HmiListenSpeaker, HmiAcceptData, HmiAcceptSpeaker, HmiHangUp,
                  HmiDown, HmiRestart, rtuVars, netVars
    <2>2. QED
      BY <2>1 DEF UnderWay
  <1>5. QED
    BY <1>1, <1>2, <1>3, <1>4 DEF Next, RtuStep, HmiStep, HmiEnd, HmiUnpackFails

LEMMA QueueInit == Init => QInv
  <1> SUFFICES ASSUME Init PROVE InLine /\ UnderWay
    BY PairInit DEF QInv
  <1>1. QED
    BY DEF Init, InLine, UnderWay

LEMMA QueueStep == TInv /\ TInv' /\ QInv /\ [Next]_vars => QInv'
  <1> SUFFICES ASSUME TInv, TInv', QInv, [Next]_vars PROVE QInv'
    OBVIOUS
  <1>1. PInv'
    BY PairStep DEF QInv
  <1>2. CASE Next
    <2>1. ~cut' => ~cut
      BY <1>2 DEF Next, RtuStep, RtuConnectData, RtuConnectSpeaker, RtuSend, RtuHear, RtuAct,
                  RtuRelease, RtuEnd, RtuRestart, HmiStep, HmiListenData, HmiListenSpeaker,
                  HmiAcceptData, HmiAcceptSpeaker, HmiReply, HmiHangUp, HmiEnd, HmiUnpackFails,
                  HmiDown, HmiRestart
    <2>2. QED
      BY <1>1, <1>2, <2>1, InLineKept, UnderWayKept DEF QInv, PInv
  <1>3. CASE UNCHANGED vars
    BY <1>1, <1>3 DEF vars, rtuVars, hmiVars, netVars, QInv, InLine, UnderWay
  <1>4. QED
    BY <1>2, <1>3

LEMMA Queueing == Spec => []QInv
  BY QueueInit, QueueStep, TypeInvariance, PTL DEF Spec

LEMMA StandoffFree == QInv => NoStandoff
  <1> SUFFICES ASSUME QInv, Awaits
               PROVE  \/ hpc = "acceptData" /\ dq # <<>>
                      \/ hpc = "acceptSpeaker" /\ sq # <<>>
                      \/ hpc = "recv" /\ (readings[hd] # <<>> \/ RtuGone(hd))
    BY DEF NoStandoff
  <1>0. /\ pc = "listen" /\ ~cut /\ life \notin dclosed /\ readings[life] # <<>>
        /\ life \in Int /\ ToSet(<<>>) = {}
    BY LivesAssumption DEF Awaits, QInv, UnderWay, PInv, TInv, TypeOK, Life, ToSet
  <1>1. life \in ToSet(dq) \/ (hd = life /\ hpc \in {"acceptSpeaker", "recv"})
    BY <1>0 DEF QInv, InLine
  <1>2. hpc \in {"acceptData", "acceptSpeaker", "recv"}
    BY <1>0, <1>1 DEF QInv, InLine, PInv, TInv, TypeOK, HmiPC
  <1>3. CASE hpc = "acceptData"
    BY <1>0, <1>1, <1>3
  <1>4. CASE hpc = "acceptSpeaker"
    BY <1>0, <1>4 DEF QInv, PInv, Chain, Waiting
  <1>5. CASE hpc = "recv"
    <2>1. hd \in Life /\ hd \in Int /\ hd \in Made
      BY <1>5, LivesAssumption DEF QInv, PInv, TInv, Served, Fresh, Life, NoLife
    <2>2. hd < life \/ hd = life
      BY <1>0, <2>1 DEF Made
    <2>3. QED
      BY <1>0, <1>5, <2>2 DEF RtuGone
  <1>6. QED
    BY <1>2, <1>3, <1>4, <1>5

\* RTU and HMI never wait for each other while the pair of connections is whole,
\* however many dead lives are queued before it.
THEOREM NeverStandoff == Spec => []NoStandoff
  BY StandoffFree, Queueing, PTL

\* ... and no step is taken in vain while it waits: at most 4 for each connection in the
\* backlog and 3 for the pair at hand are left.
THEOREM ComesNearer == Spec => EachStepNearer
  <1>1. QInv /\ [Next]_vars => [Awaits /\ Awaits' => Left' < Left]_vars
    <2> SUFFICES ASSUME QInv, Next, Awaits, Awaits' PROVE Left' < Left
      OBVIOUS
    <2>0. /\ pc = "listen" /\ pc' = "listen" /\ ~cut /\ life \notin dclosed /\ life' \notin dclosed'
          /\ readings[life] # <<>> /\ verdicts[life] = <<>>
          /\ dq \in Seq(Life) /\ Len(dq) \in Nat /\ ToSet(<<>>) = {}
          /\ readings \in [Life -> Seq(Reading)]
          /\ \A l \in Life : Len(readings[l]) \in Nat /\ Len(readings[l]) <= 1
      <3>1. \A l \in Life : /\ readings[l] \in Seq(Reading) /\ verdicts[l] \in Seq(Verdict)
                            /\ Len(readings[l]) + Len(verdicts[l]) <= 1
        BY DEF Awaits, QInv, PInv, TInv, TypeOK, Turn, TurnOf
      <3>2. \A l \in Life : Len(readings[l]) \in Nat /\ Len(verdicts[l]) \in Nat
        BY <3>1
      <3>3. ASSUME NEW l \in Life PROVE Len(readings[l]) <= 1
        <4>1. /\ Len(readings[l]) \in Nat /\ Len(verdicts[l]) \in Nat
              /\ Len(readings[l]) + Len(verdicts[l]) <= 1
          BY <3>1, <3>2
        <4>2. \A a, b \in Nat : a + b <= 1 => a <= 1
          OBVIOUS
        <4>3. QED
          BY <4>1, <4>2, Zenon
      <3>4. QED
        BY <3>2, <3>3 DEF Awaits, QInv, UnderWay, PInv, TInv, TypeOK, ToSet
    <2>1. life \in ToSet(dq) \/ (hd = life /\ hpc \in {"acceptSpeaker", "recv"})
      BY <2>0 DEF QInv, InLine
    <2>2. hpc \in {"acceptData", "acceptSpeaker", "recv"}
      BY <2>0, <2>1 DEF QInv, InLine, PInv, TInv, TypeOK, HmiPC
    <2>3. CASE HmiAcceptData
      <3>1. /\ hpc = "acceptData" /\ hpc' = "acceptSpeaker" /\ dq # <<>> /\ dq' = Tail(dq)
        BY <2>3 DEF HmiAcceptData
      <3>2. Len(dq') = Len(dq) - 1
        BY <2>0, <3>1, TailFacts
      <3>3. Left = 4 * Len(dq) + 0 /\ Left' = 4 * Len(dq') + 3
        BY <3>1 DEF Left
      <3>4. QED
        BY <2>0, <3>2, <3>3
    <2>4. CASE HmiAcceptSpeaker
      <3>1. /\ hpc = "acceptSpeaker" /\ hpc' = "recv" /\ UNCHANGED <<dq, hd, readings>>
        BY <2>4 DEF HmiAcceptSpeaker
      <3>2. hd \in Life
        BY <3>1 DEF QInv, PInv, TInv, Served
      <3>3. Left = 4 * Len(dq) + 3 /\ Left' = 4 * Len(dq) + (1 + Len(readings[hd]))
        BY <3>1 DEF Left
      <3>4. QED
        BY <2>0, <3>2, <3>3
    <2>5. CASE HmiReply
      <3>1. /\ hpc = "recv" /\ hpc' = "recv" /\ UNCHANGED <<dq, hd>> /\ readings[hd] # <<>>
            /\ readings' = [readings EXCEPT ![hd] = Tail(@)]
        BY <2>5 DEF HmiReply, hmiVars
      <3>2. hd \in Life
        BY <3>1 DEF QInv, PInv, TInv, Served
      <3>3. readings'[hd] = Tail(readings[hd]) /\ readings[hd] \in Seq(Reading)
        BY <2>0, <3>1, <3>2
      <3>4. Len(readings'[hd]) = Len(readings[hd]) - 1
        BY <3>1, <3>3, TailFacts
      <3>5. /\ Left = 4 * Len(dq) + (1 + Len(readings[hd]))
            /\ Left' = 4 * Len(dq) + (1 + Len(readings'[hd]))
        BY <3>1 DEF Left
      <3>6. QED
        BY <2>0, <3>2, <3>4, <3>5
    <2>6. CASE HmiHangUp
      <3>1. /\ hpc = "recv" /\ hpc' = "acceptData" /\ UNCHANGED dq
        BY <2>6 DEF HmiHangUp
      <3>2. hd \in Life
        BY <3>1 DEF QInv, PInv, TInv, Served
      <3>3. Left = 4 * Len(dq) + (1 + Len(readings[hd])) /\ Left' = 4 * Len(dq) + 0
        BY <3>1 DEF Left
      <3>4. QED
        BY <2>0, <3>2, <3>3
    <2>7. ~HmiDown
      <3>1. ASSUME HmiDown PROVE FALSE
        <4>1. /\ life' = life /\ dclosed' = dclosed \union ToSet(dq) \union ({hd} \ {NoLife})
          BY <3>1 DEF HmiDown, rtuVars
        <4>2. life # NoLife
          BY LivesAssumption DEF QInv, PInv, TInv, TypeOK, Life, NoLife
        <4>3. QED
          BY <2>0, <2>1, <4>1, <4>2
      <3>2. QED
        BY <3>1
    <2>8. ~RtuStep /\ ~RtuEnd /\ ~RtuRestart
      <3>1. Len(verdicts[life]) = 0
        BY <2>0
      <3>2. ~RtuHear
        BY <3>1 DEF RtuHear
      <3>3. QED
        BY <2>0, <3>2 DEF RtuStep, RtuConnectData, RtuConnectSpeaker, RtuSend, RtuAct,
                          RtuRelease, RtuEnd, RtuRestart
    <2>9. ~HmiListenData /\ ~HmiListenSpeaker /\ ~HmiRestart
      BY <2>2 DEF HmiListenData, HmiListenSpeaker, HmiRestart
    <2>10. QED
      BY <2>3, <2>4, <2>5, <2>6, <2>7, <2>8, <2>9 DEF Next, HmiStep, HmiEnd, HmiUnpackFails
  <1>2. QED
    BY <1>1, Queueing, PTL DEF Spec, EachStepNearer

-----------------------------------------------------------------------------
(* The loop as an exchange                                                  *)

\* What the loop does is an exchange of readings, verdicts and pulses: each step is one
\* of FaultExchange, or changes nothing that can be seen of it.
THEOREM Refinement == Spec => ImplementsExchange
  <1>1. Init => Exchange!Init
    BY DEF Init, Exchange!Init
  <1>2. PInv /\ PInv' /\ [Next]_vars => [Exchange!Next]_(Exchange!vars)
    <2> DEFINE asked  == IF pc \in {"listen", "act"} THEN value ELSE "none"
               answer == IF pc = "act" THEN heard
                         ELSE IF pc = "listen" /\ verdicts[life] # <<>> THEN Head(verdicts[life])
                         ELSE "none"
               same   == asked' = asked /\ answer' = answer /\ coil' = coil
    <2> SUFFICES ASSUME PInv, PInv', [Next]_vars
                 PROVE  [Exchange!Next]_(Exchange!vars)
      OBVIOUS
    <2> SUFFICES ASSUME Next, ~cut, ~cut'
                 PROVE  same \/ Exchange!Exchange
      <3>1. CASE UNCHANGED vars
        BY <3>1 DEF vars, rtuVars, netVars, Exchange!vars
      <3>2. CASE cut'
        BY <3>2 DEF Exchange!Next
      <3>3. CASE Next /\ ~cut'
        <4>1. ~cut
          BY <3>3
          DEF Next, RtuStep, RtuConnectData, RtuConnectSpeaker, RtuSend, RtuHear, RtuAct,
              RtuRelease, RtuEnd, RtuRestart, HmiStep, HmiListenData, HmiListenSpeaker,
              HmiAcceptData, HmiAcceptSpeaker, HmiReply, HmiHangUp, HmiEnd, HmiUnpackFails,
              HmiDown, HmiRestart
        <4>2. cut' = cut
          BY <3>3, <4>1 DEF PInv, TInv, TypeOK
        <4>3. QED
          BY <3>3, <4>1, <4>2 DEF Exchange!Next, Exchange!vars
      <3>4. QED
        BY <3>1, <3>2, <3>3
    <2>0. /\ Chain /\ Turn /\ Heard /\ TInv /\ Turn' /\ Heard' /\ TInv'
          /\ life \in Life /\ life' \in Life
          /\ readings \in [Life -> Seq(Reading)] /\ verdicts \in [Life -> Seq(Verdict)]
      BY DEF PInv, TInv, TypeOK
    <2>1. CASE RtuConnectData \/ RtuConnectSpeaker \/ RtuRestart
      <3>1. /\ pc \notin {"listen", "act"} /\ pc' \notin {"listen", "act"} /\ coil' = coil
        BY <2>1 DEF RtuConnectData, RtuConnectSpeaker, RtuRestart
      <3>2. QED
        BY <3>1
    <2>2. CASE RtuSend
      <3>1. /\ pc = "sense" /\ pc' = "listen" /\ value' \in Reading
            /\ UNCHANGED <<life, verdicts, coil>>
        BY <2>2 DEF RtuSend
      <3>2. verdicts'[life'] = <<>>
        BY <2>0, <3>1 DEF Turn, TurnOf, Empty
      <3>3. \E r \in {"in", "out"} : Exchange!Ask(r)
        BY <3>1, <3>2 DEF Exchange!Ask, Reading
      <3>4. QED
        BY <3>3 DEF Exchange!Exchange
    <2>3. CASE RtuHear
      <3>1. /\ pc = "listen" /\ pc' = "act" /\ UNCHANGED <<life, value, coil>>
            /\ verdicts[life] # <<>>
        <4>1. PICK n \in 1..Len(verdicts[life]) : TRUE
          BY <2>3 DEF RtuHear
        <4>2. Len(verdicts[life]) # 0
          BY <2>0, <4>1
        <4>3. QED
          BY <2>3, <4>2 DEF RtuHear
      <3>2. Head(verdicts[life]) = Judge(value) /\ heard' = Judge(value)
        BY <2>0, <3>1 DEF Turn, TurnOf, Heard, Judge
      <3>3. QED
        BY <3>1, <3>2
    <2>4. CASE RtuAct
      <3>0. coil \in BOOLEAN
        BY <2>0 DEF TInv, TypeOK
      <3>1. /\ pc = "act" /\ pc' \in {"pulse", "sense"}
            /\ coil' \in {coil, coil \/ heard = "fault"}
            /\ heard = Judge(value)
        BY <2>0, <2>4, <3>0 DEF RtuAct, WriteCoil, Heard
      <3>2. heard # "none" /\ answer = heard /\ asked' = "none" /\ answer' = "none"
        BY <3>1 DEF Judge
      <3>3. Exchange!Act
        BY <3>1, <3>2 DEF Exchange!Act
      <3>4. QED
        BY <3>3 DEF Exchange!Exchange
    <2>5. CASE RtuRelease
      <3>1. pc = "pulse" /\ pc' = "sense" /\ coil' \in {FALSE, coil}
        BY <2>5 DEF RtuRelease, WriteCoil
      <3>2. Exchange!Release
        BY <3>1 DEF Exchange!Release
      <3>3. QED
        BY <3>2 DEF Exchange!Exchange
    <2>6. CASE RtuEnd
      <3>1. pc' = "ended" /\ coil' = coil
        BY <2>6 DEF RtuEnd
      <3>2. Exchange!GiveUp
        BY <3>1 DEF Exchange!GiveUp
      <3>3. QED
        BY <3>2 DEF Exchange!Exchange
    <2>7. CASE HmiListenData \/ HmiListenSpeaker \/ HmiAcceptData \/ HmiAcceptSpeaker
               \/ HmiHangUp \/ HmiDown \/ HmiRestart
      <3>1. UNCHANGED <<pc, life, value, heard, coil, verdicts>>
        BY <2>7 DEF HmiListenData, HmiListenSpeaker, HmiAcceptData, HmiAcceptSpeaker, HmiHangUp,
                    HmiDown, HmiRestart, rtuVars, netVars
      <3>2. QED
        BY <3>1
    <2>8. CASE HmiReply
      <3>1. /\ UNCHANGED <<pc, life, value, heard, coil>> /\ hd \in Life /\ hs = hd
            /\ readings[hd] # <<>>
            /\ \/ verdicts' = verdicts
               \/ \E v : verdicts' = [verdicts EXCEPT ![hd] = Append(@, v)]
        BY <2>0, <2>8 DEF HmiReply, Chain, TInv, Served, rtuVars
      <3>2. CASE pc = "listen" /\ hd = life /\ verdicts' # verdicts
        <4>1. verdicts[life] = <<>> /\ value \in Reading
          <5>1. readings[life] \in Seq(Reading) /\ verdicts[life] \in Seq(Verdict)
            BY <2>0
          <5>2. Len(readings[life]) + Len(verdicts[life]) <= 1 /\ Head(readings[life]) = value
            BY <2>0, <3>1, <3>2 DEF Turn, TurnOf
          <5>3. readings[life] # <<>>
            BY <3>1, <3>2
          <5>4. verdicts[life] = <<>>
            BY <5>1, <5>2, <5>3, OneOfTwo
          <5>5. Head(readings[life]) \in Reading
            BY <5>1, <5>3, TailFacts
          <5>6. QED
            BY <5>2, <5>4, <5>5
        <4>2. verdicts'[life] # <<>>
          <5>1. PICK v : verdicts' = [verdicts EXCEPT ![life] = Append(@, v)]
            BY <3>1, <3>2
          <5>2. verdicts'[life] = Append(<<>>, v)
            BY <2>0, <4>1, <5>1
          <5>3. Append(<<>>, v) = <<v>> /\ Len(<<v>>) = 1 /\ Len(<<>>) = 0
            BY Single
          <5>4. Append(<<>>, v) # <<>>
            BY <5>3
          <5>5. QED
            BY <5>2, <5>4
        <4>3. Head(verdicts'[life]) = Judge(value)
          BY <2>0, <3>1, <3>2, <4>2 DEF Turn, TurnOf, Judge
        <4>4. /\ asked = value /\ asked' = value /\ answer = "none" /\ answer' = Judge(value)
          BY <3>1, <3>2, <4>1, <4>2, <4>3
        <4>5. Exchange!Answer
          BY <3>1, <4>1, <4>4 DEF Exchange!Answer, Judge, Reading
        <4>6. QED
          BY <4>5 DEF Exchange!Exchange
      <3>3. CASE ~(pc = "listen" /\ hd = life /\ verdicts' # verdicts)
        <4>1. pc = "listen" => verdicts'[life] = verdicts[life]
          BY <2>0, <3>1, <3>3
        <4>2. QED
          BY <3>1, <4>1
      <3>4. QED
        BY <3>2, <3>3
    <2>9. QED
      BY <2>1, <2>2, <2>3, <2>4, <2>5, <2>6, <2>7, <2>8
      DEF Next, RtuStep, HmiStep, HmiEnd, HmiUnpackFails
  <1>3. QED
    BY <1>1, <1>2, Pairing, PTL DEF Spec, ImplementsExchange, Exchange!Spec
=============================================================================
