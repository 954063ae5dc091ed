------------------------------ MODULE FaultLoop ------------------------------
(***************************************************************************)
(* The control loop of bh-intellirupter between the RTU (rtu-speaker.py)   *)
(* and the HMI (hmi.py).                                                   *)
(*                                                                         *)
(* The RTU opens two TCP connections, one to send readings (port 8888) and *)
(* one to hear verdicts (port 8889); the HMI accepts one of each and takes *)
(* them for a pair.  A life of the RTU process has a number, which names   *)
(* its two connections; compose restarts the process when it ends.  The    *)
(* HMI is started by hand and may die and be started again.                *)
(*                                                                         *)
(* Bounds: MaxLives lives of the RTU and MaxStarts starts of the HMI.      *)
(***************************************************************************)
EXTENDS Integers, Sequences, FiniteSets, SequencesExt

CONSTANTS MaxLives, MaxStarts,
          Backlog   \* connections a listening port holds until they are accepted

ASSUME LivesAssumption == MaxLives \in Nat \ {0} /\ MaxStarts \in Nat \ {0}
ASSUME BacklogAssumption == Backlog \in Nat \ {0}

Life    == 1..MaxLives
NoLife  == 0
Reading == {"in", "out"}       \* inside or outside the band 1.2 .. 1.8
Verdict == {"fault", "no fault"}
Garbled == "garbled"           \* two verdicts received as one text

VARIABLES
  pc,        \* where the RTU is
  life,      \* which life of the RTU process this is
  value,     \* the reading this life sent last
  heard,     \* the verdict it received last
  coil,      \* coil 1 of the PLC (Fault)
  hpc,       \* where the HMI is
  starts,    \* how often the HMI was started
  hd, hs,    \* the connections it serves: readings from hd, verdicts to hs
  dq, sq,    \* its backlogs on 8888 and 8889
  readings,  \* readings[l]: sent on the data connection of life l, not yet received
  verdicts,  \* verdicts[l]: sent on the speaker connection of l, not yet received
  dclosed, sclosed,  \* connections whose HMI end is closed
  cut        \* history: one connection of a pair was made and the other was not

rtuVars  == <<pc, life, value, heard, coil>>
hmiVars  == <<hpc, starts, hd, hs>>
netVars  == <<dq, sq, readings, verdicts, dclosed, sclosed>>
vars     == <<rtuVars, hmiVars, netVars, cut>>

RtuPC == {"connectData", "connectSpeaker", "sense", "listen", "act", "pulse", "ended"}
HmiPC == {"start", "bound", "acceptData", "acceptSpeaker", "recv", "ended"}

TypeOK ==
  /\ pc \in RtuPC /\ life \in Life /\ coil \in BOOLEAN
  /\ value \in Reading \union {"none"}
  /\ heard \in Verdict \union {"none", Garbled}
  /\ hpc \in HmiPC /\ starts \in 1..MaxStarts
  /\ hd \in Life \union {NoLife} /\ hs \in Life \union {NoLife}
  /\ dq \in Seq(Life) /\ sq \in Seq(Life)
  /\ Len(dq) <= Backlog /\ Len(sq) <= Backlog
  /\ readings \in [Life -> Seq(Reading)]
  /\ verdicts \in [Life -> Seq(Verdict)]
  /\ dclosed \subseteq Life /\ sclosed \subseteq Life
  /\ cut \in BOOLEAN

Init ==
  /\ pc = "connectData" /\ life = 1 /\ value = "none" /\ heard = "none" /\ coil = FALSE
  /\ hpc = "start" /\ starts = 1 /\ hd = NoLife /\ hs = NoLife
  /\ dq = <<>> /\ sq = <<>>
  /\ readings = [l \in Life |-> <<>>] /\ verdicts = [l \in Life |-> <<>>]
  /\ dclosed = {} /\ sclosed = {}
  /\ cut = FALSE

\* The band check of the HMI.
JudgeInverted(r) == IF r = "in" THEN "fault" ELSE "no fault"   \* mutant
Judge(r) == IF r = "out" THEN "fault" ELSE "no fault"

ListensData    == hpc \notin {"ended", "start"}
ListensSpeaker == hpc \notin {"ended", "start", "bound"}

\* The RTU's end of life l's connections is closed.
RtuGone(l) == l < life \/ (l = life /\ pc = "ended")

-----------------------------------------------------------------------------
(* The RTU                                                                  *)

\* A refused first connection ends the process and leaves nothing behind: the
\* restarted process repeats this step.  A full backlog makes connect wait.
RtuConnectDataAlways ==   \* mutant: no limit on the backlog
  /\ pc = "connectData" /\ ListensData
  /\ dq' = Append(dq, life)
  /\ pc' = "connectSpeaker"
  /\ UNCHANGED <<life, value, heard, coil, hmiVars, sq, readings, verdicts, dclosed, sclosed, cut>>

RtuConnectData ==
  /\ pc = "connectData"
  /\ ListensData /\ Len(dq) < Backlog
  /\ dq' = Append(dq, life)
  /\ pc' = "connectSpeaker"
  /\ UNCHANGED <<life, value, heard, coil, hmiVars, sq, readings, verdicts, dclosed, sclosed, cut>>

RtuConnectSpeaker ==
  /\ pc = "connectSpeaker"
  /\ ListensSpeaker /\ Len(sq) < Backlog
  /\ sq' = Append(sq, life)
  /\ pc' = "sense"
  /\ cut' = (cut \/ life \in dclosed)
  /\ UNCHANGED <<life, value, heard, coil, hmiVars, dq, readings, verdicts, dclosed, sclosed>>

\* Read the sensor bit, derive a reading and send it.  Sending to an HMI that
\* has closed its end loses the reading, or fails and ends the process (RtuEnd).
RtuSend ==
  /\ pc = "sense"
  /\ \E r \in Reading :
       /\ value' = r
       /\ readings' = IF life \in dclosed THEN readings
                      ELSE [readings EXCEPT ![life] = Append(@, r)]
  /\ pc' = "listen"
  /\ UNCHANGED <<life, heard, coil, hmiVars, dq, sq, verdicts, dclosed, sclosed, cut>>

\* recv returns what has arrived, one verdict or several run together.  When the
\* HMI has closed the connection it returns nothing, and the loop spins: no step.
RtuHearOrGiveUp ==   \* mutant: goes on without a verdict
  /\ pc = "listen"
  /\ heard' = "none" /\ pc' = "act"
  /\ UNCHANGED <<life, value, coil, hmiVars, netVars, cut>>

RtuHear ==
  /\ pc = "listen"
  /\ \E n \in 1..Len(verdicts[life]) :
       /\ heard' = IF n = 1 THEN Head(verdicts[life]) ELSE Garbled
       /\ verdicts' = [verdicts EXCEPT ![life] = SubSeq(@, n + 1, Len(@))]
  /\ pc' = "act"
  /\ UNCHANGED <<life, value, coil, hmiVars, dq, sq, readings, dclosed, sclosed, cut>>

RtuActOnEither ==   \* mutant: looks for "fault" in the verdict, which "no fault" contains
  /\ pc = "act"
  /\ coil' = (coil \/ heard \in Verdict)
  /\ pc' = IF heard \in Verdict THEN "pulse" ELSE "sense"
  /\ UNCHANGED <<life, value, heard, hmiVars, netVars, cut>>

\* The result of write_coil is not looked at: a write that the PLC refused or did
\* not answer leaves the coil as it was, and the pulse goes on all the same.
WriteCoil(v) == coil' \in {v, coil}

\* A fault raises coil 1; RtuRelease takes it back 0.2 s later.
RtuAct ==
  /\ pc = "act"
  /\ \/ heard = "fault" /\ WriteCoil(TRUE) /\ pc' = "pulse"
     \/ heard # "fault" /\ UNCHANGED coil /\ pc' = "sense"
  /\ UNCHANGED <<life, value, heard, hmiVars, netVars, cut>>

RtuRelease ==
  /\ pc = "pulse"
  /\ WriteCoil(FALSE)
  /\ pc' = "sense"
  /\ UNCHANGED <<life, value, heard, hmiVars, netVars, cut>>

\* The process ends: killed, or by an exception of a PLC or HMI call (a PLC that
\* cannot be connected to, a read that returned an error).  The second
\* connect also ends it when the HMI is not listening on 8889 yet.
RtuEnd ==
  /\ pc # "ended"
  /\ life < MaxLives
  /\ pc' = "ended"
  /\ cut' = (cut \/ pc = "connectSpeaker")
  /\ UNCHANGED <<life, value, heard, coil, hmiVars, netVars>>

\* restart: always
RtuRestart ==
  /\ pc = "ended"
  /\ life' = life + 1
  /\ pc' = "connectData" /\ value' = "none" /\ heard' = "none"
  /\ UNCHANGED <<coil, hmiVars, netVars, cut>>

-----------------------------------------------------------------------------
(* The HMI                                                                  *)

HmiListenData ==
  /\ hpc = "start"
  /\ hpc' = "bound"
  /\ UNCHANGED <<rtuVars, starts, hd, hs, netVars, cut>>

HmiListenSpeaker ==
  /\ hpc = "bound"
  /\ hpc' = "acceptData"
  /\ UNCHANGED <<rtuVars, starts, hd, hs, netVars, cut>>

HmiAcceptData ==
  /\ hpc = "acceptData" /\ dq # <<>>
  /\ hd' = Head(dq) /\ dq' = Tail(dq)
  /\ hpc' = "acceptSpeaker"
  /\ UNCHANGED <<rtuVars, starts, hs, sq, readings, verdicts, dclosed, sclosed, cut>>

\* The speaker socket of the last pair is closed only here, when its variable is reused.
HmiAcceptNewestSpeaker ==   \* mutant: serves the connection made last
  /\ hpc = "acceptSpeaker" /\ sq # <<>>
  /\ hs' = Last(sq) /\ sq' = Front(sq)
  /\ hpc' = "recv"
  /\ UNCHANGED <<rtuVars, starts, hd, dq, readings, verdicts, dclosed, sclosed, cut>>

HmiAcceptSpeaker ==
  /\ hpc = "acceptSpeaker" /\ sq # <<>>
  /\ hs' = Head(sq) /\ sq' = Tail(sq)
  /\ sclosed' = sclosed \union ({hs} \ {NoLife})
  /\ hpc' = "recv"
  /\ UNCHANGED <<rtuVars, starts, hd, dq, readings, verdicts, dclosed, cut>>

HmiReplyFaultsOnly ==   \* mutant: answers only a reading outside the band
  /\ hpc = "recv" /\ readings[hd] # <<>>
  /\ readings' = [readings EXCEPT ![hd] = Tail(@)]
  /\ verdicts' = IF RtuGone(hs) \/ Head(readings[hd]) = "in" THEN verdicts
                 ELSE [verdicts EXCEPT ![hs] = Append(@, "fault")]
  /\ UNCHANGED <<rtuVars, hmiVars, dq, sq, dclosed, sclosed, cut>>

\* One reading is judged and answered; an answer to a life that is gone is lost.
HmiReply ==
  /\ hpc = "recv" /\ readings[hd] # <<>>
  /\ readings' = [readings EXCEPT ![hd] = Tail(@)]
  /\ verdicts' = IF RtuGone(hs) THEN verdicts
                 ELSE [verdicts EXCEPT ![hs] = Append(@, Judge(Head(readings[hd])))]
  /\ UNCHANGED <<rtuVars, hmiVars, dq, sq, dclosed, sclosed, cut>>

\* recv returns nothing: the RTU closed its end and everything it sent was read.
HmiRecvAgain ==   \* mutant: an empty read does not leave the loop
  /\ hpc = "recv" /\ readings[hd] = <<>> /\ RtuGone(hd)
  /\ UNCHANGED vars

HmiHangUpHalf ==   \* mutant: goes back to the second accept
  /\ hpc = "recv" /\ readings[hd] = <<>> /\ RtuGone(hd)
  /\ dclosed' = dclosed \union {hd}
  /\ hpc' = "acceptSpeaker"
  /\ UNCHANGED <<rtuVars, starts, hd, hs, dq, sq, readings, verdicts, sclosed, cut>>

HmiHangUp ==
  /\ hpc = "recv" /\ readings[hd] = <<>> /\ RtuGone(hd)
  /\ dclosed' = dclosed \union {hd}
  /\ hpc' = "acceptData"
  /\ UNCHANGED <<rtuVars, starts, hd, hs, dq, sq, readings, verdicts, sclosed, cut>>

\* The process ends, and with it every connection it holds or has not accepted.
HmiDown ==
  /\ starts < MaxStarts
  /\ hpc' = "ended"
  /\ hd' = NoLife /\ hs' = NoLife /\ dq' = <<>> /\ sq' = <<>>
  /\ dclosed' = dclosed \union ToSet(dq) \union ({hd} \ {NoLife})
  /\ sclosed' = sclosed \union ToSet(sq) \union ({hs} \ {NoLife})
  /\ UNCHANGED <<rtuVars, starts, readings, verdicts, cut>>

\* It is closed by hand, or two readings received as one do not unpack.
HmiEnd == hpc # "ended" /\ HmiDown

HmiUnpackFails == hpc = "recv" /\ Len(readings[hd]) > 1 /\ HmiDown

HmiRestart ==
  /\ hpc = "ended"
  /\ hpc' = "start" /\ starts' = starts + 1
  /\ UNCHANGED <<rtuVars, hd, hs, netVars, cut>>

-----------------------------------------------------------------------------
RtuStep == RtuConnectData \/ RtuConnectSpeaker \/ RtuSend \/ RtuHear \/ RtuAct \/ RtuRelease
HmiStep == HmiListenData \/ HmiListenSpeaker \/ HmiAcceptData \/ HmiAcceptSpeaker
           \/ HmiReply \/ HmiHangUp

Next == RtuStep \/ HmiStep \/ RtuEnd \/ RtuRestart \/ HmiEnd \/ HmiUnpackFails \/ HmiRestart

Spec == Init /\ [][Next]_vars

\* Both processes run on, and compose restarts the RTU.  Ends are not owed to
\* anyone, and nothing starts the HMI again by itself.
FairSpec == Spec /\ WF_vars(RtuStep) /\ WF_vars(HmiStep) /\ WF_vars(RtuRestart)

-----------------------------------------------------------------------------
\* As long as no pair of connections was cut in half, the HMI never answers one
\* life of the RTU with verdicts on the readings of another.
Paired == ~cut /\ hpc = "recv" => hd = hs

\* ... the RTU acts on the verdict of the very reading it sent last, so coil 1 is
\* raised for a reading outside the band and for nothing else.
VerdictMatches == ~cut /\ pc = "act" => (heard = "fault" <=> value = "out")

\* ... and never more than one reading or verdict is under way on a pair: the HMI
\* cannot receive two readings run together, nor the RTU two verdicts.
Lockstep == ~cut => \A l \in Life : Len(readings[l]) + Len(verdicts[l]) <= 1

\* A life of the RTU waits for the HMI, over a pair of connections that is whole.
Awaits == pc = "listen" /\ ~cut /\ life \notin dclosed /\ verdicts[life] = <<>>

\* It never waits for an HMI that waits itself: for a connection, for the other half
\* of one, or for a reading or the end of the life it serves.
NoStandoff ==
  Awaits => \/ hpc = "acceptData" /\ dq # <<>>
            \/ hpc = "acceptSpeaker" /\ sq # <<>>
            \/ hpc = "recv" /\ (readings[hd] # <<>> \/ RtuGone(hd))

\* Every step while it waits brings its verdict nearer: what is left to do is to
\* accept, answer and hang up on each dead life before it, at most 4 steps for each
\* connection in the backlog and 3 for the pair at hand.
Left == 4 * Len(dq) + CASE hpc = "acceptSpeaker" -> 3
                        [] hpc = "recv" -> 1 + Len(readings[hd])
                        [] OTHER -> 0
EachStepNearer == [][Awaits /\ Awaits' => Left' < Left]_vars

\* Seen from outside the loop is an exchange of readings, verdicts and pulses.
Exchange == INSTANCE FaultExchange WITH
              asked  <- IF pc \in {"listen", "act"} THEN value ELSE "none",
              answer <- IF pc = "act" THEN heard
                        ELSE IF pc = "listen" /\ verdicts[life] # <<>> THEN Head(verdicts[life])
                        ELSE "none",
              raised <- coil,
              broken <- cut

ImplementsExchange == Exchange!Spec

\* A reading sent to the HMI over a whole pair is answered, however many dead
\* lives of the RTU are queued before it, unless the HMI itself ends.
Answered ==
  pc = "listen" /\ ~cut /\ life \notin dclosed ~> pc # "listen" \/ hpc = "ended"

-----------------------------------------------------------------------------
\* README.md, control loop: the HMI checks the band, "Outside the band it replies
\* `fault`; otherwise `no fault`": every reading is answered.  It is not, with an
\* HMI that never ends, once the RTU's second connect was refused: the orphaned
\* data connection takes the speaker of the next life, and both sides wait.
EveryReadingAnswered == pc = "listen" ~> pc # "listen"
=============================================================================
