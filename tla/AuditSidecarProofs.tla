-------------------------- MODULE AuditSidecarProofs --------------------------
(***************************************************************************)
(* AuditSidecar for every set of networks, every length of ring and table  *)
(* and any number of requests under way: the types and lengths, the ring's *)
(* order, which events the table holds once the network is quiet, and what *)
(* the page may be trusted to show for an element.                         *)
(***************************************************************************)
EXTENDS AuditSidecar, SequenceTheorems, FiniteSetTheorems, TLAPS

-----------------------------------------------------------------------------
(* Sequences, and positions picked out of one                               *)

\* What RemoveAt leaves of a sequence.
LEMMA Removed ==
  ASSUME NEW E, NEW s \in Seq(E), NEW i \in 1..Len(s)
  PROVE  /\ RemoveAt(s, i) \in Seq(E)
         /\ Len(RemoveAt(s, i)) = Len(s) - 1
         /\ \A j \in 1..(Len(s) - 1) :
              RemoveAt(s, i)[j] = IF j < i THEN s[j] ELSE s[j + 1]
  <1> DEFINE n == Len(s)
             a == SubSeq(s, 1, i - 1)
             b == SubSeq(s, i + 1, n)
  <1>1. n \in Nat /\ i \in Nat /\ 1 <= i /\ i <= n
    BY LenProperties
  <1>2. a \in Seq(E) /\ Len(a) = i - 1 /\ \A j \in 1..(i - 1) : a[j] = s[j]
    BY <1>1, SubSeqProperties
  <1>3. b \in Seq(E) /\ Len(b) = n - i /\ \A j \in 1..(n - i) : b[j] = s[i + j]
    BY <1>1, SubSeqProperties
  <1>4. RemoveAt(s, i) = a \o b
    BY DEF RemoveAt
  <1> HIDE DEF n, a, b
  <1>5. /\ a \o b \in Seq(E) /\ Len(a \o b) = Len(a) + Len(b)
        /\ \A j \in 1..(Len(a) + Len(b)) : (a \o b)[j] = IF j <= Len(a) THEN a[j] ELSE b[j - Len(a)]
    BY <1>2, <1>3, ConcatProperties
  <1>6. Len(a) + Len(b) = n - 1
    BY <1>1, <1>2, <1>3
  <1>7. ASSUME NEW j \in 1..(n - 1)
        PROVE  (a \o b)[j] = IF j < i THEN s[j] ELSE s[j + 1]
    <2>1. CASE j < i
      <3>1. j \in 1..(i - 1) /\ j <= Len(a)
        BY <1>1, <1>2, <2>1
      <3>2. QED
        BY <1>2, <1>5, <1>6, <2>1, <3>1
    <2>2. CASE ~(j < i)
      <3>1. j - (i - 1) \in 1..(n - i) /\ ~(j <= Len(a)) /\ i + (j - (i - 1)) = j + 1
        BY <1>1, <1>2, <2>2
      <3>2. (a \o b)[j] = b[j - (i - 1)]
        BY <1>2, <1>5, <1>6, <3>1
      <3>3. b[j - (i - 1)] = s[i + (j - (i - 1))]
        BY <1>3, <3>1
      <3>4. QED
        BY <2>2, <3>1, <3>2, <3>3
    <2>3. QED
      BY <2>1, <2>2
  <1>8. QED
    BY <1>4, <1>5, <1>6, <1>7 DEF n

\* A set of natural numbers that is not empty has a least element.
LEMMA Least ==
  ASSUME NEW T, T \subseteq Nat, T # {}
  PROVE  \E x \in T : \A y \in T : x <= y
  <1>1. IsWellFoundedOn(OpToRel(<, Nat), Nat)
    BY NatLessThanWellFounded
  <1>2. PICK x \in T : \A y \in T : ~(<<y, x>> \in OpToRel(<, Nat))
    BY <1>1, WFMin
  <1>3. \A y \in T : ~(y < x)
    BY <1>2 DEF OpToRel
  <1>4. ASSUME NEW y \in T PROVE x <= y
    <2>1. x \in Nat /\ y \in Nat /\ ~(y < x)
      BY <1>3
    <2>2. QED
      BY <2>1
  <1>5. QED
    BY <1>4

\* Of a set of positions each has a rank, and each rank is taken.
LEMMA Ranks ==
  ASSUME NEW n \in Nat, NEW S \in SUBSET (1..n)
  PROVE  /\ Cardinality(S) \in Nat
         /\ \A k \in 1..Cardinality(S) : \E i \in S : Cardinality({j \in S : j <= i}) = k
         /\ \A i \in S : Cardinality({j \in S : j <= i}) = 1 => \A j \in S : i <= j
         /\ S # {} => Cardinality(S) > 0
  <1> DEFINE Upto(m) == {j \in S : j <= m}
  <1>0. \A m \in S : m \in Nat /\ m > 0 /\ m <= n
    OBVIOUS
  <1>1. IsFiniteSet(S) /\ Cardinality(S) \in Nat
    <2>1. IsFiniteSet(1..n)
      BY FS_Interval
    <2>2. QED
      BY <2>1, FS_Subset, FS_CardinalityType
  <1>2. \A m : Upto(m) \in SUBSET S /\ IsFiniteSet(Upto(m)) /\ Cardinality(Upto(m)) \in Nat
    BY <1>1, FS_Subset, FS_CardinalityType
  <1>3. ASSUME NEW k \in 1..Cardinality(S)
        PROVE  \E i \in S : Cardinality(Upto(i)) = k
    <2> DEFINE T == {m \in 0..n : Cardinality(Upto(m)) >= k}
    <2>1. n \in T
      <3>1. Upto(n) = S
        BY <1>0, Zenon
      <3>2. QED
        BY <3>1, <1>1
    <2>2. PICK m \in T : \A y \in T : m <= y
      <3>1. T \subseteq Nat /\ T # {}
        BY <2>1
      <3>2. QED
        BY <3>1, Least
    <2>3. m \in Nat /\ k \in Nat /\ k > 0 /\ m <= n /\ Cardinality(Upto(m)) >= k
      BY <1>1
    <2>4. m # 0
      <3>1. ASSUME m = 0 PROVE FALSE
        <4>0. \A j \in S : ~(j <= m)
          BY <1>0, <3>1
        <4>1. Upto(m) = {}
          BY <4>0, Zenon
        <4>2. QED
          BY <4>1, <2>3, FS_EmptySet
      <3>2. QED
        BY <3>1
    <2>5. Cardinality(Upto(m - 1)) < k
      <3>1. m - 1 \in 0..n /\ ~(m <= m - 1)
        BY <2>3, <2>4
      <3>2. m - 1 \notin T
        BY <2>2, <3>1
      <3>3. Cardinality(Upto(m - 1)) \in Nat /\ ~(Cardinality(Upto(m - 1)) >= k)
        BY <3>1, <3>2, <1>2, Zenon
      <3>4. QED
        BY <3>3, <2>3
    <2>6. m \in S
      <3>1. ASSUME m \notin S PROVE FALSE
        <4>0. \A j \in S : j <= m <=> j <= m - 1
          BY <1>0, <2>3, <3>1
        <4>1. Upto(m) = Upto(m - 1)
          BY <4>0, Zenon
        <4>2. Cardinality(Upto(m)) \in Nat
          BY <1>2
        <4>3. QED
          BY <4>1, <4>2, <2>3, <2>5
      <3>2. QED
        BY <3>1
    <2>7. Cardinality(Upto(m)) = Cardinality(Upto(m - 1)) + 1
      <3>0. /\ \A j \in S : j <= m <=> j <= m - 1 \/ j = m
            /\ ~(m <= m - 1)
        BY <1>0, <2>3
      <3>1. Upto(m) = Upto(m - 1) \cup {m} /\ m \notin Upto(m - 1)
        BY <3>0, <2>6
      <3> HIDE DEF Upto
      <3>2. IsFiniteSet(Upto(m - 1))
        BY <1>2
      <3>3. QED
        BY <3>1, <3>2, FS_AddElement
    <2>8. Cardinality(Upto(m)) \in Nat /\ Cardinality(Upto(m - 1)) \in Nat
      BY <1>2
    <2>9. Cardinality(Upto(m)) = k
      <3> HIDE DEF T, Upto
      <3> QED BY <2>3, <2>5, <2>7, <2>8
    <2>10. QED
      BY <2>6, <2>9
  <1>4. ASSUME NEW i \in S, Cardinality(Upto(i)) = 1, NEW j \in S
        PROVE  i <= j
    <2>1. i \in Nat /\ j \in Nat /\ i \in Upto(i)
      BY <1>0
    <2>2. PICK x : Upto(i) = {x}
      BY <1>2, <1>4, FS_Singleton
    <2>3. j \in Upto(i) => j = i
      BY <2>1, <2>2
    <2>4. ~(j <= i) => i <= j
      BY <2>1
    <2>5. QED
      BY <2>1, <2>3, <2>4
  <1>5. ASSUME S # {} PROVE Cardinality(S) > 0
    BY <1>1, <1>5, FS_EmptySet
  <1>6. QED
    BY <1>1, <1>3, <1>4, <1>5

LEMMA PickedSeq ==
  ASSUME NEW E, EVENTS \in Seq(E), NEW S \in SUBSET (1..Len(EVENTS))
  PROVE  Picked(S) \in Seq(E) /\ Len(Picked(S)) = Cardinality(S)
  <1> DEFINE c == Cardinality(S)
             nth(k) == CHOOSE i \in S : Cardinality({j \in S : j <= i}) = k
  <1>1. c \in Nat /\ \A k \in 1..c : \E i \in S : Cardinality({j \in S : j <= i}) = k
    BY Ranks, LenProperties
  <1>2. \A k \in 1..c : nth(k) \in S
    BY <1>1, Zenon
  <1>3. \A k \in 1..c : EVENTS[nth(k)] \in E
    <2> HIDE DEF nth
    <2> QED
      BY <1>2, ElementOfSeq
  <1>4. Picked(S) = [k \in 1..c |-> EVENTS[nth(k)]]
    BY Zenon DEF Picked
  <1> HIDE DEF c, nth
  <1>5. Picked(S) \in Seq(E) /\ Len(Picked(S)) = c
    <2>1. Picked(S) \in [1..c -> E]
      BY <1>3, <1>4
    <2>2. QED
      BY <2>1, <1>1, SeqDef, LenProperties
  <1>6. QED
    BY <1>5 DEF c

\* What an answer lists: at most Shown events of the ring, the newest of the network first.
LEMMA Viewed ==
  ASSUME NEW E, EVENTS \in Seq(E), NEW net
  PROVE  /\ View(net) \in Seq(E) /\ Len(View(net)) <= Shown
         /\ \A p \in 1..Len(EVENTS) :
              Matches(net, EVENTS[p]) /\ (\A i \in 1..(p - 1) : ~Matches(net, EVENTS[i]))
                => View(net) # <<>> /\ Head(View(net)) = EVENTS[p]
  <1> DEFINE H == Hits(net)
             s == Picked(H)
             m == Min({Shown, Len(s)})
  <1>0. Len(EVENTS) \in Nat /\ DOMAIN EVENTS = 1..Len(EVENTS) /\ Shown \in Nat \ {0}
    BY LenProperties, RingAssumption
  <1>1. H \in SUBSET (1..Len(EVENTS))
    BY <1>0 DEF Hits
  <1>2. s \in Seq(E) /\ Len(s) = Cardinality(H) /\ Cardinality(H) \in Nat
    BY <1>0, <1>1, PickedSeq, Ranks
  <1>3. m \in {Shown, Len(s)} /\ m <= Shown /\ m <= Len(s)
    <2>1. \E x \in {Shown, Len(s)} : \A y \in {Shown, Len(s)} : x <= y
      BY <1>0, <1>2
    <2>2. QED
      BY <2>1, Zenon DEF Min
  <1>4. m \in Nat
    BY <1>0, <1>2, <1>3
  <1>5. View(net) = SubSeq(s, 1, m)
    BY DEF View, Rows
  <1> HIDE DEF s, m
  <1>6. /\ View(net) \in Seq(E) /\ Len(View(net)) = m
        /\ \A k \in 1..m : View(net)[k] = s[k]
    BY <1>2, <1>3, <1>4, <1>5, SubSeqProperties
  <1>7. ASSUME NEW p \in 1..Len(EVENTS), Matches(net, EVENTS[p]),
               \A i \in 1..(p - 1) : ~Matches(net, EVENTS[i])
        PROVE  View(net) # <<>> /\ Head(View(net)) = EVENTS[p]
    <2>1. p \in H /\ \A i \in H : i \in Nat /\ p <= i
      <3>1. p \in H
        BY <1>0, <1>7 DEF Hits
      <3>2. ASSUME NEW i \in H PROVE i \in Nat /\ p <= i
        <4>1. i \in 1..Len(EVENTS) /\ Matches(net, EVENTS[i])
          BY <1>0 DEF Hits
        <4>2. QED
          BY <4>1, <1>0, <1>7
      <3>3. QED
        BY <3>1, <3>2
    <2>2. Cardinality(H) > 0
      BY <1>0, <1>1, <2>1, Ranks
    <2>3. m > 0
      BY <1>0, <1>2, <1>3, <2>2
    <2>4. View(net)[1] = s[1] /\ View(net) # <<>> /\ Head(View(net)) = View(net)[1]
      <3>1. 1 \in 1..m
        BY <1>4, <2>3
      <3>2. View(net) # <<>> 
        BY <1>6, <2>3, EmptySeq
      <3>3. QED
        BY <3>1, <3>2, <1>6, HeadTailProperties
    <2> HIDE DEF H
    <2> DEFINE first == CHOOSE i \in H : Cardinality({j \in H : j <= i}) = 1
    <2>5. first \in H /\ Cardinality({j \in H : j <= first}) = 1
      <3>1. 1 \in 1..Cardinality(H)
        BY <1>2, <2>2
      <3>2. \A k \in 1..Cardinality(H) : \E i \in H : Cardinality({j \in H : j <= i}) = k
        BY <1>0, <1>1, Ranks
      <3>3. QED
        BY <3>1, <3>2, Zenon
    <2>6. s[1] = EVENTS[first]
      <3>1. 1 \in 1..Cardinality(H)
        BY <1>2, <2>2
      <3>2. QED
        BY <3>1 DEF s, Picked
    <2>7. first = p
      <3>1. \A j \in H : first <= j
        BY <1>0, <1>1, <2>5, Ranks
      <3> HIDE DEF first
      <3>2. first <= p /\ p <= first /\ first \in Nat /\ p \in Nat
        BY <2>1, <2>5, <3>1
      <3>3. QED
        BY <3>2
    <2>8. QED
      BY <2>4, <2>6, <2>7
  <1>8. QED
    BY <1>0, <1>3, <1>6, <1>7

-----------------------------------------------------------------------------
(* The element view                                                         *)

\* While the page's value is not in doubt, at most one request is under way, and
\* what has been answered to it is still so.
Fits(a, d) ==
  /\ a.op = "read" => a.reply \in {"none", "err", d}
  /\ a.op = "write" /\ a.reply = "ok" => a.arg = d

PanelInv ==
  /\ device \in Bit
  /\ asks \in Seq(Ask)
  /\ sure => /\ Len(asks) <= 1
             /\ \A i \in 1..Len(asks) : Fits(asks[i], device)
             /\ asks = <<>> => shown \in {"-", "err", device}

\* A request that was alone leaves nothing behind when it is answered.
LEMMA RemoveAsk ==
  ASSUME asks \in Seq(Ask), NEW i \in 1..Len(asks)
  PROVE  /\ RemoveAt(asks, i) \in Seq(Ask)
         /\ Len(asks) <= 1 => RemoveAt(asks, i) = <<>>
  <1>1. RemoveAt(asks, i) \in Seq(Ask) /\ Len(RemoveAt(asks, i)) = Len(asks) - 1
    BY Removed
  <1>2. Len(asks) <= 1 => Len(RemoveAt(asks, i)) = 0
    BY <1>1, LenProperties
  <1>3. QED
    BY <1>1, <1>2, EmptySeq

\* A new request: the others must be gone for the page's value to be beyond doubt.
LEMMA Asked ==
  ASSUME asks \in Seq(Ask), NEW d, NEW a \in Ask, a.reply = "none"
  PROVE  /\ Append(asks, a) \in Seq(Ask) /\ Append(asks, a) # <<>>
         /\ asks = <<>> => /\ Len(Append(asks, a)) <= 1
                           /\ \A i \in 1..Len(Append(asks, a)) : Fits(Append(asks, a)[i], d)
  BY AppendProperties DEF Fits

LEMMA PanelInit1 == PanelInit => PanelInv
  BY DEF PanelInit, PanelInv, Bit

LEMMA PanelStep ==
  ASSUME PanelInv,
         \/ DoRead \/ DoWrite \/ OtherWrite \/ PanelRestart
         \/ \E i \in DOMAIN asks : \/ ReadElement(i) \/ WriteElement(i) \/ ElementFails(i)
                                   \/ ShowValue(i) \/ Written(i) \/ WriteFailed(i)
  PROVE  PanelInv'
  <1>1. CASE DoRead
    <2> DEFINE a == [op |-> "read", arg |-> "-", reply |-> "none"]
    <2>1. a \in Ask /\ a.reply = "none"
      BY DEF Ask
    <2>2. asks' = Append(asks, a) /\ device' = device /\ sure' = (asks = <<>>)
      BY <1>1 DEF DoRead, WithAsk
    <2>3. QED
      BY <2>1, <2>2, Asked DEF PanelInv, Fits
  <1>2. CASE DoWrite
    <2>1. PICK text \in Typed :
            asks' = Append(asks, [op |-> "write", arg |-> Converted(text), reply |-> "none"])
      BY <1>2 DEF DoWrite, WithAsk
    <2> DEFINE a == [op |-> "write", arg |-> Converted(text), reply |-> "none"]
    <2>2. a \in Ask /\ a.reply = "none"
      BY DEF Ask, Bit, Converted
    <2>3. asks' = Append(asks, a) /\ device' = device /\ (sure' => asks = <<>>)
      BY <1>2, <2>1 DEF DoWrite
    <2>4. QED
      BY <2>2, <2>3, Asked DEF PanelInv, Fits
  <1>3. CASE OtherWrite
    BY <1>3 DEF OtherWrite, PanelInv, Bit
  <1>4. CASE PanelRestart
    <2>1. asks' = <<>> /\ (sure' => sure /\ asks = <<>>) /\ device' = device /\ shown' = shown
      BY <1>4 DEF PanelRestart
    <2>2. QED
      BY <2>1, EmptySeq DEF PanelInv
  <1>5. ASSUME NEW i \in 1..Len(asks), ReadElement(i) \/ WriteElement(i) \/ ElementFails(i)
        PROVE  PanelInv'
    <2>1. PICK r \in {"ok", "err"} \union Bit : asks' = [asks EXCEPT ![i].reply = r]
      BY <1>5 DEF ReadElement, WriteElement, ElementFails, Reply, PanelInv
    <2>2. asks[i] \in Ask
      BY <1>5 DEF PanelInv
    <2> DEFINE a == [asks[i] EXCEPT !.reply = r]
    <2>3. a \in Ask /\ a.op = asks[i].op /\ a.arg = asks[i].arg /\ a.reply = r
      BY <2>2 DEF Ask
    <2>4. asks' = [asks EXCEPT ![i] = a]
      BY <2>1
    <2>5. asks' \in Seq(Ask) /\ Len(asks') = Len(asks) /\ asks'[i] = a
      BY <2>3, <2>4, ExceptSeq DEF PanelInv
    <2>6. device' \in Bit
      BY <1>5, <2>2 DEF ReadElement, WriteElement, ElementFails, PanelInv
    <2>7. Fits(a, device')
      <3>1. CASE ReadElement(i)
        <4>1. asks' = [asks EXCEPT ![i].reply = device] /\ device' = device /\ asks[i].op = "read"
          BY <3>1 DEF ReadElement, Reply, Waiting
        <4>2. asks'[i].reply = device
          BY <4>1, <2>2 DEF PanelInv, Ask
        <4>3. QED
          BY <4>1, <4>2, <2>3, <2>5 DEF Fits
      <3>2. CASE WriteElement(i)
        BY <3>2, <2>3 DEF WriteElement, Waiting, Fits
      <3>3. CASE ElementFails(i)
        <4>1. asks' = [asks EXCEPT ![i].reply = "err"]
          BY <3>3 DEF ElementFails, Reply
        <4>2. asks'[i].reply = "err"
          BY <4>1, <2>2 DEF PanelInv, Ask
        <4>3. QED
          BY <4>2, <2>3, <2>5 DEF Fits
      <3>4. QED
        BY <1>5, <3>1, <3>2, <3>3
    <2>8. sure' = sure /\ asks' # <<>>
      BY <1>5, <2>5 DEF ReadElement, WriteElement, ElementFails
    <2>9. QED
      BY <2>5, <2>6, <2>7, <2>8 DEF PanelInv
  <1>6. ASSUME NEW i \in 1..Len(asks), ShowValue(i) \/ Written(i) \/ WriteFailed(i)
        PROVE  PanelInv'
    <2>1. CASE ShowValue(i)
      BY <2>1, RemoveAsk DEF ShowValue, PanelInv, Fits, Ask
    <2>2. CASE Written(i)
      <3> DEFINE a == [op |-> "read", arg |-> "-", reply |-> "none"]
      <3>1. a \in Ask /\ RemoveAt(asks, i) \in Seq(Ask)
        BY RemoveAsk DEF Ask, PanelInv
      <3>2. asks' = Append(RemoveAt(asks, i), a) /\ device' = device /\ (sure' => Len(asks) = 1)
        BY <2>2 DEF Written
      <3>3. asks' \in Seq(Ask) /\ asks' # <<>>
        BY <3>1, <3>2, AppendProperties
      <3>4. ASSUME sure' PROVE Len(asks') = 1 /\ asks'[1] = a
        <4>0. Len(asks) = 1
          BY <3>2, <3>4, Zenon
        <4>1. Len(asks) <= 1
          BY <4>0
        <4>2. RemoveAt(asks, i) = <<>>
          BY <4>1, RemoveAsk DEF PanelInv
        <4>3. Len(Append(<<>>, a)) = 1 /\ Append(<<>>, a)[1] = a
          BY <3>1, EmptySeq, AppendProperties
        <4>4. QED
          BY <3>2, <4>2, <4>3
      <3>5. Fits(a, device')
        BY DEF Fits
      <3>6. QED
        BY <3>2, <3>3, <3>4, <3>5 DEF PanelInv
    <2>3. CASE WriteFailed(i)
      BY <2>3, RemoveAsk DEF WriteFailed, PanelInv
    <2>4. QED
      BY <1>6, <2>1, <2>2, <2>3
  <1>7. DOMAIN asks = 1..Len(asks)
    BY DEF PanelInv
  <1>8. QED
    BY <1>1, <1>2, <1>3, <1>4, <1>5, <1>6, <1>7

\* No read is answered "ok", so the page never shows that for a value.
PanelTyped ==
  /\ PanelTypeOK
  /\ \A i \in 1..Len(asks) : asks[i].op = "read" => asks[i].reply # "ok"

LEMMA PanelTypedInit == PanelInit => PanelTyped
  BY AsksAssumption DEF PanelInit, PanelTyped, PanelTypeOK, Bit

\* A request more, if there is room for it.
LEMMA AskedTyped ==
  ASSUME NEW s \in Seq(Ask), NEW a \in Ask, a.reply = "none", Len(s) < MaxAsks,
         \A i \in 1..Len(s) : s[i].op = "read" => s[i].reply # "ok"
  PROVE  /\ Append(s, a) \in Seq(Ask) /\ Len(Append(s, a)) <= MaxAsks
         /\ \A i \in 1..Len(Append(s, a)) :
              Append(s, a)[i].op = "read" => Append(s, a)[i].reply # "ok"
  <1>1. Len(s) \in Nat
    OBVIOUS
  <1>2. QED
    BY <1>1, AsksAssumption, AppendProperties

LEMMA PanelTypedStep ==
  ASSUME PanelTyped,
         \/ DoRead \/ DoWrite \/ OtherWrite \/ PanelRestart
         \/ \E i \in DOMAIN asks : \/ ReadElement(i) \/ WriteElement(i) \/ ElementFails(i)
                                   \/ ShowValue(i) \/ Written(i) \/ WriteFailed(i)
  PROVE  PanelTyped'
  <1>0. /\ device \in Bit /\ shown \in Bit \union {"-", "...", "err"} /\ sure \in BOOLEAN
        /\ asks \in Seq(Ask) /\ Len(asks) <= MaxAsks /\ Len(asks) \in Nat
        /\ DOMAIN asks = 1..Len(asks)
        /\ \A i \in 1..Len(asks) : asks[i] \in Ask /\ (asks[i].op = "read" => asks[i].reply # "ok")
    BY DEF PanelTyped, PanelTypeOK
  <1>1. CASE DoRead
    <2> DEFINE a == [op |-> "read", arg |-> "-", reply |-> "none"]
    <2>1. a \in Ask /\ a.reply = "none"
      BY DEF Ask
    <2>2. asks' = Append(asks, a) /\ Len(asks) < MaxAsks
      BY <1>1 DEF DoRead, WithAsk
    <2>3. /\ asks' \in Seq(Ask) /\ Len(asks') <= MaxAsks
          /\ \A i \in 1..Len(asks') : asks'[i].op = "read" => asks'[i].reply # "ok"
      BY <1>0, <2>1, <2>2, AskedTyped
    <2>4. device' = device /\ shown' = "..." /\ sure' \in BOOLEAN
      BY <1>1 DEF DoRead
    <2>5. QED
      BY <1>0, <2>3, <2>4 DEF PanelTyped, PanelTypeOK
  <1>2. CASE DoWrite
    <2>1. PICK text \in Typed :
            asks' = Append(asks, [op |-> "write", arg |-> Converted(text), reply |-> "none"])
      BY <1>2 DEF DoWrite, WithAsk
    <2> DEFINE a == [op |-> "write", arg |-> Converted(text), reply |-> "none"]
    <2>2. a \in Ask /\ a.reply = "none"
      BY DEF Ask, Bit, Converted
    <2>3. asks' = Append(asks, a) /\ Len(asks) < MaxAsks
      BY <1>2, <2>1 DEF DoWrite
    <2>4. /\ asks' \in Seq(Ask) /\ Len(asks') <= MaxAsks
          /\ \A i \in 1..Len(asks') : asks'[i].op = "read" => asks'[i].reply # "ok"
      BY <1>0, <2>2, <2>3, AskedTyped
    <2>5. device' = device /\ shown' = shown /\ sure' \in BOOLEAN
      BY <1>2 DEF DoWrite
    <2>6. QED
      BY <1>0, <2>4, <2>5 DEF PanelTyped, PanelTypeOK
  <1>3. CASE OtherWrite
    BY <1>0, <1>3 DEF OtherWrite, PanelTyped, PanelTypeOK
  <1>4. CASE PanelRestart
    <2>1. asks' = <<>> /\ sure' \in BOOLEAN /\ device' = device /\ shown' = shown
      BY <1>4 DEF PanelRestart
    <2>2. QED
      BY <1>0, <2>1, EmptySeq, AsksAssumption DEF PanelTyped, PanelTypeOK
  <1>5. ASSUME NEW i \in 1..Len(asks), ReadElement(i) \/ WriteElement(i) \/ ElementFails(i)
        PROVE  PanelTyped'
    <2>1. PICK r \in {"ok", "err"} \union Bit :
            /\ asks' = [asks EXCEPT ![i].reply = r]
            /\ asks[i].op = "read" => r # "ok"
      BY <1>0, <1>5 DEF ReadElement, WriteElement, ElementFails, Waiting, Reply, Bit
    <2> DEFINE a == [asks[i] EXCEPT !.reply = r]
    <2>2. a \in Ask /\ (a.op = "read" => a.reply # "ok")
      BY <1>0, <2>1 DEF Ask
    <2>3. asks' = [asks EXCEPT ![i] = a]
      BY <2>1
    <2> HIDE DEF a
    <2>4. /\ asks' \in Seq(Ask) /\ Len(asks') = Len(asks)
          /\ \A j \in 1..Len(asks) : asks'[j] = IF j = i THEN a ELSE asks[j]
      BY <1>0, <2>2, <2>3, ExceptSeq
    <2>5. device' \in Bit /\ shown' = shown /\ sure' = sure
      BY <1>0, <1>5 DEF ReadElement, WriteElement, ElementFails
    <2>6. \A j \in 1..Len(asks') : asks'[j].op = "read" => asks'[j].reply # "ok"
      BY <1>0, <2>2, <2>4
    <2>7. QED
      BY <1>0, <2>4, <2>5, <2>6 DEF PanelTyped, PanelTypeOK
  <1>6. ASSUME NEW i \in 1..Len(asks), ShowValue(i) \/ Written(i) \/ WriteFailed(i)
        PROVE  PanelTyped'
    <2> DEFINE rest == RemoveAt(asks, i)
    <2>1. /\ rest \in Seq(Ask) /\ Len(rest) = Len(asks) - 1
          /\ \A j \in 1..(Len(asks) - 1) : rest[j] = IF j < i THEN asks[j] ELSE asks[j + 1]
      BY <1>0, Removed
    <2> HIDE DEF rest
    <2>2. Len(rest) < MaxAsks /\ \A j \in 1..Len(rest) : rest[j].op = "read" => rest[j].reply # "ok"
      <3>1. Len(rest) < MaxAsks
        BY <1>0, <2>1, AsksAssumption
      <3>2. ASSUME NEW j \in 1..Len(rest) PROVE rest[j].op = "read" => rest[j].reply # "ok"
        <4>1. j \in 1..(Len(asks) - 1) /\ j \in 1..Len(asks) /\ j + 1 \in 1..Len(asks)
          BY <1>0, <2>1
        <4>2. QED
          BY <1>0, <2>1, <4>1
      <3>3. QED
        BY <3>1, <3>2
    <2>3. CASE ShowValue(i)
      <3>1. asks' = rest /\ device' = device /\ sure' = sure /\ shown' = asks[i].reply
            /\ asks[i].op = "read" /\ asks[i].reply # "none"
        BY <2>3 DEF ShowValue, rest
      <3>2. shown' \in Bit \union {"err"}
        BY <1>0, <3>1 DEF Ask
      <3>3. Len(asks') <= MaxAsks
        BY <1>0, <2>1, <3>1, AsksAssumption
      <3>4. QED
        BY <1>0, <2>1, <2>2, <3>1, <3>2, <3>3 DEF PanelTyped, PanelTypeOK
    <2>4. CASE Written(i)
      <3> DEFINE a == [op |-> "read", arg |-> "-", reply |-> "none"]
      <3>1. a \in Ask /\ a.reply = "none"
        BY DEF Ask
      <3>2. asks' = Append(rest, a) /\ device' = device /\ sure' \in BOOLEAN /\ shown' = "..."
        BY <2>4 DEF Written, rest
      <3>3. /\ asks' \in Seq(Ask) /\ Len(asks') <= MaxAsks
            /\ \A j \in 1..Len(asks') : asks'[j].op = "read" => asks'[j].reply # "ok"
        BY <2>1, <2>2, <3>1, <3>2, AskedTyped
      <3>4. QED
        BY <1>0, <3>2, <3>3 DEF PanelTyped, PanelTypeOK
    <2>5. CASE WriteFailed(i)
      <3>1. asks' = rest /\ device' = device /\ sure' \in BOOLEAN /\ shown' = shown
        BY <2>5 DEF WriteFailed, rest
      <3>2. Len(asks') <= MaxAsks
        BY <1>0, <2>1, <3>1, AsksAssumption
      <3>3. QED
        BY <1>0, <2>1, <2>2, <3>1, <3>2 DEF PanelTyped, PanelTypeOK
    <2>6. QED
      BY <1>6, <2>3, <2>4, <2>5
  <1>7. QED
    BY <1>0, <1>1, <1>2, <1>3, <1>4, <1>5, <1>6

-----------------------------------------------------------------------------
(* The traffic view                                                         *)

\* Each network has one thread, which never goes back, so what is in the ring of a
\* network was numbered up to what its thread is through with.
FeedInv ==
  /\ sniffers = Network \X {1}
  /\ seen \in [Network -> Nat] /\ done \in [Threads -> Nat]
  /\ EVENTS \in Seq(Network \X Nat)
  /\ Len(EVENTS) <= MaxLen
  /\ \A i \in 1..Len(EVENTS) : EVENTS[i][2] <= done[<<EVENTS[i][1], 1>>]
  /\ \A i, j \in 1..Len(EVENTS) :
       i < j /\ EVENTS[i][1] = EVENTS[j][1] => EVENTS[i][2] > EVENTS[j][2]

\* The ring after a packet: the new event in front of an initial part of the old ring.
LEMMA Pushed ==
  ASSUME NEW S, EVENTS \in Seq(S), NEW e \in S, Len(EVENTS) <= MaxLen
  PROVE  /\ Push(e) \in Seq(S)
         /\ Len(Push(e)) <= MaxLen
         /\ Len(Push(e)) <= Len(EVENTS) + 1
         /\ Push(e)[1] = e
         /\ \A i \in 2..Len(Push(e)) : Push(e)[i] = EVENTS[i - 1]
  <1> DEFINE old == IF Len(EVENTS) < MaxLen THEN EVENTS ELSE Front(EVENTS)
  <1>1. /\ old \in Seq(S) /\ Len(old) <= Len(EVENTS) /\ Len(old) + 1 <= MaxLen
        /\ \A i \in 1..Len(old) : old[i] = EVENTS[i]
    <2>1. CASE Len(EVENTS) < MaxLen
      BY <2>1, RingAssumption
    <2>2. CASE ~(Len(EVENTS) < MaxLen)
      <3>1. Len(EVENTS) = MaxLen /\ Len(EVENTS) \in Nat \ {0}
        BY <2>2, RingAssumption
      <3>2. old = SubSeq(EVENTS, 1, Len(EVENTS) - 1)
        BY <2>2 DEF Front
      <3>3. QED
        BY <3>1, <3>2, SubSeqProperties
    <2>3. QED
      BY <2>1, <2>2
  <1>2. <<e>> \in Seq(S) /\ Len(<<e>>) = 1 /\ <<e>>[1] = e
    OBVIOUS
  <1>3. Push(e) = <<e>> \o old
    BY DEF Push
  <1> HIDE DEF old
  <1>4. /\ Push(e) \in Seq(S) /\ Len(Push(e)) = 1 + Len(old)
        /\ \A i \in 1..Len(Push(e)) : Push(e)[i] = IF i <= 1 THEN <<e>>[i] ELSE old[i - 1]
    BY <1>1, <1>2, <1>3, ConcatProperties
  <1>5. Len(EVENTS) \in Nat /\ Len(old) \in Nat /\ MaxLen \in Nat
    BY <1>1, RingAssumption
  <1>6. Len(Push(e)) <= MaxLen /\ Len(Push(e)) <= Len(EVENTS) + 1 /\ 1 \in 1..Len(Push(e))
    <2> DEFINE m == Len(old)
               n == Len(EVENTS)
               p == Len(Push(e))
    <2>1. n \in Nat /\ m \in Nat /\ m <= n /\ m + 1 <= MaxLen /\ p = 1 + m
      BY <1>1, <1>4, <1>5
    <2> HIDE DEF m, n, p
    <2>2. p <= MaxLen /\ p <= n + 1 /\ 1 \in 1..p
      BY <2>1, <1>5
    <2>3. QED
      BY <2>2 DEF n, p
  <1>7. Push(e)[1] = e
    BY <1>2, <1>4, <1>6
  <1>8. ASSUME NEW i \in 2..Len(Push(e))
        PROVE  Push(e)[i] = EVENTS[i - 1]
    <2> DEFINE m == Len(old)
               p == Len(Push(e))
    <2>1. m \in Nat /\ p = 1 + m /\ i \in 2..p
      BY <1>4, <1>5
    <2> HIDE DEF m, p
    <2>2. i \in 1..p /\ ~(i <= 1) /\ i - 1 \in 1..m
      BY <2>1
    <2>3. QED
      BY <1>1, <1>4, <2>2 DEF m, p
  <1>9. QED
    BY <1>4, <1>6, <1>7, <1>8

LEMMA FeedInit1 == FeedInit => FeedInv
  BY RingAssumption DEF FeedInit, FeedInv, StartSniffers, Threads

\* A packet is numbered above all that its network has in the ring.
LEMMA HandleStep ==
  ASSUME FeedInv, NEW t \in Threads, HandlePacket(t)
  PROVE  FeedInv'
  <1> DEFINE n == t[1]
             k == done[t] + 1
             e == <<n, k>>
  <1>1. n \in Network /\ t = <<n, 1>> /\ k \in Nat /\ e \in Network \X Nat
    BY DEF HandlePacket, FeedInv, Threads
  <1>2. EVENTS' = Push(e) /\ done' = [done EXCEPT ![t] = k]
        /\ sniffers' = sniffers /\ seen' = seen
    BY DEF HandlePacket
  <1>3. done' \in [Threads -> Nat]
    BY <1>1, <1>2 DEF FeedInv
  <1>4. /\ EVENTS' \in Seq(Network \X Nat) /\ Len(EVENTS') <= MaxLen
        /\ Len(EVENTS') <= Len(EVENTS) + 1
        /\ EVENTS'[1] = e
        /\ \A i \in 2..Len(EVENTS') : EVENTS'[i] = EVENTS[i - 1]
    BY <1>1, <1>2, Pushed DEF FeedInv
  <1>5. \A i \in 2..Len(EVENTS') :
          /\ i - 1 \in 1..Len(EVENTS)
          /\ EVENTS'[i][1] \in Network /\ EVENTS'[i][2] \in Nat
          /\ EVENTS'[i][2] <= done[<<EVENTS'[i][1], 1>>]
    <2>1. ASSUME NEW j \in 1..Len(EVENTS)
          PROVE  /\ EVENTS[j][1] \in Network /\ EVENTS[j][2] \in Nat
                 /\ EVENTS[j][2] <= done[<<EVENTS[j][1], 1>>]
      BY DEF FeedInv
    <2>2. ASSUME NEW i \in 2..Len(EVENTS')
          PROVE  i - 1 \in 1..Len(EVENTS) /\ EVENTS'[i] = EVENTS[i - 1]
      BY <1>4 DEF FeedInv
    <2>3. QED
      BY <2>1, <2>2
  <1> HIDE DEF n, k
  <1>5a. /\ done'[<<n, 1>>] = k /\ done[<<n, 1>>] < k
         /\ \A u \in Threads : done[u] \in Nat /\ done'[u] \in Nat /\ done[u] <= done'[u]
    <2>1. t \in Threads /\ done \in [Threads -> Nat] /\ k = done[t] + 1
      BY DEF FeedInv, k
    <2>2. QED
      BY <2>1, <1>1, <1>2, <1>3
  <1>6. ASSUME NEW i \in 1..Len(EVENTS') PROVE EVENTS'[i][2] <= done'[<<EVENTS'[i][1], 1>>]
    <2>1. CASE i = 1
      BY <2>1, <1>1, <1>4, <1>5a
    <2>2. CASE i # 1
      <3>1. i \in 2..Len(EVENTS')
        BY <2>2, <1>4
      <3>2. <<EVENTS'[i][1], 1>> \in Threads
        BY <3>1, <1>5 DEF Threads
      <3>3. done[<<EVENTS'[i][1], 1>>] <= done'[<<EVENTS'[i][1], 1>>]
        BY <3>2, <1>5a
      <3>4. QED
        BY <3>1, <3>2, <3>3, <1>5, <1>5a
    <2>3. QED
      BY <2>1, <2>2
  <1>7. ASSUME NEW i \in 1..Len(EVENTS'), NEW j \in 1..Len(EVENTS'),
               i < j, EVENTS'[i][1] = EVENTS'[j][1]
        PROVE  EVENTS'[i][2] > EVENTS'[j][2]
    <2>1. j \in 2..Len(EVENTS')
      BY <1>7, <1>4
    <2>2. CASE i = 1
      <3>1. EVENTS'[i][1] = n /\ EVENTS'[i][2] = k
        BY <2>2, <1>4
      <3>2. EVENTS'[j][2] \in Nat /\ EVENTS'[j][2] <= done[<<n, 1>>]
        BY <2>1, <3>1, <1>5, <1>7
      <3>3. QED
        BY <3>1, <3>2, <1>1, <1>5a, <2>1, <1>5, <1>7 DEF Threads
    <2>3. CASE i # 1
      <3>1. i \in 2..Len(EVENTS') /\ i - 1 < j - 1
        BY <2>1, <2>3, <1>4, <1>7
      <3>2. QED
        BY <2>1, <3>1, <1>4, <1>5, <1>7 DEF FeedInv
    <2>4. QED
      BY <2>2, <2>3
  <1>8. QED
    BY <1>2, <1>3, <1>4, <1>6, <1>7 DEF FeedInv

LEMMA FeedStep ==
  ASSUME FeedInv,
         \/ \E n \in Network : Packet(n)
         \/ \E t \in Threads : HandlePacket(t) \/ SniffFails(t)
         \/ FeedRestart
         \/ UNCHANGED captureVars
  PROVE  FeedInv'
  <1>1. ASSUME NEW n \in Network, Packet(n) PROVE FeedInv'
    BY <1>1 DEF Packet, FeedInv
  <1>2. ASSUME NEW t \in Threads, HandlePacket(t) PROVE FeedInv'
    BY <1>2, HandleStep
  <1>3. ASSUME NEW t \in Threads, SniffFails(t) PROVE FeedInv'
    <2>1. t[1] \in Network /\ seen[t[1]] \in Nat /\ done[t] < seen[t[1]]
      BY <1>3 DEF SniffFails, FeedInv, Threads
    <2>2. done' \in [Threads -> Nat] /\ \A u \in Threads : done[u] <= done'[u]
      BY <1>3, <2>1 DEF SniffFails, FeedInv
    <2>3. ASSUME NEW i \in 1..Len(EVENTS) PROVE EVENTS[i][2] <= done'[<<EVENTS[i][1], 1>>]
      <3>1. EVENTS[i][1] \in Network /\ EVENTS[i][2] \in Nat
        BY DEF FeedInv
      <3>2. <<EVENTS[i][1], 1>> \in Threads
        BY <3>1 DEF Threads
      <3>3. QED
        BY <2>2, <3>1, <3>2 DEF FeedInv
    <2>4. QED
      BY <1>3, <2>2, <2>3 DEF SniffFails, FeedInv
  <1>4. CASE FeedRestart
    BY <1>4, EmptySeq, RingAssumption DEF FeedRestart, FeedInv, StartSniffers, Threads
  <1>5. CASE UNCHANGED captureVars
    BY <1>5 DEF captureVars, FeedInv
  <1>6. QED
    BY <1>1, <1>2, <1>3, <1>4, <1>5

\* Until MaxLen others have been put in after it, the last packet of a network stands
\* behind exactly those, and none of them is of its network.
Placed ==
  /\ last \in [Network -> Nat] /\ since \in [Network -> 0..MaxLen]
  /\ \A n \in Network : last[n] > 0 /\ since[n] < MaxLen =>
       /\ since[n] < Len(EVENTS) /\ EVENTS[since[n] + 1] = <<n, last[n]>>
       /\ \A i \in 1..since[n] : EVENTS[i][1] # n

LEMMA PlacedInit == FeedInit => Placed
  BY RingAssumption DEF FeedInit, Placed

\* The ring grows by one up to its length, and what stands at a place moves up by one.
LEMMA PushedOver ==
  ASSUME NEW S, EVENTS \in Seq(S), NEW e \in S, Len(EVENTS) <= MaxLen,
         NEW p \in Nat, p < Len(EVENTS), p + 1 < MaxLen
  PROVE  /\ p + 1 < Len(Push(e)) /\ Push(e)[p + 2] = EVENTS[p + 1]
         /\ \A i \in 2..(p + 1) : Push(e)[i] = EVENTS[i - 1]
  <1> DEFINE old == IF Len(EVENTS) < MaxLen THEN EVENTS ELSE Front(EVENTS)
             n == Len(EVENTS)
  <1>0. n \in Nat /\ MaxLen \in Nat
    BY RingAssumption
  <1>1. old \in Seq(S) /\ Len(old) >= p + 1
    <2>1. CASE n < MaxLen
      BY <2>1, <1>0
    <2>2. CASE ~(n < MaxLen)
      <3>1. n = MaxLen
        BY <2>2, <1>0
      <3>2. old = SubSeq(EVENTS, 1, n - 1)
        BY <2>2 DEF Front
      <3>3. old \in Seq(S) /\ Len(old) = n - 1
        BY <3>1, <3>2, <1>0, SubSeqProperties
      <3>4. QED
        BY <3>1, <3>3, <1>0
    <2>3. QED
      BY <2>1, <2>2
  <1>2. Push(e) = <<e>> \o old /\ <<e>> \in Seq(S) /\ Len(<<e>>) = 1
    BY DEF Push
  <1> HIDE DEF old
  <1>3. Len(Push(e)) = 1 + Len(old) /\ Len(old) \in Nat
    BY <1>1, <1>2, ConcatProperties
  <1>4. p + 1 < Len(Push(e)) /\ p + 2 \in 2..Len(Push(e)) /\ \A i \in 2..(p + 1) : i \in 2..Len(Push(e))
    BY <1>1, <1>3
  <1>5. \A i \in 2..Len(Push(e)) : Push(e)[i] = EVENTS[i - 1]
    BY Pushed
  <1>6. (p + 2) - 1 = p + 1
    OBVIOUS
  <1>7. QED
    BY <1>4, <1>5, <1>6

LEMMA PlacedHandle ==
  ASSUME FeedInv, Placed, NEW t \in Threads, HandlePacket(t)
  PROVE  Placed'
  <1> DEFINE n == t[1]
             k == done[t] + 1
             e == <<n, k>>
  <1>1. n \in Network /\ k \in Nat /\ k > 0 /\ e \in Network \X Nat
    BY DEF HandlePacket, FeedInv, Threads
  <1>2. /\ EVENTS' = Push(e) /\ last' = [last EXCEPT ![n] = k]
        /\ since' = [m \in Network |-> IF m = n THEN 0
                       ELSE IF since[m] < MaxLen THEN since[m] + 1 ELSE MaxLen]
    BY DEF HandlePacket
  <1> HIDE DEF n, k
  <1>3. /\ EVENTS \in Seq(Network \X Nat) /\ Len(EVENTS) <= MaxLen /\ MaxLen \in Nat /\ MaxLen > 0
        /\ Len(EVENTS) \in Nat
    BY RingAssumption DEF FeedInv
  <1>4. last' \in [Network -> Nat] /\ since' \in [Network -> 0..MaxLen]
    <2>1. \A m \in Network : since[m] \in Nat /\ since[m] <= MaxLen
      BY DEF Placed
    <2>2. QED
      BY <1>1, <1>2, <1>3, <2>1 DEF Placed
  <1>5. EVENTS'[1] = e /\ Len(EVENTS') > 0
    <2>1. Push(e) \in Seq(Network \X Nat) /\ Push(e)[1] = e
      BY <1>1, <1>3, Pushed
    <2>2. Len(Push(e)) > 0
      <3> DEFINE old == IF Len(EVENTS) < MaxLen THEN EVENTS ELSE Front(EVENTS)
      <3>1. old \in Seq(Network \X Nat)
        BY <1>3, SubSeqProperties DEF Front
      <3>2. Push(e) = <<e>> \o old /\ <<e>> \in Seq(Network \X Nat) /\ Len(<<e>>) = 1
        BY <1>1 DEF Push
      <3> HIDE DEF old
      <3>3. Len(Push(e)) = 1 + Len(old) /\ Len(old) \in Nat
        BY <3>1, <3>2, ConcatProperties
      <3>4. QED
        BY <3>3
    <2>3. QED
      BY <1>2, <2>1, <2>2
  <1>6. ASSUME NEW m \in Network, last'[m] > 0, since'[m] < MaxLen
        PROVE  /\ since'[m] < Len(EVENTS') /\ EVENTS'[since'[m] + 1] = <<m, last'[m]>>
               /\ \A i \in 1..since'[m] : EVENTS'[i][1] # m
    <2>1. CASE m = n
      <3>1. since'[m] = 0 /\ last'[m] = k
        BY <1>1, <1>2, <2>1 DEF Placed
      <3>2. QED
        BY <1>5, <2>1, <3>1
    <2>2. CASE m # n
      <3> DEFINE p == since[m]
      <3>1. p \in Nat /\ p <= MaxLen /\ last'[m] = last[m]
        BY <1>2, <2>2 DEF Placed
      <3>2. since'[m] = p + 1 /\ p + 1 < MaxLen
        BY <1>2, <1>3, <1>6, <2>2, <3>1
      <3>3. /\ p < Len(EVENTS) /\ EVENTS[p + 1] = <<m, last[m]>>
            /\ \A i \in 1..p : EVENTS[i][1] # m
        <4>1. last[m] > 0 /\ since[m] < MaxLen
          BY <1>3, <1>6, <3>1, <3>2
        <4>2. QED
          BY <4>1 DEF Placed
      <3> HIDE DEF p
      <3>4. /\ p + 1 < Len(EVENTS') /\ EVENTS'[p + 2] = <<m, last[m]>>
            /\ \A i \in 2..(p + 1) : EVENTS'[i] = EVENTS[i - 1]
        BY <1>1, <1>2, <1>3, <3>1, <3>2, <3>3, PushedOver
      <3>5. ASSUME NEW i \in 1..(p + 1) PROVE EVENTS'[i][1] # m
        <4>1. CASE i = 1
          BY <1>5, <2>2, <4>1
        <4>2. CASE i # 1
          <5>1. i \in 2..(p + 1) /\ i - 1 \in 1..p
            BY <3>1, <4>2
          <5>2. QED
            BY <3>3, <3>4, <5>1
        <4>3. QED
          BY <4>1, <4>2
      <3>6. (p + 1) + 1 = p + 2
        BY <3>1
      <3>7. QED
        BY <3>1, <3>2, <3>4, <3>5, <3>6
    <2>3. QED
      BY <2>1, <2>2
  <1>7. QED
    BY <1>4, <1>6 DEF Placed

LEMMA PlacedStep ==
  ASSUME FeedInv, Placed,
         \/ \E n \in Network : Packet(n)
         \/ \E t \in Threads : HandlePacket(t) \/ SniffFails(t)
         \/ FeedRestart
         \/ UNCHANGED captureVars
  PROVE  Placed'
  <1>1. ASSUME NEW t \in Threads, HandlePacket(t) PROVE Placed'
    BY <1>1, PlacedHandle
  <1>2. CASE FeedRestart
    <2>1. last' = [n \in Network |-> 0] /\ since' = [n \in Network |-> 0]
      BY <1>2 DEF FeedRestart
    <2>2. QED
      BY <2>1, RingAssumption DEF Placed
  <1>3. CASE UNCHANGED <<EVENTS, last, since>>
    BY <1>3 DEF Placed
  <1>4. QED
    BY <1>1, <1>2, <1>3 DEF Packet, SniffFails, captureVars

\* Typing: what threads have handled has passed, and answers are short enough to show.
FeedTyped ==
  /\ FeedTypeOK
  /\ \A i \in 1..Len(lists) : Len(lists[i].rows) <= Shown

LEMMA FeedTypedInit == FeedInit => FeedTyped
  <1>1. ASSUME FeedInit PROVE FeedTyped
    <2>1. /\ sniffers \subseteq Threads
          /\ seen \in [Network -> 0..MaxPackets] /\ done \in [Threads -> 0..MaxPackets]
          /\ last \in [Network -> 0..MaxPackets] /\ since \in [Network -> 0..MaxLen]
      BY <1>1, RingAssumption, BoundAssumption DEF FeedInit, StartSniffers, Threads
    <2>2. tab \in Tab /\ EVENTS = <<>> /\ table = <<>> /\ lists = <<>>
      BY <1>1 DEF FeedInit, Tab
    <2>3. QED
      BY <2>1, <2>2, EmptySeq, RingAssumption, BoundAssumption DEF FeedTyped, FeedTypeOK
  <1>2. QED
    BY <1>1

\* A request more, if there is room for it.
LEMMA ListedTyped ==
  ASSUME FeedTyped, Room, NEW net \in Tab, lists' = WithList(net)
  PROVE  /\ lists' \in Seq(List) /\ Len(lists') <= MaxLists
         /\ \A i \in 1..Len(lists') : Len(lists'[i].rows) <= Shown
  <1> DEFINE a == [net |-> net, answered |-> FALSE, rows |-> <<>>]
  <1>1. a \in List /\ Len(a.rows) <= Shown
    BY EmptySeq, RingAssumption DEF List
  <1>2. lists \in Seq(List) /\ Len(lists) \in Nat /\ Len(lists) < MaxLists
    BY DEF FeedTyped, FeedTypeOK, Room
  <1>3. lists' = Append(lists, a)
    BY DEF WithList
  <1> HIDE DEF a
  <1>4. /\ lists' \in Seq(List) /\ Len(lists') = Len(lists) + 1
        /\ \A i \in 1..Len(lists) : lists'[i] = lists[i]
        /\ lists'[Len(lists) + 1] = a
    BY <1>1, <1>2, <1>3, AppendProperties
  <1>5. Len(lists') <= MaxLists
    BY <1>2, <1>4, BoundAssumption
  <1>6. ASSUME NEW i \in 1..Len(lists') PROVE Len(lists'[i].rows) <= Shown
    <2>1. i \in 1..Len(lists) \/ i = Len(lists) + 1
      BY <1>2, <1>4
    <2>2. QED
      BY <1>1, <1>4, <2>1 DEF FeedTyped
  <1>7. QED
    BY <1>4, <1>5, <1>6

LEMMA FeedTypedStep ==
  ASSUME FeedTyped,
         \/ \E n \in Network : Packet(n)
         \/ \E t \in Threads : HandlePacket(t) \/ SniffFails(t)
         \/ \E i \in DOMAIN lists : ApiEvents(i) \/ ShowTable(i)
         \/ Refresh \/ (\E net \in Tab : SelectTab(net))
         \/ FeedRestart
  PROVE  FeedTyped'
  <1>0. /\ sniffers \subseteq Threads
        /\ seen \in [Network -> 0..MaxPackets] /\ done \in [Threads -> 0..MaxPackets]
        /\ EVENTS \in Seq(Event) /\ Len(EVENTS) <= MaxLen
        /\ last \in [Network -> 0..MaxPackets] /\ since \in [Network -> 0..MaxLen]
        /\ tab \in Tab /\ table \in Seq(Event) /\ Len(table) <= Shown
        /\ lists \in Seq(List) /\ Len(lists) <= MaxLists
        /\ MaxPackets \in Nat /\ MaxLen \in Nat /\ MaxLists \in Nat /\ Len(lists) \in Nat
        /\ DOMAIN lists = 1..Len(lists)
        /\ \A i \in 1..Len(lists) : lists[i] \in List /\ Len(lists[i].rows) <= Shown
    BY RingAssumption, BoundAssumption DEF FeedTyped, FeedTypeOK
  <1>1. ASSUME NEW n \in Network, Packet(n) PROVE FeedTyped'
    <2>1. seen' \in [Network -> 0..MaxPackets]
      BY <1>0, <1>1 DEF Packet
    <2>2. QED
      BY <1>0, <1>1, <2>1 DEF Packet, tableVars, FeedTyped, FeedTypeOK
  <1>2. ASSUME NEW t \in Threads, HandlePacket(t) PROVE FeedTyped'
    <2> DEFINE n == t[1]
               k == done[t] + 1
    <2>1. n \in Network /\ k \in 1..MaxPackets /\ k \in 0..MaxPackets
      <3>1. n \in Network
        BY DEF Threads
      <3>2. done[t] \in 0..MaxPackets /\ seen[n] \in 0..MaxPackets /\ done[t] < seen[n]
        BY <1>0, <1>2, <3>1 DEF HandlePacket
      <3>3. QED
        BY <1>0, <3>1, <3>2
    <2>2. <<n, k>> \in Event
      BY <2>1 DEF Event
    <2>3. EVENTS' \in Seq(Event) /\ Len(EVENTS') <= MaxLen
      BY <1>0, <1>2, <2>2, Pushed DEF HandlePacket
    <2>4. done' \in [Threads -> 0..MaxPackets] /\ last' \in [Network -> 0..MaxPackets]
      BY <1>0, <1>2, <2>1 DEF HandlePacket
    <2>5. since' \in [Network -> 0..MaxLen]
      <3>1. since' = [m \in Network |-> IF m = n THEN 0
                        ELSE IF since[m] < MaxLen THEN since[m] + 1 ELSE MaxLen]
        BY <1>2 DEF HandlePacket
      <3>2. \A m \in Network : since[m] \in Nat
        BY <1>0
      <3>3. QED
        BY <1>0, <3>1, <3>2
    <2>6. QED
      BY <1>0, <1>2, <2>3, <2>4, <2>5 DEF HandlePacket, tableVars, FeedTyped, FeedTypeOK
  <1>3. ASSUME NEW t \in Threads, SniffFails(t) PROVE FeedTyped'
    <2>1. seen[t[1]] \in 0..MaxPackets
      BY <1>0 DEF Threads
    <2>2. done' \in [Threads -> 0..MaxPackets]
      BY <1>0, <1>3, <2>1 DEF SniffFails
    <2>3. QED
      BY <1>0, <1>3, <2>2 DEF SniffFails, tableVars, FeedTyped, FeedTypeOK
  <1>4. ASSUME NEW i \in 1..Len(lists), ApiEvents(i) PROVE FeedTyped'
    <2> DEFINE rows == View(lists[i].net)
               a == [lists[i] EXCEPT !.answered = TRUE, !.rows = rows]
    <2>1. rows \in Seq(Event) /\ Len(rows) <= Shown
      BY <1>0, Viewed
    <2> HIDE DEF rows
    <2>2. a \in List /\ a.rows = rows
      BY <1>0, <2>1 DEF List
    <2>3. lists' = [lists EXCEPT ![i] = a]
      BY <1>4 DEF ApiEvents, rows
    <2> HIDE DEF a
    <2>4. /\ lists' \in Seq(List) /\ Len(lists') = Len(lists)
          /\ \A j \in 1..Len(lists) : lists'[j] = IF j = i THEN a ELSE lists[j]
      BY <1>0, <2>2, <2>3, ExceptSeq
    <2>5. \A j \in 1..Len(lists') : Len(lists'[j].rows) <= Shown
      BY <1>0, <2>1, <2>2, <2>4
    <2>6. QED
      BY <1>0, <1>4, <2>4, <2>5 DEF ApiEvents, captureVars, FeedTyped, FeedTypeOK
  <1>5. ASSUME NEW i \in 1..Len(lists), ShowTable(i) PROVE FeedTyped'
    <2> DEFINE rest == RemoveAt(lists, i)
    <2>1. /\ rest \in Seq(List) /\ Len(rest) = Len(lists) - 1
          /\ \A j \in 1..(Len(lists) - 1) : rest[j] = IF j < i THEN lists[j] ELSE lists[j + 1]
      BY <1>0, Removed
    <2>2. lists' = rest /\ table' = lists[i].rows /\ UNCHANGED <<captureVars, tab>>
      BY <1>5 DEF ShowTable
    <2> HIDE DEF rest
    <2>3. Len(lists') <= MaxLists
      BY <1>0, <2>1, <2>2
    <2>4. ASSUME NEW j \in 1..Len(lists') PROVE Len(lists'[j].rows) <= Shown
      <3>1. j \in 1..(Len(lists) - 1) /\ j \in 1..Len(lists) /\ j + 1 \in 1..Len(lists)
        BY <1>0, <2>1, <2>2
      <3>2. QED
        BY <1>0, <2>1, <2>2, <3>1
    <2>5. table' \in Seq(Event) /\ Len(table') <= Shown
      BY <1>0, <2>2 DEF List
    <2>6. QED
      BY <1>0, <2>1, <2>2, <2>3, <2>4, <2>5 DEF captureVars, FeedTyped, FeedTypeOK
  <1>6. CASE Refresh \/ \E net \in Tab : SelectTab(net)
    <2>1. \E net \in Tab : Room /\ lists' = WithList(net) /\ tab' \in Tab /\ UNCHANGED <<captureVars, table>>
      BY <1>0, <1>6 DEF Refresh, SelectTab
    <2>2. /\ lists' \in Seq(List) /\ Len(lists') <= MaxLists
          /\ \A i \in 1..Len(lists') : Len(lists'[i].rows) <= Shown
      BY <2>1, ListedTyped
    <2>3. QED
      BY <1>0, <2>1, <2>2 DEF captureVars, FeedTyped, FeedTypeOK
  <1>7. CASE FeedRestart
    <2>1. sniffers' = Network \X {1} /\ sniffers' \subseteq Threads
      BY <1>7 DEF FeedRestart, StartSniffers, Threads
    <2>2. done' \in [Threads -> 0..MaxPackets]
      <3>1. \A t \in Threads : seen[t[1]] \in 0..MaxPackets
        BY <1>0 DEF Threads
      <3>2. QED
        BY <1>0, <1>7, <3>1 DEF FeedRestart
    <2>3. QED
      BY <1>0, <1>7, <2>1, <2>2, EmptySeq DEF FeedRestart, FeedTyped, FeedTypeOK
  <1>8. QED
    BY <1>0, <1>1, <1>2, <1>3, <1>4, <1>5, <1>6, <1>7

-----------------------------------------------------------------------------
(* The whole                                                                *)

LEMMA Inductive == Spec => [](PanelInv /\ FeedInv /\ Placed)
  <1>1. Init => PanelInv /\ FeedInv /\ Placed
    BY PanelInit1, FeedInit1, PlacedInit DEF Init
  <1>2. ASSUME PanelInv, FeedInv, Placed, [Next]_vars PROVE PanelInv' /\ FeedInv' /\ Placed'
    <2>1. PanelInv'
      <3>1. CASE UNCHANGED panelVars
        BY <3>1, <1>2 DEF panelVars, PanelInv
      <3>2. CASE ~UNCHANGED panelVars
        BY <3>2, <1>2, PanelStep
           DEF Next, vars, Traffic, Element, Handle, Serve, Arrive, Poll, Answer, Deliver, Restart
      <3>3. QED
        BY <3>1, <3>2
    <2>2. FeedInv' /\ Placed'
      <3>1. UNCHANGED captureVars \/ Traffic(\E n \in Network : Packet(n))
            \/ (\E t \in Threads : HandlePacket(t) \/ SniffFails(t)) \/ FeedRestart
        BY <1>2
           DEF Next, vars, feedVars, Traffic, Element, Handle, Serve, Arrive, Poll, Answer,
               Deliver, Restart, ApiEvents, ShowTable, Refresh, SelectTab
      <3>2. QED
        BY <3>1, <1>2, FeedStep, PlacedStep DEF Traffic
    <2>3. QED
      BY <2>1, <2>2
  <1>3. QED
    BY <1>1, <1>2, PTL DEF Spec

\* Both views stay within their types and their lengths: the ring, the answers, the table
\* and the requests, whatever the sizes are.
THEOREM TypeCorrect == Spec => []TypeOK
  <1> DEFINE Typed1 == PanelTyped /\ FeedTyped /\ use \in {"traffic", "element"}
  <1>1. Init => Typed1
    BY PanelTypedInit, FeedTypedInit DEF Init
  <1>2. ASSUME Typed1, [Next]_vars PROVE Typed1'
    <2>1. PanelTyped'
      <3>1. CASE UNCHANGED panelVars
        BY <3>1, <1>2 DEF panelVars, PanelTyped, PanelTypeOK
      <3>2. CASE ~UNCHANGED panelVars
        BY <3>2, <1>2, PanelTypedStep
           DEF Next, vars, Traffic, Element, Handle, Serve, Arrive, Poll, Answer, Deliver, Restart
      <3>3. QED
        BY <3>1, <3>2
    <2>2. FeedTyped'
      <3>1. CASE UNCHANGED feedVars
        BY <3>1, <1>2 DEF feedVars, captureVars, tableVars, FeedTyped, FeedTypeOK
      <3>2. CASE ~UNCHANGED feedVars
        BY <3>2, <1>2, FeedTypedStep
           DEF Next, vars, Traffic, Element, Handle, Serve, Arrive, Poll, Answer, Deliver, Restart
      <3>3. QED
        BY <3>1, <3>2
    <2>3. use' = use
      BY <1>2 DEF Next, vars, Traffic, Element, Handle, Serve, Arrive, Poll, Answer, Deliver, Restart
    <2>4. QED
      BY <1>2, <2>1, <2>2, <2>3
  <1>3. Typed1 => TypeOK
    BY DEF PanelTyped, FeedTyped, TypeOK
  <1>4. QED
    BY <1>1, <1>2, <1>3, PTL DEF Spec

\* The newest packet of a network heads its tab until MaxLen others have pushed it out of
\* the ring, for every length of ring and answer: the answer is cut after the filter.
THEOREM QuietShown == Spec => []QuietVisible
  <1>1. ASSUME FeedInv, Placed PROVE QuietVisible
    <2>1. ASSUME NEW n \in Network, last[n] > 0, since[n] < MaxLen
          PROVE  View(n) # <<>> /\ Head(View(n)) = <<n, last[n]>>
      <3> DEFINE p == since[n] + 1
      <3>1. /\ since[n] \in Nat /\ since[n] < Len(EVENTS) /\ EVENTS[p] = <<n, last[n]>>
            /\ \A i \in 1..since[n] : EVENTS[i][1] # n
        BY <1>1, <2>1 DEF Placed
      <3>2. EVENTS \in Seq(Network \X Nat) /\ Len(EVENTS) \in Nat
        BY <1>1 DEF FeedInv
      <3>3. p \in 1..Len(EVENTS) /\ p - 1 = since[n]
        BY <3>1, <3>2
      <3>4. Matches(n, EVENTS[p]) /\ \A i \in 1..(p - 1) : ~Matches(n, EVENTS[i])
        BY <3>1, <3>3, NetworkAssumption DEF Matches
      <3> HIDE DEF p
      <3>5. QED
        BY <3>1, <3>2, <3>3, <3>4, Viewed
    <2>2. QED
      BY <2>1 DEF QuietVisible
  <1>2. QED
    BY <1>1, Inductive, PTL

\* The ring of the traffic view keeps each network in the order of its stamps and holds
\* no packet twice, for any number of networks and any length of the ring.
THEOREM Ordered == Spec => []NewestFirst
  <1>1. FeedInv => NewestFirst
    <2>1. FeedInv => DOMAIN EVENTS = 1..Len(EVENTS)
      BY DEF FeedInv
    <2>2. QED
      BY <2>1 DEF FeedInv, NewestFirst
  <1>2. QED
    BY <1>1, Inductive, PTL

\* What the page shows for an element is the device's value unless something it
\* could notice, or another writer, made it doubtful.
THEOREM ShowsDevice == Spec => []ShownTrue
  <1>1. PanelInv => ShownTrue
    BY DEF PanelInv, ShownTrue
  <1>2. QED
    BY <1>1, Inductive, PTL

\* A write the API reports as done was carried out with the value sent.
THEOREM ReportsTruly == Spec => []OkMeansWritten
  <1>1. PanelInv => OkMeansWritten
    BY DEF PanelInv, OkMeansWritten, Fits
  <1>2. QED
    BY <1>1, Inductive, PTL
=============================================================================
