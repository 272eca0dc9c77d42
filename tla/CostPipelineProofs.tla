------------------------ MODULE CostPipelineProofs ------------------------
(***************************************************************************)
(* Theorems about the way of a cost record: the stream, the gateway's      *)
(* recorder with its spool, the workers behind the stream, and the whole,  *)
(* for every set of requests, workers and names and every bound; about the *)
(* cached policies that a request on this way is checked against; and      *)
(* about the other worker, which turns events into mails.                  *)
(***************************************************************************)
EXTENDS CostPipeline, PolicyCaches, Notification, SequenceTheorems, FiniteSetTheorems, TLAPS

---------------------------------------------------------------------------
(* The stream: what its commands do to a well-formed one.                  *)

\* The ids of the stream are finite, and so is every batch of them.
LEMMA IdsFinite ==
  ASSUME StreamTypeOK, NEW S \in SUBSET Ids
  PROVE  IsFiniteSet(S) /\ Cardinality(S) \in Nat
<1>1. Len(stream) \in Nat
  BY DEF StreamTypeOK
<1>2. IsFiniteSet(Ids)
  BY <1>1, FS_Interval DEF Ids
<1> QED
  BY <1>2, FS_Subset, FS_CardinalityType

\* XADD keeps the stream well formed and every entry where it is.
LEMMA XAddFacts ==
  ASSUME StreamTypeOK, NEW r \in Requests, XAdd(r)
  PROVE  /\ StreamTypeOK'
         /\ Ids \subseteq Ids'
         /\ \A i \in Ids : stream'[i] = stream[i]
         /\ trimmed' >= trimmed
         /\ UNCHANGED <<delivered, pel, acked>>
<1>1. /\ stream' \in Seq(Requests)
      /\ Len(stream') = Len(stream) + 1
      /\ \A i \in 1..Len(stream) : stream'[i] = stream[i]
      /\ Len(stream) \in Nat
  BY DEF XAdd, StreamTypeOK
<1>2. trimmed' \in 0..Len(stream') /\ trimmed' >= trimmed
  BY <1>1 DEF XAdd, StreamTypeOK
<1>3. 1..Len(stream) \subseteq 1..Len(stream')
  BY <1>1
<1>4. UNCHANGED <<delivered, pel, acked>>
  BY DEF XAdd
<1>5. delivered' \in 0..Len(stream') /\ acked' \subseteq 1..Len(stream')
  BY <1>1, <1>3, <1>4 DEF StreamTypeOK
<1>6. pel' \in [Names -> SUBSET (1..Len(stream'))]
  BY <1>3, <1>4 DEF StreamTypeOK
<1> QED
  BY <1>1, <1>2, <1>3, <1>4, <1>5, <1>6 DEF StreamTypeOK, Ids

\* XREADGROUP ">" hands out ids of the stream, all above what it handed out.
LEMMA XReadNewFacts ==
  ASSUME StreamTypeOK, NEW n \in Names, NEW count \in Nat, XReadNew(n, count)
  PROVE  /\ StreamTypeOK'
         /\ NewIds(count) \subseteq Ids
         /\ \A i \in NewIds(count) : i > delivered /\ i <= delivered'
         /\ delivered' >= delivered
<1>1. Horizon \in 0..Len(stream) /\ Horizon >= delivered
  BY DEF Horizon, StreamTypeOK
<1>2. LastNew(count) \in 0..Len(stream) /\ LastNew(count) >= Horizon
  BY <1>1 DEF LastNew, StreamTypeOK
<1>3. NewIds(count) \subseteq 1..Len(stream)
  BY <1>1, <1>2 DEF NewIds
<1>4. pel' \in [Names -> SUBSET (1..Len(stream))]
  BY <1>3 DEF XReadNew, StreamTypeOK
<1>5. delivered' = LastNew(count) /\ UNCHANGED <<stream, trimmed, acked>>
  BY DEF XReadNew
<1> QED
  BY <1>1, <1>2, <1>3, <1>4, <1>5 DEF StreamTypeOK, Ids, NewIds

LEMMA XAckFacts ==
  ASSUME StreamTypeOK, NEW S \in SUBSET Ids, XAck(S)
  PROVE  StreamTypeOK' /\ UNCHANGED <<stream, trimmed, delivered>>
BY DEF StreamTypeOK, XAck, Ids

---------------------------------------------------------------------------
(* The recorder, for every set of requests, every size of the spool and    *)
(* every bound on faults and exits.                                        *)

\* What a sequence contains after each of the operations the spool uses.
LEMMA RangeDef ==
  ASSUME NEW S, NEW s \in Seq(S)
  PROVE  /\ Range(s) = {s[i] : i \in 1..Len(s)}
         /\ Range(s) \subseteq S
BY DEF Range

LEMMA ConcatFacts ==
  ASSUME NEW S, NEW s \in Seq(S), NEW t \in Seq(S)
  PROVE  /\ s \o t \in Seq(S)
         /\ Len(s \o t) = Len(s) + Len(t)
         /\ Range(s \o t) = Range(s) \cup Range(t)
<1> DEFINE u == s \o t
<1>1. /\ u \in Seq(S)
      /\ Len(u) = Len(s) + Len(t)
      /\ \A i \in 1..Len(u) :
           u[i] = IF i <= Len(s) THEN s[i] ELSE t[i - Len(s)]
      /\ Len(s) \in Nat /\ Len(t) \in Nat
  BY ConcatProperties, LenProperties
<1> HIDE DEF u
<1>2. /\ Range(s) = {s[i] : i \in 1..Len(s)}
      /\ Range(t) = {t[i] : i \in 1..Len(t)}
      /\ Range(u) = {u[i] : i \in 1..Len(u)}
  BY <1>1, RangeDef
<1>3. \A i \in 1..Len(s) : i \in 1..Len(u) /\ u[i] = s[i]
  BY <1>1
<1>4. ASSUME NEW i \in 1..Len(t)
      PROVE  i + Len(s) \in 1..Len(u) /\ u[i + Len(s)] = t[i]
  <2>1. /\ i \in Int /\ 1 <= i /\ i <= Len(t)
        /\ i + Len(s) \in 1..Len(u)
        /\ ~ (i + Len(s) <= Len(s))
        /\ (i + Len(s)) - Len(s) = i
    BY <1>1
  <2> DEFINE k == i + Len(s)
  <2>2. u[k] = t[k - Len(s)]
    BY <1>1, <2>1
  <2> QED
    BY <2>1, <2>2
<1>5. \A i \in 1..Len(u) :
        \/ u[i] = s[i] /\ i \in 1..Len(s)
        \/ \E j \in 1..Len(t) : u[i] = t[j]
  BY <1>1
<1>6. Range(u) = Range(s) \cup Range(t)
  BY <1>2, <1>3, <1>4, <1>5
<1> QED
  BY <1>1, <1>6 DEF u

LEMMA SingleFacts ==
  ASSUME NEW S, NEW s \in Seq(S), Len(s) <= 1, s # <<>>
  PROVE  /\ Len(s) = 1
         /\ Head(s) \in S
         /\ s = <<Head(s)>>
         /\ Range(s) = {Head(s)}
<1>1. Len(s) = 1
  <2>1. Len(s) \in Nat \ {0}
    BY EmptySeq
  <2> QED
    BY SMTT(30), <2>1
<1>2. Head(s) \in S /\ Head(s) = s[1]
  BY <1>1
<1>3. <<Head(s)>> \in Seq(S) /\ Len(<<Head(s)>>) = 1 /\ <<Head(s)>>[1] = s[1]
  BY <1>2
<1>4. s = <<Head(s)>>
  BY <1>1, <1>3, SeqEqual
<1>5. Range(s) = {Head(s)}
  BY <1>1, <1>2, RangeDef
<1> QED
  BY <1>1, <1>2, <1>4, <1>5

LEMMA PopFacts ==
  ASSUME NEW S, NEW s \in Seq(S), s # <<>>
  PROVE  /\ Head(s) \in S
         /\ Tail(s) \in Seq(S)
         /\ Len(Tail(s)) = Len(s) - 1
         /\ <<Head(s)>> \o Tail(s) = s
<1>1. /\ Head(s) \in S /\ Tail(s) \in Seq(S) /\ Len(Tail(s)) = Len(s) - 1
      /\ \A i \in 1..Len(Tail(s)) : Tail(s)[i] = s[i + 1]
      /\ Len(s) \in Nat \ {0}
  BY HeadTailProperties, EmptySeq
<1>2. /\ <<Head(s)>> \o Tail(s) \in Seq(S)
      /\ Len(<<Head(s)>> \o Tail(s)) = Len(s)
      /\ \A i \in 1..Len(s) : (<<Head(s)>> \o Tail(s))[i] = s[i]
  BY <1>1
<1> QED
  BY <1>1, <1>2, SeqEqual

LEMMA PushFacts ==
  ASSUME NEW S, NEW s \in Seq(S), NEW x \in S
  PROVE  /\ <<x>> \o s \in Seq(S)
         /\ <<x>> \o s # <<>>
         /\ Head(<<x>> \o s) = x
         /\ Tail(<<x>> \o s) = s
<1> DEFINE u == <<x>> \o s
<1>1. /\ u \in Seq(S) /\ Len(u) = Len(s) + 1 /\ Len(s) \in Nat
      /\ u[1] = x
      /\ \A i \in 1..Len(s) : u[i + 1] = s[i]
  OBVIOUS
<1> HIDE DEF u
<1>2. u # <<>>
  BY <1>1
<1>3. Head(u) = x
  BY <1>1, <1>2
<1>4. /\ Tail(u) \in Seq(S) /\ Len(Tail(u)) = Len(s)
      /\ \A i \in 1..Len(s) : Tail(u)[i] = s[i]
  BY <1>1, <1>2, HeadTailProperties
<1>5. Tail(u) = s
  BY <1>4, SeqEqual
<1> QED
  BY <1>1, <1>2, <1>3, <1>5 DEF u

\* Dropping the n oldest of the spool and appending r, seen behind what is held.
LEMMA AcceptShape ==
  ASSUME held \in Seq(Requests), spool \in Seq(Requests),
         NEW n \in 0..Len(spool), NEW r \in Requests
  PROVE  LET kept == Append(SubSeq(spool, n + 1, Len(spool)), r)
         IN /\ kept \in Seq(Requests)
            /\ Len(kept) = Len(spool) - n + 1
            /\ held \o kept = Append(SubSeq(Waiting, 1, Len(held))
                   \o SubSeq(Waiting, Len(held) + n + 1, Len(Waiting)), r)
<1> DEFINE q == Waiting
           tl == SubSeq(spool, n + 1, Len(spool))
           a == SubSeq(q, 1, Len(held))
           b == SubSeq(q, Len(held) + n + 1, Len(q))
<1>1. Len(held) \in Nat /\ Len(spool) \in Nat /\ n \in Nat /\ n <= Len(spool)
  <2>1. Len(held) \in Nat /\ Len(spool) \in Nat
    BY LenProperties
  <2> QED
    BY <2>1
<1>2. /\ q \in Seq(Requests) /\ Len(q) = Len(held) + Len(spool)
      /\ \A i \in 1..Len(q) :
           q[i] = IF i <= Len(held) THEN held[i] ELSE spool[i - Len(held)]
  BY <1>1, ConcatProperties DEF Waiting
<1> HIDE DEF q
<1>3. /\ tl \in Seq(Requests) /\ Len(tl) = Len(spool) - n
      /\ \A i \in 1..Len(spool) - n : tl[i] = spool[n + i]
  BY <1>1
<1>4. /\ a \in Seq(Requests) /\ Len(a) = Len(held)
      /\ \A i \in 1..Len(held) : a[i] = held[i]
  BY <1>1, <1>2
<1>5. /\ b \in Seq(Requests) /\ Len(b) = Len(spool) - n
      /\ \A i \in 1..Len(spool) - n : b[i] = spool[n + i]
  <2>1. \A i \in Len(held) + n + 1 .. Len(q) : q[i] \in Requests
    BY <1>1, <1>2
  <2>2. /\ b \in Seq(Requests)
        /\ Len(b) = IF Len(held) + n + 1 <= Len(q)
                    THEN Len(q) - (Len(held) + n + 1) + 1 ELSE 0
        /\ \A i \in 1 .. Len(q) - (Len(held) + n + 1) + 1 :
             b[i] = q[Len(held) + n + 1 + i - 1]
    BY <1>1, <1>2, <2>1, SubSeqProperties
  <2>3. Len(q) - (Len(held) + n + 1) + 1 = Len(spool) - n
    BY <1>1, <1>2
  <2>4. Len(b) = Len(spool) - n
    BY <1>1, <1>2, <2>2
  <2>5. ASSUME NEW i \in 1..Len(spool) - n
        PROVE  b[i] = spool[n + i]
    <3>1. b[i] = q[Len(held) + n + 1 + i - 1]
      BY <2>2, <2>3
    <3>2. Len(held) + n + 1 + i - 1 = Len(held) + n + i
      BY <1>1
    <3>3. q[Len(held) + n + i] = spool[n + i]
      BY <1>1, <1>2
    <3> QED
      BY <3>1, <3>2, <3>3
  <2> QED
    BY <2>2, <2>4, <2>5
<1> HIDE DEF tl, a, b
<1>6. tl = b
  BY <1>3, <1>5, SeqEqual
<1>7. a = held
  BY <1>4, SeqEqual
<1>8. held \o Append(tl, r) = Append(held \o tl, r)
  <2>1. tl \in Seq(Requests) /\ held \o tl \in Seq(Requests) /\ <<r>> \in Seq(Requests)
    BY <1>3, ConcatProperties
  <2>2. /\ Append(tl, r) = tl \o <<r>>
        /\ Append(held \o tl, r) = (held \o tl) \o <<r>>
    BY <2>1, AppendIsConcat
  <2> QED
    BY <2>1, <2>2, ConcatAssociative
<1>9. Append(tl, r) \in Seq(Requests) /\ Len(Append(tl, r)) = Len(spool) - n + 1
  BY <1>3, AppendProperties
<1>10. held \o Append(tl, r) = Append(a \o b, r)
  BY <1>6, <1>7, <1>8
<1> QED
  BY <1>9, <1>10 DEF tl, a, b, q
---------------------------------------------------------------------------
RecorderTI == StreamTypeOK /\ RecorderTypeOK

LEMMA WaitingFacts ==
  ASSUME RecorderTypeOK
  PROVE  /\ Waiting \in Seq(Requests)
         /\ Len(Waiting) = Len(held) + Len(spool)
         /\ Range(Waiting) = Range(held) \cup Range(spool)
         /\ Range(Waiting) \subseteq Requests
         /\ Len(held) \in Nat /\ Len(held) <= 1 /\ Len(spool) \in Nat
<1>1. held \in Seq(Requests) /\ spool \in Seq(Requests) /\ Len(held) <= 1
  BY DEF RecorderTypeOK
<1>2. Len(held) \in Nat /\ Len(spool) \in Nat
  BY <1>1, LenProperties
<1>3. /\ Waiting \in Seq(Requests)
      /\ Len(Waiting) = Len(held) + Len(spool)
      /\ Range(Waiting) = Range(held) \cup Range(spool)
  BY <1>1, ConcatFacts DEF Waiting
<1>4. Range(Waiting) \subseteq Requests
  BY <1>3, RangeDef
<1> QED
  BY <1>1, <1>2, <1>3, <1>4

LEMMA XAddRange ==
  ASSUME StreamTypeOK, NEW r \in Requests, XAdd(r)
  PROVE  Range(stream') = Range(stream) \cup {r}
<1>1. stream \in Seq(Requests) /\ stream' = Append(stream, r)
  BY DEF StreamTypeOK, XAdd
<1>2. /\ stream' \in Seq(Requests)
      /\ Len(stream') = Len(stream) + 1 /\ Len(stream) \in Nat
      /\ \A i \in 1..Len(stream) : stream'[i] = stream[i]
      /\ stream'[Len(stream) + 1] = r
  <2>1. Len(stream) \in Nat /\ Len(stream) + 1 \in 1..Len(stream) + 1
    BY <1>1
  <2>2. Append(stream, r)[Len(stream) + 1] = r
    BY <1>1, <2>1
  <2>3. \A i \in 1..Len(stream) : Append(stream, r)[i] = stream[i]
    BY <1>1
  <2> QED
    BY <1>1, <2>1, <2>2, <2>3
<1>3. /\ Range(stream) = {stream[i] : i \in 1..Len(stream)}
      /\ Range(stream') = {stream'[i] : i \in 1..Len(stream')}
  <2>1. stream \in Seq(Requests) /\ stream' \in Seq(Requests)
    BY <1>1, <1>2
  <2>2. Range(stream) = {stream[i] : i \in 1..Len(stream)}
    BY <2>1, RangeDef
  <2>3. Range(stream') = {stream'[i] : i \in 1..Len(stream')}
    BY <2>1, RangeDef
  <2> QED
    BY <2>2, <2>3
<1>4. ASSUME NEW x \in Range(stream')
      PROVE  x \in Range(stream) \cup {r}
  <2>1. PICK i \in 1..Len(stream') : x = stream'[i]
    BY <1>3
  <2>2. i \in 1..Len(stream) \/ i = Len(stream) + 1
    BY <1>2
  <2> QED
    BY <1>2, <1>3, <2>1, <2>2
<1>5. ASSUME NEW x \in Range(stream)
      PROVE  x \in Range(stream')
  <2>1. PICK i \in 1..Len(stream) : x = stream[i]
    BY <1>3
  <2>2. i \in 1..Len(stream') /\ x = stream'[i]
    BY <1>2, <2>1
  <2> QED
    BY <1>3, <2>2
<1>6. r \in Range(stream')
  <2>1. Len(stream) + 1 \in 1..Len(stream')
    BY <1>2
  <2> QED
    BY <1>2, <1>3, <2>1
<1> QED
  BY <1>4, <1>5, <1>6

\* Enqueue beside whatever a drain holds: the spool is within its bound again,
\* and what is no longer in it has been evicted.
LEMMA EnqueueFacts ==
  ASSUME RecorderTypeOK, NEW r \in Requests, Enqueue(r), held' = held
  PROVE  LET n == Overflow
         IN /\ n \in 0..Len(spool) /\ (n > 0 => Len(spool) >= SpoolMax)
            /\ spool' \in Seq(Requests)
            /\ Len(spool') <= SpoolMax
            /\ Waiting' = Append(SubSeq(Waiting, 1, Len(held))
                             \o SubSeq(Waiting, Len(held) + n + 1, Len(Waiting)), r)
            /\ evicted' = evicted
                 \cup {Waiting[i] : i \in Len(held) + 1 .. Len(held) + n}
            /\ evicted' \subseteq Requests
<1>1. /\ held \in Seq(Requests) /\ spool \in Seq(Requests)
      /\ Len(spool) \in Nat /\ SpoolMax \in Nat \ {0}
  BY RecorderAssumption DEF RecorderTypeOK
<1>2. /\ Overflow \in 0..Len(spool)
      /\ Overflow > 0 => Len(spool) >= SpoolMax
      /\ Len(spool) - Overflow + 1 <= SpoolMax
  BY <1>1 DEF Overflow
<1>3. /\ spool' = Append(SubSeq(spool, Overflow + 1, Len(spool)), r)
      /\ evicted' = evicted \cup {spool[i] : i \in 1..Overflow}
  BY DEF Enqueue
<1>4. /\ spool' \in Seq(Requests)
      /\ Len(spool') = Len(spool) - Overflow + 1
      /\ held \o spool' = Append(SubSeq(Waiting, 1, Len(held))
           \o SubSeq(Waiting, Len(held) + Overflow + 1, Len(Waiting)), r)
  BY <1>1, <1>2, <1>3, AcceptShape
<1>5. Waiting = held \o spool /\ Waiting' = held \o spool'
  BY DEF Waiting
<1>9. {spool[i] : i \in 1..Overflow}
        = {Waiting[i] : i \in Len(held) + 1 .. Len(held) + Overflow}
  <2> DEFINE n == Overflow
             h == Len(held)
             q == Waiting
  <2>a. h \in Nat /\ n \in 0..Len(spool) /\ Len(spool) \in Nat
    BY <1>1, <1>2
  <2>b. \A i \in 1..h + Len(spool) : q[i] = IF i <= h THEN held[i] ELSE spool[i - h]
    BY <1>1, <1>5, ConcatProperties
  <2> HIDE DEF n, h, q
  <2>c. \A i \in 1..n : h + i \in h + 1 .. h + n /\ q[h + i] = spool[i]
    BY SMTT(30), <2>a, <2>b
  <2>d. \A i \in h + 1 .. h + n : i - h \in 1..n /\ q[i] = spool[i - h]
    BY <2>a, <2>b
  <2>1. ASSUME NEW y \in {spool[i] : i \in 1..Overflow}
        PROVE  y \in {Waiting[i] : i \in Len(held) + 1 .. Len(held) + Overflow}
    BY <2>c DEF n, h, q
  <2>2. ASSUME NEW y \in {Waiting[i] : i \in Len(held) + 1 .. Len(held) + Overflow}
        PROVE  y \in {spool[i] : i \in 1..Overflow}
    BY <2>d DEF n, h, q
  <2> QED
    BY <2>1, <2>2
<1>6. {spool[i] : i \in 1..Overflow}
        = {Waiting[i] : i \in Len(held) + 1 .. Len(held) + Overflow}
  <2> DEFINE n == Overflow
             h == Len(held)
             q == Waiting
  <2>1. h \in Nat /\ n \in 0..Len(spool) /\ Len(spool) \in Nat
    BY <1>1, <1>2
  <2>2. \A i \in 1..h + Len(spool) :
          q[i] = IF i <= h THEN held[i] ELSE spool[i - h]
    BY <1>1, <1>5, ConcatProperties
  <2> HIDE DEF n, h, q
  <2>3. ASSUME NEW i \in 1..n
        PROVE  h + i \in h + 1 .. h + n /\ q[h + i] = spool[i]
    <3>1. /\ h + i \in h + 1 .. h + n /\ h + i \in 1..h + Len(spool)
          /\ ~(h + i <= h) /\ (h + i) - h = i
      BY <2>1
    <3>2. QED
      BY <2>2, <3>1
  <2>4. ASSUME NEW i \in h + 1 .. h + n
        PROVE  i - h \in 1..n /\ q[i] = spool[i - h]
    <3>1. i - h \in 1..n /\ i \in 1..h + Len(spool) /\ ~(i <= h)
      BY <2>1
    <3>2. QED
      BY <2>2, <3>1
  <2>5. ASSUME NEW y \in {spool[i] : i \in 1..Overflow}
        PROVE  y \in {Waiting[i] : i \in Len(held) + 1 .. Len(held) + Overflow}
    BY <2>3 DEF n, h, q
  <2>6. ASSUME NEW y \in {Waiting[i] : i \in Len(held) + 1 .. Len(held) + Overflow}
        PROVE  y \in {spool[i] : i \in 1..Overflow}
    BY <2>4 DEF n, h, q
  <2> QED
    BY <2>5, <2>6
<1>7. evicted' \subseteq Requests
  <2>1. \A i \in 1..Overflow : i \in 1..Len(spool)
    BY <1>1, <1>2
  <2>2. \A i \in 1..Len(spool) : spool[i] \in Requests
    BY <1>1
  <2>3. {spool[i] : i \in 1..Overflow} \subseteq Requests
    BY <2>1, <2>2
  <2> QED
    BY <1>3, <2>3 DEF RecorderTypeOK
<1>8. Len(spool') <= SpoolMax
  BY <1>2, <1>4
<1> QED
  BY <1>2, <1>3, <1>4, <1>5, <1>6, <1>7, <1>8

LEMMA PutBackFacts ==
  ASSUME RecorderTypeOK, PutBack
  PROVE  /\ Waiting' = Waiting
         /\ spool' \in Seq(Requests) /\ held' = <<>>
<1>1. spool' = held \o spool /\ held' = <<>>
  BY DEF PutBack
<1>2. held \o spool \in Seq(Requests)
  BY ConcatFacts DEF RecorderTypeOK
<1>3. <<>> \o (held \o spool) = held \o spool
  BY <1>2, ConcatEmptySeq
<1> QED
  BY <1>1, <1>2, <1>3 DEF Waiting
---------------------------------------------------------------------------
LEMMA RecorderTypeInit == RecorderInit => RecorderTI
BY RecorderAssumption, StreamAssumption, EmptySeq
DEF RecorderInit, StreamInit, RecorderTI, StreamTypeOK, RecorderTypeOK

\* Every step leaves the stream alone or appends one request to it.
LEMMA StreamStep ==
  ASSUME RecorderTI, RecorderNext
  PROVE  UNCHANGED streamVars \/ \E q \in Requests : XAdd(q)
<1>1. ASSUME held # <<>>
      PROVE  Head(held) \in Requests
  BY <1>1, SingleFacts DEF RecorderTI, RecorderTypeOK
<1> QED
  BY <1>1 DEF RecorderNext, StartXAdd, XAddOk, XAddFail, DrainPop, DrainOk,
    DrainFail, BeginShutdown, EndDrain, Exit, Restart

LEMMA StreamTypeStep ==
  ASSUME RecorderTI, RecorderNext
  PROVE  StreamTypeOK'
<1>1. CASE UNCHANGED streamVars
  BY <1>1 DEF RecorderTI, StreamTypeOK, streamVars
<1>2. ASSUME NEW q \in Requests, XAdd(q)
      PROVE  StreamTypeOK'
  BY <1>2, XAddFacts DEF RecorderTI
<1> QED
  BY <1>1, <1>2, StreamStep

LEMMA RecorderTypeStep ==
  ASSUME RecorderTI, RecorderNext
  PROVE  RecorderTypeOK'
<1> USE RecorderAssumption DEF RecorderTI, RecorderTypeOK
<1>1. ASSUME NEW r \in Requests, StartXAdd(r)
      PROVE  RecorderTypeOK'
  BY <1>1 DEF StartXAdd
<1>2. ASSUME NEW r \in Requests, XAddOk(r)
      PROVE  RecorderTypeOK'
  BY <1>2 DEF XAddOk
<1>3. ASSUME NEW r \in Requests, XAddFail(r)
      PROVE  RecorderTypeOK'
  <2>1. held' = held /\ UNCHANGED <<gateway, heldTries, lost, exits>>
    BY <1>3 DEF XAddFail
  <2>2. faults' \in 0..MaxFaults
    BY <1>3 DEF XAddFail
  <2>3. CASE tries[r] < Retries /\ UNCHANGED <<pc, spool, evicted>>
             /\ tries' = [tries EXCEPT ![r] = @ + 1]
    BY <2>1, <2>2, <2>3
  <2>4. CASE Enqueue(r) /\ pc' = [pc EXCEPT ![r] = "done"] /\ UNCHANGED tries
    <3>1. spool' \in Seq(Requests) /\ evicted' \subseteq Requests
      BY <2>1, <2>4, EnqueueFacts
    <3> QED
      BY <2>1, <2>2, <2>4, <3>1
  <2> QED
    BY <1>3, <2>3, <2>4 DEF XAddFail
<1>4. CASE DrainPop
  BY <1>4, PopFacts DEF DrainPop
<1>5. CASE DrainOk
  BY <1>5 DEF DrainOk
<1>6. CASE DrainFail
  <2>1. CASE UNCHANGED <<gateway, spool, held>> /\ heldTries < Retries
             /\ heldTries' = heldTries + 1
    BY <1>6, <2>1 DEF DrainFail
  <2>2. CASE PutBack /\ gateway' \in {gateway, "closing"} /\ UNCHANGED heldTries
    <3>1. spool' \in Seq(Requests) /\ held' \in Seq(Requests) /\ Len(held') = 0
      BY <2>2, PutBackFacts, EmptySeq
    <3> QED
      BY <1>6, <2>2, <3>1 DEF DrainFail
  <2> QED
    BY <1>6, <2>1, <2>2 DEF DrainFail
<1>7. CASE BeginShutdown
  <2>1. PutBack
    BY <1>7 DEF BeginShutdown
  <2>2. spool' \in Seq(Requests) /\ held' \in Seq(Requests) /\ Len(held') = 0
    BY <2>1, PutBackFacts, EmptySeq
  <2> QED
    BY <1>7, <2>2 DEF BeginShutdown
<1>8. CASE EndDrain
  BY <1>8 DEF EndDrain
<1>9. CASE Exit
  <2>1. InMemory \subseteq Requests
    BY WaitingFacts DEF InMemory
  <2> QED
    BY <1>9, <2>1, EmptySeq DEF Exit
<1>10. CASE Restart
  BY <1>10 DEF Restart
<1> QED
  BY <1>1, <1>2, <1>3, <1>4, <1>5, <1>6, <1>7, <1>8, <1>9, <1>10 DEF RecorderNext

LEMMA RecorderTINext == RecorderTI /\ [RecorderNext]_rvars => RecorderTI'
<1> SUFFICES ASSUME RecorderTI, [RecorderNext]_rvars PROVE RecorderTI'
  OBVIOUS
<1>1. CASE RecorderNext
  BY <1>1, StreamTypeStep, RecorderTypeStep DEF RecorderTI
<1>2. CASE UNCHANGED rvars
  BY <1>2 DEF rvars, streamVars, recorderVars, RecorderTI, StreamTypeOK, RecorderTypeOK
<1> QED
  BY <1>1, <1>2

(* The variables of the recorder keep their types (cost_recorder.py's XADD, *)
(* cost_stream_spool.py).                                                   *)
THEOREM RecorderTypeCorrect == RecorderSpec => []RecorderTypeOK
<1>1. RecorderSpec => []RecorderTI
  BY RecorderTypeInit, RecorderTINext, PTL DEF RecorderSpec
<1>2. RecorderTI => RecorderTypeOK
  BY DEF RecorderTI
<1> QED
  BY <1>1, <1>2, PTL
---------------------------------------------------------------------------
\* A step leaves what waits alone, spools one more payload, publishes the head
\* of what waits, or ends the process.
Quiet ==
  /\ Waiting' = Waiting /\ held' \in Seq(Requests)
  /\ UNCHANGED <<evicted, lost>>
  /\ \A r \in Requests :
       /\ pc[r] = "done" => pc'[r] = "done"
       /\ pc'[r] = "done" => pc[r] = "done" \/ r \in Range(stream')

Spooled(r) ==
  /\ pc[r] = "xadd" /\ pc' = [pc EXCEPT ![r] = "done"]
  /\ Enqueue(r)
  /\ XAdd(r) \/ UNCHANGED streamVars
  /\ UNCHANGED <<held, lost>>

LEMMA StepCases ==
  ASSUME RecorderTI, RecorderNext
  PROVE  Quiet \/ (\E r \in Requests : Spooled(r)) \/ DrainOk \/ Exit
<1> USE DEF Quiet, RecorderTI, RecorderTypeOK
<1>1. ASSUME NEW r \in Requests, StartXAdd(r)
      PROVE  Quiet
  BY <1>1 DEF StartXAdd, Waiting
<1>2. ASSUME NEW r \in Requests, XAddOk(r)
      PROVE  Quiet
  <2>1. r \in Range(stream')
    BY <1>2, XAddRange DEF XAddOk
  <2> QED
    BY <1>2, <2>1 DEF XAddOk, Waiting
<1>3. ASSUME NEW r \in Requests, XAddFail(r)
      PROVE  Quiet \/ Spooled(r)
  BY <1>3 DEF XAddFail, Waiting, Spooled
<1>4. CASE DrainPop
  <2>1. /\ held = <<>> /\ held' = <<Head(spool)>> /\ spool' = Tail(spool)
        /\ UNCHANGED <<pc, evicted, lost>>
        /\ spool \in Seq(Requests) /\ spool # <<>>
    BY <1>4 DEF DrainPop
  <2>2. <<Head(spool)>> \o Tail(spool) = spool /\ <<>> \o spool = spool
        /\ Head(spool) \in Requests
    BY <2>1, PopFacts, ConcatEmptySeq
  <2> QED
    BY <2>1, <2>2 DEF Waiting
<1>5. CASE DrainFail
  <2>1. UNCHANGED <<pc, evicted, lost>>
    BY <1>5 DEF DrainFail
  <2>2. CASE UNCHANGED <<spool, held>>
    BY <2>1, <2>2 DEF Waiting
  <2>3. CASE PutBack
    <3>1. Waiting' = Waiting /\ held' = <<>>
      BY <2>3, PutBackFacts
    <3> QED
      BY <2>1, <3>1, EmptySeq
  <2> QED
    BY <1>5, <2>2, <2>3 DEF DrainFail
<1>6. CASE BeginShutdown
  <2>1. UNCHANGED <<pc, evicted, lost>> /\ PutBack
    BY <1>6 DEF BeginShutdown
  <2>2. Waiting' = Waiting /\ held' = <<>>
    BY <2>1, PutBackFacts
  <2> QED
    BY <2>1, <2>2, EmptySeq
<1>7. CASE EndDrain \/ Restart
  BY <1>7 DEF EndDrain, Restart, Waiting
<1> QED
  BY <1>1, <1>2, <1>3, <1>4, <1>5, <1>6, <1>7 DEF RecorderNext

\* What reached the stream stays there.
LEMMA StreamGrows ==
  ASSUME RecorderTI, RecorderNext
  PROVE  Range(stream) \subseteq Range(stream')
<1>1. ASSUME NEW q \in Requests, XAdd(q)
      PROVE  Range(stream) \subseteq Range(stream')
  BY <1>1, XAddRange DEF RecorderTI
<1>2. CASE UNCHANGED streamVars
  BY <1>2 DEF streamVars
<1> QED
  BY <1>1, <1>2, StreamStep

\* DrainOk takes the head of what waits to the stream.
LEMMA DrainOkFacts ==
  ASSUME RecorderTI, DrainOk
  PROVE  /\ Waiting # <<>> /\ Waiting' = Tail(Waiting)
         /\ Len(Waiting') = Len(Waiting) - 1
         /\ Head(Waiting) \in Requests
         /\ Range(stream') = Range(stream) \cup {Head(Waiting)}
         /\ Range(Waiting) = Range(Waiting') \cup {Head(Waiting)}
         /\ UNCHANGED <<pc, evicted, lost>>
<1>1. /\ held # <<>> /\ XAdd(Head(held)) /\ held' = <<>>
      /\ UNCHANGED <<spool, pc, evicted, lost>>
      /\ held \in Seq(Requests) /\ spool \in Seq(Requests) /\ Len(held) <= 1
  BY DEF DrainOk, RecorderTI, RecorderTypeOK
<1>2. /\ Head(held) \in Requests /\ held = <<Head(held)>>
      /\ Range(held) = {Head(held)}
  BY <1>1, SingleFacts
<1>3. Waiting = <<Head(held)>> \o spool
  BY <1>2 DEF Waiting
<1>4. Waiting # <<>> /\ Head(Waiting) = Head(held) /\ Tail(Waiting) = spool
  BY <1>1, <1>2, <1>3, PushFacts
<1>5. Waiting' = spool
  BY <1>1, ConcatEmptySeq DEF Waiting
<1>6. Range(Waiting) = {Head(held)} \cup Range(spool)
  BY <1>1, <1>2, ConcatFacts DEF Waiting
<1>7. Range(stream') = Range(stream) \cup {Head(held)}
  BY <1>1, <1>2, XAddRange DEF RecorderTI
<1>8. Len(Waiting') = Len(Waiting) - 1
  BY <1>4, <1>5, WaitingFacts, PopFacts DEF RecorderTI
<1> QED
  BY <1>1, <1>2, <1>4, <1>5, <1>6, <1>7, <1>8

\* Where everything is after a payload was spooled.
LEMMA SpooledIndex ==
  ASSUME RecorderTI, NEW r \in Requests, Spooled(r)
  PROVE  LET m == Len(held)
             n == Overflow
             l == Len(Waiting)
         IN /\ m \in Nat /\ n \in Nat /\ l \in Nat /\ m + n <= l
            /\ Waiting' \in Seq(Requests) /\ Len(Waiting') = l - n + 1
            /\ \A i \in 1..l - n + 1 :
                 Waiting'[i] = IF i <= m THEN Waiting[i]
                               ELSE IF i <= l - n THEN Waiting[i + n] ELSE r
            /\ l - n + 1 <= SpoolMax + 1
<1> DEFINE m == Len(held)
           n == Overflow
           k == Len(spool)
           l == Len(Waiting)
<1>1. /\ held \in Seq(Requests) /\ spool \in Seq(Requests)
      /\ held' = held /\ RecorderTypeOK /\ Enqueue(r)
  BY DEF RecorderTI, RecorderTypeOK, Spooled
<1>2. m \in Nat /\ m <= 1 /\ k \in Nat /\ l = m + k
  BY <1>1, WaitingFacts
<1>3. /\ n \in 0..k /\ spool' \in Seq(Requests) /\ Len(spool') <= SpoolMax
      /\ spool' = Append(SubSeq(spool, n + 1, k), r)
  BY <1>1, EnqueueFacts DEF Enqueue
<1>4. /\ Len(spool') = k - n + 1
      /\ \A i \in 1..k - n : spool'[i] = spool[i + n]
      /\ spool'[k - n + 1] = r
  <2> DEFINE t == SubSeq(spool, n + 1, k)
  <2>1. /\ t \in Seq(Requests) /\ Len(t) = k - n
        /\ \A i \in 1..k - n : t[i] = spool[n + i]
    BY <1>1, <1>2, <1>3
  <2> HIDE DEF t
  <2>2. /\ Len(Append(t, r)) = Len(t) + 1
        /\ \A i \in 1..Len(t) : Append(t, r)[i] = t[i]
        /\ Append(t, r)[Len(t) + 1] = r
    BY <2>1, AppendProperties
  <2>3. spool' = Append(t, r)
    BY <1>3 DEF t
  <2>4. \A i \in 1..k - n : n + i = i + n
    BY <1>2, <1>3
  <2> QED
    BY <2>1, <2>2, <2>3, <2>4
<1>5. /\ Waiting' \in Seq(Requests) /\ Len(Waiting') = m + Len(spool')
      /\ \A i \in 1..m + Len(spool') :
           Waiting'[i] = IF i <= m THEN held[i] ELSE spool'[i - m]
  BY <1>1, <1>3, ConcatProperties DEF Waiting
<1>6. \A i \in 1..m + k : Waiting[i] = IF i <= m THEN held[i] ELSE spool[i - m]
  BY <1>1, ConcatProperties DEF Waiting
<1> DEFINE new == Waiting'
           old == Waiting
           t == spool'
<1>7. /\ \A i \in 1..m + Len(t) : new[i] = IF i <= m THEN held[i] ELSE t[i - m]
      /\ \A i \in 1..m + k : old[i] = IF i <= m THEN held[i] ELSE spool[i - m]
      /\ Len(t) = k - n + 1
      /\ \A i \in 1..k - n : t[i] = spool[i + n]
      /\ t[k - n + 1] = r
  BY <1>4, <1>5, <1>6
<1> HIDE DEF m, n, k, l, new, old, t
<1>8. ASSUME NEW i \in 1..l - n + 1
      PROVE  new[i] = IF i <= m THEN old[i] ELSE IF i <= l - n THEN old[i + n] ELSE r
  <2>1. i \in Int /\ i >= 1 /\ i <= m + k - n + 1 /\ i \in 1..m + Len(t)
    BY <1>2, <1>3, <1>7
  <2>2. CASE i <= m
    <3>1. i \in 1..m + k
      BY <1>2, <2>1, <2>2
    <3> QED
      BY <1>7, <2>1, <2>2, <3>1
  <2>3. CASE i > m /\ i <= l - n
    <3>1. i - m \in 1..k - n /\ ~(i <= m)
      BY <1>2, <1>3, <2>1, <2>3
    <3>2. new[i] = spool[i - m + n]
      BY <1>7, <2>1, <3>1
    <3> DEFINE j == i + n
    <3>3. j \in 1..m + k /\ ~(j <= m) /\ j - m = i - m + n
      BY <1>2, <1>3, <2>1, <2>3
    <3> HIDE DEF j
    <3>4. old[j] = spool[j - m]
      BY <1>7, <3>3
    <3> QED
      BY <2>3, <3>1, <3>2, <3>3, <3>4 DEF j
  <2>4. CASE i > m /\ i > l - n
    <3>1. i - m = k - n + 1 /\ ~(i <= m) /\ ~(i <= l - n)
      BY <1>2, <1>3, <2>1, <2>4
    <3>2. new[i] = t[i - m]
      BY <1>7, <2>1, <3>1
    <3> QED
      BY <1>7, <3>1, <3>2
  <2> QED
    BY <1>2, <1>3, <2>1, <2>2, <2>3, <2>4
<1>9. m + n <= l /\ Len(Waiting') = l - n + 1 /\ l - n + 1 <= SpoolMax + 1
  <2>1. SpoolMax \in Nat
    BY RecorderAssumption
  <2>2. Len(Waiting') = m + (k - n + 1) /\ k - n + 1 <= SpoolMax
    BY <1>3, <1>4, <1>5 DEF m, n, k
  <2> QED
    BY <1>2, <1>3, <2>1, <2>2
<1> QED
  BY <1>2, <1>3, <1>5, <1>8, <1>9 DEF m, n, l, k, new, old

LEMMA SpooledFacts ==
  ASSUME RecorderTI, NEW r \in Requests, Spooled(r)
  PROVE  /\ Waiting' \in Seq(Requests) /\ Len(Waiting') <= SpoolMax + 1
         /\ evicted \subseteq evicted'
         /\ Range(Waiting) \subseteq Range(Waiting') \cup evicted'
         /\ Range(Waiting') \subseteq Range(Waiting) \cup {r}
         /\ r \in Range(Waiting')
         /\ IsInjective(Waiting) /\ r \notin Range(Waiting) => IsInjective(Waiting')
<1> DEFINE m == Len(held)
           n == Overflow
           l == Len(Waiting)
           old == Waiting
           new == Waiting'
<1>1. /\ m \in Nat /\ n \in Nat /\ l \in Nat /\ m + n <= l
      /\ Len(new) = l - n + 1 /\ l - n + 1 <= SpoolMax + 1
      /\ \A i \in 1..l - n + 1 :
           new[i] = IF i <= m THEN old[i] ELSE IF i <= l - n THEN old[i + n] ELSE r
  BY SpooledIndex
<1>2. old \in Seq(Requests) /\ new \in Seq(Requests)
  BY SpooledIndex, WaitingFacts DEF RecorderTI
<1>3. /\ Range(old) = {old[i] : i \in 1..l}
      /\ Range(new) = {new[i] : i \in 1..Len(new)}
      /\ DOMAIN old = 1..l /\ DOMAIN new = 1..Len(new)
  BY <1>2, RangeDef, LenProperties
<1>4. evicted' = evicted \cup {old[i] : i \in m + 1 .. m + n}
  BY EnqueueFacts DEF Spooled, RecorderTI
<1> HIDE DEF m, n, l, old, new
<1>5. ASSUME NEW x \in Range(old)
      PROVE  x \in Range(new) \cup evicted'
  <2>1. PICK i \in 1..l : x = old[i]
    BY <1>3
  <2>2. CASE i <= m
    <3>1. i \in 1..l - n + 1
      BY <1>1, <2>2
    <3> QED
      BY <1>1, <1>3, <2>1, <2>2, <3>1
  <2>3. CASE i \in m + 1 .. m + n
    BY <1>4, <2>1, <2>3
  <2>4. CASE i > m + n
    <3> DEFINE j == i - n
    <3>1. j \in 1..l - n + 1 /\ ~(j <= m) /\ j <= l - n /\ j + n = i
      BY <1>1, <2>1, <2>4
    <3> HIDE DEF j
    <3>2. new[j] = x
      BY <1>1, <2>1, <3>1
    <3> QED
      BY <1>1, <1>3, <3>1, <3>2
  <2> QED
    BY <1>1, <2>1, <2>2, <2>3, <2>4
<1>6. ASSUME NEW i \in 1..Len(new)
      PROVE  \/ i <= m /\ i \in 1..l /\ new[i] = old[i]
             \/ i > m /\ i + n \in 1..l /\ new[i] = old[i + n]
             \/ i = Len(new) /\ new[i] = r
  BY <1>1
<1>7. Range(new) \subseteq Range(old) \cup {r}
  BY <1>3, <1>6
<1>8. r \in Range(new)
  <2>1. Len(new) \in 1..Len(new) /\ ~(Len(new) <= m) /\ ~(Len(new) <= l - n)
    BY <1>1
  <2>2. new[Len(new)] = r
    BY <1>1, <2>1
  <2> QED
    BY <1>3, <2>1, <2>2
<1>9. ASSUME IsInjective(old), r \notin Range(old)
      PROVE  IsInjective(new)
  <2>1. \A i, j \in 1..l : old[i] = old[j] => i = j
    BY <1>3, <1>9 DEF IsInjective
  <2>2. \A i \in 1..l : old[i] # r
    BY <1>3, <1>9
  <2>3. ASSUME NEW i \in 1..Len(new), NEW j \in 1..Len(new), new[i] = new[j]
        PROVE  i = j
    <3>1. CASE new[i] = r
      <4>1. i = Len(new) /\ j = Len(new)
        BY <1>6, <2>2, <2>3, <3>1
      <4> QED
        BY <4>1
    <3>2. CASE new[i] # r
      <4>1. \/ i <= m /\ i \in 1..l /\ new[i] = old[i]
            \/ i > m /\ i + n \in 1..l /\ new[i] = old[i + n]
        BY <1>6, <3>2
      <4>2. \/ j <= m /\ j \in 1..l /\ new[j] = old[j]
            \/ j > m /\ j + n \in 1..l /\ new[j] = old[j + n]
        BY <1>6, <2>3, <3>2
      <4> QED
        BY <1>1, <2>1, <2>3, <4>1, <4>2
    <3> QED
      BY <3>1, <3>2
  <2> QED
    BY <1>3, <2>3 DEF IsInjective
<1> QED
  BY <1>1, <1>2, <1>4, <1>5, <1>7, <1>8, <1>9 DEF m, n, l, old, new

LEMMA ExitFacts ==
  ASSUME RecorderTI, Exit
  PROVE  /\ Waiting' = <<>>
         /\ Range(Waiting) \cup lost \subseteq lost'
         /\ \A r \in Requests :
              /\ pc[r] = "done" => pc'[r] = "done"
              /\ pc'[r] = "done" => pc[r] = "done" \/ r \in lost'
         /\ lost' \in {lost \cup S : S \in SUBSET Requests}
         /\ UNCHANGED <<evicted, stream>>
<1>1. <<>> \o <<>> = <<>>
  BY EmptySeq, ConcatEmptySeq
<1>2. Waiting' = <<>>
  BY <1>1 DEF Exit, Waiting
<1>3. InMemory \subseteq Requests
  BY WaitingFacts DEF InMemory, RecorderTI
<1>4. lost' = lost \cup InMemory
  BY DEF Exit
<1> QED
  BY <1>2, <1>3, <1>4 DEF Exit, InMemory, RecorderTI, RecorderTypeOK, streamVars
---------------------------------------------------------------------------
LEMMA SpoolBoundedStep ==
  ASSUME RecorderTI, SpoolBounded, RecorderNext
  PROVE  SpoolBounded'
<1>1. CASE Quiet
  BY <1>1 DEF Quiet, SpoolBounded
<1>2. ASSUME NEW r \in Requests, Spooled(r)
      PROVE  SpoolBounded'
  BY <1>2, SpooledFacts DEF SpoolBounded
<1>3. CASE DrainOk
  <2>1. Len(Waiting') = Len(Waiting) - 1 /\ Len(Waiting) \in Nat
    BY <1>3, DrainOkFacts, WaitingFacts, LenProperties DEF RecorderTI
  <2> QED
    BY <2>1, RecorderAssumption DEF SpoolBounded
<1>4. CASE Exit
  <2>1. Len(Waiting') = 0
    BY <1>4, ExitFacts
  <2> QED
    BY <2>1, RecorderAssumption DEF SpoolBounded
<1> QED
  BY <1>1, <1>2, <1>3, <1>4, StepCases

LEMMA WaitingOnceStep ==
  ASSUME RecorderTI, WaitingOnce, RecorderNext
  PROVE  WaitingOnce'
<1>1. CASE Quiet
  <2>1. Range(Waiting) \subseteq Requests
    BY WaitingFacts DEF RecorderTI
  <2> QED
    BY <1>1, <2>1 DEF Quiet, WaitingOnce
<1>2. ASSUME NEW r \in Requests, Spooled(r)
      PROVE  WaitingOnce'
  <2>1. r \notin Range(Waiting)
    BY <1>2 DEF Spooled, WaitingOnce
  <2>2. IsInjective(Waiting') /\ Range(Waiting') \subseteq Range(Waiting) \cup {r}
    BY <1>2, <2>1, SpooledFacts DEF WaitingOnce
  <2>3. \A q \in Range(Waiting) \cup {r} : pc'[q] = "done"
    <3>1. Range(Waiting) \subseteq Requests
      BY WaitingFacts DEF RecorderTI
    <3> QED
      BY <1>2, <3>1 DEF Spooled, WaitingOnce, RecorderTI, RecorderTypeOK
  <2> QED
    BY <2>2, <2>3 DEF WaitingOnce
<1>3. CASE DrainOk
  <2> DEFINE old == Waiting
             new == Waiting'
  <2>1. old \in Seq(Requests) /\ old # <<>> /\ new = Tail(old)
        /\ Range(new) \subseteq Range(old) /\ pc' = pc
    BY <1>3, DrainOkFacts, WaitingFacts DEF RecorderTI
  <2>2. IsInjective(old)
    BY DEF WaitingOnce
  <2> HIDE DEF old, new
  <2>3. /\ new \in Seq(Requests) /\ Len(old) \in Nat /\ Len(new) = Len(old) - 1
        /\ \A i \in 1..Len(new) : new[i] = old[i + 1]
        /\ DOMAIN old = 1..Len(old) /\ DOMAIN new = 1..Len(new)
    BY <2>1, HeadTailProperties, LenProperties
  <2>4. \A i \in 1..Len(new) : i + 1 \in 1..Len(old)
    BY <2>3
  <2>5. \A i, j \in 1..Len(new) : new[i] = new[j] => i + 1 = j + 1
    BY <2>2, <2>3, <2>4 DEF IsInjective
  <2>6. \A i, j \in 1..Len(new) : i + 1 = j + 1 => i = j
    BY <2>3
  <2>7. IsInjective(new)
    BY <2>3, <2>5, <2>6 DEF IsInjective
  <2> QED
    BY <2>1, <2>7 DEF WaitingOnce, old, new
<1>4. CASE Exit
  <2>1. Waiting' = <<>>
    BY <1>4, ExitFacts
  <2>2. IsInjective(<<>>) /\ Range(<<>>) = {}
    BY DEF IsInjective, Range
  <2> QED
    BY <2>1, <2>2 DEF WaitingOnce
<1> QED
  BY <1>1, <1>2, <1>3, <1>4, StepCases

LEMMA NoSilentLossStep ==
  ASSUME RecorderTI, NoSilentLoss, RecorderNext
  PROVE  NoSilentLoss'
<1> SUFFICES ASSUME NEW r \in Requests, pc'[r] = "done"
             PROVE  \/ r \in Range(stream') \cup Range(Waiting')
                    \/ r \in evicted' \cup lost'
  BY DEF NoSilentLoss, Accounted
<1>1. pc[r] = "done" => \/ r \in Range(stream') \cup Range(Waiting)
                        \/ r \in evicted \cup lost
  BY StreamGrows DEF NoSilentLoss, Accounted
<1>2. CASE Quiet
  BY <1>1, <1>2 DEF Quiet
<1>3. ASSUME NEW q \in Requests, Spooled(q)
      PROVE  \/ r \in Range(stream') \cup Range(Waiting')
             \/ r \in evicted' \cup lost'
  <2>1. pc[r] = "done" \/ r = q
    BY <1>3 DEF Spooled, RecorderTI, RecorderTypeOK
  <2>2. lost' = lost
    BY <1>3 DEF Spooled
  <2> QED
    BY <1>1, <1>3, <2>1, <2>2, SpooledFacts
<1>4. CASE DrainOk
  BY <1>1, <1>4, DrainOkFacts
<1>5. CASE Exit
  BY <1>1, <1>5, ExitFacts
<1> QED
  BY <1>2, <1>3, <1>4, <1>5, StepCases

\* The three invariants, which are inductive as they stand once the types are.
RecorderInv == RecorderTI /\ SpoolBounded /\ WaitingOnce /\ NoSilentLoss

LEMMA RecorderInvInit == RecorderInit => RecorderInv
<1> SUFFICES ASSUME RecorderInit PROVE RecorderInv
  OBVIOUS
<1>1. Waiting = <<>> /\ Len(Waiting) = 0
  BY EmptySeq, ConcatEmptySeq DEF RecorderInit, Waiting
<1>2. IsInjective(<<>>) /\ Range(<<>>) = {}
  BY DEF IsInjective, Range
<1>3. SpoolBounded
  BY <1>1, RecorderAssumption DEF SpoolBounded
<1>4. WaitingOnce
  BY <1>1, <1>2 DEF WaitingOnce
<1>5. NoSilentLoss
  BY DEF RecorderInit, NoSilentLoss
<1> QED
  BY <1>3, <1>4, <1>5, RecorderTypeInit DEF RecorderInv

LEMMA RecorderInvNext == RecorderInv /\ [RecorderNext]_rvars => RecorderInv'
<1> SUFFICES ASSUME RecorderInv, [RecorderNext]_rvars PROVE RecorderInv'
  OBVIOUS
<1>1. CASE RecorderNext
  BY <1>1, RecorderTINext, SpoolBoundedStep, WaitingOnceStep, NoSilentLossStep
  DEF RecorderInv
<1>2. CASE UNCHANGED rvars
  BY <1>2, RecorderTINext DEF RecorderInv, rvars, streamVars, recorderVars, Waiting,
    SpoolBounded, WaitingOnce, NoSilentLoss, Accounted
<1> QED
  BY <1>1, <1>2

LEMMA RecorderInvariant == RecorderSpec => []RecorderInv
BY RecorderInvInit, RecorderInvNext, PTL DEF RecorderSpec

(* Nothing finalize is done with vanishes, whatever fails or ends: the      *)
(* docstring of CostStreamSpool.drain promises no less.                     *)
THEOREM NothingLostSilently == RecorderSpec => []NoSilentLoss
<1>1. RecorderInv => NoSilentLoss
  BY DEF RecorderInv
<1> QED
  BY <1>1, RecorderInvariant, PTL

(* The spool stays within its bound but for the payload a drain holds.      *)
THEOREM SpoolStaysBounded == RecorderSpec => []SpoolBounded
<1>1. RecorderInv => SpoolBounded
  BY DEF RecorderInv
<1> QED
  BY <1>1, RecorderInvariant, PTL

(* A payload waits at most once, and only when its finalize is over.        *)
THEOREM NothingWaitsTwice == RecorderSpec => []WaitingOnce
<1>1. RecorderInv => WaitingOnce
  BY DEF RecorderInv
<1> QED
  BY <1>1, RecorderInvariant, PTL
---------------------------------------------------------------------------
\* Every step of the recorder is a step of the queue, or leaves it alone.
LEMMA QuietIsPass ==
  ASSUME RecorderTI, RecorderNext, Quiet
  PROVE  DLQ!Next \/ UNCHANGED DLQ!vars
<1>1. Waiting' = Waiting /\ UNCHANGED <<evicted, lost>>
  BY DEF Quiet
<1>2. ASSUME NEW q \in Requests, XAdd(q)
      PROVE  DLQ!Pass(q)
  BY <1>1, <1>2, XAddRange DEF DLQ!Pass, RecorderTI
<1>3. CASE UNCHANGED streamVars
  BY <1>1, <1>3 DEF DLQ!vars, streamVars
<1> QED
  BY <1>2, <1>3, StreamStep DEF DLQ!Next

LEMMA SpooledIsAccept ==
  ASSUME RecorderTI, NEW r \in Requests, Spooled(r)
  PROVE  DLQ!Accept(r)
<1> DEFINE m == Len(held)
           n == Overflow
           l == Len(Waiting)
<1>1. /\ m \in 0..1 /\ n \in 0..l /\ m + n <= l
      /\ n > 0 => l >= SpoolMax
  <2>1. m \in Nat /\ n \in Nat /\ l \in Nat /\ m + n <= l
    BY SpooledIndex
  <2>2. m <= 1 /\ l = m + Len(spool) /\ Len(spool) \in Nat
    BY WaitingFacts DEF RecorderTI
  <2>3. n > 0 => Len(spool) >= SpoolMax
    BY EnqueueFacts DEF Spooled, RecorderTI
  <2>4. SpoolMax \in Nat
    BY RecorderAssumption
  <2> HIDE DEF m, n, l
  <2> QED
    BY <2>1, <2>2, <2>3, <2>4
<1>2. /\ Waiting' = Append(SubSeq(Waiting, 1, m) \o SubSeq(Waiting, m + n + 1, l), r)
      /\ evicted' = evicted \cup {Waiting[i] : i \in m + 1 .. m + n}
  BY EnqueueFacts DEF Spooled, RecorderTI
<1>3. Len(Waiting') <= SpoolMax + 1
  BY SpooledFacts
<1>4. Range(stream') \in {Range(stream), Range(stream) \cup {r}}
  BY XAddRange DEF Spooled, RecorderTI, streamVars
<1>5. UNCHANGED lost
  BY DEF Spooled
<1> HIDE DEF m, n
<1> QED
  BY <1>1, <1>2, <1>3, <1>4, <1>5 DEF DLQ!Accept

LEMMA DrainOkIsRelease ==
  ASSUME RecorderTI, DrainOk
  PROVE  DLQ!Release
BY DrainOkFacts DEF DLQ!Release

LEMMA ExitIsLose ==
  ASSUME RecorderTI, Exit
  PROVE  DLQ!Lose
<1>1. PICK S \in SUBSET Requests : lost' = lost \cup S
  BY ExitFacts
<1>2. Range(Waiting) \subseteq lost'
  BY ExitFacts
<1>3. lost' = lost \cup S \cup Range(Waiting)
  BY <1>1, <1>2
<1>4. Waiting' = <<>> /\ UNCHANGED <<evicted, stream>>
  BY ExitFacts
<1> QED
  BY <1>3, <1>4 DEF DLQ!Lose, DLQ!Range, Range

LEMMA NextIsDLQ ==
  RecorderTI /\ [RecorderNext]_rvars => [DLQ!Next]_(DLQ!vars)
<1> SUFFICES ASSUME RecorderTI, [RecorderNext]_rvars
             PROVE  DLQ!Next \/ UNCHANGED DLQ!vars
  OBVIOUS
<1>1. CASE UNCHANGED rvars
  BY <1>1 DEF rvars, streamVars, recorderVars, DLQ!vars, Waiting
<1>2. CASE RecorderNext
  <2>1. CASE Quiet
    BY <1>2, <2>1, QuietIsPass
  <2>2. ASSUME NEW r \in Requests, Spooled(r)
        PROVE  DLQ!Next
    BY <2>2, SpooledIsAccept DEF DLQ!Next
  <2>3. CASE DrainOk
    BY <2>3, DrainOkIsRelease DEF DLQ!Next
  <2>4. CASE Exit
    BY <2>4, ExitIsLose DEF DLQ!Next
  <2> QED
    BY <1>2, <2>1, <2>2, <2>3, <2>4, StepCases
<1> QED
  BY <1>1, <1>2

LEMMA InitIsDLQ == RecorderInit => DLQ!Init
<1> SUFFICES ASSUME RecorderInit PROVE DLQ!Init
  OBVIOUS
<1>1. Waiting = <<>>
  BY EmptySeq, ConcatEmptySeq DEF RecorderInit, Waiting
<1>2. Range(stream) = {}
  BY DEF RecorderInit, StreamInit, Range
<1> QED
  BY <1>1, <1>2 DEF DLQ!Init, RecorderInit

(* The spool with its drain implements the dead-letter queue: first in,     *)
(* first out, dropping its oldest only when it is full                      *)
(* (cost_stream_spool.py's enqueue and drain).                              *)
THEOREM SpoolImplementsDLQ == RecorderSpec => ImplementsDLQ
<1>1. RecorderSpec => []RecorderTI
  BY RecorderTypeInit, RecorderTINext, PTL DEF RecorderSpec
<1> QED
  BY <1>1, InitIsDLQ, NextIsDLQ, PTL DEF RecorderSpec, ImplementsDLQ, DLQ!Spec

---------------------------------------------------------------------------
(* The workers, for every set of requests, workers and names.              *)

\* Adding the entries of a batch to a counter per request.
LEMMA TimesType ==
  ASSUME StreamTypeOK, NEW S \in SUBSET Ids, NEW r \in Requests
  PROVE  /\ Times(S, r) \in Nat
         /\ Times(S, r) >= 1 <=> r \in {stream[i] : i \in S}
<1> DEFINE T == {i \in S : stream[i] = r}
<1>1. T \in SUBSET Ids
  OBVIOUS
<1>2. IsFiniteSet(T) /\ Cardinality(T) \in Nat
  BY <1>1, IdsFinite
<1>3. Cardinality(T) = 0 <=> T = {}
  BY <1>2, FS_EmptySet
<1>4. T = {} <=> r \notin {stream[i] : i \in S}
  OBVIOUS
<1> HIDE DEF T
<1>5. Cardinality(T) \in Nat /\ (Cardinality(T) >= 1 <=> r \in {stream[i] : i \in S})
  BY <1>2, <1>3, <1>4
<1> QED
  BY <1>5 DEF T, Times

LEMMA AddType ==
  ASSUME StreamTypeOK, NEW S \in SUBSET Ids, NEW counter \in [Requests -> Nat]
  PROVE  Add(counter, S) \in [Requests -> Nat]
BY TimesType DEF Add
---------------------------------------------------------------------------
Phased == (Stages \cup {"read", "off"}) \X Phases

LEMMA PhasedFacts ==
  ASSUME WorkerTypeOK, NEW w \in Workers
  PROVE  /\ wpc[w] \in Phased
         /\ wpc[w][2] \in Phases
         /\ Off \in Phased
         /\ \A ph \in Phases :
              /\ Reading(ph) \in Phased
              /\ \A st \in Stages : At(st, ph) \in Phased
<1>1. wpc \in [Workers -> Phased]
  BY DEF WorkerTypeOK, Phased
<1>2. wpc[w] \in Phased
  BY <1>1
<1>3. wpc[w][2] \in Phases
  BY <1>2 DEF Phased
<1>4. Off \in Phased
  BY DEF Off, Phased, Phases
<1>5. ASSUME NEW ph \in Phases
      PROVE  Reading(ph) \in Phased /\ \A st \in Stages : At(st, ph) \in Phased
  BY DEF Reading, At, Phased
<1> QED
  BY <1>2, <1>3, <1>4, <1>5

LEMMA GotoType ==
  ASSUME WorkerTypeOK, NEW w \in Workers, NEW p \in Phased, Goto(w, p)
  PROVE  wpc' \in [Workers -> Phased]
BY DEF WorkerTypeOK, Goto, Phased

\* What a worker reads is in the stream.
LEMMA PendingFacts ==
  ASSUME WorkerTypeOK, NEW w \in Workers
  PROVE  PendingIds(name[w], BatchMax) \subseteq Ids
<1>1. name[w] \in Names
  BY DEF WorkerTypeOK
<1> QED
  BY <1>1 DEF PendingIds, WorkerTypeOK, StreamTypeOK, Ids

\* The room left in a live batch is a number.
LEMMA RoomFacts ==
  ASSUME WorkerTypeOK, NEW w \in Workers,
         Cardinality(entries[w]) < BatchMax
  PROVE  BatchMax - Cardinality(entries[w]) \in Nat
<1>1. entries[w] \in SUBSET Ids /\ StreamTypeOK
  BY DEF WorkerTypeOK
<1>2. Cardinality(entries[w]) \in Nat
  BY <1>1, IdsFinite
<1> QED
  BY <1>2, WorkerAssumption

LEMMA SameStream ==
  ASSUME StreamTypeOK, UNCHANGED streamVars
  PROVE  StreamTypeOK' /\ Ids' = Ids /\ UNCHANGED <<stream, trimmed, delivered, pel, acked>>
BY DEF StreamTypeOK, streamVars, Ids

\* Type correctness of one step of one worker, action by action.
LEMMA StepType ==
  ASSUME WorkerTypeOK, NEW w \in Workers, Step(w) \/ Mishap(w)
  PROVE  WorkerTypeOK'
<1> USE DEF batchVars, dbVars
<1>p. /\ wpc[w] \in Phased
      /\ wpc[w][2] \in Phases
      /\ Off \in Phased
      /\ \A ph \in Phases :
           /\ Reading(ph) \in Phased
           /\ \A st \in Stages : At(st, ph) \in Phased
  BY PhasedFacts
<1>t. /\ StreamTypeOK
      /\ name[w] \in Names
      /\ ids[w] \in SUBSET Ids
      /\ entries[w] \in SUBSET Ids
      /\ rows[w] \in SUBSET Ids
      /\ {stream[i] : i \in Ids} \subseteq Requests
  BY SMTT(30) DEF WorkerTypeOK, StreamTypeOK, Ids
<1>1. CASE Start(w)
  <2>1. wpc' \in [Workers -> Phased]
    BY <1>1, <1>p, GotoType DEF Start, Phases
  <2> QED
    BY <1>1, <1>t, <2>1, SameStream DEF Start, WorkerTypeOK, Phased
<1>2. CASE ReadBacklog(w)
  <2>1. wpc' \in [Workers -> Phased]
    BY <1>2, <1>p, GotoType DEF ReadBacklog, Phases, Stages
  <2>2. PendingIds(name[w], BatchMax) \subseteq Ids
    BY PendingFacts
  <2>3. ids' \in [Workers -> SUBSET Ids] /\ entries' \in [Workers -> SUBSET Ids]
    BY <1>2, <2>2 DEF ReadBacklog, SetBatch, WorkerTypeOK
  <2> QED
    BY <1>2, <1>t, <2>1, <2>3, SameStream DEF ReadBacklog, WorkerTypeOK, Phased
<1>3. CASE EndBacklog(w)
  <2>1. wpc' \in [Workers -> Phased]
    BY <1>3, <1>p, GotoType DEF EndBacklog, Phases
  <2>2. StreamTypeOK' /\ UNCHANGED stream
    BY <1>3, <1>t, PendingFacts, XAckFacts DEF EndBacklog
  <2> QED
    BY <1>3, <2>1, <2>2 DEF EndBacklog, WorkerTypeOK, Phased, Ids
<1>4. CASE ReadLive(w)
  <2> DEFINE room == BatchMax - Cardinality(entries[w])
  <2>1. room \in Nat
    BY <1>4, RoomFacts DEF ReadLive
  <2>2. StreamTypeOK' /\ NewIds(room) \subseteq Ids
    BY <1>4, <1>t, <2>1, XReadNewFacts DEF ReadLive
  <2>3. UNCHANGED stream
    BY <1>4 DEF ReadLive, XReadNew
  <2>4. ids' \in [Workers -> SUBSET Ids] /\ entries' \in [Workers -> SUBSET Ids]
    BY <1>4, <1>t, <2>2 DEF ReadLive, SetBatch, WorkerTypeOK
  <2> QED
    BY <1>4, <2>2, <2>3, <2>4 DEF ReadLive, WorkerTypeOK, Ids
<1>5. CASE FlushLive(w)
  <2>1. wpc' \in [Workers -> Phased]
    BY <1>5, <1>p, GotoType DEF FlushLive, Phases, Stages
  <2> QED
    BY <1>5, <1>t, <2>1, SameStream DEF FlushLive, WorkerTypeOK, Phased
<1>6. CASE ForgetLive(w)
  BY <1>6, <1>t, SameStream DEF ForgetLive, SetBatch, WorkerTypeOK
<1>7. CASE Commit(w)
  <2>1. wpc' \in [Workers -> Phased]
    BY <1>7, <1>p, GotoType DEF Commit, Stages
  <2>2. charged' \in [Requests -> Nat] /\ usageLogs' \subseteq Requests
    BY <1>7, <1>t, AddType DEF Commit, Transaction, WorkerTypeOK
  <2> QED
    BY <1>7, <1>t, <2>1, <2>2, SameStream DEF Commit, WorkerTypeOK, Phased
<1>8. CASE FallBackPerRow(w)
  <2>1. wpc' \in [Workers -> Phased]
    BY <1>8, <1>p, GotoType DEF FallBackPerRow, Stages
  <2> QED
    BY <1>8, <1>t, <2>1, SameStream DEF FallBackPerRow, WorkerTypeOK, Phased
<1>9. CASE \E i \in Ids : WriteRow(w, i)
  <2> PICK i \in Ids : WriteRow(w, i)
    BY <1>9
  <2>1. charged' \in [Requests -> Nat] /\ usageLogs' \subseteq Requests
    BY <1>t, AddType DEF WriteRow, Transaction, WorkerTypeOK
  <2> QED
    BY <1>t, <2>1, SameStream DEF WriteRow, NextRow, WorkerTypeOK
<1>10. CASE \E i \in Ids : SkipRow(w, i)
  BY <1>10, <1>t, SameStream DEF SkipRow, NextRow, WorkerTypeOK
<1>11. CASE \E i \in Ids : FailRow(w, i)
  <2> PICK i \in Ids : FailRow(w, i)
    BY <1>11
  <2>1. charged' \in [Requests -> Nat] /\ usageLogs' \subseteq Requests
    BY <1>t, AddType DEF FailRow, Transaction, WorkerTypeOK
  <2>2. dbFaults' \in 0..MaxDbFaults
    BY WorkerAssumption DEF FailRow, WorkerTypeOK
  <2> QED
    BY <1>t, <2>1, <2>2, SameStream DEF FailRow, NextRow, WorkerTypeOK
<1>12. CASE EndRows(w)
  <2>1. wpc' \in [Workers -> Phased]
    BY <1>12, <1>p, GotoType DEF EndRows, Stages
  <2> QED
    BY <1>12, <1>t, <2>1, SameStream DEF EndRows, WorkerTypeOK, Phased
<1>13. CASE BumpCounters(w)
  <2>1. wpc' \in [Workers -> Phased]
    BY <1>13, <1>p, GotoType DEF BumpCounters, Stages
  <2>2. counted' \in [Requests -> Nat]
    <3>1. counted \in [Requests -> Nat]
      BY DEF WorkerTypeOK
    <3>2. Add(counted, entries[w]) \in [Requests -> Nat]
      BY <3>1, <1>t, AddType
    <3> QED
      BY <1>13, <3>1, <3>2 DEF BumpCounters
  <2>3. dbFaults' \in 0..MaxDbFaults
    BY <1>13, WorkerAssumption DEF BumpCounters, WorkerTypeOK
  <2> QED
    BY <1>13, <1>t, <2>1, <2>2, <2>3, SameStream DEF BumpCounters, WorkerTypeOK, Phased
<1>14. CASE Ack(w)
  <2>1. wpc' \in [Workers -> Phased]
    BY <1>14, <1>p, GotoType DEF Ack
  <2>2. StreamTypeOK' /\ UNCHANGED stream
    BY <1>14, <1>t, XAckFacts DEF Ack
  <2> QED
    BY <1>14, <2>1, <2>2 DEF Ack, SetBatch, WorkerTypeOK, Phased, Ids
<1>15. CASE Fail(w)
  <2>1. wpc' \in [Workers -> Phased]
    BY <1>15, <1>p, GotoType DEF Fail, DropBatch
  <2>2. StreamTypeOK' /\ UNCHANGED stream
    <3>1. CASE UNCHANGED streamVars
      BY <3>1, <1>t, SameStream
    <3>2. CASE /\ Cardinality(entries[w]) < BatchMax
               /\ XReadNew(name[w], BatchMax - Cardinality(entries[w]))
      BY <3>2, <1>t, RoomFacts, XReadNewFacts DEF XReadNew
    <3>3. CASE XAck(ids[w])
      BY <3>3, <1>t, XAckFacts
    <3> QED
      BY <1>15, <3>1, <3>2, <3>3 DEF Fail
  <2>3. charged' \in [Requests -> Nat] /\ usageLogs' \subseteq Requests
    BY <1>15, <1>t, AddType DEF Fail, Transaction, WorkerTypeOK
  <2>4. dbFaults' \in 0..MaxDbFaults
    BY <1>15, WorkerAssumption DEF Fail, WorkerTypeOK
  <2>5. skipped' = skipped
    BY <1>15 DEF Fail
  <2> QED
    BY <1>15, <2>1, <2>2, <2>3, <2>4, <2>5
    DEF Fail, DropBatch, SetBatch, WorkerTypeOK, Phased, Ids
<1>16. CASE Stop(w)
  <2>1. wpc' \in [Workers -> Phased]
    BY <1>16, <1>p, GotoType DEF Stop, DropBatch
  <2>2. name' \in [Workers -> Names] /\ spare' \subseteq SpareNames
    BY <1>16, WorkerAssumption DEF Stop, WorkerTypeOK
  <2>3. stops' \in 0..MaxStops
    BY <1>16, WorkerAssumption DEF Stop, WorkerTypeOK
  <2> QED
    BY <1>16, <1>t, <2>1, <2>2, <2>3, SameStream
    DEF Stop, DropBatch, SetBatch, WorkerTypeOK, Phased
<1> QED
  BY <1>1, <1>2, <1>3, <1>4, <1>5, <1>6, <1>7, <1>8, <1>9, <1>10, <1>11,
     <1>12, <1>13, <1>14, <1>15, <1>16 DEF Step, Read, Flush, Mishap
\* Initial states and the steps of the producers.
LEMMA InitType == WorkerInit => WorkerTypeOK
BY WorkerAssumption
DEF StreamInit, WorkerInit, WorkerTypeOK, StreamTypeOK, Ids, Off, Phases

LEMMA AppendType ==
  ASSUME WorkerTypeOK, NEW r \in Requests, XAdd(r), UNCHANGED workerVars
  PROVE  WorkerTypeOK'
<1>1. StreamTypeOK' /\ Ids \subseteq Ids'
  BY XAddFacts DEF WorkerTypeOK
<1> QED
  BY <1>1 DEF WorkerTypeOK, workerVars, batchVars, dbVars

LEMMA StutterType ==
  ASSUME WorkerTypeOK, UNCHANGED wvars
  PROVE  WorkerTypeOK'
BY DEF WorkerTypeOK, StreamTypeOK, Ids, wvars, streamVars, workerVars,
       batchVars, dbVars

LEMMA NextType ==
  ASSUME WorkerTypeOK, [WorkerNext \/ \E r \in Requests : Publish(r)]_wvars
  PROVE  WorkerTypeOK'
BY StepType, AppendType, StutterType DEF WorkerNext, Publish

\* Every variable of the worker keeps its type, whatever the number of
\* workers, the names they read under and the mishaps they meet.
THEOREM TypeCorrect == WorkerSpec => []WorkerTypeOK
<1>1. WorkerTypeOK /\ [WorkerNext \/ \E r \in Requests : Publish(r)]_wvars
        => WorkerTypeOK'
  BY NextType
<1> QED
  BY <1>1, InitType, PTL DEF WorkerSpec
---------------------------------------------------------------------------
\* A step of a worker never unsettles an entry and never touches the batch of
\* another worker.
LEMMA StepFacts ==
  ASSUME WorkerTypeOK, NEW w \in Workers, Step(w) \/ Mishap(w)
  PROVE  /\ stream' = stream
         /\ trimmed' = trimmed
         /\ usageLogs \subseteq usageLogs'
         /\ skipped \subseteq skipped'
         /\ \A v \in Workers \ {w} :
              /\ wpc'[v] = wpc[v]
              /\ ids'[v] = ids[v]
              /\ entries'[v] = entries[v]
              /\ rows'[v] = rows[v]
              /\ name'[v] = name[v]
<1> USE DEF batchVars, dbVars, streamVars, XAck, XReadNew, Goto, SetBatch,
            DropBatch, NextRow, Transaction, WorkerTypeOK
<1>1. CASE Start(w) \/ ReadBacklog(w) \/ EndBacklog(w)
  BY <1>1 DEF Start, ReadBacklog, EndBacklog
<1>2. CASE ReadLive(w) \/ FlushLive(w) \/ ForgetLive(w)
  BY <1>2 DEF ReadLive, FlushLive, ForgetLive
<1>3. CASE Commit(w) \/ FallBackPerRow(w) \/ EndRows(w)
  BY <1>3 DEF Commit, FallBackPerRow, EndRows
<1>4. CASE \E i \in Ids : WriteRow(w, i) \/ SkipRow(w, i) \/ FailRow(w, i)
  BY <1>4 DEF WriteRow, SkipRow, FailRow
<1>5. CASE BumpCounters(w) \/ Ack(w)
  BY <1>5 DEF BumpCounters, Ack
<1>6. CASE Fail(w)
  BY <1>6 DEF Fail
<1>7. CASE Stop(w)
  BY <1>7 DEF Stop
<1> QED
  BY <1>1, <1>2, <1>3, <1>4, <1>5, <1>6, <1>7 DEF Step, Read, Flush, Mishap

LEMMA SettledStays ==
  ASSUME WorkerTypeOK, WorkerTypeOK', NEW i \in Ids, Settled(i),
         stream'[i] = stream[i], trimmed' >= trimmed,
         usageLogs \subseteq usageLogs', skipped \subseteq skipped'
  PROVE  Settled(i)'
<1>1. i \in Int /\ trimmed \in Int /\ trimmed' \in Int
  BY DEF WorkerTypeOK, StreamTypeOK, Ids
<1>2. i <= trimmed => i <= trimmed'
  BY <1>1
<1> QED
  BY <1>2 DEF Settled

\* The batch of another worker stays on course.
LEMMA OthersOK ==
  ASSUME WorkerTypeOK, WorkerTypeOK', NEW v \in Workers, BatchOK(v),
         \A i \in Ids : stream'[i] = stream[i], trimmed' >= trimmed,
         usageLogs \subseteq usageLogs', skipped \subseteq skipped',
         wpc'[v] = wpc[v], ids'[v] = ids[v], entries'[v] = entries[v],
         rows'[v] = rows[v]
  PROVE  BatchOK(v)'
<1>1. ids[v] \subseteq Ids /\ entries[v] \subseteq Ids
  BY DEF WorkerTypeOK
<1>2. \A i \in Ids : Settled(i) => Settled(i)'
  BY SettledStays
<1>3. \A i \in Ids : i <= trimmed => i <= trimmed'
  BY DEF WorkerTypeOK, StreamTypeOK, Ids
<1> QED
  BY <1>1, <1>2, <1>3 DEF BatchOK
\* The worker that takes a step keeps its own batch on course.
LEMMA OwnOK ==
  ASSUME WorkerTypeOK, WorkerTypeOK', NEW w \in Workers, BatchOK(w),
         Step(w) \/ Mishap(w)
  PROVE  BatchOK(w)'
<1>t. /\ StreamTypeOK
      /\ ids[w] \subseteq Ids /\ entries[w] \subseteq Ids
      /\ wpc \in [Workers -> Phased]
      /\ ids \in [Workers -> SUBSET Ids]
      /\ entries \in [Workers -> SUBSET Ids]
      /\ rows \in [Workers -> SUBSET Ids]
  BY DEF WorkerTypeOK, Phased
<1>s. /\ stream' = stream /\ trimmed' = trimmed
      /\ \A i \in Ids : Settled(i) => Settled(i)'
  <2>1. trimmed' = trimmed
    BY StepFacts
  <2>2. trimmed \in Int
    BY DEF WorkerTypeOK, StreamTypeOK
  <2>3. trimmed' >= trimmed
    BY <2>1, <2>2
  <2> QED
    BY <2>3, StepFacts, SettledStays
<1> USE DEF batchVars, dbVars, Goto, SetBatch, BatchOK
\* A place that is neither in the per-row fallback nor past the writes.
<1>q. /\ \A ph : Reading(ph)[1] = "read"
      /\ \A st, ph : At(st, ph)[1] = st
      /\ Off[1] = "off"
  BY DEF Reading, At, Off
<1>1. CASE Start(w)
  BY <1>1, <1>t, <1>s, <1>q DEF Start
<1>2. CASE ReadBacklog(w)
  <2>1. PendingIds(name[w], BatchMax) \subseteq Ids
    BY PendingFacts
  <2>2. \A i \in PendingIds(name[w], BatchMax) :
          ~Decodable(i) => stream[i] \in Rejected \/ i <= trimmed
    BY <2>1, <1>t DEF Decodable, StreamTypeOK, Ids
  <2> QED
    BY <1>2, <2>1, <2>2, <1>t, <1>s, <1>q DEF ReadBacklog
<1>3. CASE EndBacklog(w)
  BY <1>3, <1>t, <1>s, <1>q DEF EndBacklog
<1>4. CASE ReadLive(w)
  <2> DEFINE room == BatchMax - Cardinality(entries[w])
  <2>1. room \in Nat
    BY <1>4, RoomFacts DEF ReadLive
  <2>2. NewIds(room) \subseteq Ids
    BY <1>4, <1>t, <2>1, XReadNewFacts DEF ReadLive, WorkerTypeOK
  <2>3. \A i \in NewIds(room) :
          ~Decodable(i) => stream[i] \in Rejected \/ i <= trimmed
    BY <2>2, <1>t DEF Decodable, StreamTypeOK, Ids
  <2> HIDE DEF room
  <2>4. /\ ids'[w] = ids[w] \cup NewIds(room)
        /\ entries'[w] = entries[w] \cup {i \in NewIds(room) : Decodable(i)}
        /\ wpc'[w][1] = "read"
    BY <1>4, <1>t, <1>q DEF ReadLive, room
  <2> QED
    BY <2>3, <2>4, <1>s
<1>5. CASE FlushLive(w)
  BY <1>5, <1>t, <1>s, <1>q DEF FlushLive
<1>6. CASE ForgetLive(w)
  BY <1>6, <1>t, <1>s, <1>q DEF ForgetLive
<1>7. CASE Commit(w)
  <2>1. \A i \in entries[w] : Settled(i)'
    BY <1>7, <1>s DEF Commit, Transaction, Settled
  <2> QED
    BY <1>7, <2>1, <1>t, <1>s, <1>q DEF Commit
<1>8. CASE FallBackPerRow(w)
  BY <1>8, <1>t, <1>s, <1>q DEF FallBackPerRow
<1>9. CASE \E i \in Ids : WriteRow(w, i) \/ SkipRow(w, i) \/ FailRow(w, i)
  <2> PICK i \in Ids : WriteRow(w, i) \/ SkipRow(w, i) \/ FailRow(w, i)
    BY <1>9
  <2>1. Settled(i)'
    BY <1>s DEF WriteRow, SkipRow, FailRow, Transaction, Settled
  <2>2. NextRow(w, i)
    BY DEF WriteRow, SkipRow, FailRow
  <2> QED
    BY <2>1, <2>2, <1>t, <1>s DEF NextRow
<1>10. CASE EndRows(w)
  BY <1>10, <1>t, <1>s, <1>q DEF EndRows
<1>11. CASE BumpCounters(w)
  BY <1>11, <1>t, <1>s, <1>q DEF BumpCounters
<1>12. CASE Ack(w)
  BY <1>12, <1>t, <1>s, <1>q DEF Ack
<1>13. CASE Fail(w)
  BY <1>13, <1>t, <1>s, <1>q DEF Fail, DropBatch
<1>14. CASE Stop(w)
  BY <1>14, <1>t, <1>s, <1>q DEF Stop, DropBatch
<1> QED
  BY <1>1, <1>2, <1>3, <1>4, <1>5, <1>6, <1>7, <1>8, <1>9, <1>10, <1>11,
     <1>12, <1>13, <1>14 DEF Step, Read, Flush, Mishap

\* What a step acknowledges is settled.
LEMMA AckedStep ==
  ASSUME WorkerTypeOK, WorkerTypeOK', NEW w \in Workers, BatchOK(w),
         AckedIsSettled, Step(w) \/ Mishap(w)
  PROVE  AckedIsSettled'
<1>t. /\ StreamTypeOK
      /\ ids[w] \subseteq Ids /\ entries[w] \subseteq Ids
      /\ acked \subseteq Ids
  BY DEF WorkerTypeOK, StreamTypeOK, Ids
<1>s. \A i \in Ids : Settled(i) => Settled(i)'
  <2>1. trimmed' = trimmed
    BY StepFacts
  <2>2. trimmed \in Int
    BY DEF WorkerTypeOK, StreamTypeOK
  <2>3. trimmed' >= trimmed
    BY <2>1, <2>2
  <2> QED
    BY <2>3, StepFacts, SettledStays
<1>1. CASE acked' = acked
  BY <1>1, <1>s, <1>t DEF AckedIsSettled
<1>2. CASE EndBacklog(w)
  <2> DEFINE I == PendingIds(name[w], BatchMax)
  <2>1. I \subseteq Ids
    BY PendingFacts
  <2>2. \A i \in I : Settled(i)
    BY <1>2, <2>1, <1>t DEF EndBacklog, Decodable, Settled, StreamTypeOK, Ids
  <2>3. acked' = acked \cup I
    BY <1>2 DEF EndBacklog, XAck
  <2> QED
    BY <2>1, <2>2, <2>3, <1>s, <1>t DEF AckedIsSettled
<1>3. CASE wpc[w][1] = "ack" /\ acked' = acked \cup ids[w]
  <2>1. \A i \in ids[w] : Settled(i)
    BY <1>3, <1>t DEF BatchOK, Settled
  <2> QED
    BY <1>3, <2>1, <1>s, <1>t DEF AckedIsSettled
<1>4. \/ acked' = acked
      \/ EndBacklog(w)
      \/ wpc[w][1] = "ack" /\ acked' = acked \cup ids[w]
  <2> USE DEF streamVars, NextRow, XReadNew, XAck
  <2>1. CASE Start(w) \/ ReadBacklog(w) \/ ReadLive(w) \/ FlushLive(w)
             \/ ForgetLive(w)
    BY <2>1 DEF Start, ReadBacklog, ReadLive, FlushLive, ForgetLive
  <2>2. CASE Commit(w) \/ FallBackPerRow(w) \/ EndRows(w) \/ BumpCounters(w)
    BY <2>2 DEF Commit, FallBackPerRow, EndRows, BumpCounters
  <2>3. CASE \E i \in Ids : WriteRow(w, i) \/ SkipRow(w, i) \/ FailRow(w, i)
    BY <2>3 DEF WriteRow, SkipRow, FailRow
  <2>4. CASE Ack(w)
    BY <2>4 DEF Ack
  <2>5. CASE Fail(w)
    BY <2>5 DEF Fail
  <2>6. CASE Stop(w)
    BY <2>6 DEF Stop
  <2> QED
    BY <2>1, <2>2, <2>3, <2>4, <2>5, <2>6 DEF Step, Read, Flush, Mishap
<1> QED
  BY <1>1, <1>2, <1>3, <1>4

\* A transaction writes the row and the charge of the same requests.
LEMMA TransactionStep ==
  ASSUME WorkerTypeOK, NEW S \in SUBSET Ids, ChargedIffLogged, Transaction(S)
  PROVE  ChargedIffLogged'
<1> SUFFICES ASSUME NEW r \in Requests
             PROVE  r \in usageLogs' <=> charged'[r] >= 1
  BY DEF ChargedIffLogged
<1>1. StreamTypeOK /\ charged \in [Requests -> Nat]
  BY DEF WorkerTypeOK
<1>2. /\ Times(S, r) \in Nat
      /\ Times(S, r) >= 1 <=> r \in {stream[i] : i \in S}
  BY <1>1, TimesType
<1>3. charged'[r] = charged[r] + Times(S, r)
  BY DEF Transaction, Add
<1>4. charged'[r] >= 1 <=> charged[r] >= 1 \/ Times(S, r) >= 1
  BY <1>1, <1>2, <1>3
<1>5. r \in usageLogs' <=> r \in usageLogs \/ r \in {stream[i] : i \in S}
  BY DEF Transaction
<1> QED
  BY <1>2, <1>4, <1>5 DEF ChargedIffLogged

\* Every step but a transaction leaves the books alone.
LEMMA BooksStep ==
  ASSUME WorkerTypeOK, NEW w \in Workers, ChargedIffLogged,
         Step(w) \/ Mishap(w)
  PROVE  ChargedIffLogged'
<1> USE DEF dbVars, NextRow
<1>0. CASE UNCHANGED <<usageLogs, charged>>
  BY <1>0 DEF ChargedIffLogged
<1>1. CASE \E S \in SUBSET Ids : Transaction(S)
  BY <1>1, TransactionStep
<1>2. UNCHANGED <<usageLogs, charged>> \/ \E S \in SUBSET Ids : Transaction(S)
  <2>t. entries[w] \in SUBSET Ids
    BY DEF WorkerTypeOK
  <2>1. CASE Start(w) \/ ReadBacklog(w) \/ EndBacklog(w) \/ ReadLive(w)
             \/ FlushLive(w) \/ ForgetLive(w)
    BY <2>1 DEF Start, ReadBacklog, EndBacklog, ReadLive, FlushLive, ForgetLive
  <2>2. CASE Commit(w)
    BY <2>2, <2>t DEF Commit
  <2>3. CASE FallBackPerRow(w) \/ EndRows(w) \/ BumpCounters(w) \/ Ack(w)
    BY <2>3 DEF FallBackPerRow, EndRows, BumpCounters, Ack
  <2>4. CASE \E i \in Ids : WriteRow(w, i) \/ SkipRow(w, i) \/ FailRow(w, i)
    BY <2>4 DEF WriteRow, SkipRow, FailRow
  <2>5. CASE Fail(w)
    BY <2>5, <2>t DEF Fail
  <2>6. CASE Stop(w)
    BY <2>6 DEF Stop
  <2> QED
    BY <2>1, <2>2, <2>3, <2>4, <2>5, <2>6 DEF Step, Read, Flush, Mishap
<1> QED
  BY <1>0, <1>1, <1>2

\* A producer only appends, and trimming only settles.
LEMMA AppendStep ==
  ASSUME WorkerTypeOK, WorkerTypeOK', FlushInv, NEW r \in Requests, XAdd(r),
         UNCHANGED workerVars
  PROVE  FlushInv'
<1>1. /\ \A i \in Ids : stream'[i] = stream[i]
      /\ trimmed' >= trimmed
      /\ acked' = acked
  BY XAddFacts DEF WorkerTypeOK
<1>2. UNCHANGED workerVars
  OBVIOUS
<1>3. \A w \in Workers : BatchOK(w)'
  BY <1>1, <1>2, OthersOK DEF FlushInv, workerVars, batchVars, dbVars
<1>4. AckedIsSettled'
  <2>1. \A i \in Ids : Settled(i) => Settled(i)'
    BY <1>1, <1>2, SettledStays DEF workerVars, dbVars
  <2> QED
    BY <1>1, <2>1 DEF FlushInv, AckedIsSettled, WorkerTypeOK, StreamTypeOK, Ids
<1>5. ChargedIffLogged'
  BY <1>2 DEF FlushInv, ChargedIffLogged, workerVars, dbVars
<1> QED
  BY <1>3, <1>4, <1>5 DEF FlushInv

LEMMA FlushInvInit == WorkerInit => FlushInv
BY DEF StreamInit, WorkerInit, FlushInv, BatchOK, AckedIsSettled,
       ChargedIffLogged, Off

LEMMA FlushInvNext ==
  ASSUME WorkerTypeOK, FlushInv,
         [WorkerNext \/ \E r \in Requests : Publish(r)]_wvars
  PROVE  FlushInv'
<1>t. WorkerTypeOK'
  BY NextType
<1>1. ASSUME NEW w \in Workers, Step(w) \/ Mishap(w)
      PROVE  FlushInv'
  <2>1. ASSUME NEW v \in Workers \ {w}
        PROVE  BatchOK(v)'
    <3>1. /\ \A i \in Ids : stream'[i] = stream[i]
          /\ trimmed' >= trimmed
          /\ usageLogs \subseteq usageLogs' /\ skipped \subseteq skipped'
          /\ wpc'[v] = wpc[v] /\ ids'[v] = ids[v]
          /\ entries'[v] = entries[v] /\ rows'[v] = rows[v]
      BY SMTT(30), <1>1, StepFacts DEF WorkerTypeOK, StreamTypeOK
    <3> QED
      BY <3>1, <1>t, OthersOK DEF FlushInv
  <2>2. BatchOK(w)'
    BY <1>1, <1>t, OwnOK DEF FlushInv
  <2>3. AckedIsSettled'
    BY <1>1, <1>t, AckedStep DEF FlushInv
  <2>4. ChargedIffLogged'
    BY <1>1, BooksStep DEF FlushInv
  <2> QED
    BY <2>1, <2>2, <2>3, <2>4 DEF FlushInv
<1>2. ASSUME NEW r \in Requests, Publish(r)
      PROVE  FlushInv'
  BY <1>2, <1>t, AppendStep DEF Publish
<1>3. CASE UNCHANGED wvars
  BY <1>3 DEF FlushInv, BatchOK, AckedIsSettled, ChargedIffLogged, Settled,
              wvars, streamVars, workerVars, batchVars, dbVars
<1> QED
  BY <1>1, <1>2, <1>3 DEF WorkerNext

\* The flush of every batch stays on course: the invariant the two theorems
\* below are read off.
LEMMA FlushInvariant == WorkerSpec => [](WorkerTypeOK /\ FlushInv)
<1>1. WorkerInit => WorkerTypeOK /\ FlushInv
  BY InitType, FlushInvInit
<1>2. WorkerTypeOK /\ FlushInv
        /\ [WorkerNext \/ \E r \in Requests : Publish(r)]_wvars
        => (WorkerTypeOK /\ FlushInv)'
  BY NextType, FlushInvNext
<1> QED
  BY <1>1, <1>2, PTL DEF WorkerSpec

\* At least once: whatever crashes, restarts, failed transactions and lost
\* replies do, an entry is acknowledged to the group only when its request is
\* logged, was given up by the per-row fallback, does not decode, or is gone.
THEOREM AckOnlySettled == WorkerSpec => []AckedIsSettled
<1>1. FlushInv => AckedIsSettled
  BY DEF FlushInv
<1> QED
  BY <1>1, FlushInvariant, PTL

\* usage_logs and budget_usages agree on which requests have been recorded.
THEOREM BooksAgree == WorkerSpec => []ChargedIffLogged
<1>1. FlushInv => ChargedIffLogged
  BY DEF FlushInv
<1> QED
  BY <1>1, FlushInvariant, PTL
---------------------------------------------------------------------------
\* The steps that leave the group and the names alone.
LEMMA HeldQuiet ==
  ASSUME WorkerTypeOK, WorkerTypeOK', HeldInv, NEW w \in Workers,
         UNCHANGED <<name, spare, delivered, pel>>,
         \A v \in Workers \ {w} : ids'[v] = ids[v] /\ wpc'[v] = wpc[v],
         ids'[w] \subseteq pel[name[w]],
         wpc'[w] \in {Off, Reading("backlog")} => ids'[w] = {}
  PROVE  HeldInv'
BY DEF HeldInv, Reading, Off

\* The steps that acknowledge what is pending under the worker's name.
LEMMA HeldAck ==
  ASSUME WorkerTypeOK, WorkerTypeOK', HeldInv, NEW w \in Workers,
         NEW S \in SUBSET pel[name[w]], XAck(S),
         UNCHANGED <<name, spare>>,
         \A v \in Workers \ {w} : ids'[v] = ids[v] /\ wpc'[v] = wpc[v],
         ids'[w] = {}
  PROVE  HeldInv'
<1>1. /\ delivered' = delivered /\ pel' = [n \in Names |-> pel[n] \ S]
      /\ \A v \in Workers : name[v] \in Names
  BY DEF XAck, WorkerTypeOK
<1>2. ASSUME NEW v \in Workers
      PROVE  ids'[v] \subseteq pel'[name[v]]
  <2>1. CASE v = w
    BY <2>1
  <2>2. CASE v # w
    <3>1. name[v] # name[w] /\ pel[name[v]] \cap pel[name[w]] = {}
      BY <1>1, <2>2 DEF HeldInv
    <3> QED
      BY <1>1, <2>2, <3>1 DEF HeldInv
  <2> QED
    BY <2>1, <2>2
<1> QED
  BY <1>1, <1>2 DEF HeldInv, Reading, Off

\* New entries go to one name, and were pending under none.
LEMMA HeldReadNew ==
  ASSUME WorkerTypeOK, WorkerTypeOK', HeldInv, NEW w \in Workers,
         NEW count \in Nat, XReadNew(name[w], count),
         UNCHANGED <<name, spare>>,
         \A v \in Workers \ {w} : ids'[v] = ids[v] /\ wpc'[v] = wpc[v],
         ids'[w] \subseteq ids[w] \cup NewIds(count),
         wpc'[w] \in {Off, Reading("backlog")} => ids'[w] = {}
  PROVE  HeldInv'
<1>t. /\ StreamTypeOK
      /\ \A v \in Workers : name[v] \in Names
      /\ pel \in [Names -> SUBSET Ids]
      /\ delivered \in Nat
  <2>1. StreamTypeOK /\ \A v \in Workers : name[v] \in Names
    BY DEF WorkerTypeOK
  <2> QED
    BY <2>1 DEF StreamTypeOK, Ids
<1>1. /\ NewIds(count) \subseteq Ids
      /\ \A i \in NewIds(count) : i > delivered /\ i <= delivered'
      /\ delivered' >= delivered
  BY <1>t, XReadNewFacts
<1>2. pel' = [pel EXCEPT ![name[w]] = @ \cup NewIds(count)]
  BY DEF XReadNew
<1>3. \A n \in Names : NewIds(count) \cap pel[n] = {}
  BY <1>1, <1>t DEF HeldInv, Ids
<1>4. \A m, n \in Names : m # n => pel'[m] \cap pel'[n] = {}
  BY <1>2, <1>3, <1>t DEF HeldInv
<1>5. \A n \in Names : pel'[n] \subseteq 1..delivered'
  <2>1. delivered' \in Nat
    BY DEF WorkerTypeOK, StreamTypeOK
  <2>2. 1..delivered \subseteq 1..delivered'
    BY <1>1, <1>t, <2>1
  <2>3. NewIds(count) \subseteq 1..delivered'
    BY <1>1, <2>1 DEF Ids
  <2> QED
    BY <1>2, <1>t, <2>2, <2>3 DEF HeldInv
<1>6. \A v \in Workers : ids'[v] \subseteq pel'[name[v]]
  BY <1>2, <1>t DEF HeldInv
<1> QED
  BY <1>4, <1>5, <1>6 DEF HeldInv, Reading, Off

\* A pod that is replaced comes back with empty hands and a fresh name.
LEMMA HeldStop ==
  ASSUME WorkerTypeOK, WorkerTypeOK', HeldInv, NEW w \in Workers, Stop(w)
  PROVE  HeldInv'
<1>1. /\ UNCHANGED <<delivered, pel>>
      /\ ids' = [ids EXCEPT ![w] = {}]
      /\ wpc' = [wpc EXCEPT ![w] = Off]
  BY DEF Stop, DropBatch, SetBatch, Goto, streamVars
<1>2. CASE UNCHANGED <<name, spare>>
  BY <1>1, <1>2, HeldQuiet DEF WorkerTypeOK
<1>3. CASE \E n \in spare : /\ name' = [name EXCEPT ![w] = n]
                            /\ spare' = spare \ {n}
  <2> PICK n \in spare : /\ name' = [name EXCEPT ![w] = n]
                         /\ spare' = spare \ {n}
    BY <1>3
  <2>1. \A v \in Workers : name'[v] = IF v = w THEN n ELSE name[v]
    BY DEF WorkerTypeOK
  <2>2. \A v \in Workers : ids'[v] = IF v = w THEN {} ELSE ids[v]
    BY <1>1 DEF WorkerTypeOK
  <2>3. \A v \in Workers : wpc'[v] = IF v = w THEN Off ELSE wpc[v]
    BY <1>1 DEF WorkerTypeOK
  <2> QED
    BY <1>1, <2>1, <2>2, <2>3 DEF HeldInv, Reading, Off
<1> QED
  BY <1>2, <1>3 DEF Stop

LEMMA HeldStep ==
  ASSUME WorkerTypeOK, WorkerTypeOK', HeldInv, NEW w \in Workers,
         Step(w) \/ Mishap(w)
  PROVE  HeldInv'
<1>o. \A v \in Workers \ {w} : ids'[v] = ids[v] /\ wpc'[v] = wpc[v]
  BY StepFacts
<1>t. /\ wpc \in [Workers -> Phased]
      /\ ids \in [Workers -> SUBSET Ids]
      /\ ids[w] \subseteq pel[name[w]]
  BY DEF WorkerTypeOK, Phased, HeldInv
<1>q. /\ \A st \in Stages : \A ph : At(st, ph) \notin {Off, Reading("backlog")}
      /\ Reading("live") \notin {Off, Reading("backlog")}
  BY DEF Stages, At, Off, Reading
<1> USE DEF streamVars, batchVars, Goto, SetBatch, DropBatch
<1>1. CASE Start(w)
  BY <1>1, <1>o, <1>t, HeldQuiet DEF Start, HeldInv
<1>2. CASE ReadBacklog(w)
  <2>1. ids'[w] \subseteq pel[name[w]]
    BY <1>2, <1>t DEF ReadBacklog, PendingIds
  <2> QED
    BY <1>2, <2>1, <1>o, <1>t, <1>q, HeldQuiet DEF ReadBacklog, Stages
<1>3. CASE EndBacklog(w)
  <2> DEFINE I == PendingIds(name[w], BatchMax)
  <2>1. I \in SUBSET pel[name[w]]
    BY DEF PendingIds
  <2>2. XAck(I) /\ ids'[w] = {} /\ UNCHANGED <<name, spare>>
    BY <1>3 DEF EndBacklog, HeldInv
  <2> HIDE DEF I
  <2> QED
    BY <2>1, <2>2, <1>o, HeldAck
<1>4. CASE ReadLive(w)
  <2> DEFINE room == BatchMax - Cardinality(entries[w])
  <2>1. room \in Nat
    BY <1>4, RoomFacts DEF ReadLive
  <2>2. /\ XReadNew(name[w], room)
        /\ ids'[w] = ids[w] \cup NewIds(room)
        /\ wpc'[w] = Reading("live")
        /\ UNCHANGED <<name, spare>>
    BY <1>4, <1>t DEF ReadLive
  <2> HIDE DEF room
  <2> QED
    BY <2>1, <2>2, <1>o, <1>q, HeldReadNew
<1>5. CASE FlushLive(w)
  BY <1>5, <1>o, <1>t, <1>q, HeldQuiet DEF FlushLive, Stages
<1>6. CASE ForgetLive(w)
  BY <1>6, <1>o, <1>t, <1>q, HeldQuiet DEF ForgetLive
<1>7. CASE Commit(w) \/ FallBackPerRow(w)
  BY <1>7, <1>o, <1>t, <1>q, HeldQuiet DEF Commit, FallBackPerRow, Stages
<1>8. CASE EndRows(w) \/ BumpCounters(w)
  BY <1>8, <1>o, <1>t, <1>q, HeldQuiet DEF EndRows, BumpCounters, Stages
<1>9. CASE \E i \in Ids : WriteRow(w, i) \/ SkipRow(w, i) \/ FailRow(w, i)
  <2>1. UNCHANGED <<name, spare, delivered, pel, ids, wpc>>
    BY <1>9 DEF WriteRow, SkipRow, FailRow, NextRow
  <2> QED
    BY <2>1, <1>o, <1>t, HeldQuiet DEF HeldInv
<1>10. CASE Ack(w)
  <2>1. XAck(ids[w]) /\ ids'[w] = {} /\ UNCHANGED <<name, spare>>
    BY <1>10, <1>t DEF Ack
  <2> QED
    BY <2>1, <1>o, <1>t, HeldAck
<1>11. CASE Fail(w)
  <2>1. ids'[w] = {} /\ UNCHANGED <<name, spare>>
    BY <1>11, <1>t DEF Fail
  <2>2. CASE UNCHANGED streamVars
    BY <2>1, <2>2, <1>o, HeldQuiet
  <2>3. CASE /\ Cardinality(entries[w]) < BatchMax
             /\ XReadNew(name[w], BatchMax - Cardinality(entries[w]))
    BY <2>1, <2>3, <1>o, RoomFacts, HeldReadNew
  <2>4. CASE XAck(ids[w])
    BY <2>1, <2>4, <1>o, <1>t, HeldAck
  <2> QED
    BY <1>11, <2>2, <2>3, <2>4 DEF Fail
<1>12. CASE Stop(w)
  BY <1>12, HeldStop
<1> QED
  BY <1>1, <1>2, <1>3, <1>4, <1>5, <1>6, <1>7, <1>8, <1>9, <1>10, <1>11,
     <1>12 DEF Step, Read, Flush, Mishap

LEMMA HeldInvInit == DistinctNames /\ WorkerInit => HeldInv
BY WorkerAssumption DEF DistinctNames, StreamInit, WorkerInit, HeldInv

LEMMA HeldInvNext ==
  ASSUME WorkerTypeOK, HeldInv,
         [WorkerNext \/ \E r \in Requests : Publish(r)]_wvars
  PROVE  HeldInv'
<1>t. WorkerTypeOK'
  BY NextType
<1>1. ASSUME NEW w \in Workers, Step(w) \/ Mishap(w)
      PROVE  HeldInv'
  BY <1>1, <1>t, HeldStep
<1>2. CASE \E r \in Requests : Publish(r)
  BY <1>2 DEF Publish, XAdd, workerVars, batchVars, HeldInv, Reading, Off
<1>3. CASE UNCHANGED wvars
  BY <1>3 DEF HeldInv, wvars, streamVars, workerVars, batchVars, Reading, Off
<1> QED
  BY <1>1, <1>2, <1>3 DEF WorkerNext

\* No two workers ever hold the same entry, provided every worker, and every
\* pod that replaces one, reads under a name of its own: the chart's rule. It
\* does not hold under the default name that all workers share.
THEOREM NoTwoHold == DistinctNames /\ WorkerSpec => []NoOverlap
<1>1. DistinctNames /\ WorkerInit => WorkerTypeOK /\ HeldInv
  BY InitType, HeldInvInit
<1>2. WorkerTypeOK /\ HeldInv
        /\ [WorkerNext \/ \E r \in Requests : Publish(r)]_wvars
        => (WorkerTypeOK /\ HeldInv)'
  BY NextType, HeldInvNext
<1>3. WorkerTypeOK /\ HeldInv => NoOverlap
  BY DEF WorkerTypeOK, HeldInv, NoOverlap
<1> QED
  BY <1>1, <1>2, <1>3, PTL DEF WorkerSpec

---------------------------------------------------------------------------
(* The whole: what was shown of the two parts carries over to it, and it   *)
(* implements the ledger.                                                  *)

\* The invariant: the types, the flush of every batch on course, no record
\* silently gone on either side of the stream.
PipelineInv ==
  /\ RecorderTI
  /\ WorkerTypeOK
  /\ FlushInv
  /\ NoSilentLoss
  /\ Tracked

LEMMA PipelineInvInit == PipelineInit => PipelineInv
<1> SUFFICES ASSUME PipelineInit PROVE PipelineInv
  OBVIOUS
<1>1. RecorderTI /\ NoSilentLoss
  BY RecorderInvInit DEF RecorderInv, PipelineInit
<1>2. WorkerTypeOK /\ FlushInv
  BY InitType, FlushInvInit DEF PipelineInit
<1>3. Tracked
  BY DEF PipelineInit, RecorderInit, StreamInit, Tracked
<1> QED
  BY <1>1, <1>2, <1>3 DEF PipelineInv

\* To the workers, a step of the gateway is at most an entry appended.
LEMMA GatewayTracked ==
  ASSUME StreamTypeOK, Tracked, UNCHANGED streamVars \/ \E q \in Requests : XAdd(q)
  PROVE  Tracked'
<1>1. /\ UNCHANGED <<delivered, pel, acked>>
      /\ trimmed' >= trimmed
      /\ StreamTypeOK'
  <2>1. CASE UNCHANGED streamVars
    BY <2>1 DEF streamVars, StreamTypeOK
  <2>2. ASSUME NEW q \in Requests, XAdd(q)
        PROVE  /\ UNCHANGED <<delivered, pel, acked>>
               /\ trimmed' >= trimmed
               /\ StreamTypeOK'
    BY <2>2, XAddFacts
  <2> QED
    BY <2>1, <2>2
<1>2. \A i \in Int : i <= trimmed => i <= trimmed'
  BY <1>1 DEF StreamTypeOK
<1> QED
  BY <1>1, <1>2 DEF Tracked

LEMMA GatewayStep ==
  ASSUME PipelineInv, RecorderNext, UNCHANGED workerVars
  PROVE  PipelineInv'
<1>1. RecorderTI' /\ NoSilentLoss'
  BY RecorderTINext, NoSilentLossStep DEF PipelineInv
<1>2. UNCHANGED streamVars \/ \E q \in Requests : XAdd(q)
  BY StreamStep DEF PipelineInv
<1>3. WorkerTypeOK'
  BY <1>2, AppendType, StutterType DEF PipelineInv, wvars
<1>4. FlushInv'
  <2>1. CASE UNCHANGED streamVars
    BY <2>1, FlushInvNext DEF PipelineInv, wvars
  <2> QED
    BY <1>2, <1>3, <2>1, AppendStep DEF PipelineInv
<1>5. Tracked'
  BY <1>2, GatewayTracked DEF PipelineInv, RecorderTI
<1> QED
  BY <1>1, <1>3, <1>4, <1>5 DEF PipelineInv
---------------------------------------------------------------------------
\* What a step of a worker does to the group: nothing, a reading, or an XACK.
LEMMA GroupStep ==
  ASSUME WorkerTypeOK, NEW w \in Workers, Step(w) \/ Mishap(w)
  PROVE  \/ UNCHANGED streamVars
         \/ \E count \in Nat : XReadNew(name[w], count)
         \/ \E S \in SUBSET Ids : XAck(S)
<1>t. ids[w] \in SUBSET Ids /\ PendingIds(name[w], BatchMax) \in SUBSET Ids
  BY PendingFacts DEF WorkerTypeOK
<1>r. Cardinality(entries[w]) < BatchMax => BatchMax - Cardinality(entries[w]) \in Nat
  BY RoomFacts
<1>1. CASE EndBacklog(w) \/ Ack(w)
  BY <1>1, <1>t DEF EndBacklog, Ack
<1>2. CASE ReadLive(w)
  BY <1>2, <1>r DEF ReadLive
<1>3. CASE Fail(w)
  BY <1>3, <1>t, <1>r DEF Fail
<1>4. CASE Start(w) \/ ReadBacklog(w) \/ FlushLive(w) \/ ForgetLive(w)
  BY <1>4 DEF Start, ReadBacklog, FlushLive, ForgetLive
<1>5. CASE Commit(w) \/ FallBackPerRow(w) \/ EndRows(w) \/ BumpCounters(w)
  BY <1>5 DEF Commit, FallBackPerRow, EndRows, BumpCounters
<1>6. CASE \E i \in Ids : WriteRow(w, i) \/ SkipRow(w, i) \/ FailRow(w, i)
  BY <1>6 DEF WriteRow, SkipRow, FailRow, NextRow
<1>7. CASE Stop(w)
  BY <1>7 DEF Stop
<1> QED
  BY <1>1, <1>2, <1>3, <1>4, <1>5, <1>6, <1>7 DEF Step, Read, Flush, Mishap

\* The group moves forward, and what becomes pending was still to be read.
LEMMA GroupFacts ==
  ASSUME WorkerTypeOK, Tracked, NEW w \in Workers, Step(w) \/ Mishap(w)
  PROVE  /\ delivered' >= delivered
         /\ \A n \in Names : \A i \in pel'[n] : i \in pel[n] \/ i > delivered
         /\ Tracked'
<1>t. /\ StreamTypeOK
      /\ name[w] \in Names
      /\ delivered \in Nat /\ trimmed \in Nat
      /\ pel \in [Names -> SUBSET Ids]
  BY DEF WorkerTypeOK, StreamTypeOK, Ids
<1>1. CASE UNCHANGED streamVars
  BY <1>1, <1>t DEF streamVars, Tracked
<1>2. ASSUME NEW count \in Nat, XReadNew(name[w], count)
      PROVE  /\ delivered' >= delivered
             /\ \A n \in Names : \A i \in pel'[n] : i \in pel[n] \/ i > delivered
             /\ Tracked'
  <2>1. /\ \A i \in NewIds(count) : i > delivered /\ i <= delivered'
        /\ delivered' >= delivered
    BY <1>2, <1>t, XReadNewFacts
  <2>2. /\ pel' = [pel EXCEPT ![name[w]] = @ \cup NewIds(count)]
        /\ delivered' = LastNew(count)
        /\ UNCHANGED <<trimmed, acked>>
    BY <1>2 DEF XReadNew
  <2>3. ASSUME NEW i \in 1..delivered'
        PROVE  i <= trimmed \/ i \in acked \/ \E n \in Names : i \in pel'[n]
    <3>1. CASE i <= delivered
      BY <3>1, <2>2, <1>t DEF Tracked
    <3>2. CASE i > delivered /\ i > trimmed
      <4>1. i \in NewIds(count)
        BY <3>2, <2>2, <1>t DEF NewIds, Horizon
      <4> QED
        BY <4>1, <2>2, <1>t
    <3> QED
      BY <3>1, <3>2, <2>2, <1>t, <2>1
  <2> QED
    BY <2>1, <2>2, <2>3, <1>t DEF Tracked
<1>3. ASSUME NEW S \in SUBSET Ids, XAck(S)
      PROVE  /\ delivered' >= delivered
             /\ \A n \in Names : \A i \in pel'[n] : i \in pel[n] \/ i > delivered
             /\ Tracked'
  BY <1>3, <1>t DEF XAck, Tracked
<1> QED
  BY <1>1, <1>2, <1>3, GroupStep

LEMMA WorkerStep ==
  ASSUME PipelineInv, NEW w \in Workers, Step(w) \/ Mishap(w),
         UNCHANGED recorderVars
  PROVE  PipelineInv'
<1>1. WorkerTypeOK' /\ FlushInv'
  BY NextType, FlushInvNext DEF PipelineInv, WorkerNext
<1>2. RecorderTI'
  BY <1>1 DEF PipelineInv, RecorderTI, RecorderTypeOK, WorkerTypeOK, recorderVars
<1>3. stream' = stream
  BY StepFacts DEF PipelineInv
<1>4. NoSilentLoss'
  BY <1>3 DEF PipelineInv, NoSilentLoss, Accounted, Waiting, recorderVars
<1>5. Tracked'
  BY GroupFacts DEF PipelineInv
<1> QED
  BY <1>1, <1>2, <1>4, <1>5 DEF PipelineInv

LEMMA PipelineInvNext == PipelineInv /\ [PipelineNext]_pvars => PipelineInv'
<1> SUFFICES ASSUME PipelineInv, [PipelineNext]_pvars PROVE PipelineInv'
  OBVIOUS
<1>1. CASE RecorderNext /\ UNCHANGED workerVars
  BY <1>1, GatewayStep
<1>2. CASE WorkerNext /\ UNCHANGED recorderVars
  BY <1>2, WorkerStep DEF WorkerNext
<1>3. CASE UNCHANGED pvars
  <2>1. RecorderTI'
    BY <1>3, RecorderTINext DEF pvars, rvars, PipelineInv
  <2>2. WorkerTypeOK' /\ FlushInv'
    BY <1>3, NextType, FlushInvNext DEF pvars, wvars, PipelineInv
  <2>3. NoSilentLoss' /\ Tracked'
    BY <1>3 DEF PipelineInv, NoSilentLoss, Accounted, Waiting, Tracked,
                pvars, streamVars, recorderVars
  <2> QED
    BY <2>1, <2>2, <2>3 DEF PipelineInv
<1> QED
  BY <1>1, <1>2, <1>3 DEF PipelineNext

LEMMA PipelineInvariant == PipelineSpec => []PipelineInv
BY PipelineInvInit, PipelineInvNext, PTL DEF PipelineSpec

\* Whatever the gateway does with its spool, and whatever crashes on either
\* side, the workers acknowledge only what is settled.
THEOREM PipelineAcksSettled == PipelineSpec => []AckedIsSettled
<1>1. PipelineInv => AckedIsSettled
  BY DEF PipelineInv, FlushInv
<1> QED
  BY <1>1, PipelineInvariant, PTL
---------------------------------------------------------------------------
\* A record nobody can bring back was evicted, ended with its process, was
\* trimmed, rejected or skipped: follow its copy in the stream.
LEMMA LostForCause ==
  ASSUME PipelineInv, NEW r \in Requests, r \notin usageLogs, ~Alive(r)
  PROVE  \/ r \in evicted \cup lost \cup Rejected
         \/ \E i \in Copies(r) : i \in skipped \/ i <= trimmed
<1>t. /\ pc \in [Requests -> {"serving", "xadd", "done"}]
      /\ stream \in Seq(Requests)
      /\ trimmed \in Nat /\ delivered \in Nat /\ Len(stream) \in Nat
  BY DEF PipelineInv, RecorderTI, RecorderTypeOK, StreamTypeOK
<1>1. r \in Range(stream) \/ r \in evicted \cup lost
  BY <1>t DEF PipelineInv, NoSilentLoss, Accounted, Alive
<1>2. ASSUME r \in Range(stream)
      PROVE  \E i \in Copies(r) : i \in skipped \/ i <= trimmed \/ r \in Rejected
  <2>1. PICK i \in Ids : stream[i] = r
    BY <1>2, <1>t DEF Range, Ids
  <2>2. i \in Copies(r) /\ i \in 1..Len(stream)
    BY <2>1 DEF Copies, Ids
  <2>3. ~CopyAlive(i)
    BY <2>2 DEF Alive
  <2>4. i <= trimmed \/ (i \in 1..delivered /\ \A n \in Names : i \notin pel[n])
    BY <2>2, <2>3, <1>t DEF CopyAlive
  <2>5. i <= trimmed \/ i \in acked
    BY <2>4 DEF PipelineInv, Tracked
  <2>6. i \in acked => Settled(i)
    BY DEF PipelineInv, FlushInv, AckedIsSettled
  <2> QED
    BY <2>1, <2>2, <2>5, <2>6 DEF Settled
<1> QED
  BY <1>1, <1>2

\* No record is lost but for a cause the code names, end to end: from finalize
\* in the gateway to the row in usage_logs.
THEOREM EveryLossHasCause == PipelineSpec => []LossHasCause
<1>1. PipelineInv => LossHasCause
  BY LostForCause DEF LossHasCause, RecordOf
<1> QED
  BY <1>1, PipelineInvariant, PTL
---------------------------------------------------------------------------
\* The gateway appends the requests it still has, and no others.
LEMMA StreamSource ==
  ASSUME RecorderTI, RecorderNext
  PROVE  \/ UNCHANGED streamVars
         \/ \E q \in Requests : XAdd(q) /\ (pc[q] = "xadd" \/ q \in Range(Waiting))
<1>1. ASSUME held # <<>>
      PROVE  Head(held) \in Requests /\ Head(held) \in Range(Waiting)
  BY <1>1, SingleFacts, WaitingFacts DEF RecorderTI, RecorderTypeOK
<1> QED
  BY <1>1 DEF RecorderNext, StartXAdd, XAddOk, XAddFail, DrainPop, DrainOk,
    DrainFail, BeginShutdown, EndDrain, Exit, Restart

\* What the gateway has after a step it had before.
LEMMA GatewayKeeps ==
  ASSUME RecorderTI, RecorderNext, NEW r \in Requests,
         pc'[r] \in {"serving", "xadd"} \/ r \in Range(Waiting')
  PROVE  pc[r] \in {"serving", "xadd"} \/ r \in Range(Waiting)
<1>t. /\ pc \in [Requests -> {"serving", "xadd", "done"}]
      /\ pc' \in [Requests -> {"serving", "xadd", "done"}]
  BY RecorderTINext DEF RecorderTI, RecorderTypeOK
<1>1. CASE Quiet
  BY <1>1, <1>t DEF Quiet
<1>2. ASSUME NEW q \in Requests, Spooled(q)
      PROVE  pc[r] \in {"serving", "xadd"} \/ r \in Range(Waiting)
  <2>1. Range(Waiting') \subseteq Range(Waiting) \cup {q}
    BY <1>2, SpooledFacts
  <2> QED
    BY <1>2, <2>1, <1>t DEF Spooled
<1>3. CASE DrainOk
  BY <1>3, <1>t, DrainOkFacts
<1>4. CASE Exit
  <2>1. Range(Waiting') = {}
    BY <1>4, ExitFacts DEF Range
  <2>2. pc[r] = "done" => pc'[r] = "done"
    BY <1>4, ExitFacts
  <2> QED
    BY <2>1, <2>2, <1>t
<1> QED
  BY <1>1, <1>2, <1>3, <1>4, StepCases

\* A step of the gateway revives no record.
LEMMA GatewayRevivesNone ==
  ASSUME PipelineInv, RecorderNext, UNCHANGED workerVars,
         NEW r \in Requests, Alive(r)'
  PROVE  Alive(r)
<1>t. /\ StreamTypeOK /\ RecorderTI
      /\ trimmed \in Nat /\ delivered \in Nat /\ Len(stream) \in Nat
      /\ stream \in Seq(Requests)
  BY DEF PipelineInv, RecorderTI, StreamTypeOK
<1>1. CASE pc'[r] \in {"serving", "xadd"} \/ r \in Range(Waiting')
  BY <1>1, <1>t, GatewayKeeps DEF Alive
<1>2. ASSUME NEW i \in Copies(r)', CopyAlive(i)'
      PROVE  Alive(r)
  <2>1. CASE UNCHANGED streamVars
    <3>1. i \in Copies(r) /\ CopyAlive(i)
      BY <1>2, <2>1 DEF streamVars, workerVars, batchVars, Copies, Ids, CopyAlive
    <3> QED
      BY <3>1 DEF Alive
  <2>2. ASSUME NEW q \in Requests, XAdd(q),
               pc[q] = "xadd" \/ q \in Range(Waiting)
        PROVE  Alive(r)
    <3>1. /\ \A j \in Ids : stream'[j] = stream[j]
          /\ trimmed' >= trimmed /\ trimmed' \in Nat
          /\ UNCHANGED <<delivered, pel, entries>>
      BY <2>2, <1>t, XAddFacts DEF StreamTypeOK, workerVars, batchVars
    <3>2. Len(stream') = Len(stream) + 1 /\ stream'[Len(stream) + 1] = q
      BY <2>2, <1>t DEF XAdd
    <3>3. i \in Ids' /\ stream'[i] = r
      BY <1>2 DEF Copies
    <3>4. CASE i \in Ids
      <4>1. i \in Copies(r)
        BY <3>1, <3>3, <3>4 DEF Copies
      <4>2. CopyAlive(i)
        BY <1>2, <3>1, <3>4, <1>t DEF CopyAlive, Ids
      <4> QED
        BY <4>1, <4>2 DEF Alive
    <3>5. CASE i \notin Ids
      <4>1. i = Len(stream) + 1
        BY <3>2, <3>3, <3>5, <1>t DEF Ids
      <4>2. r = q
        BY <4>1, <3>2, <3>3
      <4> QED
        BY <4>2, <2>2 DEF Alive
    <3> QED
      BY <3>4, <3>5
  <2> QED
    BY <2>1, <2>2, <1>t, StreamSource
<1> QED
  BY <1>1, <1>2 DEF Alive
---------------------------------------------------------------------------
\* A batch takes in what is pending under its worker's name or still unread.
LEMMA BatchSource ==
  ASSUME WorkerTypeOK, NEW w \in Workers, Step(w) \/ Mishap(w),
         NEW i \in entries'[w]
  PROVE  \/ i \in entries[w]
         \/ i > trimmed /\ (i \in pel[name[w]] \/ i > delivered)
<1> USE DEF batchVars, SetBatch
<1>t. entries \in [Workers -> SUBSET Ids] /\ StreamTypeOK /\ name[w] \in Names
  BY DEF WorkerTypeOK
<1>1. CASE ReadBacklog(w)
  BY <1>1, <1>t DEF ReadBacklog, PendingIds, Decodable
<1>2. CASE ReadLive(w)
  <2> DEFINE room == BatchMax - Cardinality(entries[w])
  <2>1. \A j \in NewIds(room) : j > delivered
    BY <1>2, <1>t, RoomFacts, XReadNewFacts DEF ReadLive
  <2>2. entries'[w] = entries[w] \cup {j \in NewIds(room) : Decodable(j)}
    BY <1>2, <1>t DEF ReadLive
  <2> QED
    BY <2>1, <2>2 DEF Decodable
<1>3. CASE Start(w) \/ EndBacklog(w) \/ FlushLive(w) \/ ForgetLive(w)
  BY <1>3, <1>t DEF Start, EndBacklog, FlushLive, ForgetLive
<1>4. CASE Commit(w) \/ FallBackPerRow(w) \/ EndRows(w) \/ BumpCounters(w)
  BY <1>4 DEF Commit, FallBackPerRow, EndRows, BumpCounters
<1>5. CASE \E j \in Ids : WriteRow(w, j) \/ SkipRow(w, j) \/ FailRow(w, j)
  BY <1>5 DEF WriteRow, SkipRow, FailRow, NextRow
<1>6. CASE Ack(w) \/ Fail(w) \/ Stop(w)
  BY <1>6, <1>t DEF Ack, Fail, Stop, DropBatch
<1> QED
  BY <1>1, <1>2, <1>3, <1>4, <1>5, <1>6 DEF Step, Read, Flush, Mishap

LEMMA WorkerRevivesNone ==
  ASSUME PipelineInv, NEW w \in Workers, Step(w) \/ Mishap(w),
         NEW i \in Ids, CopyAlive(i)'
  PROVE  CopyAlive(i)
<1>t. /\ WorkerTypeOK /\ Tracked
      /\ delivered \in Nat /\ delivered' \in Nat
      /\ name[w] \in Names
  <2>1. WorkerTypeOK /\ WorkerTypeOK'
    BY NextType DEF PipelineInv, WorkerNext
  <2>2. Tracked /\ StreamTypeOK /\ StreamTypeOK' /\ name[w] \in Names
    BY <2>1 DEF PipelineInv, WorkerTypeOK
  <2>3. delivered \in Nat /\ delivered' \in Nat
    BY <2>2 DEF StreamTypeOK
  <2> QED
    BY <2>1, <2>2, <2>3
<1>1. /\ trimmed' = trimmed
      /\ \A v \in Workers \ {w} : entries'[v] = entries[v]
  BY <1>t, StepFacts
<1>2. /\ delivered' >= delivered
      /\ \A n \in Names : \A j \in pel'[n] : j \in pel[n] \/ j > delivered
  BY <1>t, GroupFacts
<1>3. CASE i > trimmed /\ i > delivered'
  BY <1>3, <1>2, <1>t DEF CopyAlive, Ids
<1>4. CASE i > trimmed /\ \E n \in Names : i \in pel'[n]
  BY <1>4, <1>2 DEF CopyAlive
<1>5. CASE \E v \in Workers : i \in entries'[v]
  BY <1>5, <1>1, <1>t, BatchSource DEF CopyAlive
<1> QED
  BY <1>1, <1>3, <1>4, <1>5 DEF CopyAlive

\* What is written was in the batch, and a write drops nothing it has not
\* written.
LEMMA WriteCases ==
  ASSUME PipelineInv, NEW w \in Workers, Step(w) \/ Mishap(w)
  PROVE  \/ usageLogs' = usageLogs
         \/ /\ UNCHANGED streamVars
            /\ \E S \in SUBSET entries[w] :
                 /\ Transaction(S)
                 /\ \A i \in entries[w] : i \in entries'[w] \/ i \in S
<1>t. /\ wpc[w][1] = "perrow" => rows[w] \subseteq entries[w]
      /\ entries[w] \in SUBSET entries[w]
  BY DEF PipelineInv, FlushInv, BatchOK
<1>1. CASE Commit(w)
  BY <1>1, <1>t DEF Commit, batchVars
<1>2. CASE \E i \in Ids : WriteRow(w, i) \/ FailRow(w, i)
  <2>1. PICK i \in Ids : WriteRow(w, i) \/ FailRow(w, i)
    BY <1>2
  <2>2. {i} \in SUBSET entries[w] /\ UNCHANGED <<streamVars, entries>>
    BY <2>1, <1>t DEF WriteRow, FailRow, NextRow
  <2> QED
    BY <2>1, <2>2 DEF WriteRow, FailRow
<1>3. CASE Fail(w)
  BY <1>3, <1>t DEF Fail, dbVars
<1>4. CASE Start(w) \/ ReadBacklog(w) \/ EndBacklog(w) \/ ReadLive(w)
           \/ FlushLive(w) \/ ForgetLive(w)
  BY <1>4 DEF Start, ReadBacklog, EndBacklog, ReadLive, FlushLive, ForgetLive, dbVars
<1>5. CASE FallBackPerRow(w) \/ EndRows(w) \/ BumpCounters(w) \/ Ack(w) \/ Stop(w)
  BY <1>5 DEF FallBackPerRow, EndRows, BumpCounters, Ack, Stop, dbVars
<1>6. CASE \E i \in Ids : SkipRow(w, i)
  BY <1>6 DEF SkipRow
<1> QED
  BY <1>1, <1>2, <1>3, <1>4, <1>5, <1>6 DEF Step, Read, Flush, Mishap
---------------------------------------------------------------------------
\* A step that only writes what is alive, revives nothing, and drops something
\* only when it writes nothing else, is a step of the ledger.
LEMMA LedgerStep ==
  ASSUME usageLogs \subseteq usageLogs',
         \A r \in Requests : Alive(r)' => Alive(r),
         \A r \in Requests : r \in usageLogs' => r \in usageLogs \/ Alive(r),
         \/ usageLogs' = usageLogs
         \/ \A r \in Requests : Alive(r) => Alive(r)' \/ r \in usageLogs'
  PROVE  Ledger!Next
<1> DEFINE S == {r \in Requests : RecordOf(r) = "open" /\ RecordOf(r)' # "open"}
<1>1. CASE usageLogs' = usageLogs
  <2>1. \A r \in Requests :
          RecordOf(r)' = IF r \in S THEN "lost" ELSE RecordOf(r)
    BY <1>1 DEF RecordOf
  <2> QED
    BY <2>1 DEF Ledger!Next, Ledger!Close
<1>2. CASE \A r \in Requests : Alive(r) => Alive(r)' \/ r \in usageLogs'
  <2>1. \A r \in Requests :
          RecordOf(r)' = IF r \in S THEN "recorded" ELSE RecordOf(r)
    BY <1>2 DEF RecordOf
  <2> QED
    BY <2>1 DEF Ledger!Next, Ledger!Close
<1> QED
  BY <1>1, <1>2

LEMMA GatewayLedger ==
  ASSUME PipelineInv, RecorderNext, UNCHANGED workerVars
  PROVE  Ledger!Next
<1>1. usageLogs' = usageLogs
  BY DEF workerVars, dbVars
<1>2. \A r \in Requests : Alive(r)' => Alive(r)
  BY GatewayRevivesNone
<1> QED
  BY <1>1, <1>2, LedgerStep

LEMMA WorkerLedger ==
  ASSUME PipelineInv, NEW w \in Workers, Step(w) \/ Mishap(w),
         UNCHANGED recorderVars
  PROVE  Ledger!Next
<1>1. /\ stream' = stream /\ usageLogs \subseteq usageLogs'
      /\ \A v \in Workers \ {w} : entries'[v] = entries[v]
      /\ entries[w] \subseteq Ids
  BY StepFacts DEF PipelineInv, WorkerTypeOK
<1>2. /\ Ids' = Ids
      /\ \A r : Copies(r)' = Copies(r)
      /\ Waiting' = Waiting /\ pc' = pc
  BY <1>1 DEF Ids, Copies, Waiting, recorderVars
<1>3. \A r \in Requests : Alive(r)' => Alive(r)
  <2> SUFFICES ASSUME NEW r \in Requests, Alive(r)'
               PROVE  Alive(r)
    OBVIOUS
  <2>1. ASSUME NEW i \in Copies(r), CopyAlive(i)'
        PROVE  CopyAlive(i)
    BY <2>1, WorkerRevivesNone DEF Copies
  <2> QED
    BY <1>2, <2>1 DEF Alive
<1>4. CASE usageLogs' = usageLogs
  BY <1>3, <1>4, LedgerStep
<1>5. ASSUME UNCHANGED streamVars, NEW S \in SUBSET entries[w], Transaction(S),
             \A i \in entries[w] : i \in entries'[w] \/ i \in S
      PROVE  Ledger!Next
  <2>1. \A r \in Requests : r \in usageLogs' => r \in usageLogs \/ Alive(r)
    BY <1>1, <1>5 DEF Transaction, Alive, CopyAlive, Copies
  <2>2. ASSUME NEW r \in Requests, Alive(r)
        PROVE  Alive(r)' \/ r \in usageLogs'
    <3>1. ASSUME NEW i \in Copies(r), CopyAlive(i)
          PROVE  CopyAlive(i)' \/ r \in usageLogs'
      <4>1. CASE \E v \in Workers : i \in entries[v]
        BY <4>1, <1>1, <1>5, <3>1 DEF CopyAlive, Copies, Transaction
      <4>2. CASE i > trimmed /\ (i > delivered \/ \E n \in Names : i \in pel[n])
        BY <4>2, <1>5 DEF CopyAlive, streamVars
      <4> QED
        BY <3>1, <4>1, <4>2 DEF CopyAlive
    <3> QED
      BY <2>2, <3>1, <1>2 DEF Alive
  <2> QED
    BY <1>1, <1>3, <2>1, <2>2, LedgerStep
<1> QED
  BY <1>4, <1>5, WriteCases

LEMMA NextIsLedger ==
  PipelineInv /\ [PipelineNext]_pvars
    => [Ledger!Next]_([r \in Requests |-> RecordOf(r)])
<1> SUFFICES ASSUME PipelineInv, [PipelineNext]_pvars
             PROVE  Ledger!Next \/ UNCHANGED [r \in Requests |-> RecordOf(r)]
  OBVIOUS
<1>1. CASE RecorderNext /\ UNCHANGED workerVars
  BY <1>1, GatewayLedger
<1>2. CASE WorkerNext /\ UNCHANGED recorderVars
  BY <1>2, WorkerLedger DEF WorkerNext
<1>3. CASE UNCHANGED pvars
  BY <1>3 DEF pvars, streamVars, recorderVars, workerVars, batchVars, dbVars,
    RecordOf, Alive, CopyAlive, Copies, Ids, Waiting
<1> QED
  BY <1>1, <1>2, <1>3 DEF PipelineNext

LEMMA InitIsLedger == PipelineInit => Ledger!Init
BY DEF PipelineInit, RecorderInit, WorkerInit, RecordOf, Alive, Ledger!Init

\* The pipeline implements the ledger: whatever is retried, replayed, crashed
\* or restarted, a record nothing can bring back stays lost, and a row that is
\* written stays.
THEOREM PipelineImplementsLedger == PipelineSpec => ImplementsLedger
BY PipelineInvariant, InitIsLedger, NextIsLedger, PTL
DEF PipelineSpec, ImplementsLedger, Ledger!Spec
---------------------------------------------------------------------------
(***************************************************************************)
(* How old a cached policy can be, and why, for any models, TTL and loads. *)
(* What a load has in hand was the committed value at most one tick ago;   *)
(* the tick ages an entry and what it may be stale by alike.  And once a   *)
(* transaction has deleted its key, only a load that raced it, or a failed *)
(* query, puts the key back before the commit.                             *)
(***************************************************************************)
Entries == [policy : Policies, value : Numbers, age : 0..(TTL - 1),
            blind : BOOLEAN, raced : BOOLEAN]
Saving == [at : {"save"}, policy : Policies, value : Numbers, left : Seq(Keys),
           blind : BOOLEAN, raced : BOOLEAN, aged : BOOLEAN]
Writing == [policy : Policies, value : Numbers, left : Seq(Keys), failed : SUBSET Keys]

PolicyTypes ==
  /\ committed \in [Policies -> Numbers] /\ changes \in Numbers
  /\ cache \in [Keys -> Entries \cup {NoEntry}]
  /\ since \in [Policies -> [Numbers -> Nat]]
  /\ load \in [Loads -> Saving \cup {NoLoad}]
  /\ write \in Writing \cup {NoWrite}

(* The transaction under way has its one key to delete, or is through; a load
   has all the keys of its policy to save, or the second of two. *)
WriteShape ==
  write # NoWrite =>
    \/ write.left = <<write.policy>> /\ write.failed = {}
    \/ write.left = <<>> /\ write.failed \in {{}, {write.policy}}

LoadShape ==
  \A r \in Loads : load[r].at = "save" =>
    load[r].left \in {Places(load[r].policy), Tail(Places(load[r].policy))} \ {<<>>}

CurrentIsFresh == \A p \in Policies : since[p][committed[p]] = 0

LoadsFresh ==
  \A r \in Loads : (load[r].at = "save" /\ ~load[r].blind) =>
    since[load[r].policy][load[r].value] <= IF load[r].aged THEN 1 ELSE 0

(* Under a policy's own key there is nothing but that policy. *)
OwnKey == \A p \in Policies : cache[p] # NoEntry => cache[p].policy = p

LoadsCurrent ==
  \A r \in Loads : (load[r].at = "save" /\ ~load[r].blind /\ ~load[r].raced
                      /\ load[r].policy \notin overwritten) =>
    load[r].value = committed[load[r].policy]

DeletedIsRaced ==
  (write # NoWrite /\ write.left = <<>> /\ write.failed = {}) =>
    /\ cache[write.policy] # NoEntry => cache[write.policy].raced
    /\ \A r \in Loads : (load[r].at = "save" /\ load[r].policy = write.policy) => load[r].raced

PolicyShape == PolicyTypes /\ WriteShape /\ LoadShape
Fresh == CurrentIsFresh /\ LoadsFresh /\ BoundedStaleness
Caused == OwnKey /\ LoadsCurrent /\ DeletedIsRaced /\ StalePolicyHasCause
PolicyInv == PolicyShape /\ Fresh /\ Caused

-----------------------------------------------------------------------------
(* The keys a policy is cached under: its own, and for a model its id's, which
   is no policy's own. *)
LEMMA PlacesFacts ==
  ASSUME NEW p \in Policies
  PROVE  /\ p \in Keys
         /\ \/ Places(p) = <<p>>
            \/ \E k \in Keys \ Policies : Places(p) = <<p, k>>
<1>1. p \in Keys
  BY DEF Keys
<1>2. CASE p[1] # "model"
  BY <1>1, <1>2 DEF Places
<1>3. CASE p[1] = "model"
  <2>1. p \in {"model"} \X Models
    BY <1>3 DEF Policies
  <2>2. IdOf[p[2]] \in ProviderIds /\ IdOf[p[2]] \notin Models
    BY <2>1, PolicyAssumption
  <2>3. <<"model", IdOf[p[2]]>> \in Keys /\ <<"model", IdOf[p[2]]>> \notin Policies
    BY <2>2 DEF Keys, Policies
  <2> QED
    BY <1>1, <1>3, <2>3 DEF Places
<1> QED
  BY <1>2, <1>3

(* What a load does next: one key, its policy's own or no policy's. *)
LEMMA NextPlace ==
  ASSUME PolicyTypes, LoadShape, NEW r \in Loads, load[r].at = "save"
  PROVE  LET left == load[r].left IN
         /\ load[r] \in Saving
         /\ Head(left) \in Keys
         /\ Head(left) \in Policies => Head(left) = load[r].policy
         /\ Len(left) # 1 => /\ Tail(left) \in Seq(Keys)
                             /\ Tail(left) \in {Tail(Places(load[r].policy))} \ {<<>>}
<1> DEFINE p == load[r].policy
           left == load[r].left
<1>1. load[r] \in Saving
  BY DEF PolicyTypes, NoLoad
<1>2. p \in Policies /\ left \in {Places(p), Tail(Places(p))} \ {<<>>}
  BY <1>1 DEF Saving, LoadShape
<1>3. CASE Places(p) = <<p>>
  <2>1. left = <<p>>
    BY <1>2, <1>3
  <2> QED
    BY <1>1, <1>2, <2>1, PlacesFacts
<1>4. ASSUME NEW k \in Keys \ Policies, Places(p) = <<p, k>>
      PROVE  /\ Head(left) \in Keys
             /\ Head(left) \in Policies => Head(left) = p
             /\ Len(left) # 1 => /\ Tail(left) \in Seq(Keys)
                                 /\ Tail(left) \in {Tail(Places(p))} \ {<<>>}
  <2>1. Tail(<<p, k>>) = <<k>>
    OBVIOUS
  <2>2. CASE left = <<p, k>>
    BY <1>2, <1>4, <2>1, <2>2, PlacesFacts
  <2>3. CASE left = <<k>>
    BY <1>4, <2>3
  <2> QED
    BY <1>2, <1>4, <2>1, <2>2, <2>3
<1> QED
  BY <1>1, <1>2, <1>3, <1>4, PlacesFacts

LEMMA FirstFacts == 0 \in Numbers /\ 1 \in Numbers /\ \A p \in Policies : FirstValue(p) \in {0, 1}
BY PolicyAssumption DEF Numbers, FirstValue

LEMMA PolicyInitInv == PolicyInit => PolicyInv
<1> SUFFICES ASSUME PolicyInit PROVE PolicyInv
  OBVIOUS
<1>1. TTL + 1 \in Nat /\ 1 \in Numbers
  BY PolicyAssumption DEF Numbers
<1>2. PolicyTypes
  BY <1>1, FirstFacts DEF PolicyInit, PolicyTypes
<1>3. \A p \in Policies : committed[p] = FirstValue(p)
  BY DEF PolicyInit
<1>4. CurrentIsFresh
  BY <1>3, FirstFacts DEF PolicyInit, CurrentIsFresh
<1>5. \A k \in Keys : cache[k] = NoEntry
  BY DEF PolicyInit
<1>6. \A r \in Loads : load[r].at = "idle"
  BY DEF PolicyInit, NoLoad
<1> QED
  BY <1>2, <1>4, <1>5, <1>6, PlacesFacts DEF PolicyInv, PolicyShape, Fresh, Caused, WriteShape,
     LoadShape, LoadsFresh, BoundedStaleness, OwnKey, LoadsCurrent, DeletedIsRaced,
     StalePolicyHasCause, PolicyInit

-----------------------------------------------------------------------------
(* What Overtaken does to a load: it is raced if it is of the policy. *)
LEMMA OvertakenFacts ==
  ASSUME PolicyTypes, NEW p \in Policies, load' = Overtaken(p)
  PROVE  /\ load' \in [Loads -> Saving \cup {NoLoad}]
         /\ \A r \in Loads : load'[r].at = load[r].at
         /\ \A r \in Loads : load[r].at = "save" =>
              /\ load'[r].policy = load[r].policy /\ load'[r].value = load[r].value
              /\ load'[r].left = load[r].left /\ load'[r].blind = load[r].blind
              /\ load'[r].aged = load[r].aged
              /\ load'[r].raced = (load[r].raced \/ load[r].policy = p)
<1>1. ASSUME NEW r \in Loads
      PROVE  load'[r] = IF load[r].at = "save" /\ load[r].policy = p
                        THEN [load[r] EXCEPT !.raced = TRUE] ELSE load[r]
  BY DEF Overtaken
<1>2. ASSUME NEW r \in Loads, load[r].at = "save"
      PROVE  load[r] \in Saving
  BY <1>2 DEF PolicyTypes, NoLoad
<1>3. ASSUME NEW r \in Loads, load[r].at = "save"
      PROVE  /\ load'[r] \in Saving /\ load'[r].at = "save"
             /\ load'[r].policy = load[r].policy /\ load'[r].value = load[r].value
             /\ load'[r].left = load[r].left /\ load'[r].blind = load[r].blind
             /\ load'[r].aged = load[r].aged
             /\ load'[r].raced = (load[r].raced \/ load[r].policy = p)
  <2>1. load[r] \in Saving
    BY <1>2, <1>3
  <2>2. CASE load[r].policy = p
    <3>1. load'[r] = [load[r] EXCEPT !.raced = TRUE]
      BY <1>1, <1>3, <2>2
    <3> QED
      BY <2>1, <2>2, <3>1 DEF Saving
  <2>3. CASE load[r].policy # p
    <3>1. load'[r] = load[r]
      BY <1>1, <2>3
    <3>2. load[r].raced = (load[r].raced \/ load[r].policy = p)
      BY <2>1, <2>3 DEF Saving
    <3> QED
      BY <1>3, <2>1, <3>1, <3>2
  <2> QED
    BY <2>2, <2>3
<1>4. ASSUME NEW r \in Loads, load[r].at # "save"
      PROVE  load'[r] = load[r]
  BY <1>1, <1>4
<1>5. ASSUME NEW r \in Loads
      PROVE  load'[r] \in Saving \cup {NoLoad} /\ load'[r].at = load[r].at
  BY <1>3, <1>4 DEF PolicyTypes
<1>6. load' \in [Loads -> Saving \cup {NoLoad}]
  BY <1>5 DEF Overtaken
<1> QED
  BY <1>3, <1>5, <1>6

(* A transaction begins: nothing the gateway has is touched. *)
LEMMA BeginKeeps ==
  ASSUME PolicyInv, NEW p \in Policies, NEW value \in Numbers, Begin(p, value)
  PROVE  PolicyInv'
<1>1. write' = [policy |-> p, value |-> value, left |-> <<p>>, failed |-> {}]
  BY DEF Begin, KeysToDelete
<1>2. write' \in Writing /\ write'.left = <<write'.policy>> /\ write'.failed = {}
      /\ write'.left # <<>>
  BY <1>1, PlacesFacts DEF Writing
<1>3. changes' \in Numbers
  BY PolicyAssumption DEF Begin, PolicyInv, PolicyShape, PolicyTypes, Numbers
<1>4. UNCHANGED <<committed, cache, load, since, undeleted, overwritten>>
  BY DEF Begin
<1>5. PolicyShape'
  BY <1>2, <1>3, <1>4 DEF PolicyInv, PolicyShape, PolicyTypes, WriteShape, LoadShape
<1>6. Fresh'
  BY <1>4 DEF PolicyInv, Fresh, CurrentIsFresh, LoadsFresh, BoundedStaleness
<1>7. Caused'
  BY <1>2, <1>4 DEF PolicyInv, Caused, OwnKey, LoadsCurrent, DeletedIsRaced, StalePolicyHasCause
<1> QED
  BY <1>5, <1>6, <1>7 DEF PolicyInv

LEMMA DeleteKeyKeeps ==
  ASSUME PolicyInv, DeleteKey
  PROVE  PolicyInv'
<1> DEFINE p == write.policy
<1>1. /\ write \in Writing /\ write # NoWrite /\ p \in Policies /\ p \in Keys
      /\ write.left = <<p>> /\ write.failed = {}
  BY PlacesFacts DEF DeleteKey, PolicyInv, PolicyShape, PolicyTypes, WriteShape, Writing
<1>2. Head(write.left) = p /\ Tail(write.left) = <<>>
  BY <1>1
<1>3. UNCHANGED <<committed, changes, since, overwritten>> /\ load' = Overtaken(p)
  BY DEF DeleteKey
<1>4. \/ /\ cache' = [cache EXCEPT ![p] = NoEntry] /\ undeleted' = undeleted \ {p}
         /\ write' = [write EXCEPT !.left = <<>>]
      \/ /\ UNCHANGED <<cache, undeleted>>
         /\ write' = [write EXCEPT !.left = <<>>, !.failed = {p}]
  BY <1>1, <1>2 DEF DeleteKey, Writing
<1>5. /\ write' \in Writing /\ write'.policy = p /\ write'.left = <<>>
      /\ write'.failed \in {{}, {p}}
      /\ write'.failed = {} => cache' = [cache EXCEPT ![p] = NoEntry]
  <2>1. CASE /\ cache' = [cache EXCEPT ![p] = NoEntry]
             /\ write' = [write EXCEPT !.left = <<>>]
    <3>1. <<>> \in Seq(Keys)
      OBVIOUS
    <3> QED
      BY <1>1, <2>1, <3>1 DEF Writing
  <2>2. CASE write' = [write EXCEPT !.left = <<>>, !.failed = {p}]
    <3>1. <<>> \in Seq(Keys) /\ {p} \in SUBSET Keys /\ {p} # {}
      BY <1>1
    <3> QED
      BY <1>1, <2>2, <3>1 DEF Writing
  <2> QED
    BY <1>4, <2>1, <2>2
<1>6. cache' \in [Keys -> Entries \cup {NoEntry}] /\ \A k \in Keys : cache'[k] \in {NoEntry, cache[k]}
  BY <1>4 DEF PolicyInv, PolicyShape, PolicyTypes
<1>7. /\ load' \in [Loads -> Saving \cup {NoLoad}]
      /\ \A r \in Loads : load'[r].at = load[r].at
      /\ \A r \in Loads : load[r].at = "save" =>
           /\ load'[r].policy = load[r].policy /\ load'[r].value = load[r].value
           /\ load'[r].left = load[r].left /\ load'[r].blind = load[r].blind
           /\ load'[r].aged = load[r].aged
           /\ load'[r].raced = (load[r].raced \/ load[r].policy = p)
  BY <1>1, <1>3, OvertakenFacts DEF PolicyInv, PolicyShape
<1>8. PolicyShape'
  <2>1. PolicyTypes'
    BY <1>3, <1>5, <1>6, <1>7 DEF PolicyInv, PolicyShape, PolicyTypes
  <2>2. WriteShape'
    BY <1>5 DEF WriteShape
  <2>3. LoadShape'
    BY <1>7 DEF PolicyInv, PolicyShape, LoadShape
  <2> QED
    BY <2>1, <2>2, <2>3 DEF PolicyShape
<1>9. Fresh'
  BY <1>3, <1>6, <1>7
     DEF PolicyInv, Fresh, CurrentIsFresh, LoadsFresh, BoundedStaleness
<1>10. OwnKey' /\ LoadsCurrent'
  BY ZenonT(60), <1>3, <1>6, <1>7, PlacesFacts DEF PolicyInv, Caused, OwnKey, LoadsCurrent
<1>11. DeletedIsRaced'
  <2>1. write'.failed = {} => cache'[p] = NoEntry
    BY <1>1, <1>5 DEF PolicyInv, PolicyShape, PolicyTypes
  <2> QED
    BY <1>5, <1>7, <2>1 DEF DeletedIsRaced
<1>12. StalePolicyHasCause'
  <2> SUFFICES ASSUME NEW q \in Policies, cache'[q] # NoEntry, ~cache'[q].blind, ~cache'[q].raced,
                      q \notin undeleted' \cup overwritten'
               PROVE  cache'[q].value = committed'[q]
    BY DEF StalePolicyHasCause
  <2>1. cache'[q] = cache[q]
    BY <1>6, PlacesFacts
  <2>2. q \notin undeleted
    BY <1>1, <1>4, <2>1 DEF PolicyInv, PolicyShape, PolicyTypes
  <2> QED
    BY <1>3, <2>1, <2>2 DEF PolicyInv, Caused, StalePolicyHasCause
<1> QED
  BY <1>8, <1>9, <1>10, <1>11, <1>12 DEF PolicyInv, Caused

(* A commit: what is overwritten is on record, what was cached under the key is
   gone, raced or has a failed deletion, and the loads of it are raced. *)
LEMMA CommitWriteKeeps ==
  ASSUME PolicyInv, CommitWrite
  PROVE  PolicyInv'
<1> DEFINE p == write.policy
           gone == {q \in Replaced(p) \ {p} : committed[q] # 0}
<1>1. /\ write \in Writing /\ write # NoWrite /\ p \in Policies /\ write.value \in Numbers
      /\ write.left = <<>> /\ write.failed \in {{}, {p}}
  BY DEF CommitWrite, PolicyInv, PolicyShape, PolicyTypes, WriteShape, Writing
<1>2. /\ committed' = [q \in Policies |-> IF q = p THEN write.value
                                        ELSE IF q \in gone THEN 0 ELSE committed[q]]
      /\ overwritten' = (overwritten \ {p}) \cup gone
      /\ since' = [q \in Policies |-> IF q \in gone \cup {p}
                      THEN [since[q] EXCEPT ![committed'[q]] = 0] ELSE since[q]]
      /\ load' = Overtaken(p)
      /\ undeleted' = undeleted \cup write.failed
      /\ write' = NoWrite /\ UNCHANGED <<cache, changes>>
  BY DEF CommitWrite
<1> HIDE DEF gone
<1>3. /\ load' \in [Loads -> Saving \cup {NoLoad}]
      /\ \A r \in Loads : load'[r].at = load[r].at
      /\ \A r \in Loads : load[r].at = "save" =>
           /\ load'[r].policy = load[r].policy /\ load'[r].value = load[r].value
           /\ load'[r].left = load[r].left /\ load'[r].blind = load[r].blind
           /\ load'[r].aged = load[r].aged
           /\ load'[r].raced = (load[r].raced \/ load[r].policy = p)
  BY <1>1, <1>2, OvertakenFacts DEF PolicyInv, PolicyShape
<1>4. committed' \in [Policies -> Numbers]
  BY <1>1, <1>2, FirstFacts DEF PolicyInv, PolicyShape, PolicyTypes
<1>5. ASSUME NEW q \in Policies
      PROVE  /\ since'[q] \in [Numbers -> Nat]
             /\ since'[q][committed'[q]] = 0
             /\ \A n \in Numbers : since'[q][n] <= since[q][n]
  <2>1. since[q] \in [Numbers -> Nat] /\ committed'[q] \in Numbers
    BY <1>4 DEF PolicyInv, PolicyShape, PolicyTypes
  <2>2. CASE q \in gone \cup {p}
    <3>1. since'[q] = [since[q] EXCEPT ![committed'[q]] = 0]
      BY <1>2, <2>2
    <3> QED
      BY <2>1, <3>1
  <2>3. CASE q \notin gone \cup {p}
    <3>1. since'[q] = since[q] /\ committed'[q] = committed[q]
      BY <1>2, <2>3
    <3> QED
      BY <2>1, <3>1 DEF PolicyInv, Fresh, CurrentIsFresh
  <2> QED
    BY <2>2, <2>3
<1>6. PolicyShape'
  <2>1. since' \in [Policies -> [Numbers -> Nat]]
    BY <1>2, <1>5
  <2>2. PolicyTypes'
    BY <1>2, <1>3, <1>4, <2>1 DEF PolicyInv, PolicyShape, PolicyTypes
  <2>3. WriteShape'
    BY <1>2 DEF WriteShape
  <2>4. LoadShape'
    BY <1>3 DEF PolicyInv, PolicyShape, LoadShape
  <2> QED
    BY <2>2, <2>3, <2>4 DEF PolicyShape
<1>7. CurrentIsFresh'
  BY <1>5 DEF CurrentIsFresh
<1>8. LoadsFresh'
  <2> SUFFICES ASSUME NEW r \in Loads, load'[r].at = "save", ~load'[r].blind
               PROVE  since'[load'[r].policy][load'[r].value] <= IF load'[r].aged THEN 1 ELSE 0
    BY DEF LoadsFresh
  <2>1. load[r].at = "save" /\ load[r] \in Saving
    BY <1>3 DEF PolicyInv, PolicyShape, PolicyTypes, NoLoad
  <2>2. load[r].policy \in Policies /\ load[r].value \in Numbers
    BY <2>1 DEF Saving
  <2>3. since[load[r].policy][load[r].value] <= IF load[r].aged THEN 1 ELSE 0
    BY <1>3, <2>1 DEF PolicyInv, Fresh, LoadsFresh
  <2>4. since'[load[r].policy][load[r].value] <= since[load[r].policy][load[r].value]
    BY <1>5, <2>2
  <2>5. since'[load[r].policy][load[r].value] \in Nat /\ since[load[r].policy][load[r].value] \in Nat
    BY <1>5, <2>2 DEF PolicyInv, PolicyShape, PolicyTypes
  <2>6. since'[load[r].policy][load[r].value] <= IF load[r].aged THEN 1 ELSE 0
    BY <2>3, <2>4, <2>5
  <2> QED
    BY <1>3, <2>1, <2>6
<1>9. BoundedStaleness'
  <2> SUFFICES ASSUME NEW k \in Keys, cache[k] # NoEntry, ~cache[k].blind
               PROVE  since'[cache[k].policy][cache[k].value] <= cache[k].age + 1
    BY <1>2 DEF BoundedStaleness
  <2>1. cache[k] \in Entries
    BY DEF PolicyInv, PolicyShape, PolicyTypes
  <2>2. cache[k].policy \in Policies /\ cache[k].value \in Numbers /\ cache[k].age \in Nat
    BY <2>1, PolicyAssumption DEF Entries
  <2>3. since[cache[k].policy][cache[k].value] <= cache[k].age + 1
    BY DEF PolicyInv, Fresh, BoundedStaleness
  <2>4. since'[cache[k].policy][cache[k].value] <= since[cache[k].policy][cache[k].value]
    BY <1>5, <2>2
  <2>5. since'[cache[k].policy][cache[k].value] \in Nat /\ since[cache[k].policy][cache[k].value] \in Nat
    BY <1>5, <2>2 DEF PolicyInv, PolicyShape, PolicyTypes
  <2> QED
    BY <2>2, <2>3, <2>4, <2>5
<1>10. OwnKey' /\ DeletedIsRaced'
  BY <1>2 DEF PolicyInv, Caused, OwnKey, DeletedIsRaced
<1>11. LoadsCurrent'
  <2> SUFFICES ASSUME NEW r \in Loads, load'[r].at = "save", ~load'[r].blind, ~load'[r].raced,
                      load'[r].policy \notin overwritten'
               PROVE  load'[r].value = committed'[load'[r].policy]
    BY DEF LoadsCurrent
  <2>1. load[r].at = "save" /\ load[r] \in Saving
    BY <1>3 DEF PolicyInv, PolicyShape, PolicyTypes, NoLoad
  <2>2. load[r].policy \in Policies /\ load[r].policy # p /\ ~load[r].raced /\ ~load[r].blind
    BY <1>3, <2>1 DEF Saving
  <2>3. load[r].policy \notin overwritten /\ load[r].policy \notin gone
    BY <1>2, <1>3, <2>1, <2>2
  <2>4. load[r].value = committed[load[r].policy]
    BY <2>1, <2>2, <2>3 DEF PolicyInv, Caused, LoadsCurrent
  <2> QED
    BY <1>2, <1>3, <2>1, <2>2, <2>3, <2>4
<1>12. StalePolicyHasCause'
  <2> SUFFICES ASSUME NEW q \in Policies, cache[q] # NoEntry, ~cache[q].blind, ~cache[q].raced,
                      q \notin undeleted' \cup overwritten'
               PROVE  cache[q].value = committed'[q]
    BY <1>2 DEF StalePolicyHasCause
  <2>1. q # p
    <3> SUFFICES ASSUME q = p PROVE FALSE
      OBVIOUS
    <3>1. write.failed = {}
      BY <1>1, <1>2
    <3> QED
      BY <1>1, <3>1 DEF PolicyInv, Caused, DeletedIsRaced
  <2>2. q \notin undeleted \cup overwritten /\ q \notin gone
    BY <1>2, <2>1
  <2> QED
    BY <1>2, <2>1, <2>2 DEF PolicyInv, Caused, StalePolicyHasCause
<1> QED
  BY <1>6, <1>7, <1>8, <1>9, <1>10, <1>11, <1>12 DEF PolicyInv, Fresh, Caused

LEMMA AbortWriteKeeps ==
  ASSUME PolicyInv, AbortWrite
  PROVE  PolicyInv'
<1>1. write' = NoWrite /\ UNCHANGED <<committed, cache, load, changes, since, undeleted, overwritten>>
  BY DEF AbortWrite
<1>2. PolicyShape'
  BY <1>1 DEF PolicyInv, PolicyShape, PolicyTypes, WriteShape, LoadShape
<1>3. Fresh'
  BY <1>1 DEF PolicyInv, Fresh, CurrentIsFresh, LoadsFresh, BoundedStaleness
<1>4. Caused'
  BY <1>1 DEF PolicyInv, Caused, OwnKey, LoadsCurrent, DeletedIsRaced, StalePolicyHasCause
<1> QED
  BY <1>2, <1>3, <1>4 DEF PolicyInv

LEMMA RetryDeletionKeeps ==
  ASSUME PolicyInv, NEW k \in Keys, RetryDeletion(k)
  PROVE  PolicyInv'
<1>1. /\ cache' = [cache EXCEPT ![k] = NoEntry] /\ undeleted' = undeleted \ {k}
      /\ UNCHANGED <<committed, write, load, changes, since, overwritten>>
  BY DEF RetryDeletion
<1>2. /\ cache' \in [Keys -> Entries \cup {NoEntry}]
      /\ cache'[k] = NoEntry /\ \A j \in Keys \ {k} : cache'[j] = cache[j]
  BY <1>1 DEF PolicyInv, PolicyShape, PolicyTypes
<1>3. PolicyShape'
  BY <1>1, <1>2 DEF PolicyInv, PolicyShape, PolicyTypes, WriteShape, LoadShape
<1>4. Fresh'
  BY <1>1, <1>2 DEF PolicyInv, Fresh, CurrentIsFresh, LoadsFresh, BoundedStaleness
<1>5. OwnKey' /\ LoadsCurrent'
  BY <1>1, <1>2, PlacesFacts DEF PolicyInv, Caused, OwnKey, LoadsCurrent
<1>6. DeletedIsRaced'
  <2>1. write # NoWrite => write.policy \in Keys
    BY PlacesFacts DEF PolicyInv, PolicyShape, PolicyTypes, Writing
  <2> QED
    BY <1>1, <1>2, <2>1 DEF PolicyInv, Caused, DeletedIsRaced
<1>7. StalePolicyHasCause'
  BY <1>1, <1>2, PlacesFacts DEF PolicyInv, Caused, StalePolicyHasCause
<1> QED
  BY <1>3, <1>4, <1>5, <1>6, <1>7 DEF PolicyInv, Caused

(* A miss: what the query answers is committed, or the query has failed. *)
LEMMA FetchKeeps ==
  ASSUME PolicyInv, NEW r \in Loads, NEW k \in Keys, NEW p \in Policies, NEW value \in Numbers,
         NEW blind \in BOOLEAN, ~blind => value = committed[p], Fetch(r, k, p, value, blind)
  PROVE  PolicyInv'
<1> DEFINE raced == write # NoWrite /\ write.policy = p /\ write.left = <<>>
           l == [at |-> "save", policy |-> p, value |-> value, left |-> Places(p),
                 blind |-> blind, raced |-> raced, aged |-> FALSE]
<1>1. load' = [load EXCEPT ![r] = l]
      /\ UNCHANGED <<committed, write, cache, changes, since, undeleted, overwritten>>
  BY DEF Fetch
<1>2. Places(p) \in Seq(Keys) /\ Places(p) # <<>>
  <2>1. CASE Places(p) = <<p>>
    BY <2>1, PlacesFacts
  <2>2. ASSUME NEW j \in Keys \ Policies, Places(p) = <<p, j>>
        PROVE  Places(p) \in Seq(Keys) /\ Places(p) # <<>>
    BY <2>2, PlacesFacts
  <2> QED
    BY <2>1, <2>2, PlacesFacts
<1>3. /\ l \in Saving /\ l.at = "save" /\ l.policy = p /\ l.value = value
      /\ l.left = Places(p) /\ l.blind = blind /\ l.raced = raced /\ l.aged = FALSE
  BY <1>2 DEF Saving
<1> HIDE DEF l
<1>4. /\ load' \in [Loads -> Saving \cup {NoLoad}]
      /\ load'[r] = l /\ \A s \in Loads \ {r} : load'[s] = load[s]
  BY <1>1, <1>3 DEF PolicyInv, PolicyShape, PolicyTypes
<1>5. PolicyShape'
  <2>1. PolicyTypes' /\ WriteShape'
    BY <1>1, <1>4 DEF PolicyInv, PolicyShape, PolicyTypes, WriteShape
  <2>2. LoadShape'
    BY <1>2, <1>3, <1>4 DEF PolicyInv, PolicyShape, LoadShape
  <2> QED
    BY <2>1, <2>2 DEF PolicyShape
<1>6. LoadsFresh'
  <2>1. ~blind => since[p][value] = 0
    BY DEF PolicyInv, Fresh, CurrentIsFresh
  <2> QED
    BY <1>1, <1>3, <1>4, <2>1 DEF PolicyInv, Fresh, LoadsFresh
<1>7. CurrentIsFresh' /\ BoundedStaleness'
  BY <1>1 DEF PolicyInv, Fresh, CurrentIsFresh, BoundedStaleness
<1>8. OwnKey' /\ StalePolicyHasCause'
  BY <1>1 DEF PolicyInv, Caused, OwnKey, StalePolicyHasCause
<1>9. LoadsCurrent'
  BY <1>1, <1>3, <1>4 DEF PolicyInv, Caused, LoadsCurrent
<1>10. DeletedIsRaced'
  BY <1>1, <1>3, <1>4 DEF PolicyInv, Caused, DeletedIsRaced
<1> QED
  BY <1>5, <1>6, <1>7, <1>8, <1>9, <1>10 DEF PolicyInv, Fresh, Caused

(* A load puts what it has read under its next key, or gives up. *)
LEMMA SaveKeeps ==
  ASSUME PolicyInv, NEW r \in Loads, Save(r)
  PROVE  PolicyInv'
<1> DEFINE l == load[r]
           key == Head(l.left)
<1>1. /\ l.at = "save" /\ l \in Saving /\ key \in Keys
      /\ key \in Policies => key = l.policy
      /\ Len(l.left) # 1 => /\ Tail(l.left) \in Seq(Keys)
                            /\ Tail(l.left) \in {Tail(Places(l.policy))} \ {<<>>}
  BY NextPlace DEF Save, PolicyInv, PolicyShape
<1>2. UNCHANGED <<committed, write, changes, since, overwritten>>
  BY DEF Save
<1>3. /\ load' \in [Loads -> Saving \cup {NoLoad}]
      /\ \A s \in Loads \ {r} : load'[s] = load[s]
      /\ load'[r].at = "save" =>
           /\ load'[r].policy = l.policy /\ load'[r].value = l.value
           /\ load'[r].blind = l.blind /\ load'[r].raced = l.raced /\ load'[r].aged = l.aged
           /\ load'[r].left \in {Tail(Places(l.policy))} \ {<<>>}
  <2>1. CASE load' = [load EXCEPT ![r] = NoLoad]
    BY <2>1 DEF PolicyInv, PolicyShape, PolicyTypes, NoLoad
  <2>2. CASE load' = [load EXCEPT ![r] = [l EXCEPT !.left = Tail(l.left)]] /\ Len(l.left) # 1
    <3> DEFINE next == [l EXCEPT !.left = Tail(l.left)]
    <3>1. Tail(l.left) \in Seq(Keys) /\ Tail(l.left) \in {Tail(Places(l.policy))} \ {<<>>}
      BY <1>1, <2>2
    <3>2. /\ next \in Saving /\ next.policy = l.policy /\ next.value = l.value
          /\ next.blind = l.blind /\ next.raced = l.raced /\ next.aged = l.aged
          /\ next.left = Tail(l.left)
      BY <1>1, <3>1 DEF Saving
    <3>3. load' = [load EXCEPT ![r] = next]
      BY <2>2
    <3> HIDE DEF next
    <3>4. load' \in [Loads -> Saving \cup {NoLoad}]
      BY <3>2, <3>3 DEF PolicyInv, PolicyShape, PolicyTypes
    <3>5. load'[r] = next /\ \A s \in Loads \ {r} : load'[s] = load[s]
      BY <3>3 DEF PolicyInv, PolicyShape, PolicyTypes
    <3> QED
      BY <3>1, <3>2, <3>4, <3>5
  <2>3. CASE Len(l.left) = 1
    BY <2>1, <2>3 DEF Save
  <2>4. CASE Len(l.left) # 1
    BY <2>1, <2>2, <2>4 DEF Save
  <2> QED
    BY <2>3, <2>4
<1>4. \/ UNCHANGED <<cache, undeleted>>
      \/ cache' = [cache EXCEPT ![key] = Entry(r)] /\ undeleted' = undeleted \ {key}
  BY DEF Save
<1>5. /\ Entry(r) \in Entries /\ Entry(r).policy = l.policy /\ Entry(r).value = l.value
      /\ Entry(r).age = 0 /\ Entry(r).blind = l.blind /\ Entry(r).raced = l.raced
  BY <1>1, PolicyAssumption DEF Entry, Entries, Saving
<1>6. /\ cache' \in [Keys -> Entries \cup {NoEntry}]
      /\ \A k \in Keys : \/ cache'[k] = cache[k] /\ (k \in undeleted => k \in undeleted')
                         \/ k = key /\ cache'[k] = Entry(r)
  <2>1. cache \in [Keys -> Entries \cup {NoEntry}]
    BY DEF PolicyInv, PolicyShape, PolicyTypes
  <2> DEFINE e == Entry(r)
  <2>2. key \in Keys /\ e \in Entries
    BY <1>1, <1>5
  <2>3. \/ cache' = cache /\ undeleted' = undeleted
        \/ cache' = [cache EXCEPT ![key] = e] /\ undeleted' = undeleted \ {key}
    BY <1>4
  <2> HIDE DEF key, e
  <2>4. /\ cache' \in [Keys -> Entries \cup {NoEntry}]
        /\ \A k \in Keys : \/ cache'[k] = cache[k] /\ (k \in undeleted => k \in undeleted')
                           \/ k = key /\ cache'[k] = e
    BY <2>1, <2>2, <2>3
  <2> QED
    BY <2>4 DEF e
<1>7. PolicyShape'
  <2>1. PolicyTypes' /\ WriteShape'
    BY <1>2, <1>3, <1>6 DEF PolicyInv, PolicyShape, PolicyTypes, WriteShape
  <2>2. LoadShape'
    BY <1>3 DEF PolicyInv, PolicyShape, LoadShape
  <2> QED
    BY <2>1, <2>2 DEF PolicyShape
<1>8. CurrentIsFresh' /\ LoadsFresh'
  BY <1>1, <1>2, <1>3 DEF PolicyInv, Fresh, CurrentIsFresh, LoadsFresh
<1>9. BoundedStaleness'
  <2>1. ~l.blind => since[l.policy][l.value] <= 1
    <3>1. since[l.policy][l.value] \in Nat
      BY <1>1 DEF PolicyInv, PolicyShape, PolicyTypes, Saving
    <3> QED
      BY <1>1, <3>1 DEF PolicyInv, Fresh, LoadsFresh
  <2> QED
    BY <1>2, <1>5, <1>6, <2>1 DEF PolicyInv, Fresh, BoundedStaleness
<1>10. OwnKey'
  BY <1>1, <1>5, <1>6, PlacesFacts DEF PolicyInv, Caused, OwnKey
<1>11. LoadsCurrent'
  BY <1>1, <1>2, <1>3 DEF PolicyInv, Caused, LoadsCurrent
<1>12. DeletedIsRaced'
  <2> SUFFICES ASSUME write # NoWrite, write.left = <<>>, write.failed = {}
               PROVE  /\ cache'[write.policy] # NoEntry => cache'[write.policy].raced
                      /\ \A s \in Loads : (load'[s].at = "save" /\ load'[s].policy = write.policy)
                                           => load'[s].raced
    BY <1>2 DEF DeletedIsRaced
  <2>1. write.policy \in Policies /\ write.policy \in Keys
    BY PlacesFacts DEF PolicyInv, PolicyShape, PolicyTypes, Writing
  <2>2. /\ cache[write.policy] # NoEntry => cache[write.policy].raced
        /\ \A s \in Loads : (load[s].at = "save" /\ load[s].policy = write.policy) => load[s].raced
    BY DEF PolicyInv, Caused, DeletedIsRaced
  <2> QED
    BY <1>1, <1>3, <1>5, <1>6, <2>1, <2>2
<1>13. StalePolicyHasCause'
  <2> SUFFICES ASSUME NEW q \in Policies, cache'[q] # NoEntry, ~cache'[q].blind, ~cache'[q].raced,
                      q \notin undeleted' \cup overwritten'
               PROVE  cache'[q].value = committed'[q]
    BY DEF StalePolicyHasCause
  <2>1. CASE cache'[q] = cache[q] /\ (q \in undeleted => q \in undeleted')
    BY <1>2, <2>1 DEF PolicyInv, Caused, StalePolicyHasCause
  <2>2. CASE q = key /\ cache'[q] = Entry(r)
    BY <1>1, <1>2, <1>5, <2>2 DEF PolicyInv, Caused, LoadsCurrent
  <2> QED
    BY <1>6, <2>1, <2>2, PlacesFacts
<1> QED
  BY <1>7, <1>8, <1>9, <1>10, <1>11, <1>12, <1>13 DEF PolicyInv, Fresh, Caused

(* Time: what is cached, and what it may be stale by, age together. *)
LEMMA PolicyTickKeeps ==
  ASSUME PolicyInv, PolicyTick
  PROVE  PolicyInv'
<1>1. /\ \A r \in Loads : load[r].at = "save" => ~load[r].aged
      /\ load' = [r \in Loads |-> IF load[r].at = "save" THEN [load[r] EXCEPT !.aged = TRUE]
                                  ELSE load[r]]
      /\ cache' = [k \in Keys |-> Aged(cache[k])]
      /\ since' = [p \in Policies |-> [n \in Numbers |->
                     IF n = committed[p] \/ since[p][n] > TTL THEN since[p][n] ELSE since[p][n] + 1]]
      /\ UNCHANGED <<committed, write, changes, undeleted, overwritten>>
  BY DEF PolicyTick
<1>2. ASSUME NEW k \in Keys
      PROVE  /\ cache'[k] \in Entries \cup {NoEntry}
             /\ cache'[k] # NoEntry =>
                  /\ cache[k] # NoEntry /\ cache'[k].policy = cache[k].policy
                  /\ cache'[k].value = cache[k].value /\ cache'[k].age = cache[k].age + 1
                  /\ cache'[k].blind = cache[k].blind /\ cache'[k].raced = cache[k].raced
  <2>1. cache'[k] = Aged(cache[k]) /\ cache[k] \in Entries \cup {NoEntry}
    BY <1>1 DEF PolicyInv, PolicyShape, PolicyTypes
  <2>2. CASE cache[k] = NoEntry \/ cache[k].age + 1 = TTL
    BY <2>1, <2>2 DEF Aged
  <2>3. CASE ~(cache[k] = NoEntry \/ cache[k].age + 1 = TTL)
    <3>1. cache[k] \in Entries /\ cache'[k] = [cache[k] EXCEPT !.age = cache[k].age + 1]
      BY <2>1, <2>3 DEF Aged
    <3>2. cache[k].age + 1 \in 0..(TTL - 1)
      BY <2>3, <3>1, PolicyAssumption DEF Entries
    <3> QED
      BY <2>3, <3>1, <3>2 DEF Entries
  <2> QED
    BY <2>2, <2>3
<1>3. ASSUME NEW r \in Loads, load[r].at = "save"
      PROVE  /\ load'[r] \in Saving /\ load'[r].at = "save"
             /\ load'[r].policy = load[r].policy /\ load'[r].value = load[r].value
             /\ load'[r].left = load[r].left /\ load'[r].blind = load[r].blind
             /\ load'[r].raced = load[r].raced /\ load'[r].aged
  <2>1. load[r] \in Saving
    BY <1>3 DEF PolicyInv, PolicyShape, PolicyTypes, NoLoad
  <2>2. load'[r] = [load[r] EXCEPT !.aged = TRUE]
    BY <1>1, <1>3
  <2> QED
    BY <2>1, <2>2 DEF Saving
<1>4. ASSUME NEW r \in Loads, load[r].at # "save"
      PROVE  load'[r] = load[r]
  BY <1>1, <1>4
<1>5. load' \in [Loads -> Saving \cup {NoLoad}]
  <2>1. ASSUME NEW r \in Loads PROVE load'[r] \in Saving \cup {NoLoad}
    BY <1>3, <1>4 DEF PolicyInv, PolicyShape, PolicyTypes
  <2> QED
    BY <1>1, <2>1
<1>6. ASSUME NEW p \in Policies, NEW n \in Numbers
      PROVE  /\ since[p][n] \in Nat /\ since'[p][n] \in Nat /\ since'[p][n] <= since[p][n] + 1
             /\ n = committed[p] => since'[p][n] = since[p][n]
  <2>1. since[p][n] \in Nat
    BY DEF PolicyInv, PolicyShape, PolicyTypes
  <2>2. since'[p][n] = IF n = committed[p] \/ since[p][n] > TTL THEN since[p][n] ELSE since[p][n] + 1
    BY <1>1
  <2> QED
    BY <2>1, <2>2
<1>7. PolicyShape'
  <2>1. since' \in [Policies -> [Numbers -> Nat]]
    <3>1. ASSUME NEW p \in Policies PROVE since'[p] \in [Numbers -> Nat]
      <4>1. since'[p] = [n \in Numbers |-> since'[p][n]]
        BY <1>1
      <4> QED
        BY <1>6, <4>1
    <3> QED
      BY <1>1, <3>1
  <2>2. cache' \in [Keys -> Entries \cup {NoEntry}]
    BY <1>1, <1>2
  <2>3. PolicyTypes' /\ WriteShape'
    BY <1>1, <1>5, <2>1, <2>2 DEF PolicyInv, PolicyShape, PolicyTypes, WriteShape
  <2>4. LoadShape'
    BY <1>3, <1>4 DEF PolicyInv, PolicyShape, LoadShape
  <2> QED
    BY <2>3, <2>4 DEF PolicyShape
<1>8. CurrentIsFresh'
  <2>1. \A p \in Policies : committed[p] \in Numbers
    BY DEF PolicyInv, PolicyShape, PolicyTypes
  <2> QED
    BY <1>1, <1>6, <2>1 DEF PolicyInv, Fresh, CurrentIsFresh
<1>9. LoadsFresh'
  <2> SUFFICES ASSUME NEW r \in Loads, load'[r].at = "save", ~load'[r].blind
               PROVE  since'[load'[r].policy][load'[r].value] <= IF load'[r].aged THEN 1 ELSE 0
    BY DEF LoadsFresh
  <2>1. load[r].at = "save" /\ load[r] \in Saving
    BY <1>4 DEF PolicyInv, PolicyShape, PolicyTypes, NoLoad
  <2>2. load[r].policy \in Policies /\ load[r].value \in Numbers /\ ~load[r].aged /\ ~load[r].blind
    BY <1>1, <1>3, <2>1 DEF Saving
  <2>3. since[load[r].policy][load[r].value] <= 0
    BY <2>1, <2>2 DEF PolicyInv, Fresh, LoadsFresh
  <2>4. since'[load[r].policy][load[r].value] <= 1
    BY <1>6, <2>2, <2>3
  <2> QED
    BY <1>3, <2>1, <2>4
<1>10. BoundedStaleness'
  <2> SUFFICES ASSUME NEW k \in Keys, cache'[k] # NoEntry, ~cache'[k].blind
               PROVE  since'[cache'[k].policy][cache'[k].value] <= cache'[k].age + 1
    BY DEF BoundedStaleness
  <2>1. cache[k] \in Entries /\ cache[k] # NoEntry /\ ~cache[k].blind
    BY <1>2 DEF PolicyInv, PolicyShape, PolicyTypes
  <2>2. cache[k].policy \in Policies /\ cache[k].value \in Numbers /\ cache[k].age \in Nat
    BY <2>1, PolicyAssumption DEF Entries
  <2>3. since[cache[k].policy][cache[k].value] <= cache[k].age + 1
    BY <2>1 DEF PolicyInv, Fresh, BoundedStaleness
  <2>4. since'[cache[k].policy][cache[k].value] <= cache[k].age + 1 + 1
    BY <1>6, <2>2, <2>3
  <2> QED
    BY <1>2, <2>4
<1>11. OwnKey' /\ StalePolicyHasCause'
  BY <1>1, <1>2, PlacesFacts DEF PolicyInv, Caused, OwnKey, StalePolicyHasCause
<1>12. LoadsCurrent'
  BY <1>1, <1>3, <1>4 DEF PolicyInv, Caused, LoadsCurrent
<1>13. DeletedIsRaced'
  <2>1. write # NoWrite => write.policy \in Keys
    BY PlacesFacts DEF PolicyInv, PolicyShape, PolicyTypes, Writing
  <2> QED
    BY <1>1, <1>2, <1>3, <1>4, <2>1 DEF PolicyInv, Caused, DeletedIsRaced
<1> QED
  BY <1>7, <1>8, <1>9, <1>10, <1>11, <1>12, <1>13 DEF PolicyInv, Fresh, Caused

-----------------------------------------------------------------------------
(* The administrator's edits: each begins a transaction on one policy. *)
LEMMA EditKeeps ==
  ASSUME PolicyInv,
         \/ \E m \in Models : SetModel(m) \/ PatchStatus(m) \/ SetLimit(m)
         \/ \E t \in Teams : SetRules(t)
         \/ \E c \in Clients : SetProfile(c)
  PROVE  PolicyInv'
<1>1. \E p \in Policies, value \in {0, changes + 1} : Begin(p, value)
  <2>1. ASSUME NEW m \in Models, SetModel(m) \/ PatchStatus(m) \/ SetLimit(m)
        PROVE  \E p \in Policies, value \in {0, changes + 1} : Begin(p, value)
    <3>1. <<"model", m>> \in Policies /\ <<"limit", m>> \in Policies
      BY DEF Policies
    <3> QED
      BY <2>1, <3>1 DEF SetModel, PatchStatus, SetLimit
  <2>2. ASSUME NEW t \in Teams, SetRules(t)
        PROVE  \E p \in Policies, value \in {0, changes + 1} : Begin(p, value)
    <3>1. <<"rules", t>> \in Policies
      BY DEF Policies
    <3> QED
      BY <2>2, <3>1 DEF SetRules
  <2>3. ASSUME NEW c \in Clients, SetProfile(c)
        PROVE  \E p \in Policies, value \in {0, changes + 1} : Begin(p, value)
    <3>1. <<"profile", c>> \in Policies
      BY DEF Policies
    <3> QED
      BY <2>3, <3>1 DEF SetProfile
  <2> QED
    BY <2>1, <2>2, <2>3
<1>2. PICK p \in Policies, value \in {0, changes + 1} : Begin(p, value)
  BY <1>1
<1>3. changes < MaxChanges /\ changes \in Numbers
  BY <1>2 DEF Begin, PolicyInv, PolicyShape, PolicyTypes
<1>4. value \in Numbers
  BY <1>3, PolicyAssumption DEF Numbers
<1> QED
  BY <1>2, <1>4, BeginKeeps

(* The gateway's misses: each is a fetch of a policy, or of a limit by a query
   that has failed. *)
LEMMA MissKeeps ==
  ASSUME PolicyInv, NEW r \in Loads,
         \/ \E k \in Keys : ResolveModel(r, k)
         \/ \E m \in Models : LoadLimits(r, m)
         \/ \E t \in Teams : LoadRules(r, t)
         \/ \E c \in Clients : LoadProfile(r, c)
  PROVE  PolicyInv'
<1>1. ASSUME NEW p \in Policies PROVE p \in Keys /\ committed[p] \in Numbers
  BY PlacesFacts DEF PolicyInv, PolicyShape, PolicyTypes
<1>2. ASSUME NEW k \in Keys, ResolveModel(r, k) PROVE PolicyInv'
  <2>1. PICK p \in Meant(k) : Fetch(r, k, p, committed[p], FALSE)
    BY <1>2 DEF ResolveModel
  <2>2. p \in Policies
    <3>1. CASE k[2] \in ProviderIds
      BY <3>1 DEF Meant, Policies
    <3>2. CASE k[2] \notin ProviderIds
      <4>1. p = k
        BY <3>2 DEF Meant
      <4>2. k \notin {"model"} \X ProviderIds
        BY <3>2
      <4> QED
        BY <4>1, <4>2 DEF Keys
    <3> QED
      BY <3>1, <3>2
  <2> QED
    BY <1>1, <2>1, <2>2, FetchKeeps
<1>3. ASSUME NEW m \in Models, LoadLimits(r, m) PROVE PolicyInv'
  <2>1. <<"limit", m>> \in Policies
    BY DEF Policies
  <2>2. \/ Fetch(r, <<"limit", m>>, <<"limit", m>>, committed[<<"limit", m>>], FALSE)
        \/ Fetch(r, <<"limit", m>>, <<"limit", m>>, 0, TRUE)
    BY <1>3 DEF LoadLimits
  <2> QED
    BY <1>1, <2>1, <2>2, FetchKeeps, FirstFacts
<1>4. ASSUME NEW t \in Teams, LoadRules(r, t) PROVE PolicyInv'
  <2>1. <<"rules", t>> \in Policies
    BY DEF Policies
  <2> QED
    BY <1>1, <1>4, <2>1, FetchKeeps DEF LoadRules
<1>5. ASSUME NEW c \in Clients, LoadProfile(r, c) PROVE PolicyInv'
  <2>1. <<"profile", c>> \in Policies
    BY DEF Policies
  <2> QED
    BY <1>1, <1>5, <2>1, FetchKeeps DEF LoadProfile
<1> QED
  BY <1>2, <1>3, <1>4, <1>5

LEMMA PolicyStepInv == PolicyInv /\ [PolicyNext]_policyVars => PolicyInv'
<1> SUFFICES ASSUME PolicyInv, [PolicyNext]_policyVars PROVE PolicyInv'
  OBVIOUS
<1>1. CASE \/ \E m \in Models : SetModel(m) \/ PatchStatus(m) \/ SetLimit(m)
           \/ \E t \in Teams : SetRules(t)
           \/ \E c \in Clients : SetProfile(c)
  BY <1>1, EditKeeps
<1>2. CASE DeleteKey
  BY <1>2, DeleteKeyKeeps
<1>3. CASE CommitWrite
  BY <1>3, CommitWriteKeeps
<1>4. CASE AbortWrite
  BY <1>4, AbortWriteKeeps
<1>5. CASE PolicyTick
  BY <1>5, PolicyTickKeeps
<1>6. CASE \E k \in Keys : RetryDeletion(k)
  BY <1>6, RetryDeletionKeeps
<1>7. ASSUME NEW r \in Loads,
             \/ \E k \in Keys : ResolveModel(r, k)
             \/ \E m \in Models : LoadLimits(r, m)
             \/ \E t \in Teams : LoadRules(r, t)
             \/ \E c \in Clients : LoadProfile(r, c)
      PROVE  PolicyInv'
  BY <1>7, MissKeeps
<1>8. CASE \E r \in Loads : Save(r)
  BY <1>8, SaveKeeps
<1>9. CASE UNCHANGED policyVars
  BY <1>9 DEF policyVars, PolicyInv, PolicyShape, PolicyTypes, WriteShape, LoadShape, Fresh,
     CurrentIsFresh, LoadsFresh, BoundedStaleness, Caused, OwnKey, LoadsCurrent, DeletedIsRaced,
     StalePolicyHasCause
<1> QED
  BY <1>1, <1>2, <1>3, <1>4, <1>5, <1>6, <1>7, <1>8, <1>9 DEF PolicyNext

-----------------------------------------------------------------------------
(* However the admin's edits, the deletions of keys and the gateway's loads
   interleave, whatever of them fails: no cached value, but a failed query's
   answer, was replaced longer ago than it has been cached, and one tick. *)
THEOREM CachedPolicyIsRecent == PolicySpec => []BoundedStaleness
<1>1. PolicyInv => BoundedStaleness
  BY DEF PolicyInv, Fresh
<1> QED
  BY <1>1, PolicyInitInv, PolicyStepInv, PTL DEF PolicySpec

(* A policy cached under its own key differs from what is committed only for
   one of the causes on record: a raced load, a failed deletion, a failed
   query, or the edit of another model's limit. *)
THEOREM StalenessHasCause == PolicySpec => []StalePolicyHasCause
<1>1. PolicyInv => StalePolicyHasCause
  BY DEF PolicyInv, Caused
<1> QED
  BY <1>1, PolicyInitInv, PolicyStepInv, PTL DEF PolicySpec

-----------------------------------------------------------------------------
(* The notification worker.  Its invariant follows each pair of an event and *)
(* a person: nothing, until the event is in hand and it is their turn; then  *)
(* a row that agrees with the mails; and whom the event names was tried,     *)
(* waits in the job in hand, or the event is excused.                        *)

(* The cells of an event and a person: what the log says, r, mails that went  *)
(* out, m, attempts in doubt, d, whether they were tried, t, and excused, u.   *)
Untouched(r, m, d, t) == r = "none" /\ m = 0 /\ d = 0 /\ ~t
RowAgrees(r, m, d, t, u) ==
  /\ d \in Nat /\ (m = d \/ m = d + 1)
  /\ r = "sent" => m = d + 1
  /\ r = "failed" => m = d
  /\ t /\ ~u => r \in {"sent", "failed"}
InHand(r, m, d, t, u, row) ==
  m = d /\ d \in Nat /\ ~t /\ r \in {"none", "pending"} /\ (row \/ u)

Tried(e, p) == <<e, p>> \in tried
Unlogged(e, p) == <<e, p>> \in unlogged
New(e, p) == Untouched(rowFor[e][p], mails[e][p], doubts[e][p], Tried(e, p))
Known(e, p) == RowAgrees(rowFor[e][p], mails[e][p], doubts[e][p], Tried(e, p), Unlogged(e, p))

NotifyShape ==
  /\ listening \in BOOLEAN /\ inbox \in Seq(Events) /\ published \subseteq Events
  /\ job = [event |-> job.event, at |-> job.at, left |-> job.left, tries |-> job.tries,
            row |-> job.row]
  /\ job.at \in {"idle", "row", "send", "final"} /\ job.row \in BOOLEAN /\ job.tries \in Nat
  /\ job.at = "idle" => job = Idle
  /\ job.at # "idle" => job.event \in Events /\ job.left \in Seq(People) /\ job.left # <<>>
  /\ cached \in Configs /\ stored \in Configs
  /\ loading \in [Loaders -> Configs \cup {NoConfig}]
  /\ rowFor \in [Events -> [People -> {"none", "pending", "sent", "failed"}]]
  /\ mails \in [Events -> [People -> Nat]] /\ doubts \in [Events -> [People -> Nat]]
  /\ wanted \in [Events -> SUBSET People]

(* No event is handled twice: it is in the inbox once, before it is in hand.   *)
Once ==
  /\ \A i, j \in 1..Len(inbox) : inbox[i] = inbox[j] => i = j
  /\ \A i \in 1..Len(inbox) : inbox[i] \in published /\ inbox[i] # job.event
  /\ job.at # "idle" => job.event \in published

(* Nobody is tried before the event is in hand and it is their turn.           *)
Turn ==
  /\ \A e \in Events : \A p \in People :
       /\ Known(e, p)
       /\ e \notin published \/ (\E i \in 1..Len(inbox) : inbox[i] = e) => New(e, p)
  /\ job.at # "idle" =>
       /\ \A i, j \in 1..Len(job.left) : job.left[i] = job.left[j] => i = j
       /\ \A i \in 2..Len(job.left) : New(job.event, job.left[i])
  /\ job.at = "row" => New(job.event, job.left[1])
  /\ job.at = "send" =>
       InHand(rowFor[job.event][job.left[1]], mails[job.event][job.left[1]],
              doubts[job.event][job.left[1]], Tried(job.event, job.left[1]),
              Unlogged(job.event, job.left[1]), job.row)
  /\ job.at = "final" => Tried(job.event, job.left[1])

(* Whom an event names was tried, or is in hand still.                         *)
Reached ==
  \A e \in Events : e \notin excused => \A p \in wanted[e] :
    \/ Tried(e, p)
    \/ job.at # "idle" /\ job.event = e /\ \E i \in 1..Len(job.left) : job.left[i] = p

NotifyInv == NotifyShape /\ Once /\ Turn /\ Reached
-----------------------------------------------------------------------------

\* An attempt, a row or a commit touches the cells of one event and person.
Elsewhere(e0, p0) ==
  \A e \in Events : \A p \in People : e # e0 \/ p # p0 =>
    /\ rowFor'[e][p] = rowFor[e][p] /\ mails'[e][p] = mails[e][p] /\ doubts'[e][p] = doubts[e][p]
    /\ <<e, p>> \in tried' <=> <<e, p>> \in tried
    /\ <<e, p>> \in unlogged' <=> <<e, p>> \in unlogged

LEMMA CellStays ==
  ASSUME NEW e0, NEW p0, Elsewhere(e0, p0), NEW e \in Events, NEW p \in People, e # e0 \/ p # p0
  PROVE  /\ Known(e, p) => Known(e, p)'
         /\ New(e, p) => New(e, p)'
<1>1. /\ rowFor'[e][p] = rowFor[e][p] /\ mails'[e][p] = mails[e][p] /\ doubts'[e][p] = doubts[e][p]
      /\ <<e, p>> \in tried' <=> <<e, p>> \in tried
      /\ <<e, p>> \in unlogged' <=> <<e, p>> \in unlogged
  BY DEF Elsewhere
<1>2. QED
  BY <1>1 DEF Known, New, RowAgrees, Untouched, Tried, Unlogged

\* The person in hand is known to the log, and the others' turn is still to come.
LEMMA OneCell ==
  ASSUME NotifyInv, job.at # "idle", NEW e0, NEW left, e0 = job.event, left = job.left,
         Elsewhere(e0, left[1]), Known(e0, left[1])',
         published' = published, inbox' = inbox
  PROVE  /\ \A e \in Events : \A p \in People :
              /\ Known(e, p)'
              /\ e \notin published' \/ (\E i \in 1..Len(inbox') : inbox'[i] = e) => New(e, p)'
         /\ \A i \in 2..Len(left) : New(e0, left[i])'
<1>1. /\ e0 \in Events /\ left \in Seq(People) /\ left # <<>>
      /\ Len(left) \in Nat /\ Len(left) >= 1
  BY DEF NotifyInv, NotifyShape
<1>2. \A i \in 1..Len(left) : left[i] \in People
  BY <1>1
<1>3. e0 \in published /\ (\A i \in 1..Len(inbox) : inbox[i] # e0)
  BY DEF NotifyInv, Once
<1>4. /\ \A i, j \in 1..Len(left) : left[i] = left[j] => i = j
      /\ \A i \in 2..Len(left) : New(e0, left[i])
      /\ \A e \in Events : \A p \in People :
           /\ Known(e, p)
           /\ e \notin published \/ (\E i \in 1..Len(inbox) : inbox[i] = e) => New(e, p)
  BY DEF NotifyInv, Turn
<1>5. ASSUME NEW e \in Events, NEW p \in People
      PROVE  /\ Known(e, p)'
             /\ e \notin published' \/ (\E i \in 1..Len(inbox') : inbox'[i] = e) => New(e, p)'
  <2>1. /\ Known(e, p)
        /\ e \notin published \/ (\E i \in 1..Len(inbox) : inbox[i] = e) => New(e, p)
    BY <1>4
  <2>2. CASE e # e0 \/ p # left[1]
    BY <2>1, <2>2, CellStays
  <2>3. CASE e = e0 /\ p = left[1]
    <3>1. Known(e, p)'
      BY <2>3
    <3>2. ~(e \notin published' \/ (\E i \in 1..Len(inbox') : inbox'[i] = e))
      BY <1>3, <2>3
    <3>3. QED
      BY <3>1, <3>2
  <2>4. QED
    BY <2>2, <2>3
<1>6. ASSUME NEW i \in 2..Len(left)
      PROVE  New(e0, left[i])'
  <2>1. i \in 1..Len(left) /\ 1 \in 1..Len(left) /\ i # 1
    BY <1>1
  <2>2. left[i] # left[1] /\ left[i] \in People
    BY <1>2, <1>4, <2>1
  <2>3. New(e0, left[i])
    BY <1>4
  <2>4. \A p \in People : p # left[1] => (New(e0, p) => New(e0, p)')
    BY <1>1, CellStays
  <2>5. QED
    BY <2>2, <2>3, <2>4
<1>7. QED
  BY <1>5, <1>6

\* A step that changes no cell, except that it may excuse one.
LEMMA NoCell ==
  ASSUME NotifyInv, rowFor' = rowFor, mails' = mails, doubts' = doubts, tried' = tried,
         unlogged \subseteq unlogged', NEW e \in Events, NEW p \in People
  PROVE  Known(e, p)' /\ (New(e, p) => New(e, p)')
<1>1. Known(e, p)
  BY DEF NotifyInv, Turn
<1>2. QED
  BY <1>1 DEF Known, New, RowAgrees, Untouched, Tried, Unlogged

LEMMA NotifyInitial == NotifyInit => NotifyInv
<1> SUFFICES ASSUME NotifyInit PROVE NotifyInv
  OBVIOUS
<1>1. job = Idle /\ job.at = "idle"
  BY DEF NotifyInit, Idle
<1>2. NotifyShape
  <2>1. /\ job = [event |-> job.event, at |-> job.at, left |-> job.left, tries |-> job.tries,
                  row |-> job.row]
        /\ job.at \in {"idle", "row", "send", "final"} /\ job.row \in BOOLEAN /\ job.tries \in Nat
    BY <1>1 DEF Idle
  <2>2. /\ listening \in BOOLEAN /\ inbox \in Seq(Events) /\ published \subseteq Events
        /\ cached \in Configs /\ stored \in Configs
    <3>1. FirstConfig \in Configs /\ <<>> \in Seq(Events)
      BY NotificationAssumption
    <3>2. listening = FALSE /\ inbox = <<>> /\ published = {}
      BY DEF NotifyInit
    <3>3. cached = FirstConfig /\ stored = FirstConfig
      BY DEF NotifyInit
    <3>4. QED
      BY <3>1, <3>2, <3>3
  <2>5. loading \in [Loaders -> Configs \cup {NoConfig}]
    BY DEF NotifyInit
  <2>6. rowFor \in [Events -> [People -> {"none", "pending", "sent", "failed"}]]
    BY DEF NotifyInit
  <2>3. /\ mails \in [Events -> [People -> Nat]] /\ doubts \in [Events -> [People -> Nat]]
        /\ wanted \in [Events -> SUBSET People]
    BY DEF NotifyInit, Zero
  <2>4. QED
    BY <1>1, <2>1, <2>2, <2>3, <2>5, <2>6 DEF NotifyShape
<1>3. inbox = <<>> /\ Len(inbox) = 0
  BY DEF NotifyInit
<1>4. \A e \in Events : \A p \in People : Known(e, p) /\ New(e, p)
  BY DEF NotifyInit, Zero, Known, New, RowAgrees, Untouched, Tried, Unlogged
<1>5. Once /\ Turn /\ Reached
  BY <1>1, <1>3, <1>4 DEF NotifyInit, Once, Turn, Reached
<1>6. QED
  BY <1>2, <1>5 DEF NotifyInv

\* Steps of the job.
LEMMA JobStep ==
  ASSUME NotifyInv, LogPending \/ Attempt
  PROVE  NotifyInv'
<1> PICK e0, p0, left : e0 = job.event /\ left = job.left /\ p0 = left[1]
  OBVIOUS
<1>0. /\ job.at \in {"row", "send"} /\ wanted' = wanted /\ excused' = excused
      /\ cached' = cached /\ stored' = stored /\ loading' = loading
  BY DEF LogPending, Attempt, configs
<1>a. inbox' = inbox /\ published' = published /\ listening' = listening
  <2>1. CASE LogPending
    BY <2>1 DEF LogPending, inbound
  <2>2. CASE Attempt
    BY <2>2 DEF Attempt, inbound, GiveUp
  <2>3. QED
    BY <2>1, <2>2
<1>1. /\ NotifyShape /\ Once /\ Turn /\ Reached
      /\ job.at \in {"row", "send"} /\ Person = p0
      /\ e0 = job.event /\ left = job.left /\ p0 = left[1]
      /\ inbox' = inbox /\ published' = published /\ listening' = listening
      /\ cached' = cached /\ stored' = stored /\ loading' = loading
      /\ wanted' = wanted /\ excused' = excused
  BY <1>0, <1>a DEF NotifyInv, Person
<1>2. e0 \in Events /\ p0 \in People /\ left \in Seq(People) /\ Len(left) >= 1
  BY <1>1 DEF NotifyShape
<1>3. ASSUME NEW at \in {"send", "final"}, NEW n \in Nat, NEW row \in BOOLEAN,
             job' = [job EXCEPT !.at = at, !.tries = n, !.row = row],
             rowFor' \in [Events -> [People -> {"none", "pending", "sent", "failed"}]],
             mails' \in [Events -> [People -> Nat]], doubts' \in [Events -> [People -> Nat]],
             Elsewhere(e0, p0), Known(e0, p0)', tried \subseteq tried',
             at = "final" => <<e0, p0>> \in tried',
             at = "send" => InHand(rowFor'[e0][p0], mails'[e0][p0], doubts'[e0][p0],
                                   <<e0, p0>> \in tried', <<e0, p0>> \in unlogged', row)
      PROVE  NotifyInv'
  <2>1. job' = [event |-> e0, at |-> at, left |-> left, tries |-> n, row |-> row]
    BY <1>1, <1>3 DEF NotifyShape
  <2>2. /\ job'.event = e0 /\ job'.at = at /\ job'.left = left /\ job'.tries = n
        /\ job'.row = row /\ at # "idle" /\ at # "row"
    BY <2>1
  <2>3. NotifyShape'
    BY <1>1, <1>2, <1>3, <2>1, <2>2 DEF NotifyShape
  <2>4. Once'
    BY <1>1, <2>2 DEF Once
  <2>5. Turn'
    <3>1. /\ \A e \in Events : \A p \in People :
               /\ Known(e, p)'
               /\ e \notin published' \/ (\E i \in 1..Len(inbox') : inbox'[i] = e) => New(e, p)'
          /\ \A i \in 2..Len(left) : New(e0, left[i])'
      BY <1>1, <1>3, OneCell
    <3>2. QED
      BY <1>1, <1>3, <2>2, <3>1 DEF Turn, Tried, Unlogged
  <2>6. Reached'
    BY <1>1, <1>3, <2>2 DEF Reached, Tried
  <2>7. QED
    BY <2>3, <2>4, <2>5, <2>6 DEF NotifyInv
<1>4. /\ rowFor \in [Events -> [People -> {"none", "pending", "sent", "failed"}]]
      /\ mails \in [Events -> [People -> Nat]] /\ doubts \in [Events -> [People -> Nat]]
      /\ job.tries \in Nat /\ job.row \in BOOLEAN
  BY <1>1 DEF NotifyShape
<1>5. ASSUME NEW status \in {"pending", "sent", "failed"}, SetRow(status)
      PROVE  /\ rowFor' \in [Events -> [People -> {"none", "pending", "sent", "failed"}]]
             /\ rowFor'[e0][p0] = status
             /\ \A e \in Events : \A p \in People : e # e0 \/ p # p0 => rowFor'[e][p] = rowFor[e][p]
  BY <1>1, <1>2, <1>4, <1>5 DEF SetRow
<1>6. CASE LogPending
  <2>1. /\ job.at = "row" /\ mails' = mails /\ doubts' = doubts /\ tried' = tried
        /\ New(e0, p0)
    BY <1>1, <1>6 DEF LogPending, Turn
  <2>2. PICK ok \in BOOLEAN :
          /\ job' = [job EXCEPT !.at = "send", !.tries = 0, !.row = ok]
          /\ IF ok THEN SetRow("pending") /\ UNCHANGED <<unlogged, trouble>>
             ELSE DbFails /\ UNCHANGED rowFor
    BY <1>6 DEF LogPending
  <2>3. CASE ok
    <3>1. SetRow("pending") /\ unlogged' = unlogged
      BY <2>2, <2>3
    <3>2. Elsewhere(e0, p0)
      BY <1>5, <2>1, <3>1 DEF Elsewhere
    <3>3. /\ Known(e0, p0)'
          /\ InHand(rowFor'[e0][p0], mails'[e0][p0], doubts'[e0][p0],
                    <<e0, p0>> \in tried', <<e0, p0>> \in unlogged', ok)
      BY <1>5, <2>1, <2>3, <3>1 DEF Known, New, InHand, RowAgrees, Untouched, Tried, Unlogged
    <3>4. QED
      BY <1>3, <1>4, <1>5, <2>1, <2>2, <3>1, <3>2, <3>3
  <2>4. CASE ~ok
    <3>1. unlogged' = unlogged \cup {<<e0, p0>>} /\ rowFor' = rowFor
      BY <1>1, <2>2, <2>4 DEF DbFails
    <3>2. Elsewhere(e0, p0)
      BY <2>1, <3>1 DEF Elsewhere
    <3>3. /\ Known(e0, p0)'
          /\ InHand(rowFor'[e0][p0], mails'[e0][p0], doubts'[e0][p0],
                    <<e0, p0>> \in tried', <<e0, p0>> \in unlogged', ok)
      BY <2>1, <3>1 DEF Known, New, InHand, RowAgrees, Untouched, Tried, Unlogged
    <3>4. QED
      BY <1>3, <1>4, <2>1, <2>2, <3>1, <3>2, <3>3
  <2>5. QED
    BY <2>3, <2>4
<1>7. CASE Attempt
  <2>1. /\ job.at = "send" /\ unlogged' = unlogged
        /\ InHand(rowFor[e0][p0], mails[e0][p0], doubts[e0][p0], <<e0, p0>> \in tried,
                  <<e0, p0>> \in unlogged, job.row)
    BY <1>1, <1>7 DEF Attempt, Turn, Tried, Unlogged
  <2>2. /\ mails[e0][p0] = doubts[e0][p0] /\ doubts[e0][p0] \in Nat
        /\ rowFor[e0][p0] \in {"none", "pending"} /\ <<e0, p0>> \notin tried
        /\ job.row \/ <<e0, p0>> \in unlogged
    BY <2>1 DEF InHand
  <2>3. ASSUME NEW more \in Nat, Delivered(more)
        PROVE  /\ mails' \in [Events -> [People -> Nat]]
               /\ mails'[e0][p0] = mails[e0][p0] + more
               /\ \A e \in Events : \A p \in People : e # e0 \/ p # p0 => mails'[e][p] = mails[e][p]
    BY <1>1, <1>2, <1>4, <2>3 DEF Delivered
  <2>4. ASSUME NEW status \in {"sent", "failed"}, Outcome(status),
               mails' \in [Events -> [People -> Nat]], doubts' \in [Events -> [People -> Nat]],
               mails'[e0][p0] = doubts'[e0][p0] + (IF status = "sent" THEN 1 ELSE 0),
               doubts'[e0][p0] \in Nat,
               \A e \in Events : \A p \in People : e # e0 \/ p # p0 =>
                 mails'[e][p] = mails[e][p] /\ doubts'[e][p] = doubts[e][p]
        PROVE  NotifyInv'
    <3>1. /\ job' = [job EXCEPT !.at = "final", !.tries = 0] /\ tried' = tried \cup {<<e0, p0>>}
          /\ IF job.row THEN SetRow(status) ELSE rowFor' = rowFor
      BY <1>1, <2>4 DEF Outcome
    <3>2. job' = [job EXCEPT !.at = "final", !.tries = 0, !.row = job.row]
      BY <1>1, <3>1 DEF NotifyShape
    <3>3. /\ rowFor' \in [Events -> [People -> {"none", "pending", "sent", "failed"}]]
          /\ IF job.row THEN rowFor'[e0][p0] = status
             ELSE rowFor'[e0][p0] = rowFor[e0][p0] /\ <<e0, p0>> \in unlogged
          /\ \A e \in Events : \A p \in People : e # e0 \/ p # p0 => rowFor'[e][p] = rowFor[e][p]
      BY <1>4, <1>5, <2>2, <3>1
    <3>4. Elsewhere(e0, p0)
      BY <2>1, <2>4, <3>1, <3>3 DEF Elsewhere
    <3>5. Known(e0, p0)'
      BY <2>1, <2>2, <2>4, <3>1, <3>3 DEF Known, RowAgrees, Tried, Unlogged
    <3>6. QED
      BY <1>3, <1>4, <2>4, <3>1, <3>2, <3>3, <3>4, <3>5
  <2>5. CASE Delivered(1) /\ Outcome("sent") /\ UNCHANGED <<inbound, doubts>>
    BY <1>4, <2>2, <2>3, <2>4, <2>5
  <2>6. CASE GiveUp /\ UNCHANGED <<mails, doubts>>
    BY <1>4, <2>2, <2>4, <2>6 DEF GiveUp
  <2>7. ASSUME NEW maybe \in {0, 1}, Delivered(maybe),
               doubts' = [doubts EXCEPT ![job.event][Person] = @ + maybe],
               IF job.tries + 1 = MaxAttempts THEN GiveUp
               ELSE /\ job' = [job EXCEPT !.tries = @ + 1]
                    /\ UNCHANGED <<inbound, rowFor, tried>>
        PROVE  NotifyInv'
    <3>1. /\ doubts' \in [Events -> [People -> Nat]]
          /\ doubts'[e0][p0] = doubts[e0][p0] + maybe
          /\ \A e \in Events : \A p \in People : e # e0 \/ p # p0 => doubts'[e][p] = doubts[e][p]
      <4>1. maybe \in Nat
        OBVIOUS
      <4>2. doubts' = [doubts EXCEPT ![e0][p0] = doubts[e0][p0] + maybe]
        BY <1>1, <2>7
      <4>3. QED
        BY <1>2, <1>4, <4>1, <4>2
    <3>2. /\ mails' \in [Events -> [People -> Nat]]
          /\ mails'[e0][p0] = mails[e0][p0] + maybe
          /\ \A e \in Events : \A p \in People : e # e0 \/ p # p0 => mails'[e][p] = mails[e][p]
      BY <2>3, <2>7
    <3>3. mails'[e0][p0] = doubts'[e0][p0] /\ doubts'[e0][p0] \in Nat
      BY <2>2, <3>1, <3>2
    <3>4. CASE job.tries + 1 = MaxAttempts
      BY <2>4, <2>7, <3>1, <3>2, <3>3, <3>4 DEF GiveUp
    <3>5. CASE job.tries + 1 # MaxAttempts
      <4>1. /\ job' = [job EXCEPT !.tries = job.tries + 1] /\ rowFor' = rowFor /\ tried' = tried
        BY <2>7, <3>5
      <4>2. job' = [job EXCEPT !.at = "send", !.tries = job.tries + 1, !.row = job.row]
        BY <1>1, <2>1, <4>1 DEF NotifyShape
      <4>3. Elsewhere(e0, p0)
        BY <2>1, <3>1, <3>2, <4>1 DEF Elsewhere
      <4>4. /\ Known(e0, p0)'
            /\ InHand(rowFor'[e0][p0], mails'[e0][p0], doubts'[e0][p0],
                      <<e0, p0>> \in tried', <<e0, p0>> \in unlogged', job.row)
        BY <2>1, <2>2, <3>3, <4>1 DEF Known, InHand, RowAgrees, Tried, Unlogged
      <4>5. /\ tried \subseteq tried' /\ job.tries + 1 \in Nat
            /\ rowFor' \in [Events -> [People -> {"none", "pending", "sent", "failed"}]]
        BY <1>4, <4>1
      <4>6. QED
        BY <1>3, <1>4, <3>1, <3>2, <4>2, <4>3, <4>4, <4>5
    <3>6. QED
      BY <3>4, <3>5
  <2>8. QED
    BY <1>7, <2>5, <2>6, <2>7 DEF Attempt
<1>8. QED
  BY <1>6, <1>7

\* A step that leaves the cells alone and keeps the job or drops it.
LEMMA QuietStep ==
  ASSUME NotifyInv, job' = job \/ job' = Idle,
         rowFor' = rowFor, mails' = mails, doubts' = doubts, tried' = tried, wanted' = wanted,
         unlogged \subseteq unlogged', excused \subseteq excused',
         job' = job => unlogged' = unlogged,
         job' = job \/ job.at = "idle" \/ job.event \in excused',
         \A e \in Events : e \notin published' \/ (\E i \in 1..Len(inbox') : inbox'[i] = e) =>
           e \notin published \/ (\E i \in 1..Len(inbox) : inbox[i] = e)
  PROVE  Turn' /\ Reached'
<1>1. Turn /\ Reached
  BY DEF NotifyInv
<1>2. \A e \in Events : \A p \in People : Known(e, p)' /\ (New(e, p) => New(e, p)')
  BY NoCell
<1>3. \A e \in Events : \A p \in People :
        /\ Known(e, p)'
        /\ e \notin published' \/ (\E i \in 1..Len(inbox') : inbox'[i] = e) => New(e, p)'
  BY <1>1, <1>2 DEF Turn
<1>4. CASE job' = job
  <2>1. unlogged' = unlogged
    BY <1>4
  <2>2. job.at # "idle" => job.event \in Events /\ job.left \in Seq(People) /\ job.left # <<>>
    BY DEF NotifyInv, NotifyShape
  <2>3. PICK e0, left : e0 = job.event /\ left = job.left
    OBVIOUS
  <2>4. e0 = job'.event /\ left = job'.left /\ job'.at = job.at /\ job'.row = job.row
    BY <1>4, <2>3
  <2>5. job'.at # "idle" => \A i \in 2..Len(left) : New(e0, left[i])'
    <3>1. job.at # "idle" => e0 \in Events /\ \A i \in 2..Len(left) : left[i] \in People
      BY <2>2, <2>3
    <3>2. job.at # "idle" => \A i \in 2..Len(left) : New(e0, left[i])
      BY <1>1, <2>3 DEF Turn
    <3>3. QED
      BY <1>2, <2>4, <3>1, <3>2
  <2>6. job'.at = "row" => New(e0, left[1])'
    <3>1. job.at = "row" => e0 \in Events /\ left[1] \in People
      BY <2>2, <2>3
    <3>2. job.at = "row" => New(e0, left[1])
      BY <1>1, <2>3 DEF Turn
    <3>3. QED
      BY <1>2, <2>4, <3>1, <3>2
  <2>7. Turn'
    <3>1. /\ job'.at # "idle" => \A i, j \in 1..Len(left) : left[i] = left[j] => i = j
          /\ job'.at = "send" =>
               InHand(rowFor[e0][left[1]], mails[e0][left[1]], doubts[e0][left[1]],
                      <<e0, left[1]>> \in tried, <<e0, left[1]>> \in unlogged, job'.row)
          /\ job'.at = "final" => <<e0, left[1]>> \in tried
      BY <1>1, <2>3, <2>4 DEF Turn, Tried, Unlogged
    <3>2. QED
      BY <1>3, <2>1, <2>4, <2>5, <2>6, <3>1 DEF Turn, Tried, Unlogged
  <2>8. QED
    BY <1>1, <1>4, <2>7 DEF Reached, Tried
<1>5. CASE job' = Idle /\ job' # job
  <2>1. job'.at = "idle"
    BY <1>5 DEF Idle
  <2>2. Turn'
    BY <1>3, <2>1 DEF Turn
  <2>3. Reached'
    <3>1. ASSUME NEW e \in Events, e \notin excused', NEW p \in wanted[e]
          PROVE  <<e, p>> \in tried
      BY <1>1, <1>5, <3>1 DEF Reached, Tried
    <3>2. QED
      BY <3>1 DEF Reached, Tried
  <2>4. QED
    BY <2>2, <2>3
<1>6. QED
  BY <1>4, <1>5

\* The shape of an idle job, and of the one that stays.
LEMMA IdleShape ==
  /\ Idle = [event |-> Idle.event, at |-> Idle.at, left |-> Idle.left, tries |-> Idle.tries,
             row |-> Idle.row]
  /\ Idle.at = "idle" /\ Idle.row \in BOOLEAN /\ Idle.tries \in Nat
  /\ Idle.event = NoEvent
BY DEF Idle

LEMMA PublishStep ==
  ASSUME NotifyInv, NEW e \in Events, PublishEvent(e)
  PROVE  NotifyInv'
<1>1. /\ NotifyShape /\ Once /\ e \notin published /\ published' = published \cup {e}
      /\ listening' = listening /\ job' = job /\ cached' = cached /\ stored' = stored
      /\ loading' = loading /\ rowFor' = rowFor /\ mails' = mails /\ doubts' = doubts
      /\ tried' = tried /\ wanted' = wanted /\ unlogged' = unlogged
  BY DEF NotifyInv, PublishEvent, configs
<1>2. /\ inbox' = inbox \/ inbox' = Append(inbox, e)
      /\ excused \subseteq excused'
  BY DEF PublishEvent, Excuse
<1>3. inbox \in Seq(Events)
  BY <1>1 DEF NotifyShape
<1>4. NotifyShape'
  <2>1. inbox' \in Seq(Events) /\ published' \subseteq Events
    <3>1. published \subseteq Events
      BY <1>1 DEF NotifyShape
    <3>2. CASE inbox' = inbox
      BY <1>1, <1>3, <3>1, <3>2
    <3>3. CASE inbox' = Append(inbox, e)
      BY <1>1, <1>3, <3>1, <3>3
    <3>4. QED
      BY <1>2, <3>2, <3>3
  <2>2. QED
    BY <1>1, <2>1 DEF NotifyShape
<1>5. Once'
  <2>1. \A i \in 1..Len(inbox) : inbox[i] # e
    BY <1>1 DEF Once
  <2>2. job.event # e
    BY <1>1, IdleShape, NotificationAssumption DEF Once, NotifyShape
  <2>3. CASE inbox' = inbox
    BY <1>1, <2>3 DEF Once
  <2>4. CASE inbox' = Append(inbox, e)
    <3>1. /\ Len(inbox') = Len(inbox) + 1 /\ inbox'[Len(inbox) + 1] = e /\ Len(inbox) \in Nat
          /\ \A i \in 1..Len(inbox) : inbox'[i] = inbox[i]
      BY <1>3, <2>4
    <3>2. \A i, j \in 1..Len(inbox') : inbox'[i] = inbox'[j] => i = j
      BY <1>1, <2>1, <3>1 DEF Once
    <3>3. \A i \in 1..Len(inbox') : inbox'[i] \in published' /\ inbox'[i] # job'.event
      BY <1>1, <2>2, <3>1 DEF Once
    <3>4. QED
      BY <1>1, <3>2, <3>3 DEF Once
  <2>5. QED
    BY <1>2, <2>3, <2>4
<1>6. ASSUME NEW ev \in Events,
             ev \notin published' \/ (\E i \in 1..Len(inbox') : inbox'[i] = ev)
      PROVE  ev \notin published \/ (\E i \in 1..Len(inbox) : inbox[i] = ev)
  <2>1. CASE inbox' = inbox
    BY <1>1, <1>6, <2>1
  <2>2. CASE inbox' = Append(inbox, e)
    <3>1. /\ Len(inbox') = Len(inbox) + 1 /\ inbox'[Len(inbox) + 1] = e /\ Len(inbox) \in Nat
          /\ \A i \in 1..Len(inbox) : inbox'[i] = inbox[i]
      BY <1>3, <2>2
    <3>2. QED
      BY <1>1, <1>6, <3>1
  <2>3. QED
    BY <1>2, <2>1, <2>2
<1>7. Turn' /\ Reached'
  BY <1>1, <1>2, <1>6, QuietStep
<1>8. QED
  BY <1>4, <1>5, <1>7 DEF NotifyInv

\* The listener starts, loses its connection, is stopped, or ends with a handler that raised.
LEMMA ListenerStep ==
  ASSUME NotifyInv, Subscribe \/ LoseConnection \/ StopWorker \/ RenderFails
  PROVE  NotifyInv'
<1>1. /\ NotifyShape /\ Once /\ published' = published /\ stored' = stored /\ rowFor' = rowFor
      /\ mails' = mails /\ doubts' = doubts /\ tried' = tried /\ wanted' = wanted
  <2>1. NotifyShape /\ Once
    BY DEF NotifyInv
  <2>2. CASE Subscribe
    BY <2>1, <2>2 DEF Subscribe, configs, history
  <2>3. CASE LoseConnection
    BY <2>1, <2>3 DEF LoseConnection, configs
  <2>4. CASE StopWorker
    BY <2>1, <2>4 DEF StopWorker
  <2>5. CASE RenderFails
    BY <2>1, <2>5 DEF RenderFails, EndsListener, configs
  <2>6. QED
    BY <2>2, <2>3, <2>4, <2>5
<1>2. /\ listening' \in BOOLEAN
      /\ inbox' = inbox \/ inbox' = <<>>
      /\ job' = job \/ job' = Idle
      /\ job' = job => unlogged' = unlogged
      /\ unlogged \subseteq unlogged' /\ excused \subseteq excused'
      /\ cached' = cached \/ cached' = stored
      /\ loading' = loading \/ loading' = [l \in Loaders |-> NoConfig]
  <2>2. CASE Subscribe
    BY <2>2 DEF Subscribe, configs, history
  <2>3. CASE LoseConnection
    BY <2>3 DEF LoseConnection, configs, Excuse
  <2>4. CASE StopWorker
    <3>1. job' = job => job.at = "idle"
      BY <2>4, IdleShape DEF StopWorker
    <3>2. QED
      BY <2>4, <3>1 DEF StopWorker, Excuse
  <2>5. CASE RenderFails
    BY <2>5 DEF RenderFails, EndsListener, configs, Excuse
  <2>6. QED
    BY <2>2, <2>3, <2>4, <2>5
<1>3. job' = job \/ job.at = "idle" \/ job.event \in excused'
  <2>1. job.at # "idle" => job.event # NoEvent
    BY <1>1, NotificationAssumption DEF NotifyShape
  <2>2. CASE Subscribe
    BY <2>2 DEF Subscribe
  <2>3. CASE LoseConnection
    BY <2>3 DEF LoseConnection
  <2>4. CASE StopWorker
    BY <2>1, <2>4 DEF StopWorker, Excuse
  <2>5. CASE RenderFails
    BY <2>5 DEF RenderFails, Excuse
  <2>6. QED
    BY <2>2, <2>3, <2>4, <2>5
<1>a. \A i \in 1..Len(inbox') : i \in 1..Len(inbox) /\ inbox'[i] = inbox[i]
  <2>1. CASE inbox' = inbox
    BY <2>1
  <2>2. CASE inbox' = <<>>
    <3>1. Len(inbox') = 0
      BY <2>2
    <3>2. QED
      BY <3>1
  <2>3. QED
    BY <1>2, <2>1, <2>2
<1>4. NotifyShape'
  <2>5. loading' \in [Loaders -> Configs \cup {NoConfig}]
    BY <1>1, <1>2 DEF NotifyShape
  <2>6. inbox \in Seq(Events) /\ cached \in Configs /\ stored \in Configs
    BY <1>1 DEF NotifyShape
  <2>7. inbox' \in Seq(Events)
    <3>1. CASE inbox' = inbox
      BY <2>6, <3>1
    <3>2. CASE inbox' = <<>>
      BY <3>2
    <3>3. QED
      BY <1>2, <3>1, <3>2
  <2>1. /\ cached' \in Configs /\ loading' \in [Loaders -> Configs \cup {NoConfig}]
        /\ inbox' \in Seq(Events) /\ listening' \in BOOLEAN /\ stored' \in Configs
    BY <1>1, <1>2, <2>5, <2>6, <2>7
  <2>2. CASE job' = job
    BY <1>1, <2>1, <2>2 DEF NotifyShape
  <2>3. CASE job' = Idle
    <3>1. /\ job' = [event |-> job'.event, at |-> job'.at, left |-> job'.left,
                     tries |-> job'.tries, row |-> job'.row]
          /\ job'.at = "idle" /\ job'.row \in BOOLEAN /\ job'.tries \in Nat
      BY <2>3, IdleShape
    <3>2. QED
      BY <1>1, <2>1, <2>3, <3>1 DEF NotifyShape
  <2>4. QED
    BY <1>2, <2>2, <2>3
<1>5. Once'
  <2>1. \A i \in 1..Len(inbox') : i \in 1..Len(inbox) /\ inbox'[i] = inbox[i]
    BY <1>a
  <2>2. \A i \in 1..Len(inbox') : inbox[i] \in Events
    BY <1>1, <2>1 DEF NotifyShape
  <2>3. CASE job' = job
    BY <1>1, <2>1, <2>3 DEF Once
  <2>4. CASE job' = Idle
    <3>1. job'.at = "idle" /\ job'.event \notin Events
      BY <2>4, IdleShape, NotificationAssumption
    <3>2. QED
      BY <1>1, <2>1, <2>2, <3>1 DEF Once
  <2>5. QED
    BY <1>2, <2>3, <2>4
<1>6. Turn' /\ Reached'
  <2>1. \A e \in Events : e \notin published' \/ (\E i \in 1..Len(inbox') : inbox'[i] = e) =>
          e \notin published \/ (\E i \in 1..Len(inbox) : inbox[i] = e)
    BY <1>1, <1>a
  <2>2. QED
    BY <1>1, <1>2, <1>3, <2>1, QuietStep
<1>7. QED
  BY <1>4, <1>5, <1>6 DEF NotifyInv

\* The config changes, in the database, in a loader or in the cache.
LEMMA ConfigStep ==
  ASSUME NotifyInv, (\E c \in Configs : EditConfig(c)) \/ PollConfig \/ ReloadConfig
  PROVE  NotifyInv'
<1>1. /\ inbox' = inbox /\ published' = published /\ listening' = listening /\ job' = job
      /\ rowFor' = rowFor /\ mails' = mails /\ doubts' = doubts /\ tried' = tried
      /\ wanted' = wanted /\ excused' = excused /\ unlogged' = unlogged
  <2>1. CASE \E c \in Configs : EditConfig(c)
    BY <2>1 DEF EditConfig, inbound, history
  <2>2. CASE PollConfig
    BY <2>2 DEF PollConfig, ReadConfig, AssignConfig, inbound, history
  <2>3. CASE ReloadConfig
    BY <2>3 DEF ReloadConfig, ReadConfig, AssignConfig, inbound, history
  <2>4. QED
    BY <2>1, <2>2, <2>3
<1>2. /\ cached \in Configs /\ stored \in Configs
      /\ loading \in [Loaders -> Configs \cup {NoConfig}]
  BY DEF NotifyInv, NotifyShape
<1>3. /\ cached' \in Configs /\ stored' \in Configs
      /\ loading' \in [Loaders -> Configs \cup {NoConfig}]
  <2>1. CASE \E c \in Configs : EditConfig(c)
    BY <1>2, <2>1 DEF EditConfig
  <2>2. ASSUME NEW l \in Loaders, ReadConfig(l)
        PROVE  <1>3!:
    BY <1>2, <2>2 DEF ReadConfig
  <2>3. ASSUME NEW l \in Loaders, AssignConfig(l)
        PROVE  <1>3!:
    <3>1. loading[l] \in Configs
      BY <1>2, <2>3 DEF AssignConfig
    <3>2. QED
      BY <1>2, <2>3, <3>1 DEF AssignConfig
  <2>4. "poll" \in Loaders /\ "reload" \in Loaders
    BY DEF Loaders
  <2>5. QED
    BY <2>1, <2>2, <2>3, <2>4 DEF PollConfig, ReloadConfig
<1>4. NotifyShape'
  BY <1>1, <1>3 DEF NotifyInv, NotifyShape
<1>5. Once'
  BY <1>1 DEF NotifyInv, Once
<1>6. \A e \in Events : e \notin published' \/ (\E i \in 1..Len(inbox') : inbox'[i] = e) =>
        e \notin published \/ (\E i \in 1..Len(inbox) : inbox[i] = e)
  BY <1>1
<1>7. Turn' /\ Reached'
  BY <1>1, <1>6, QuietStep
<1>8. QED
  BY <1>4, <1>5, <1>7 DEF NotifyInv

\* The second commit: the person in hand is through, the next one's turn comes.
LEMMA FinalStep ==
  ASSUME NotifyInv, Finalize
  PROVE  NotifyInv'
<1> PICK e0, p0, left : e0 = job.event /\ left = job.left /\ p0 = left[1]
  OBVIOUS
<1>1. /\ NotifyShape /\ Once /\ Turn /\ Reached
      /\ job.at = "final" /\ Person = p0
      /\ inbox' = inbox /\ published' = published /\ listening' = listening
      /\ cached' = cached /\ stored' = stored /\ loading' = loading
      /\ mails' = mails /\ doubts' = doubts /\ tried' = tried
      /\ wanted' = wanted /\ excused' = excused
  BY DEF NotifyInv, Finalize, inbound, configs, Person
<1>2. /\ e0 \in Events /\ p0 \in People /\ left \in Seq(People) /\ left # <<>>
      /\ Len(left) \in Nat /\ Len(left) >= 1
      /\ rowFor \in [Events -> [People -> {"none", "pending", "sent", "failed"}]]
      /\ <<e0, p0>> \in tried
  <2>1. <<e0, p0>> \in tried
    BY <1>1 DEF Turn, Tried
  <2>2. e0 \in Events /\ left \in Seq(People) /\ left # <<>>
    BY <1>1 DEF NotifyShape
  <2>3. rowFor \in [Events -> [People -> {"none", "pending", "sent", "failed"}]]
    BY <1>1 DEF NotifyShape
  <2>4. QED
    BY <2>1, <2>2, <2>3
<1>3. /\ rowFor' \in [Events -> [People -> {"none", "pending", "sent", "failed"}]]
      /\ \A e \in Events : \A p \in People : e # e0 \/ p # p0 => rowFor'[e][p] = rowFor[e][p]
      /\ \/ rowFor'[e0][p0] = rowFor[e0][p0] /\ unlogged' = unlogged
         \/ /\ rowFor'[e0][p0] \in {"pending", rowFor[e0][p0]}
            /\ unlogged' = unlogged \cup {<<e0, p0>>}
  <2>1. CASE UNCHANGED <<rowFor, unlogged, trouble>>
    BY <1>2, <2>1
  <2>2. CASE DbFails /\ IF job.row THEN SetRow("pending") ELSE UNCHANGED rowFor
    <3>1. unlogged' = unlogged \cup {<<e0, p0>>}
      BY <1>1, <2>2 DEF DbFails
    <3>2. CASE job.row
      <4>1. rowFor' = [rowFor EXCEPT ![e0][p0] = "pending"]
        BY <1>1, <2>2, <3>2 DEF SetRow
      <4>2. QED
        BY <1>2, <3>1, <4>1
    <3>3. CASE ~job.row
      <4>1. rowFor' = rowFor
        BY <2>2, <3>3
      <4>2. QED
        BY <1>2, <3>1, <4>1
    <3>4. QED
      BY <3>2, <3>3
  <2>3. QED
    BY <2>1, <2>2 DEF Finalize
<1>4. Elsewhere(e0, p0)
  BY <1>1, <1>3 DEF Elsewhere
<1>5. Known(e0, p0)'
  <2>1. Known(e0, p0)
    BY <1>1, <1>2 DEF Turn
  <2>2. RowAgrees(rowFor[e0][p0], mails[e0][p0], doubts[e0][p0], <<e0, p0>> \in tried,
                  <<e0, p0>> \in unlogged)
    BY <2>1 DEF Known, Tried, Unlogged
  <2>3. CASE rowFor'[e0][p0] = rowFor[e0][p0] /\ unlogged' = unlogged
    BY <1>1, <2>2, <2>3 DEF Known, Tried, Unlogged
  <2>4. CASE /\ rowFor'[e0][p0] \in {"pending", rowFor[e0][p0]}
             /\ unlogged' = unlogged \cup {<<e0, p0>>}
    <3>1. <<e0, p0>> \in unlogged'
      BY <2>4
    <3>2. RowAgrees(rowFor'[e0][p0], mails'[e0][p0], doubts'[e0][p0], <<e0, p0>> \in tried',
                    <<e0, p0>> \in unlogged')
      BY <1>1, <2>2, <2>4, <3>1 DEF RowAgrees
    <3>3. QED
      BY <3>2 DEF Known, Tried, Unlogged
  <2>5. QED
    BY <1>3, <2>3, <2>4
<1>6. /\ \A e \in Events : \A p \in People :
           /\ Known(e, p)'
           /\ e \notin published' \/ (\E i \in 1..Len(inbox') : inbox'[i] = e) => New(e, p)'
      /\ \A i \in 2..Len(left) : New(e0, left[i])'
  <2>1. job.at # "idle" /\ Elsewhere(e0, left[1]) /\ Known(e0, left[1])'
    BY <1>1, <1>4, <1>5
  <2>2. QED
    BY <1>1, <2>1, OneCell
<1>7. \A i, j \in 1..Len(left) : left[i] = left[j] => i = j
  BY <1>1 DEF Turn
<1>8. \A e \in Events : e \notin excused => \A p \in wanted[e] :
        <<e, p>> \in tried \/ (e0 = e /\ \E i \in 1..Len(left) : left[i] = p)
  BY <1>1 DEF Reached, Tried
<1>9. CASE Tail(left) = <<>>
  <2>1. job' = Idle /\ Len(left) = 1
    <3>1. Len(Tail(left)) = Len(left) - 1
      BY <1>2
    <3>2. Len(Tail(left)) = 0
      BY <1>9
    <3>3. QED
      BY <1>1, <1>2, <1>9, <3>1, <3>2 DEF Finalize
  <2>2. /\ job' = [event |-> job'.event, at |-> job'.at, left |-> job'.left,
                   tries |-> job'.tries, row |-> job'.row]
        /\ job'.at = "idle" /\ job'.row \in BOOLEAN /\ job'.tries \in Nat
        /\ job'.event \notin Events
    BY <2>1, IdleShape, NotificationAssumption
  <2>3. NotifyShape'
    BY <1>1, <1>3, <2>1, <2>2 DEF NotifyShape
  <2>4. Once'
    <3>1. inbox \in Seq(Events)
      BY <1>1 DEF NotifyShape
    <3>2. \A i \in 1..Len(inbox) : inbox[i] \in Events
      BY <3>1
    <3>3. QED
      BY <1>1, <2>2, <3>2 DEF Once
  <2>5. Turn'
    BY <1>6, <2>2 DEF Turn
  <2>6. Reached'
    <3>1. \A i \in 1..Len(left) : left[i] = p0
      BY <2>1
    <3>2. QED
      BY <1>1, <1>2, <1>8, <3>1 DEF Reached, Tried
  <2>7. QED
    BY <2>3, <2>4, <2>5, <2>6 DEF NotifyInv
<1>10. CASE Tail(left) # <<>>
  <2> DEFINE rest == Tail(left)
  <2>1. /\ rest \in Seq(People) /\ Len(rest) = Len(left) - 1 /\ Len(rest) \in Nat
        /\ \A i \in 1..Len(rest) : i + 1 \in 2..Len(left) /\ rest[i] = left[i + 1]
        /\ Len(left) >= 2 /\ rest # <<>>
    BY <1>2, <1>10
  <2>2. job' = [event |-> e0, at |-> "row", left |-> rest, tries |-> job.tries, row |-> job.row]
    <3>1. job' = [job EXCEPT !.left = rest, !.at = "row"]
      BY <1>1, <1>10 DEF Finalize
    <3>2. QED
      BY <1>1, <3>1 DEF NotifyShape
  <2> HIDE DEF rest
  <2>3. /\ job'.event = e0 /\ job'.at = "row" /\ job'.left = rest /\ job'.tries = job.tries
        /\ job'.row = job.row
    BY <2>2
  <2>4. NotifyShape'
    <3>1. job.tries \in Nat /\ job.row \in BOOLEAN
      BY <1>1 DEF NotifyShape
    <3>2. QED
      BY <1>1, <1>2, <1>3, <2>1, <2>2, <2>3, <3>1 DEF NotifyShape
  <2>5. Once'
    BY <1>1, <2>3 DEF Once
  <2>6. Turn'
    <3>1. \A i, j \in 1..Len(rest) : rest[i] = rest[j] => i = j
      <4>1. ASSUME NEW i \in 1..Len(rest), NEW j \in 1..Len(rest), rest[i] = rest[j]
            PROVE  i = j
        <5>0. /\ i + 1 \in 2..Len(left) /\ rest[i] = left[i + 1]
              /\ j + 1 \in 2..Len(left) /\ rest[j] = left[j + 1]
          BY <2>1
        <5>a. i + 1 \in 1..Len(left) /\ j + 1 \in 1..Len(left)
          BY <5>0
        <5>b. left[i + 1] = left[j + 1]
          BY <4>1, <5>0, Zenon
        <5>1. /\ i + 1 \in 1..Len(left) /\ j + 1 \in 1..Len(left)
              /\ left[i + 1] = left[j + 1]
          BY <5>a, <5>b
        <5>2. i + 1 = j + 1
          BY <1>7, <5>1
        <5>3. QED
          BY <5>2
      <4>2. QED
        BY <4>1
    <3>2. \A i \in 1..Len(rest) : New(e0, rest[i])'
      <4>1. ASSUME NEW i \in 1..Len(rest)
            PROVE  New(e0, rest[i])'
        <5>1. PICK p : p = rest[i]
          OBVIOUS
        <5>2. p = left[i + 1] /\ i + 1 \in 2..Len(left)
          BY <2>1, <5>1
        <5>3. New(e0, p)'
          BY <1>6, <5>2
        <5>4. rest' = rest
          BY DEF rest
        <5>5. QED
          BY <5>1, <5>3, <5>4
      <4>2. QED
        BY <4>1
    <3>3. 1 \in 1..Len(rest) /\ \A i \in 2..Len(rest) : i \in 1..Len(rest)
      BY <2>1
    <3>4. QED
      BY <1>6, <2>3, <3>1, <3>2, <3>3 DEF Turn
  <2>7. Reached'
    <3>1. ASSUME NEW e \in Events, e \notin excused, NEW p \in wanted[e]
          PROVE  <<e, p>> \in tried \/ (e0 = e /\ \E i \in 1..Len(rest) : rest[i] = p)
      <4>1. CASE <<e, p>> \in tried
        BY <4>1
      <4>2. CASE e0 = e /\ \E i \in 1..Len(left) : left[i] = p
        <5>1. PICK i \in 1..Len(left) : left[i] = p
          BY <4>2
        <5>2. CASE i = 1
          BY <1>2, <4>2, <5>1, <5>2
        <5>3. CASE i # 1
          <6>1. i - 1 \in 1..Len(rest) /\ rest[i - 1] = p
            BY <2>1, <5>1, <5>3
          <6>2. QED
            BY <4>2, <6>1
        <5>4. QED
          BY <5>2, <5>3
      <4>3. QED
        BY <1>8, <3>1, <4>1, <4>2
    <3>2. QED
      BY <1>1, <2>3, <3>1 DEF Reached, Tried
  <2>8. QED
    BY <2>4, <2>5, <2>6, <2>7 DEF NotifyInv
<1>11. QED
  BY <1>9, <1>10

\* The arrangements of a finite set: no member twice, and none left out.
LEMMA Arrangements ==
  ASSUME NEW S, IsFiniteSet(S), NEW f \in SetToSeqs(S)
  PROVE  /\ f \in Seq(S)
         /\ \A i, j \in 1..Len(f) : f[i] = f[j] => i = j
         /\ \A x \in S : \E i \in 1..Len(f) : f[i] = x
<1> DEFINE n == Cardinality(S)
<1>1. n \in Nat
  BY FS_CardinalityType
<1>2. f \in [1..n -> S] /\ \A i, j \in 1..n : i # j => f[i] # f[j]
  BY DEF SetToSeqs
<1>3. f \in Seq(S) /\ Len(f) = n
  BY <1>1, <1>2
<1>4. f \in Injection(1..n, S)
  BY <1>2 DEF Injection, IsInjective
<1>5. Cardinality(1..n) = n
  BY <1>1, FS_Interval
<1>6. f \in Surjection(1..n, S)
  BY <1>4, <1>5, FS_Injection
<1>7. \A x \in S : \E i \in 1..n : f[i] = x
  BY <1>6 DEF Surjection
<1>8. \A i, j \in 1..n : f[i] = f[j] => i = j
  BY <1>2
<1> HIDE DEF n
<1>9. QED
  BY <1>3, <1>7, <1>8

\* The listener takes an event and resolves the roles its config names.
LEMMA TakeStep ==
  ASSUME NotifyInv, TakeEvent
  PROVE  NotifyInv'
<1> PICK e0 : e0 = Head(inbox)
  OBVIOUS
<1>1. /\ NotifyShape /\ Once /\ Turn /\ Reached
      /\ job = Idle /\ inbox # <<>> /\ inbox' = Tail(inbox)
      /\ published' = published /\ listening' = listening
      /\ cached' = cached /\ stored' = stored /\ loading' = loading /\ rowFor' = rowFor
      /\ mails' = mails /\ doubts' = doubts /\ tried' = tried /\ unlogged' = unlogged
  BY DEF NotifyInv, TakeEvent, configs
<1>2. /\ inbox \in Seq(Events) /\ Len(inbox) \in Nat /\ Len(inbox) >= 1
      /\ e0 = inbox[1] /\ e0 \in Events
  <2>1. inbox \in Seq(Events)
    BY <1>1 DEF NotifyShape
  <2>2. QED
    BY <1>1, <2>1
<1>3. /\ inbox' \in Seq(Events) /\ Len(inbox') = Len(inbox) - 1
      /\ \A i \in 1..Len(inbox') : i + 1 \in 1..Len(inbox) /\ inbox'[i] = inbox[i + 1]
  BY <1>1, <1>2
<1>4. PICK roles \in Seq(Roles) : Handle(e0, roles)
  <2>1. <<>> \in Seq(Roles) /\ cached.roles \in Seq(Roles)
    <3>1. cached \in Configs
      BY <1>1 DEF NotifyShape
    <3>2. QED
      BY <3>1, NotificationAssumption
  <2>2. Handle(e0, IF Parsed(e0) /\ cached.enabled THEN cached.roles ELSE <<>>)
    BY DEF TakeEvent
  <2>3. QED
    BY <2>1, <2>2
<1>5. PICK k \in 0..Len(roles) :
        /\ Excuse(IF k < Len(roles) \/ cached # stored THEN {e0} ELSE {})
        /\ \E found \in SetToSeqs(Recipients(e0, roles, k)) :
             job' = IF found = <<>> THEN Idle
                    ELSE [Idle EXCEPT !.event = e0, !.left = found, !.at = "row"]
        /\ wanted' = [wanted EXCEPT ![e0] = Recipients(e0, roles, Len(roles))]
  BY <1>4 DEF Handle, Resolved
<1>6. Len(roles) \in Nat
  BY <1>4
<1>7. ASSUME NEW m \in 0..Len(roles)
      PROVE  Recipients(e0, roles, m) \subseteq People /\ IsFiniteSet(Recipients(e0, roles, m))
  <2>1. ASSUME NEW i \in 1..m
        PROVE  HoldersOf(e0, roles[i]) \subseteq People
    <3>1. roles[i] \in Roles
      BY <1>4, <1>6, <1>7
    <3>2. QED
      BY <1>2, <3>1, NotificationAssumption DEF HoldersOf
  <2>2. Recipients(e0, roles, m) \subseteq People
    BY <2>1 DEF Recipients
  <2>3. IsFiniteSet(People)
    BY NotificationAssumption
  <2>4. QED
    BY <2>2, <2>3, FS_Subset
<1>8. PICK found \in SetToSeqs(Recipients(e0, roles, k)) :
        job' = IF found = <<>> THEN Idle
               ELSE [Idle EXCEPT !.event = e0, !.left = found, !.at = "row"]
  BY <1>5
<1>9. /\ found \in Seq(People) /\ Len(found) \in Nat
      /\ \A i, j \in 1..Len(found) : found[i] = found[j] => i = j
      /\ \A p \in Recipients(e0, roles, k) : \E i \in 1..Len(found) : found[i] = p
  <2>1. /\ found \in Seq(Recipients(e0, roles, k))
        /\ \A i, j \in 1..Len(found) : found[i] = found[j] => i = j
        /\ \A p \in Recipients(e0, roles, k) : \E i \in 1..Len(found) : found[i] = p
    BY <1>7, Arrangements
  <2>2. QED
    BY <1>7, <2>1
<1>10. /\ job' = [event |-> job'.event, at |-> job'.at, left |-> job'.left,
                  tries |-> job'.tries, row |-> job'.row]
       /\ job'.row \in BOOLEAN /\ job'.tries \in Nat
       /\ \/ job' = Idle /\ job'.at = "idle" /\ job'.event \notin Events /\ found = <<>>
          \/ job'.at = "row" /\ job'.event = e0 /\ job'.left = found /\ found # <<>>
  <2>1. CASE found = <<>>
    BY <1>8, <2>1, IdleShape, NotificationAssumption
  <2>2. CASE found # <<>>
    <3>1. job' = [event |-> e0, at |-> "row", left |-> found, tries |-> 0, row |-> FALSE]
      BY <1>8, <2>2 DEF Idle
    <3>2. QED
      BY <2>2, <3>1
  <2>3. QED
    BY <2>1, <2>2
<1>11. NotifyShape'
  <2>1. /\ published \subseteq Events /\ wanted \in [Events -> SUBSET People]
        /\ listening \in BOOLEAN
    BY <1>1 DEF NotifyShape
  <2>2. Recipients(e0, roles, Len(roles)) \subseteq People
    BY <1>6, <1>7
  <2>3. wanted' \in [Events -> SUBSET People]
    BY <1>5, <2>1, <2>2
  <2>4. /\ job'.at \in {"idle", "row", "send", "final"}
        /\ job'.at = "idle" => job' = Idle
        /\ job'.at # "idle" => job'.event \in Events /\ job'.left \in Seq(People) /\ job'.left # <<>>
    BY <1>2, <1>9, <1>10
  <2>5. QED
    BY <1>1, <1>3, <1>10, <2>3, <2>4 DEF NotifyShape
<1>12. \A i \in 1..Len(inbox') : inbox'[i] \in published /\ inbox'[i] # e0
  <2>1. ASSUME NEW i \in 1..Len(inbox')
        PROVE  inbox'[i] \in published /\ inbox'[i] # e0
    <3>1. i + 1 \in 1..Len(inbox) /\ inbox'[i] = inbox[i + 1] /\ 1 \in 1..Len(inbox) /\ i + 1 # 1
      BY <1>2, <1>3
    <3>2. inbox[i + 1] # inbox[1]
      BY <1>1, <3>1 DEF Once
    <3>3. QED
      BY <1>1, <1>2, <3>1, <3>2 DEF Once
  <2>2. QED
    BY <2>1
<1>13. Once'
  <2>1. \A i, j \in 1..Len(inbox') : inbox'[i] = inbox'[j] => i = j
    <3>1. ASSUME NEW i \in 1..Len(inbox'), NEW j \in 1..Len(inbox'), inbox'[i] = inbox'[j]
          PROVE  i = j
      <4>1. /\ i + 1 \in 1..Len(inbox) /\ j + 1 \in 1..Len(inbox)
            /\ inbox[i + 1] = inbox[j + 1]
        BY <1>3, <3>1
      <4>2. i + 1 = j + 1
        BY <1>1, <4>1 DEF Once
      <4>3. QED
        BY <4>2
    <3>2. QED
      BY <3>1
  <2>2. e0 \in published
    BY <1>1, <1>2 DEF Once
  <2>3. \A i \in 1..Len(inbox') : inbox'[i] \in Events
    BY <1>3
  <2>4. \A i \in 1..Len(inbox') : inbox'[i] \in published' /\ inbox'[i] # job'.event
    BY <1>1, <1>10, <1>12, <2>3
  <2>5. QED
    BY <1>1, <1>10, <2>1, <2>2, <2>4 DEF Once
<1>14. \A e \in Events : \A p \in People :
         /\ Known(e, p)'
         /\ e \notin published' \/ (\E i \in 1..Len(inbox') : inbox'[i] = e) => New(e, p)'
  <2>1. ASSUME NEW e \in Events, NEW p \in People
        PROVE  /\ Known(e, p)'
               /\ e \notin published' \/ (\E i \in 1..Len(inbox') : inbox'[i] = e) => New(e, p)'
    <3>1. Known(e, p)' /\ (New(e, p) => New(e, p)')
      BY <1>1, NoCell
    <3>2. e \notin published \/ (\E i \in 1..Len(inbox) : inbox[i] = e) => New(e, p)
      BY <1>1 DEF Turn
    <3>3. (\E i \in 1..Len(inbox') : inbox'[i] = e) => \E i \in 1..Len(inbox) : inbox[i] = e
      BY <1>3
    <3>4. QED
      BY <1>1, <3>1, <3>2, <3>3
  <2>2. QED
    BY <2>1
<1>15. \A p \in People : New(e0, p)'
  <2>1. ASSUME NEW p \in People
        PROVE  New(e0, p)'
    <3>1. New(e0, p)
      BY <1>1, <1>2 DEF Turn
    <3>2. QED
      BY <1>1, <1>2, <3>1, NoCell
  <2>2. QED
    BY <2>1
<1>16. \A i \in 1..Len(found) : New(e0, found[i])'
  BY <1>9, <1>15
<1>17. Turn'
  <2>1. CASE job'.at = "idle"
    BY <1>14, <2>1 DEF Turn
  <2>2. CASE job'.at = "row" /\ job'.event = e0 /\ job'.left = found /\ found # <<>>
    <3>1. 1 \in 1..Len(found) /\ \A i \in 2..Len(found) : i \in 1..Len(found)
      BY <1>9, <2>2
    <3>2. New(e0, found[1])' /\ \A i \in 2..Len(found) : New(e0, found[i])'
      BY <1>16, <3>1
    <3>3. QED
      BY <1>9, <1>14, <2>2, <3>2 DEF Turn
  <2>3. QED
    BY <1>10, <2>1, <2>2
<1>18. Reached'
  <2>1. ASSUME NEW e \in Events, e \notin excused', NEW p \in wanted'[e]
        PROVE  \/ <<e, p>> \in tried
               \/ job'.at # "idle" /\ job'.event = e /\ \E i \in 1..Len(job'.left) : job'.left[i] = p
    <3>1. wanted \in [Events -> SUBSET People]
      BY <1>1 DEF NotifyShape
    <3>2. CASE e # e0
      <4>1. e \notin excused /\ p \in wanted[e]
        BY <1>5, <2>1, <3>1, <3>2 DEF Excuse
      <4>2. job.at = "idle"
        BY <1>1, IdleShape
      <4>3. QED
        BY <1>1, <4>1, <4>2 DEF Reached, Tried
    <3>3. CASE e = e0
      <4>1. k = Len(roles) /\ p \in Recipients(e0, roles, Len(roles))
        BY <1>2, <1>5, <1>6, <2>1, <3>1, <3>3 DEF Excuse
      <4>2. \E i \in 1..Len(found) : found[i] = p
        BY <1>9, <4>1
      <4>3. found # <<>>
        BY <4>2
      <4>4. QED
        BY <1>10, <3>3, <4>2, <4>3
    <3>4. QED
      BY <3>2, <3>3
  <2>2. QED
    BY <1>1, <2>1 DEF Reached, Tried
<1>19. QED
  BY <1>11, <1>13, <1>17, <1>18 DEF NotifyInv

THEOREM NoticesAreAccounted == NotifyInv => EventsAreAccounted
<1> SUFFICES ASSUME NotifyInv PROVE EventsAreAccounted
  OBVIOUS
<1>1. MissedHasCause
  <2>1. ASSUME NEW e \in Events, Done(e), e \notin excused, NEW p \in wanted[e]
        PROVE  <<e, p>> \in tried
    <3>1. job.at = "idle" \/ job.event # e
      BY <2>1 DEF Done
    <3>2. QED
      BY <2>1, <3>1 DEF NotifyInv, Reached, Tried
  <2>2. QED
    BY <2>1 DEF MissedHasCause
<1>2. RowsAreAccounted
  <2>1. ASSUME NEW e \in Events, NEW p \in People
        PROVE  /\ mails[e][p] <= 1 + doubts[e][p]
               /\ rowFor[e][p] = "sent" => mails[e][p] = 1 + doubts[e][p]
               /\ rowFor[e][p] = "failed" => mails[e][p] = doubts[e][p]
               /\ (<<e, p>> \in tried /\ <<e, p>> \notin unlogged) =>
                    rowFor[e][p] \in {"sent", "failed"}
    <3>1. Known(e, p)
      BY DEF NotifyInv, Turn
    <3>2. QED
      BY <3>1 DEF Known, RowAgrees, Tried, Unlogged
  <2>2. QED
    BY <2>1 DEF RowsAreAccounted
<1>3. QED
  BY <1>1, <1>2 DEF EventsAreAccounted

\* Everyone an event names is told, unless a mishap was on its way, and the log agrees.
THEOREM EventsAccounted == NotifySpec => []EventsAreAccounted
<1>1. NotifyInv /\ [NotifyNext]_notifyVars => NotifyInv'
  <2> SUFFICES ASSUME NotifyInv, [NotifyNext]_notifyVars
               PROVE  NotifyInv'
    OBVIOUS
  <2>1. CASE NotifyNext
    <3>1. CASE \E e \in Events : PublishEvent(e)
      BY <3>1, PublishStep
    <3>2. CASE Subscribe \/ LoseConnection \/ StopWorker \/ RenderFails
      BY <3>2, ListenerStep
    <3>3. CASE TakeEvent
      BY <3>3, TakeStep
    <3>4. CASE LogPending \/ Attempt
      BY <3>4, JobStep
    <3>5. CASE Finalize
      BY <3>5, FinalStep
    <3>6. CASE (\E c \in Configs : EditConfig(c)) \/ PollConfig \/ ReloadConfig
      BY <3>6, ConfigStep
    <3>7. QED
      BY <2>1, <3>1, <3>2, <3>3, <3>4, <3>5, <3>6 DEF NotifyNext
  <2>2. CASE UNCHANGED notifyVars
    <3>1. /\ inbox' = inbox /\ published' = published /\ listening' = listening /\ job' = job
          /\ rowFor' = rowFor /\ mails' = mails /\ doubts' = doubts /\ tried' = tried
          /\ wanted' = wanted /\ excused' = excused /\ unlogged' = unlogged
          /\ cached' = cached /\ stored' = stored /\ loading' = loading
      BY <2>2 DEF notifyVars, inbound, configs, history
    <3>2. \A e \in Events : e \notin published' \/ (\E i \in 1..Len(inbox') : inbox'[i] = e) =>
            e \notin published \/ (\E i \in 1..Len(inbox) : inbox[i] = e)
      BY <3>1
    <3>3. Turn' /\ Reached'
      BY <3>1, <3>2, QuietStep
    <3>4. NotifyShape' /\ Once'
      BY <3>1 DEF NotifyInv, NotifyShape, Once
    <3>5. QED
      BY <3>3, <3>4 DEF NotifyInv
  <2>3. QED
    BY <2>1, <2>2
<1>2. QED
  BY <1>1, NotifyInitial, NoticesAreAccounted, PTL DEF NotifySpec
===========================================================================
