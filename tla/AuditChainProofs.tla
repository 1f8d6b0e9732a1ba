-------------------------- MODULE AuditChainProofs --------------------------
(***************************************************************************)
(* What appending to a chain does when the appender read its tip and       *)
(* nobody appended in between: the chain stays one line.                   *)
(***************************************************************************)
EXTENDS AuditChain, TLAPS, SequenceTheorems

\* The hash of the event before the i-th.
Prior(chain, i) == IF i = 1 THEN Genesis ELSE chain[i - 1]

\* A history of n events.
History(h, n) == Len(h) = n /\ h \in Seq({h[j] : j \in 1 .. n})

\* Each event points back to the one before it.
Linear(chain) ==
  /\ chain \in Seq(Recorded(chain))
  /\ \A i \in 1 .. Len(chain) : History(chain[i], i) /\ Previous(chain[i]) = Prior(chain, i)

LEMMA EmptyIsLinear == Linear(<<>>)
  BY EmptySeq DEF Linear

\* A hash made from a history points back to it, and to nothing else.
LEMMA HashPointsBack ==
  ASSUME NEW n \in Nat, NEW h, History(h, n), NEW payload
  PROVE  History(ChainHash(h, payload), n + 1) /\ Previous(ChainHash(h, payload)) = h
  <1> DEFINE S == {h[j] : j \in 1 .. n} \cup {payload}
             g == Append(h, payload)
  <1>1. h \in Seq(S) /\ Len(h) = n /\ payload \in S
    BY SeqMonotonic DEF History
  <1> HIDE DEF S
  <1>2. /\ g \in Seq(S) /\ Len(g) = n + 1
        /\ \A i \in 1 .. n : g[i] = h[i]
    BY <1>1, AppendProperties
  <1> HIDE DEF g
  <1>3. History(g, n + 1)
    <2>1. DOMAIN g = 1 .. n + 1 /\ g \in [1 .. n + 1 -> S]
      BY <1>2, LenProperties
    <2>2. g \in [1 .. n + 1 -> {g[j] : j \in 1 .. n + 1}]
      BY <2>1
    <2>3. g \in Seq({g[j] : j \in 1 .. n + 1})
      BY <2>2, SeqDef
    <2>4. QED
      BY <1>2, <2>3 DEF History
  <1>4. Front(g) = h
    <2>1. \A i \in 1 .. n : g[i] \in S
      BY <1>2, ElementOfSeq
    <2>2. /\ SubSeq(g, 1, n) \in Seq(S) /\ Len(SubSeq(g, 1, n)) = n
          /\ \A i \in 1 .. n : SubSeq(g, 1, n)[i] = h[i]
      BY <1>2, <2>1, SubSeqProperties
    <2>3. SubSeq(g, 1, n) = h
      BY <1>1, <2>2, SeqEqual
    <2>4. QED
      BY <1>2, <2>3 DEF Front
  <1>5. QED
    BY <1>3, <1>4 DEF ChainHash, Previous, g

LEMMA PriorIsHistory ==
  ASSUME NEW chain, Linear(chain), NEW i \in 1 .. Len(chain) + 1
  PROVE  History(Prior(chain, i), i - 1)
  <1>1. Len(chain) \in Nat
    BY LenProperties DEF Linear
  <1>2. CASE i = 1
    <2>1. <<>> \in Seq({<<>>[j] : j \in 1 .. 0}) /\ Len(<<>>) = 0
      BY EmptySeq
    <2>2. QED
      BY <1>2, <2>1 DEF Prior, Genesis, History
  <1>3. CASE i # 1
    <2>1. i - 1 \in 1 .. Len(chain)
      BY <1>1, <1>3
    <2>2. QED
      BY <1>3, <2>1 DEF Linear, Prior
  <1>4. QED
    BY <1>2, <1>3

\* A linear chain has one tip, its last event.
LEMMA TipIsLast ==
  ASSUME NEW chain, Linear(chain), NEW tip \in Tips(chain)
  PROVE  tip = Prior(chain, Len(chain) + 1)
  <1>1. Len(chain) \in Nat /\ DOMAIN chain = 1 .. Len(chain)
    BY LenProperties DEF Linear
  <1>2. CASE chain = <<>>
    <2>1. Len(chain) = 0
      BY <1>2, EmptySeq
    <2>2. QED
      BY <1>2, <2>1 DEF Tips, Prior
  <1>3. CASE chain # <<>>
    <2>1. PICK n \in Nat : Len(chain) = n
      BY <1>1
    <2>2. PICK i \in 1 .. n : tip = chain[i]
      BY <1>1, <1>3, <2>1 DEF Tips, Recorded
    <2>3. \A g \in Recorded(chain) : Previous(g) # tip
      BY <1>3 DEF Tips
    <2>4. ASSUME i # n PROVE FALSE
      <3>1. i + 1 \in 1 .. n /\ i + 1 # 1 /\ (i + 1) - 1 = i
        BY <2>4
      <3>2. Previous(chain[i + 1]) = chain[i]
        BY <2>1, <3>1 DEF Linear, Prior
      <3>3. chain[i + 1] \in Recorded(chain)
        BY <1>1, <2>1, <3>1 DEF Recorded
      <3>4. QED
        BY <2>2, <2>3, <3>2, <3>3
    <2>5. n + 1 # 1 /\ (n + 1) - 1 = n
      BY <2>2
    <2>6. QED
      BY <2>1, <2>2, <2>4, <2>5 DEF Prior
  <1>4. QED
    BY <1>2, <1>3

LEMMA ExtendedIsLinear ==
  ASSUME NEW chain, Linear(chain), NEW tip \in Tips(chain), NEW payload
  PROVE  Linear(Extended(chain, tip, payload))
  <1> DEFINE n == Len(chain)
             h == ChainHash(tip, payload)
             longer == Append(chain, h)
             S == Recorded(chain) \cup {h}
  <1>1. n \in Nat /\ DOMAIN chain = 1 .. n
    BY LenProperties DEF Linear
  <1>2. tip = Prior(chain, n + 1)
    BY TipIsLast
  <1>3. History(tip, n)
    BY <1>1, <1>2, PriorIsHistory
  <1>4. History(h, n + 1) /\ Previous(h) = tip
    BY <1>1, <1>3, HashPointsBack
  <1>5. chain \in Seq(S) /\ h \in S
    BY SeqMonotonic DEF Linear
  <1> HIDE DEF h, S
  <1>6. /\ longer \in Seq(S) /\ Len(longer) = n + 1
        /\ \A i \in 1 .. n : longer[i] = chain[i]
        /\ longer[n + 1] = h
    BY <1>5, AppendProperties
  <1> HIDE DEF longer
  <1>7. longer \in Seq(Recorded(longer))
    <2>1. DOMAIN longer = 1 .. n + 1 /\ longer \in [1 .. n + 1 -> S]
      BY <1>6, LenProperties
    <2>2. longer \in [1 .. n + 1 -> Recorded(longer)]
      BY <2>1 DEF Recorded
    <2>3. QED
      BY <1>1, <2>2, SeqDef
  <1>8. ASSUME NEW i \in 1 .. n + 1
        PROVE  History(longer[i], i) /\ Previous(longer[i]) = Prior(longer, i)
    <2>1. CASE i = n + 1
      <3>1. Prior(longer, i) = Prior(chain, n + 1)
        BY <1>1, <1>6, <2>1 DEF Prior
      <3>2. QED
        BY <1>2, <1>4, <1>6, <2>1, <3>1
    <2>2. CASE i # n + 1
      <3>1. i \in 1 .. n
        BY <1>1, <2>2
      <3>2. Prior(longer, i) = Prior(chain, i)
        BY <1>1, <1>6, <3>1 DEF Prior
      <3>3. QED
        BY <1>6, <3>1, <3>2 DEF Linear
    <2>3. QED
      BY <2>1, <2>2
  <1>9. QED
    BY <1>6, <1>7, <1>8 DEF Linear, Extended, longer, h

LEMMA LinearVerifies ==
  ASSUME NEW chain, Linear(chain)
  PROVE  Verifies(chain)
  <1>1. Len(chain) \in Nat /\ DOMAIN chain = 1 .. Len(chain)
    BY LenProperties DEF Linear
  <1>2. ASSUME NEW i \in DOMAIN chain PROVE Len(Previous(chain[i])) = i - 1
    <2>1. PICK n \in Nat : Len(chain) = n
      BY <1>1
    <2>2. i \in 1 .. n /\ i \in 1 .. n + 1
      BY <1>1, <2>1
    <2>3. Previous(chain[i]) = Prior(chain, i) /\ History(Prior(chain, i), i - 1)
      BY <2>1, <2>2, PriorIsHistory DEF Linear
    <2>4. QED
      BY <2>3 DEF History
  <1>3. ASSUME NEW i \in DOMAIN chain, NEW j \in DOMAIN chain,
               Previous(chain[i]) = Previous(chain[j])
        PROVE  i = j
    <2>1. i - 1 = j - 1
      BY <1>2, <1>3
    <2>2. QED
      BY <1>1, <2>1
  <1>4. ASSUME NEW i \in DOMAIN chain
        PROVE  Previous(chain[i]) \in Recorded(chain) \cup {Genesis}
    BY <1>1 DEF Linear, Prior, Recorded
  <1>5. QED
    BY <1>3, <1>4 DEF Verifies
=============================================================================
