------------------------ MODULE CaptureUploadProofs ------------------------
(***************************************************************************)
(* What holds of a capture for every form, every set of uploads and pages  *)
(* and every bound: OneRunFiles and ClaimsDeclared whatever the runs do to *)
(* each other, UploadAccounted where they do not overlap.                  *)
(*                                                                         *)
(* A form has any number of files, and a file any number of pages, so the  *)
(* splitting of a form and the diversion of its receipts, which are        *)
(* functions on 0 .. n, are unfolded by induction.                         *)
(***************************************************************************)
EXTENDS CaptureUpload, SequenceTheorems, FiniteSetTheorems, WellFoundedInduction, TLAPS

\* Induction over the naturals, from the well-foundedness of strict inclusion: of
\* the sets 0 .. m with m outside P there is a least one.
LEMMA Induction ==
  ASSUME NEW P, 0 \in P, \A n \in Nat : n \in P => n + 1 \in P
  PROVE  \A n \in Nat : n \in P
<1> SUFFICES ASSUME NEW n \in Nat, n \notin P PROVE FALSE
  OBVIOUS
<1> DEFINE Bad == {T \in SUBSET (0 .. n) : \E m \in 0 .. n : T = 0 .. m /\ m \notin P}
<1>1. IsWellFoundedOn(StrictSubsetOrdering(0 .. n), FiniteSubsetsOf(0 .. n))
  BY FS_StrictSubsetOrderingWellFounded
<1>2. Bad \subseteq FiniteSubsetsOf(0 .. n) /\ Bad # {}
  <2>1. IsFiniteSet(0 .. n)
    BY FS_Interval
  <2>2. (0 .. n) \in Bad
    OBVIOUS
  <2> QED BY <2>1, <2>2, FS_Subset DEF FiniteSubsetsOf
<1>3. \E T \in Bad : \A U \in Bad : ~(<<U, T>> \in StrictSubsetOrdering(0 .. n))
  <2> HIDE DEF Bad
  <2> QED BY <1>1, <1>2, WFMin
<1>4. PICK m \in 0 .. n : /\ m \notin P
                          /\ \A U \in Bad : ~(<<U, 0 .. m>> \in StrictSubsetOrdering(0 .. n))
  BY <1>3
<1>5. m # 0 /\ m - 1 \in 0 .. n
  BY <1>4
<1>6. m - 1 \notin P
  BY <1>4, <1>5
<1>7. (0 .. m - 1) \in Bad
  BY <1>5, <1>6
<1>8. <<0 .. m - 1, 0 .. m>> \in StrictSubsetOrdering(0 .. n)
  <2>1. m \in 0 .. m /\ m \notin 0 .. m - 1 /\ 0 .. m - 1 \subseteq 0 .. m
    BY <1>5
  <2>2. 0 .. m - 1 # 0 .. m
    BY <2>1
  <2>3. (0 .. m - 1) \in SUBSET (0 .. n) /\ (0 .. m) \in SUBSET (0 .. n)
    BY <1>5
  <2> QED BY <2>1, <2>2, <2>3 DEF StrictSubsetOrdering
<1> QED BY <1>4, <1>7, <1>8

\* g starts at base and goes on by step.
Iterates(g, V, base, N, step) ==
  /\ g \in [0 .. N -> V] /\ g[0] = base
  /\ \A n \in 1 .. N : g[n] = step[<<n, g[n - 1]>>]

\* A function on 0 .. N that is defined by its first value and a step exists.
LEMMA Recursion ==
  ASSUME NEW V, NEW base \in V, NEW N \in Nat, NEW step \in [(1 .. N) \X V -> V]
  PROVE  \E g : Iterates(g, V, base, N, step)
<1> DEFINE Upto(g, n) == /\ g \in [0 .. n -> V] /\ g[0] = base
                         /\ \A m \in 1 .. n : g[m] = step[<<m, g[m - 1]>>]
           P == {n \in Nat : n <= N => \E g : Upto(g, n)}
<1>1. 0 \in P
  <2>1. Upto([m \in 0 .. 0 |-> base], 0)
    OBVIOUS
  <2> QED BY <2>1
<1>2. \A n \in Nat : n \in P => n + 1 \in P
  <2> SUFFICES ASSUME NEW n \in Nat, n + 1 <= N, NEW g, Upto(g, n)
               PROVE  \E h : Upto(h, n + 1)
    OBVIOUS
  <2> DEFINE h == [m \in 0 .. n + 1 |-> IF m = n + 1 THEN step[<<n + 1, g[n]>>] ELSE g[m]]
  <2>1. g[n] \in V /\ <<n + 1, g[n]>> \in (1 .. N) \X V
    OBVIOUS
  <2>2. h \in [0 .. n + 1 -> V]
    BY <2>1
  <2>3. h[0] = base
    OBVIOUS
  <2>4. ASSUME NEW m \in 1 .. n + 1 PROVE h[m] = step[<<m, h[m - 1]>>]
    <3>1. h[m - 1] = g[m - 1]
      OBVIOUS
    <3>2. CASE m = n + 1
      <4>1. h[m] = step[<<n + 1, g[n]>>]
        BY <3>2
      <4>2. m - 1 = n
        BY <3>2
      <4> HIDE DEF h
      <4> QED BY <3>1, <3>2, <4>1, <4>2
    <3>3. CASE m # n + 1
      <4>1. h[m] = g[m] /\ m \in 1 .. n
        BY <3>3
      <4> HIDE DEF h
      <4> QED BY <3>1, <4>1
    <3> QED BY <3>2, <3>3
  <2> HIDE DEF h
  <2>5. Upto(h, n + 1)
    BY <2>2, <2>3, <2>4
  <2> QED BY <2>5
<1>3. N \in P
  <2> HIDE DEF P
  <2> QED BY <1>1, <1>2, Induction
<1> QED BY <1>3 DEF Iterates

-----------------------------------------------------------------------------
\* A receipt: the pages it is cut from, and the browser's reading of it.
Receipt == [image : Seq(Pages), item : Routes \cup {None}]

\* The pages of the receipts in rs.
PagesIn(rs) == {p \in Pages : \E n \in DOMAIN rs : p \in Range(rs[n].image)}

\* No two receipts in rs share a page.
Apart(rs) ==
  \A m, n \in DOMAIN rs : m # n => Range(rs[m].image) \cap Range(rs[n].image) = {}

\* Ends that rise from each to the next rise throughout.
LEMMA Rising ==
  ASSUME NEW m \in Nat, NEW ends \in [1 .. m -> Nat],
         \A k \in 2 .. m : ends[k - 1] < ends[k]
  PROVE  \A j, k \in 1 .. m : j < k => ends[j] < ends[k]
<1> SUFFICES ASSUME NEW j \in 1 .. m PROVE \A k \in 1 .. m : j < k => ends[j] < ends[k]
  OBVIOUS
<1> DEFINE P == {k \in Nat : k \in 1 .. m /\ j < k => ends[j] < ends[k]}
<1>1. 0 \in P
  OBVIOUS
<1>2. ASSUME NEW k \in Nat, k \in P PROVE k + 1 \in P
  <2> SUFFICES ASSUME k + 1 \in 1 .. m, j < k + 1 PROVE ends[j] < ends[k + 1]
    OBVIOUS
  <2>1. k \in 1 .. m /\ k + 1 \in 2 .. m /\ ends[k] \in Nat /\ ends[k + 1] \in Nat /\ ends[j] \in Nat
    OBVIOUS
  <2>2. ends[k] < ends[k + 1]
    <3>1. ends[(k + 1) - 1] < ends[k + 1]
      BY <2>1
    <3> QED BY <3>1
  <2>3. j = k \/ ends[j] < ends[k]
    BY <1>2, <2>1
  <2> QED BY <2>1, <2>2, <2>3
<1>3. \A k \in Nat : k \in P
  <2> HIDE DEF P
  <2> QED BY <1>1, <1>2, Induction
<1> QED BY <1>3

\* Every position falls into one of the groups that end at ends.
LEMMA Covered ==
  ASSUME NEW m \in Nat, NEW ends \in [1 .. m -> Nat], m # 0,
         NEW i \in Nat, i # 0, i <= ends[m]
  PROVE  \E k \in 1 .. m : i <= ends[k] /\ (k # 1 => ends[k - 1] < i)
<1> DEFINE P == {k \in Nat : k \in 1 .. m /\ i <= ends[k] =>
                   \E h \in 1 .. m : i <= ends[h] /\ (h # 1 => ends[h - 1] < i)}
<1>1. 0 \in P
  OBVIOUS
<1>2. ASSUME NEW k \in Nat, k \in P PROVE k + 1 \in P
  <2> SUFFICES ASSUME k + 1 \in 1 .. m, i <= ends[k + 1]
               PROVE  \E h \in 1 .. m : i <= ends[h] /\ (h # 1 => ends[h - 1] < i)
    OBVIOUS
  <2>1. CASE k = 0 BY <2>1
  <2>2. CASE k # 0
    <3>1. k \in 1 .. m /\ ends[k] \in Nat /\ (k + 1) - 1 = k
      BY <2>2
    <3>2. CASE i <= ends[k] BY <1>2, <3>1, <3>2
    <3>3. CASE ends[k] < i
      <4>1. ends[(k + 1) - 1] < i
        BY <3>1, <3>3
      <4> QED BY <4>1
    <3> QED BY <3>1, <3>2, <3>3
  <2> QED BY <2>1, <2>2
<1>3. m \in P
  <2> HIDE DEF P
  <2> QED BY <1>1, <1>2, Induction
<1> QED BY <1>3

\* The positions of a segment, counted from its start.
LEMMA Shifted ==
  ASSUME NEW a \in Nat, NEW b \in Nat
  PROVE  /\ \A i \in 1 .. b - a + 1 : a + i - 1 \in a .. b
         /\ \A i \in Int : a <= i /\ i <= b =>
              i - a + 1 \in 1 .. b - a + 1 /\ a + (i - a + 1) - 1 = i
OBVIOUS

\* However the segmenter cuts a document: the receipts carry its pages, each of
\* them once, and none of them has been read.
LEMMA GroupsSound ==
  ASSUME NEW pages \in Seq(Pages), NEW rs \in {Unread(g) : g \in Segmented(pages)}
  PROVE  /\ rs \in Seq(Receipt)
         /\ \A n \in DOMAIN rs : rs[n].item = None
         /\ PagesIn(rs) = Range(pages)
         /\ Once(pages) => Apart(rs)
<1>1. PICK ends \in SeqOf(DOMAIN pages, Len(pages)) :
             /\ ends # <<>> /\ ends[Len(ends)] = Len(pages)
             /\ \A k \in 2 .. Len(ends) : ends[k - 1] < ends[k]
             /\ rs = Unread(Grouped(pages, ends))
  BY DEF Segmented
<1>2. PICK m \in 0 .. Len(pages) : ends \in [1 .. m -> DOMAIN pages]
  BY <1>1 DEF SeqOf
<1>3. DOMAIN pages = 1 .. Len(pages) /\ Len(pages) \in Nat /\ m \in Nat /\ Len(ends) = m /\ m # 0
  <2>1. ends \in Seq(DOMAIN pages)
    BY <1>2
  <2>2. Len(ends) = m
    BY <1>2, <2>1
  <2> QED BY <1>1, <1>2, <2>1, <2>2
<1> DEFINE lo(k) == IF k = 1 THEN 1 ELSE ends[k - 1] + 1
<1>4. ends \in [1 .. m -> Nat]
  BY <1>2, <1>3
<1>5. \A j, k \in 1 .. m : j < k => ends[j] < ends[k]
  BY <1>1, <1>3, <1>4, Rising
<1>6a. ASSUME NEW k \in 1 .. m
       PROVE  /\ lo(k) \in Nat /\ ends[k] \in Nat
              /\ 1 <= lo(k) /\ lo(k) <= ends[k] /\ ends[k] <= Len(pages)
  <2>2. ends[k] \in 1 .. Len(pages)
    BY <1>2, <1>3
  <2>3. CASE k = 1 BY <1>3, <2>2, <2>3
  <2>4. CASE k # 1
    <3>1. k \in 2 .. Len(ends) /\ k - 1 \in 1 .. m
      BY <1>3, <2>4
    <3>2. ends[k - 1] \in 1 .. Len(pages) /\ ends[k - 1] < ends[k]
      BY <1>1, <1>2, <1>3, <3>1
    <3> QED BY <1>3, <2>2, <2>4, <3>2
  <2> QED BY <2>3, <2>4
<1>6. ASSUME NEW k \in 1 .. m
      PROVE  /\ rs[k] = [image |-> SubSeq(pages, lo(k), ends[k]), item |-> None]
             /\ SubSeq(pages, lo(k), ends[k]) \in Seq(Pages)
             /\ Range(rs[k].image) = {pages[i] : i \in lo(k) .. ends[k]}
  <2>1. rs[k] = [image |-> SubSeq(pages, lo(k), ends[k]), item |-> None]
    BY <1>1, <1>2, <1>3 DEF Unread, Grouped
  <2>2. ends[k] \in 1 .. Len(pages) /\ lo(k) \in 1 .. ends[k]
    BY <1>3, <1>6a
  <2>3. lo(k) \in Nat /\ ends[k] \in Nat
    BY <1>6a
  <2> HIDE DEF lo
  <2>4. \A i \in lo(k) .. ends[k] : pages[i] \in Pages
    BY <1>3, <2>2, <2>3
  <2>5. /\ SubSeq(pages, lo(k), ends[k]) \in Seq(Pages)
        /\ Len(SubSeq(pages, lo(k), ends[k])) = ends[k] - lo(k) + 1
        /\ \A i \in 1 .. ends[k] - lo(k) + 1 : SubSeq(pages, lo(k), ends[k])[i] = pages[lo(k) + i - 1]
    BY <2>2, <2>3, <2>4, SubSeqProperties
  <2> DEFINE sub == SubSeq(pages, lo(k), ends[k])
  <2>6. DOMAIN sub = 1 .. ends[k] - lo(k) + 1
    BY <2>5
  <2>7. ASSUME NEW p \in Range(sub) PROVE p \in {pages[i] : i \in lo(k) .. ends[k]}
    <3>1. PICK i \in 1 .. ends[k] - lo(k) + 1 : p = sub[i]
      <4> HIDE DEF sub
      <4> QED BY <2>6, <2>7 DEF Range
    <3>2. p = pages[lo(k) + i - 1]
      BY <2>5, <3>1
    <3>3. lo(k) + i - 1 \in lo(k) .. ends[k]
      BY <2>3, <3>1, Shifted
    <3> QED BY <3>2, <3>3
  <2>8. ASSUME NEW i \in lo(k) .. ends[k] PROVE pages[i] \in Range(sub)
    <3>0. i \in Int /\ lo(k) <= i /\ i <= ends[k]
      BY <2>3
    <3>1. i - lo(k) + 1 \in 1 .. ends[k] - lo(k) + 1 /\ lo(k) + (i - lo(k) + 1) - 1 = i
      BY <2>3, <3>0, Shifted
    <3>2. sub[i - lo(k) + 1] = pages[i]
      BY <2>5, <3>1
    <3> HIDE DEF sub
    <3> QED BY <2>6, <3>1, <3>2 DEF Range
  <2>9. Range(sub) = {pages[i] : i \in lo(k) .. ends[k]}
    BY <2>7, <2>8
  <2>10. rs[k] = [image |-> sub, item |-> None]
    BY <2>1
  <2> HIDE DEF sub
  <2>11. rs[k].image = sub
    BY <2>10
  <2> QED BY <2>1, <2>5, <2>9, <2>11 DEF sub
<1> HIDE DEF lo
<1>7. rs \in [1 .. m -> Receipt]
  <2>1. DOMAIN rs = 1 .. m /\ rs = [n \in 1 .. m |-> rs[n]]
    BY <1>1, <1>2 DEF Unread, Grouped
  <2>2. ASSUME NEW k \in 1 .. m PROVE rs[k] \in Receipt
    <3> DEFINE image == SubSeq(pages, lo(k), ends[k])
    <3>1. rs[k] = [image |-> image, item |-> None] /\ image \in Seq(Pages)
      BY <1>6
    <3> HIDE DEF image
    <3> QED BY <3>1 DEF Receipt
  <2> QED BY <2>1, <2>2
<1>7a. ASSUME NEW k \in 1 .. m, NEW i \in lo(k) .. ends[k]
       PROVE  i \in 1 .. Len(pages) /\ lo(k) <= i /\ i <= ends[k]
  BY <1>3, <1>6a
<1>8. rs \in Seq(Receipt) /\ DOMAIN rs = 1 .. m
  BY <1>3, <1>7
<1>9. \A n \in DOMAIN rs : rs[n].item = None
  BY <1>6, <1>8
<1>10. PagesIn(rs) = Range(pages)
  <2>1. ASSUME NEW i \in DOMAIN pages PROVE pages[i] \in PagesIn(rs)
    <3>0. i \in Nat /\ i # 0 /\ i <= ends[m]
      BY <1>1, <1>3
    <3>1. PICK k \in 1 .. m : i <= ends[k] /\ (k # 1 => ends[k - 1] < i)
      BY <1>3, <1>4, <3>0, Covered
    <3>2. i \in lo(k) .. ends[k]
      <4>1. k # 1 => k - 1 \in 1 .. m
        BY <1>3
      <4> QED BY <1>3, <1>4, <3>1, <4>1 DEF lo
    <3>3. pages[i] \in Range(rs[k].image)
      BY <1>6, <3>2
    <3> QED BY <1>3, <1>8, <3>3 DEF PagesIn
  <2>2. ASSUME NEW p \in PagesIn(rs) PROVE p \in Range(pages)
    <3>1. PICK k \in 1 .. m : p \in Range(rs[k].image)
      BY <1>8, <2>2 DEF PagesIn
    <3>2. PICK i \in lo(k) .. ends[k] : p = pages[i]
      BY <1>6, <3>1
    <3>3. i \in DOMAIN pages
      BY <1>3, <3>2, <1>7a
    <3> QED BY <3>2, <3>3 DEF Range
  <2> QED BY <2>1, <2>2 DEF Range
<1>11. ASSUME Once(pages), NEW j \in 1 .. m, NEW k \in 1 .. m, j < k
       PROVE  Range(rs[j].image) \cap Range(rs[k].image) = {}
  <2> SUFFICES ASSUME NEW p, p \in Range(rs[j].image), p \in Range(rs[k].image) PROVE FALSE
    OBVIOUS
  <2>a. PICK a \in lo(j) .. ends[j] : p = pages[a]
    BY <1>6
  <2>b. PICK b \in lo(k) .. ends[k] : p = pages[b]
    BY <1>6
  <2>1. a \in DOMAIN pages /\ b \in DOMAIN pages /\ a \in Nat /\ b \in Nat
    BY <1>3, <1>7a
  <2>2. a = b
    BY <1>11, <2>a, <2>b, <2>1 DEF Once
  <2>3. k - 1 \in 1 .. m /\ k # 1 /\ (k - 1 = j \/ j < k - 1)
    BY <1>3, <1>11
  <2>4. ends[j] <= ends[k - 1] /\ lo(k) = ends[k - 1] + 1
    BY <1>4, <1>5, <2>3 DEF lo
  <2>5. a <= ends[j] /\ lo(k) <= b
    BY <2>1, <1>7a
  <2>6. ends[j] \in Nat /\ ends[k - 1] \in Nat
    BY <1>4, <2>3
  <2> QED BY <2>1, <2>2, <2>4, <2>5, <2>6
<1>12. Once(pages) => Apart(rs)
  <2> SUFFICES ASSUME Once(pages), NEW j \in 1 .. m, NEW k \in 1 .. m, j # k
               PROVE  Range(rs[j].image) \cap Range(rs[k].image) = {}
    BY <1>8 DEF Apart
  <2>1. j < k \/ k < j
    BY <1>3
  <2> QED BY <1>11, <2>1
<1> QED BY <1>8, <1>9, <1>10, <1>12

\* A sequence of one element.
LEMMA Single == ASSUME NEW S, NEW x \in S PROVE <<x>> \in Seq(S) /\ Range(<<x>>) = {x}
<1>1. <<x>> \in Seq(S) /\ DOMAIN <<x>> = {1} /\ <<x>>[1] = x
  OBVIOUS
<1> QED BY <1>1 DEF Range

\* The receipts of one file carry its pages, each of them once, and its item.
LEMMA ReceiptsSound ==
  ASSUME NEW f \in Files, NEW split, NEW rs \in Receipts(f, split)
  PROVE  /\ rs \in Seq(Receipt)
         /\ \A n \in DOMAIN rs : rs[n].item = f.item
         /\ PagesIn(rs) = Range(f.pages)
         /\ Once(f.pages) => Apart(rs)
<1>1. f.pages \in Seq(Pages) /\ f.item \in Routes \cup {None} /\ DOMAIN f.pages = 1 .. Len(f.pages)
  BY DEF Files
<1>2. CASE f.kind = "image"
  <2>1. rs = <<[image |-> f.pages, item |-> f.item]>>
    BY <1>2 DEF Receipts
  <2>2. DOMAIN rs = {1} /\ rs[1].image = f.pages /\ rs[1].item = f.item
    BY <2>1
  <2>3. rs \in Seq(Receipt)
    BY <1>1, <2>1 DEF Receipt
  <2>4. PagesIn(rs) = Range(f.pages)
    BY <1>1, <2>2 DEF PagesIn, Range
  <2> QED BY <2>2, <2>3, <2>4 DEF Apart
<1>3. CASE f.kind = "zip"
  <2>1. rs = Unread([n \in DOMAIN f.pages |-> <<f.pages[n]>>]) /\ f.item = None
    BY <1>3 DEF Receipts, Files
  <2>2. DOMAIN rs = DOMAIN f.pages
    BY <2>1 DEF Unread
  <2>3. ASSUME NEW n \in DOMAIN rs
        PROVE  /\ f.pages[n] \in Pages /\ rs[n].item = None /\ rs[n] \in Receipt
               /\ Range(rs[n].image) = {f.pages[n]}
    <3>1. rs[n] = [image |-> <<f.pages[n]>>, item |-> None]
      BY <2>1, <2>2 DEF Unread
    <3>2. f.pages[n] \in Pages
      BY <1>1, <2>2
    <3>3. PICK image : image = <<f.pages[n]>>
      OBVIOUS
    <3>4. image \in Seq(Pages) /\ Range(image) = {f.pages[n]}
      BY <3>2, <3>3, Single
    <3>5. rs[n] = [image |-> image, item |-> None]
      BY <3>1, <3>3
    <3> QED BY <3>2, <3>4, <3>5 DEF Receipt
  <2>4. rs \in [1 .. Len(f.pages) -> Receipt]
    <3>1. rs = [n \in 1 .. Len(f.pages) |-> rs[n]]
      BY <1>1, <2>1 DEF Unread
    <3> QED BY <1>1, <2>2, <2>3, <3>1
  <2>5. rs \in Seq(Receipt)
    BY <1>1, <2>4
  <2>6. PagesIn(rs) = Range(f.pages)
    BY <2>2, <2>3 DEF PagesIn, Range
  <2>7. Once(f.pages) => Apart(rs)
    BY <2>2, <2>3 DEF Apart, Once
  <2> QED BY <2>1, <2>3, <2>5, <2>6, <2>7
<1>4. CASE f.kind = "pdf" /\ f.pages # <<>> /\ split
  <2>1. rs \in {Unread(g) : g \in Segmented(f.pages)} /\ f.item = None
    BY <1>4 DEF Receipts, Files
  <2> QED BY <1>1, <2>1, GroupsSound
<1>5. CASE f.kind = "pdf" /\ f.pages # <<>> /\ ~split
  <2>1. rs = Unread(<<f.pages>>) /\ f.item = None
    BY <1>5 DEF Receipts, Files
  <2>2. DOMAIN rs = {1} /\ rs[1] = [image |-> f.pages, item |-> None]
    BY <2>1 DEF Unread
  <2>3. rs \in Seq(Receipt)
    <3>1. rs = [n \in 1 .. 1 |-> rs[n]] /\ rs[1] \in Receipt
      BY <1>1, <2>1, <2>2 DEF Unread, Receipt
    <3> QED BY <3>1
  <2>4. PagesIn(rs) = Range(f.pages)
    BY <1>1, <2>2 DEF PagesIn, Range
  <2> QED BY <2>1, <2>2, <2>3, <2>4 DEF Apart
<1>6. CASE f.pages = <<>> /\ f.kind # "image" /\ f.kind # "zip"
  <2>1. rs = <<>>
    BY <1>6 DEF Receipts
  <2>2. PagesIn(rs) = {} /\ Range(f.pages) = {}
    BY <1>6, <2>1 DEF PagesIn, Range
  <2> QED BY <2>1, <2>2 DEF Apart
<1> QED BY <1>2, <1>3, <1>4, <1>5, <1>6 DEF Files

\* The receipts of two files, one after the other.
LEMMA Joined ==
  ASSUME NEW d \in Seq(Receipt), NEW r \in Seq(Receipt)
  PROVE  /\ d \o r \in Seq(Receipt)
         /\ \A n \in DOMAIN (d \o r) : \/ \E m \in DOMAIN d : (d \o r)[n] = d[m]
                                       \/ \E m \in DOMAIN r : (d \o r)[n] = r[m]
         /\ PagesIn(d \o r) = PagesIn(d) \cup PagesIn(r)
         /\ Apart(d) /\ Apart(r) /\ PagesIn(d) \cap PagesIn(r) = {} => Apart(d \o r)
<1> DEFINE j == d \o r
<1>1. /\ j \in Seq(Receipt) /\ Len(j) = Len(d) + Len(r)
      /\ \A i \in 1 .. Len(d) + Len(r) : j[i] = IF i <= Len(d) THEN d[i] ELSE r[i - Len(d)]
  BY ConcatProperties
<1>2. /\ DOMAIN j = 1 .. Len(d) + Len(r) /\ DOMAIN d = 1 .. Len(d) /\ DOMAIN r = 1 .. Len(r)
      /\ Len(d) \in Nat /\ Len(r) \in Nat
  BY <1>1
<1> HIDE DEF j
<1>3. ASSUME NEW i \in DOMAIN j
      PROVE  \/ i \in DOMAIN d /\ j[i] = d[i]
             \/ i > Len(d) /\ i - Len(d) \in DOMAIN r /\ j[i] = r[i - Len(d)]
  BY <1>1, <1>2
<1>4. \A i \in DOMAIN d : i \in DOMAIN j /\ j[i] = d[i]
  BY <1>1, <1>2
<1>5. ASSUME NEW i \in DOMAIN r PROVE i + Len(d) \in DOMAIN j /\ j[i + Len(d)] = r[i]
  <2>1. i + Len(d) \in 1 .. Len(d) + Len(r) /\ (i + Len(d)) - Len(d) = i /\ ~(i + Len(d) <= Len(d))
    BY <1>2
  <2> QED BY <1>1, <1>2, <2>1
<1>6. \A n \in DOMAIN j : (\E m \in DOMAIN d : j[n] = d[m]) \/ (\E m \in DOMAIN r : j[n] = r[m])
  BY <1>3
<1>7. PagesIn(j) = PagesIn(d) \cup PagesIn(r)
  BY <1>4, <1>5, <1>6 DEF PagesIn
<1>8. ASSUME Apart(d), Apart(r), PagesIn(d) \cap PagesIn(r) = {} PROVE Apart(j)
  <2> SUFFICES ASSUME NEW m \in DOMAIN j, NEW n \in DOMAIN j, m # n,
                      NEW p, p \in Range(j[m].image), p \in Range(j[n].image)
               PROVE  FALSE
    BY DEF Apart
  <2>0. ASSUME NEW q \in Receipt, p \in Range(q.image) PROVE p \in Pages
    <3>1. q.image \in Seq(Pages)
      BY DEF Receipt
    <3> QED BY <2>0, <3>1 DEF Range
  <2>1. \A i \in DOMAIN d : p \in Range(d[i].image) => p \in PagesIn(d)
    <3>1. \A i \in DOMAIN d : d[i] \in Receipt
      OBVIOUS
    <3> QED BY <2>0, <3>1 DEF PagesIn
  <2>2. \A i \in DOMAIN r : p \in Range(r[i].image) => p \in PagesIn(r)
    <3>1. \A i \in DOMAIN r : r[i] \in Receipt
      OBVIOUS
    <3> QED BY <2>0, <3>1 DEF PagesIn
  <2>3. CASE m \in DOMAIN d /\ j[m] = d[m]
    <3>1. p \in PagesIn(d) /\ p \notin PagesIn(r)
      BY <1>8, <2>1, <2>3
    <3>2. n \in DOMAIN d /\ j[n] = d[n]
      BY <1>3, <2>2, <3>1
    <3> QED BY <1>8, <2>3, <3>2 DEF Apart
  <2>4. CASE m > Len(d) /\ m - Len(d) \in DOMAIN r /\ j[m] = r[m - Len(d)]
    <3>1. p \in PagesIn(r) /\ p \notin PagesIn(d)
      BY <1>8, <2>2, <2>4
    <3>2. n > Len(d) /\ n - Len(d) \in DOMAIN r /\ j[n] = r[n - Len(d)]
      BY <1>3, <2>1, <3>1
    <3>3. m - Len(d) # n - Len(d)
      BY <1>2
    <3> QED BY <1>8, <2>4, <3>2, <3>3 DEF Apart
  <2> QED BY <1>3, <2>3, <2>4
<1> QED BY <1>1, <1>6, <1>7, <1>8 DEF j

\* The pages of the files 1 .. n.
PagesUpto(form, n) == {p \in Pages : \E m \in 1 .. n : p \in Range(form.files[m].pages)}

\* Every sequence in D followed by every one in R.
Extended(D, R) == {d \o r : d \in D, r \in R}

\* An extended sequence, taken apart.
LEMMA Extending ==
  ASSUME NEW D, NEW R, NEW x \in Extended(D, R)
  PROVE  \E d \in D, r \in R : x = d \o r
BY DEF Extended

\* What the receipts of a form have of its files.
LEMMA FlattenedSound ==
  ASSUME NEW form \in Forms, NEW split, NEW rs \in Flattened(form, split)
  PROVE  /\ rs \in Seq(Receipt)
         /\ \A n \in DOMAIN rs : \E m \in DOMAIN form.files : rs[n].item = form.files[m].item
         /\ PagesIn(rs) = PagesUpto(form, Len(form.files))
         /\ Repeatless(form) => Apart(rs)
<1> DEFINE N == Len(form.files)
           V == SUBSET Seq(Receipt)
           More(D, n) == Extended(D, Receipts(form.files[n], split))
           step == [x \in (1 .. N) \X V |-> More(x[2], x[1])]
           IsUpto(g) == g = [n \in 0 .. N |-> IF n = 0 THEN {<<>>} ELSE More(g[n - 1], n)]
<1>1. N \in Nat /\ DOMAIN form.files = 1 .. N /\ \A n \in 1 .. N : form.files[n] \in Files
  BY DEF Forms
<1>2. ASSUME NEW n \in 1 .. N, NEW D \in V PROVE More(D, n) \in V
  <2>1. ASSUME NEW d \in D, NEW r \in Receipts(form.files[n], split)
        PROVE  d \o r \in Seq(Receipt)
    <3>1. d \in Seq(Receipt) /\ r \in Seq(Receipt)
      BY <1>1, ReceiptsSound
    <3> QED BY <3>1, Joined
  <2>2. ASSUME NEW x \in More(D, n) PROVE x \in Seq(Receipt)
    <3>0. x \in Extended(D, Receipts(form.files[n], split))
      BY <2>2
    <3>1. PICK d \in D, r \in Receipts(form.files[n], split) : x = d \o r
      <4> HIDE DEF More
      <4> QED BY <3>0, Extending
    <3> QED BY <2>1, <3>1
  <2> HIDE DEF More
  <2> QED BY <2>2
<1>3. \E g : IsUpto(g)
  <2>1. step \in [(1 .. N) \X V -> V]
    <3> HIDE DEF V, N, More
    <3>1. \A x \in (1 .. N) \X V : x[1] \in 1 .. N /\ x[2] \in V
      OBVIOUS
    <3> QED BY <1>2, <3>1
  <2> DEFINE base == {<<>>}
  <2>2. base \in V
    OBVIOUS
  <2> HIDE DEF V, N, step, base
  <2>3. PICK g : Iterates(g, V, base, N, step)
    <3>1. N \in Nat
      BY <1>1
    <3> QED BY <2>1, <2>2, <3>1, Recursion
  <2>4. ASSUME NEW n \in 1 .. N PROVE g[n] = More(g[n - 1], n)
    <3>1. <<n, g[n - 1]>> \in (1 .. N) \X V
      BY <1>1, <2>3 DEF Iterates
    <3> HIDE DEF More
    <3> QED BY <2>3, <3>1 DEF step, Iterates
  <2> HIDE DEF More
  <2>5. IsUpto(g)
    <3>1. \A n \in 0 .. N : n = 0 \/ n \in 1 .. N
      BY <1>1
    <3>2. DOMAIN g = 0 .. N /\ g[0] = base /\ g = [n \in 0 .. N |-> g[n]]
      BY <2>3 DEF Iterates
    <3> QED BY <2>4, <3>1, <3>2 DEF base
  <2> QED BY <2>5
<1> DEFINE upto == CHOOSE g : IsUpto(g)
<1>4. Flattened(form, split) = upto[N]
  BY DEF Flattened, Extended
<1>5. IsUpto(upto)
  <2> HIDE DEF IsUpto
  <2> QED BY <1>3
<1> HIDE DEF upto, V
<1>6. upto[0] = {<<>>} /\ \A n \in 1 .. N : upto[n] = More(upto[n - 1], n)
  <2>1. 0 \in 0 .. N /\ \A n \in 1 .. N : n \in 0 .. N /\ n # 0
    BY <1>1
  <2> HIDE DEF More, N
  <2> QED BY <1>5, <2>1
<1> HIDE DEF IsUpto
<1> DEFINE Good(n) == \A d \in upto[n] :
              /\ d \in Seq(Receipt)
              /\ \A k \in DOMAIN d : \E m \in DOMAIN form.files : d[k].item = form.files[m].item
              /\ PagesIn(d) = PagesUpto(form, n)
              /\ Repeatless(form) => Apart(d)
           P == {n \in Nat : n <= N => Good(n)}
<1>7. 0 \in P
  <2>1. PagesIn(<<>>) = {} /\ PagesUpto(form, 0) = {} /\ Apart(<<>>) /\ <<>> \in Seq(Receipt)
    BY DEF PagesIn, PagesUpto, Apart
  <2>2. Good(0)
    <3>1. \A k \in DOMAIN <<>> : FALSE
      OBVIOUS
    <3> HIDE DEF N, More
    <3> QED BY <1>6, <2>1, <3>1
  <2> HIDE DEF Good
  <2> QED BY <2>2
<1>8. ASSUME NEW n \in Nat, n \in P PROVE n + 1 \in P
  <2> SUFFICES ASSUME n + 1 <= N PROVE Good(n + 1)
    <3> HIDE DEF Good
    <3> QED OBVIOUS
  <2>0. upto[n + 1] = More(upto[n], n + 1)
    <3>1. n + 1 \in 1 .. N /\ (n + 1) - 1 = n
      BY <1>1
    <3> HIDE DEF More, N
    <3> QED BY <1>6, <3>1
  <2>a. SUFFICES ASSUME NEW d \in upto[n], NEW r \in Receipts(form.files[n + 1], split)
               PROVE  /\ d \o r \in Seq(Receipt)
                      /\ \A k \in DOMAIN (d \o r) : \E m \in DOMAIN form.files :
                            (d \o r)[k].item = form.files[m].item
                      /\ PagesIn(d \o r) = PagesUpto(form, n + 1)
                      /\ Repeatless(form) => Apart(d \o r)
    <3> SUFFICES ASSUME NEW x \in upto[n + 1]
                 PROVE  /\ x \in Seq(Receipt)
                        /\ \A k \in DOMAIN x : \E m \in DOMAIN form.files : x[k].item = form.files[m].item
                        /\ PagesIn(x) = PagesUpto(form, n + 1)
                        /\ Repeatless(form) => Apart(x)
      OBVIOUS
    <3>0. x \in More(upto[n], n + 1)
      <4> HIDE DEF More
      <4> QED BY <2>0
    <3>1. PICK d \in upto[n], r \in Receipts(form.files[n + 1], split) : x = d \o r
      BY <3>0, Extending
    <3> QED BY <2>a, <3>1
  <2>1. /\ d \in Seq(Receipt)
        /\ \A k \in DOMAIN d : \E m \in DOMAIN form.files : d[k].item = form.files[m].item
        /\ PagesIn(d) = PagesUpto(form, n)
        /\ Repeatless(form) => Apart(d)
    BY <1>1, <1>8
  <2> DEFINE f == form.files[n + 1]
  <2>2. n + 1 \in DOMAIN form.files /\ f \in Files
    BY <1>1
  <2>3. /\ r \in Seq(Receipt)
        /\ \A k \in DOMAIN r : r[k].item = f.item
        /\ PagesIn(r) = Range(f.pages)
        /\ Once(f.pages) => Apart(r)
    BY <2>2, ReceiptsSound
  <2>4. Range(f.pages) \subseteq Pages
    BY <2>2 DEF Files, Range
  <2>5. PagesUpto(form, n + 1) = PagesUpto(form, n) \cup Range(f.pages)
    <3>1. \A m \in Nat : m \in 1 .. n + 1 <=> m \in 1 .. n \/ m = n + 1
      OBVIOUS
    <3> QED BY <2>4, <3>1 DEF PagesUpto
  <2>6. Repeatless(form) => PagesUpto(form, n) \cap Range(f.pages) = {}
    <3>1. \A m \in 1 .. n : m \in DOMAIN form.files /\ m # n + 1
      BY <1>1
    <3> QED BY <2>2, <3>1 DEF PagesUpto, Repeatless
  <2>7. Repeatless(form) => Once(f.pages)
    BY <2>2 DEF Repeatless, FileSet
  <2>8. \A k \in DOMAIN (d \o r) : \E m \in DOMAIN form.files :
                            (d \o r)[k].item = form.files[m].item
    <3>1. \A k \in DOMAIN (d \o r) : \/ \E m \in DOMAIN d : (d \o r)[k] = d[m]
                                     \/ \E m \in DOMAIN r : (d \o r)[k] = r[m]
      BY <2>1, <2>3, Joined
    <3>2. ASSUME NEW k \in DOMAIN (d \o r), NEW m \in DOMAIN d, (d \o r)[k] = d[m]
          PROVE  \E h \in DOMAIN form.files : (d \o r)[k].item = form.files[h].item
      BY <2>1, <3>2
    <3>3. ASSUME NEW k \in DOMAIN (d \o r), NEW m \in DOMAIN r, (d \o r)[k] = r[m]
          PROVE  \E h \in DOMAIN form.files : (d \o r)[k].item = form.files[h].item
      BY <2>2, <2>3, <3>3
    <3> QED BY <3>1, <3>2, <3>3
  <2> HIDE DEF f
  <2> QED BY <2>1, <2>3, <2>5, <2>6, <2>7, <2>8, Joined
<1>9. N \in P
  <2> HIDE DEF P
  <2> QED BY <1>1, <1>7, <1>8, Induction
<1>10. Good(N)
  BY <1>1, <1>9
<1> QED BY <1>1, <1>4, <1>10

-----------------------------------------------------------------------------
\* A row of document_intake.
Row == [image : Seq(Pages), st : {"open", "consumed"}, pending : BOOLEAN,
        by : Uploads, job : Uploads \cup {None}]

\* The job that a row of upload u belongs to.
JobOf(u) == IF upload[u].async THEN u ELSE None

\* The receipts that the run of s diverts.
Due(s) == {n \in DOMAIN run[s].receipts : run[s].to[n] \in {"ap_holding", "pending"}}

\* One row for an image of a job at most.
OneRow(rows) ==
  \A i, j \in DOMAIN rows :
    /\ rows[i].image = rows[j].image /\ rows[i].job = rows[j].job /\ rows[i].job # None
    => i = j

\* rows is the queue with rows of the run of s added and others reclassified.
Grown(rows, s) ==
  /\ rows \in Seq(Row)
  /\ \A i \in DOMAIN queue :
       /\ i \in DOMAIN rows
       /\ rows[i].image = queue[i].image /\ rows[i].st = queue[i].st
       /\ rows[i].by = queue[i].by /\ rows[i].job = queue[i].job
  /\ \A i \in DOMAIN rows : i \notin DOMAIN queue =>
       /\ rows[i].by = run[s].up /\ rows[i].job = JobOf(run[s].up)
       /\ \E n \in Due(s) : rows[i].image = run[s].receipts[n].image

\* What a run that is about to build relies on.
Placed(s) ==
  /\ queue \in Seq(Row) /\ run[s].up \in Uploads /\ run[s].receipts \in Seq(Receipt)
  /\ \A n \in DOMAIN run[s].receipts :
       run[s].twin[n] # 0 =>
         /\ run[s].twin[n] \in DOMAIN queue
         /\ queue[run[s].twin[n]].image = run[s].receipts[n].image

\* A row that is reclassified keeps its image, its state and its owner.
LEMMA ReclassifiedSound ==
  ASSUME NEW row \in Row, NEW to
  PROVE  LET new == Reclassified(row, to) IN
         /\ new \in Row /\ new.image = row.image /\ new.st = row.st
         /\ new.by = row.by /\ new.job = row.job
BY DEF Reclassified, Row

\* One page: the rows before stay where they are, and the page is in the queue.
LEMMA DivertSound ==
  ASSUME NEW s \in Sessions, Placed(s), NEW n \in Due(s),
         NEW acc \in [rows : Seq(Row), landed : BOOLEAN]
  PROVE  LET new == Divert(acc, s, n) IN
         /\ new \in [rows : Seq(Row), landed : BOOLEAN]
         /\ Grown(acc.rows, s) =>
              /\ Grown(new.rows, s)
              /\ \A i \in DOMAIN acc.rows :
                   i \in DOMAIN new.rows /\ new.rows[i].image = acc.rows[i].image
              /\ \E i \in DOMAIN new.rows : new.rows[i].image = run[s].receipts[n].image
              /\ OneRow(acc.rows) => OneRow(new.rows)
<1> DEFINE r     == run[s]
           u     == r.up
           image == r.receipts[n].image
           own   == {i \in DOMAIN acc.rows : i > Len(queue) /\ acc.rows[i].image = image}
           at    == IF r.twin[n] # 0 \/ own = {} THEN r.twin[n] ELSE CHOOSE k \in own : TRUE
           new   == Divert(acc, s, n)
           row   == [image |-> image, st |-> "open", pending |-> r.to[n] = "pending",
                     by |-> u, job |-> JobOf(u)]
<1>1. /\ n \in DOMAIN r.receipts /\ image \in Seq(Pages) /\ u \in Uploads
      /\ acc.rows \in Seq(Row) /\ acc.landed \in BOOLEAN
  <2>1. n \in DOMAIN r.receipts /\ r.receipts \in Seq(Receipt) /\ u \in Uploads
    BY DEF Placed, Due
  <2>2. r.receipts[n] \in Receipt
    BY <2>1
  <2> QED BY <2>1, <2>2 DEF Receipt
<1>2. row \in Row
  BY <1>1 DEF Row, JobOf
<1>3. new = IF at # 0
            THEN [rows |-> [acc.rows EXCEPT ![at] = Reclassified(@, r.to[n])], landed |-> TRUE]
            ELSE IF IntakeTaken(acc.rows, u, image) THEN acc
            ELSE [rows |-> Append(acc.rows, row), landed |-> TRUE]
  BY DEF Divert, JobOf
<1> HIDE DEF new, row, at
<1>4. CASE at # 0
  <2> DEFINE rows == [acc.rows EXCEPT ![at] = Reclassified(@, r.to[n])]
  <2>1. new = [rows |-> rows, landed |-> TRUE]
    BY <1>3, <1>4
  <2>2. /\ DOMAIN rows = DOMAIN acc.rows /\ DOMAIN rows = 1 .. Len(acc.rows)
        /\ Len(acc.rows) \in Nat
    BY <1>1
  <2>3. ASSUME NEW i \in DOMAIN rows
        PROVE  /\ rows[i] \in Row /\ rows[i].image = acc.rows[i].image
               /\ rows[i].st = acc.rows[i].st /\ rows[i].by = acc.rows[i].by
               /\ rows[i].job = acc.rows[i].job
    <3>1. acc.rows[i] \in Row
      BY <1>1, <2>2
    <3>2. CASE i = at BY <2>2, <3>1, <3>2, ReclassifiedSound
    <3>3. CASE i # at BY <2>2, <3>1, <3>3
    <3> QED BY <3>2, <3>3
  <2>4. rows = [i \in 1 .. Len(acc.rows) |-> rows[i]]
    BY <1>1
  <2> HIDE DEF rows
  <2>5. rows \in Seq(Row)
    BY <2>2, <2>3, <2>4
  <2>6. new \in [rows : Seq(Row), landed : BOOLEAN] /\ new.rows = rows
    BY <2>1, <2>5
  <2> SUFFICES ASSUME Grown(acc.rows, s)
               PROVE  /\ Grown(rows, s)
                      /\ \A i \in DOMAIN acc.rows : i \in DOMAIN rows /\ rows[i].image = acc.rows[i].image
                      /\ \E i \in DOMAIN rows : rows[i].image = image
                      /\ OneRow(acc.rows) => OneRow(rows)
    BY <2>6 DEF new
  <2>7. Grown(rows, s)
    BY <2>2, <2>3, <2>5 DEF Grown
  <2>8. at \in DOMAIN acc.rows /\ acc.rows[at].image = image
    <3>1. CASE r.twin[n] # 0
      <4>1. at = r.twin[n]
        BY <3>1 DEF at
      <4>2. at \in DOMAIN queue /\ queue[at].image = image
        BY <1>1, <3>1, <4>1 DEF Placed
      <4> QED BY <4>2 DEF Grown
    <3>2. CASE r.twin[n] = 0
      <4>1. own # {} /\ at = CHOOSE k \in own : TRUE
        BY <1>4, <3>2 DEF at
      <4>2. at \in own
        <5> HIDE DEF own
        <5> QED BY <4>1
      <4> QED BY <4>2
    <3> QED BY <3>1, <3>2
  <2>9. OneRow(acc.rows) => OneRow(rows)
    BY <2>2, <2>3 DEF OneRow
  <2> QED BY <2>2, <2>3, <2>7, <2>8, <2>9
<1>5. CASE at = 0 /\ IntakeTaken(acc.rows, u, image)
  <2>1. new = acc
    BY <1>3, <1>5
  <2>2. \E i \in DOMAIN acc.rows : acc.rows[i].image = image
    BY <1>5 DEF IntakeTaken
  <2> QED BY <1>1, <2>1, <2>2 DEF new
<1>6. CASE at = 0 /\ ~IntakeTaken(acc.rows, u, image)
  <2> DEFINE rows == Append(acc.rows, row)
  <2>1. new = [rows |-> rows, landed |-> TRUE]
    BY <1>3, <1>6
  <2>2. rows \in Seq(Row) /\ Len(rows) = Len(acc.rows) + 1 /\ Len(acc.rows) \in Nat
    BY <1>1, <1>2, AppendProperties
  <2>3. DOMAIN rows = 1 .. Len(acc.rows) + 1 /\ DOMAIN acc.rows = 1 .. Len(acc.rows)
    BY <1>1, <2>2
  <2>4. rows[Len(acc.rows) + 1] = row /\ \A i \in DOMAIN acc.rows : rows[i] = acc.rows[i]
    BY <1>1, <1>2, <2>3
  <2> HIDE DEF rows
  <2>5. /\ row.image = image /\ row.by = u /\ row.job = JobOf(u)
    BY DEF row
  <2>6. new \in [rows : Seq(Row), landed : BOOLEAN] /\ new.rows = rows
    BY <2>1, <2>2
  <2> SUFFICES ASSUME Grown(acc.rows, s)
               PROVE  /\ Grown(rows, s)
                      /\ \A i \in DOMAIN acc.rows : i \in DOMAIN rows /\ rows[i].image = acc.rows[i].image
                      /\ \E i \in DOMAIN rows : rows[i].image = image
                      /\ OneRow(acc.rows) => OneRow(rows)
    BY <2>6 DEF new
  <2>7. \A i \in DOMAIN rows : i \in DOMAIN acc.rows \/ i = Len(acc.rows) + 1
    BY <2>2, <2>3
  <2>8. \A i \in DOMAIN acc.rows : i \in DOMAIN rows
    BY <2>2, <2>3
  <2>9. Len(acc.rows) + 1 \in DOMAIN rows
    BY <2>2, <2>3
  <2>10. Grown(rows, s)
    BY <2>2, <2>4, <2>5, <2>7, <2>8 DEF Grown
  <2>11. OneRow(acc.rows) => OneRow(rows)
    <3> SUFFICES ASSUME OneRow(acc.rows), NEW i \in DOMAIN rows, NEW j \in DOMAIN rows,
                        rows[i].image = rows[j].image, rows[i].job = rows[j].job,
                        rows[i].job # None
                 PROVE  i = j
      BY DEF OneRow
    <3>1. ASSUME NEW k \in DOMAIN acc.rows, acc.rows[k].image = image, acc.rows[k].job = JobOf(u),
                 JobOf(u) # None
          PROVE  FALSE
      BY <1>6, <3>1 DEF IntakeTaken, JobOf
    <3>2. CASE i = Len(acc.rows) + 1 BY <2>4, <2>5, <2>7, <3>1, <3>2
    <3>3. CASE j = Len(acc.rows) + 1 BY <2>4, <2>5, <2>7, <3>1, <3>3
    <3>4. CASE i \in DOMAIN acc.rows /\ j \in DOMAIN acc.rows BY <2>4, <3>4 DEF OneRow
    <3> QED BY <2>7, <3>2, <3>3, <3>4
  <2> QED BY <2>4, <2>5, <2>8, <2>9, <2>10, <2>11
<1> QED BY <1>4, <1>5, <1>6

\* The queue after the diversions of a run: every page due is in it.
LEMMA DivertedSound ==
  ASSUME NEW s \in Sessions, Placed(s)
  PROVE  LET rows == Diverted(s).rows IN
         /\ Grown(rows, s)
         /\ \A n \in Due(s) : \E i \in DOMAIN rows : rows[i].image = run[s].receipts[n].image
         /\ OneRow(queue) => OneRow(rows)
<1> DEFINE N == Len(run[s].receipts)
           V == [rows : Seq(Row), landed : BOOLEAN]
           base == [rows |-> queue, landed |-> FALSE]
           Next1(acc, n) == IF n \in Due(s) THEN Divert(acc, s, n) ELSE acc
           step == [x \in (1 .. N) \X V |-> Next1(x[2], x[1])]
           IsAfter(g) ==
             g = [n \in 0 .. N |->
                   CASE n = 0 -> [rows |-> queue, landed |-> FALSE]
                     [] n > 0 /\ run[s].to[n] \in {"ap_holding", "pending"} -> Divert(g[n - 1], s, n)
                     [] OTHER -> g[n - 1]]
<1>1. N \in Nat /\ DOMAIN run[s].receipts = 1 .. N
  BY DEF Placed
<1>2. ASSUME NEW n \in 1 .. N, NEW acc \in V PROVE Next1(acc, n) \in V
  BY DivertSound
<1>3. \E g : IsAfter(g)
  <2>1. step \in [(1 .. N) \X V -> V]
    <3> HIDE DEF V, N, Next1
    <3>1. \A x \in (1 .. N) \X V : x[1] \in 1 .. N /\ x[2] \in V
      OBVIOUS
    <3> QED BY <1>2, <3>1
  <2>2. base \in V
    BY DEF Placed
  <2>3. N \in Nat
    BY <1>1
  <2> HIDE DEF V, N, step, base
  <2>4. PICK g : Iterates(g, V, base, N, step)
    BY <2>1, <2>2, <2>3, Recursion
  <2>5. ASSUME NEW n \in 1 .. N PROVE g[n] = Next1(g[n - 1], n)
    <3>1. <<n, g[n - 1]>> \in (1 .. N) \X V
      BY <2>3, <2>4 DEF Iterates
    <3> HIDE DEF Next1
    <3> QED BY <2>4, <3>1 DEF step, Iterates
  <2>6. \A n \in 0 .. N : n = 0 \/ (n \in 1 .. N /\ n # 0 /\ n > 0)
    BY <2>3
  <2>7. \A n \in 1 .. N : n \in Due(s) <=> run[s].to[n] \in {"ap_holding", "pending"}
    BY <1>1 DEF Due
  <2>8. g[0] = base /\ g = [n \in 0 .. N |-> g[n]]
    BY <2>4 DEF Iterates
  <2>9. ASSUME NEW n \in 0 .. N
        PROVE  g[n] = CASE n = 0 -> [rows |-> queue, landed |-> FALSE]
                        [] n > 0 /\ run[s].to[n] \in {"ap_holding", "pending"} -> Divert(g[n - 1], s, n)
                        [] OTHER -> g[n - 1]
    <3>1. CASE n = 0 BY <2>8, <3>1 DEF base
    <3>2. CASE n # 0
      <4>1. n \in 1 .. N /\ n > 0 /\ g[n] = Next1(g[n - 1], n)
        BY <2>5, <2>6, <3>2
      <4> QED BY <2>7, <3>2, <4>1
    <3> QED BY <3>1, <3>2
  <2>10. IsAfter(g)
    BY <2>8, <2>9
  <2> QED BY <2>10
<1> DEFINE after == CHOOSE g : IsAfter(g)
<1>4. Diverted(s) = after[N]
  BY DEF Diverted
<1>5. IsAfter(after)
  <2> HIDE DEF IsAfter
  <2> QED BY <1>3
<1> HIDE DEF after
<1>6. after[0] = base /\ \A n \in 1 .. N : after[n] = Next1(after[n - 1], n)
  <2>1. 0 \in 0 .. N /\ \A n \in 1 .. N : n \in 0 .. N /\ n # 0 /\ n > 0
    BY <1>1
  <2>2. \A n \in 1 .. N : n \in Due(s) <=> run[s].to[n] \in {"ap_holding", "pending"}
    BY <1>1 DEF Due
  <2> HIDE DEF N
  <2>3. after[0] = base
    BY <1>5, <2>1
  <2>4. ASSUME NEW n \in 1 .. N PROVE after[n] = Next1(after[n - 1], n)
    <3>1. after[n] = CASE n = 0 -> [rows |-> queue, landed |-> FALSE]
                      [] n > 0 /\ run[s].to[n] \in {"ap_holding", "pending"} -> Divert(after[n - 1], s, n)
                      [] OTHER -> after[n - 1]
      BY <1>5, <2>1
    <3> QED BY <2>1, <2>2, <3>1
  <2> QED BY <2>3, <2>4
<1> HIDE DEF IsAfter
<1> DEFINE In(rows, n) == \E i \in DOMAIN rows : rows[i].image = run[s].receipts[n].image
           Good(n) == /\ after[n] \in V
                      /\ Grown(after[n].rows, s)
                      /\ \A m \in Due(s) : m <= n => In(after[n].rows, m)
                      /\ OneRow(queue) => OneRow(after[n].rows)
           P == {n \in Nat : n <= N => Good(n)}
<1>7. 0 \in P
  <2>1. base \in V /\ base.rows = queue
    BY DEF Placed
  <2>2. Grown(queue, s)
    BY DEF Grown, Placed
  <2>3. \A m \in Due(s) : ~(m <= 0)
    BY <1>1 DEF Due
  <2>4. Good(0)
    <3> HIDE DEF V, base
    <3> QED BY <1>6, <2>1, <2>2, <2>3
  <2> HIDE DEF Good
  <2> QED BY <2>4
<1>8. ASSUME NEW n \in Nat, n \in P PROVE n + 1 \in P
  <2> SUFFICES ASSUME n + 1 <= N PROVE Good(n + 1)
    <3> HIDE DEF Good
    <3> QED OBVIOUS
  <2>1. Good(n) /\ n + 1 \in 1 .. N /\ (n + 1) - 1 = n
    <3>1. n <= N /\ n + 1 \in 1 .. N /\ (n + 1) - 1 = n
      BY <1>1
    <3> HIDE DEF Good
    <3> QED BY <1>8, <3>1
  <2>2. after[n + 1] = Next1(after[n], n + 1)
    <3> HIDE DEF Next1, N
    <3> QED BY <1>6, <2>1
  <2>3. ASSUME NEW m \in Due(s), m <= n + 1 PROVE m <= n \/ m = n + 1
    BY <1>1, <2>3 DEF Due
  <2>4. CASE n + 1 \in Due(s)
    <3> DEFINE acc == after[n]
               new == Divert(acc, s, n + 1)
    <3>1. after[n + 1] = new
      BY <2>2, <2>4
    <3>2. acc \in V /\ Grown(acc.rows, s)
      BY <2>1
    <3>3. /\ new \in V
          /\ Grown(new.rows, s)
          /\ \A i \in DOMAIN acc.rows :
               i \in DOMAIN new.rows /\ new.rows[i].image = acc.rows[i].image
          /\ \E i \in DOMAIN new.rows : new.rows[i].image = run[s].receipts[n + 1].image
          /\ OneRow(acc.rows) => OneRow(new.rows)
      BY <2>4, <3>2, DivertSound
    <3>4. \A m \in Due(s) : m <= n => In(acc.rows, m)
      BY <2>1
    <3>5. OneRow(queue) => OneRow(acc.rows)
      BY <2>1
    <3> HIDE DEF new, acc, V
    <3>6. \A m \in Due(s) : m <= n + 1 => In(new.rows, m)
      BY <2>3, <3>3, <3>4
    <3> QED BY <3>1, <3>3, <3>5, <3>6
  <2>5. CASE n + 1 \notin Due(s)
    <3>1. after[n + 1] = after[n]
      BY <2>2, <2>5
    <3>2. \A m \in Due(s) : m <= n + 1 => m <= n
      BY <2>3, <2>5
    <3> HIDE DEF V, In
    <3> QED BY <2>1, <3>1, <3>2
  <2> QED BY <2>4, <2>5
<1>9. N \in P
  <2> HIDE DEF P
  <2> QED BY <1>1, <1>7, <1>8, Induction
<1>10. Good(N)
  <2> HIDE DEF Good
  <2> QED BY <1>1, <1>9
<1>11. \A n \in Due(s) : n <= N
  BY <1>1 DEF Due
<1> QED BY <1>4, <1>10, <1>11

-----------------------------------------------------------------------------
\* What an upload holds.
Claim == [lines : SUBSET Seq(Pages), trip : BOOLEAN, attested : BOOLEAN]

Submission == [st : {"none", "inline", "queued", "running", "done", "failed"},
               form : Forms \cup {None}, keep : BOOLEAN, async : BOOLEAN, runs : Nat,
               claims : Seq(Claim), errors : SUBSET Seq(Pages)]

\* The types.
Typed ==
  /\ world \in Worlds /\ keep.now \in BOOLEAN
  /\ upload \in [Uploads -> Submission]
  /\ queue \in Seq(Row)
  /\ \A image \in DOMAIN cache : cache[image] \in Routes
  /\ DOMAIN run = Sessions

\* A submission: it passed the gate, and it became one claim at most.
Uploaded(u) ==
  /\ upload[u].st = "none" => upload[u].claims = <<>>
  /\ upload[u].st # "none" =>
       /\ upload[u].form \in world.forms
       /\ NeedsDeclaration(upload[u].form, upload[u].keep) => upload[u].form.declared
  /\ upload[u].st \in {"queued", "running"} => upload[u].async
  /\ upload[u].st = "inline" => ~upload[u].async
  /\ Len(upload[u].claims) <= 1
  /\ \A c \in Range(upload[u].claims) : c.attested

\* Only its own run touches a form that is built within its request.
Alone(s) ==
  LET u == run[s].up IN
  ~upload[u].async =>
    /\ upload[u].st = "inline" /\ upload[u].claims = <<>>
    /\ \A t \in Sessions : t # s /\ run[t] # Idle => run[t].up # u

\* The receipts come from the files.
Backed(rs, files) ==
  /\ rs \in Seq(Receipt)
  /\ \A n \in DOMAIN rs : \E m \in DOMAIN files : rs[n].item = files[m].item

\* The receipts of a run come from the files of its form.
Begun(s) ==
  run[s].at # "taken" => Backed(run[s].receipts, upload[run[s].up].form.files)

\* What a run found in the cache was read without an error.
Found(s) ==
  run[s].at = "read" => \A n \in DOMAIN run[s].hits : run[s].hits[n] \in Routes

\* Every receipt has a reading, which is the browser's where it had one.
Known(s) ==
  LET r == run[s] IN
  r.at = "lookup" =>
    \A n \in DOMAIN r.receipts :
      /\ r.read[n] \in Results
      /\ PreRead(r.receipts[n]) => r.read[n] = r.receipts[n].item

\* Every receipt has a place, a line of the claim only where the gate saw it.
Decided(s) ==
  LET r == run[s] IN
  r.at = "build" =>
    /\ DOMAIN r.to = DOMAIN r.receipts
    /\ \A n \in DOMAIN r.receipts :
         /\ r.to[n] \in Results
         /\ r.to[n] = "eclaim" => upload[r.up].keep \/ r.receipts[n].item \in {None, "eclaim"}

\* The twins stand in the queue.
Twinned(s) ==
  LET r == run[s] IN
  r.at = "build" =>
    \A n \in DOMAIN r.receipts :
      r.twin[n] # 0 => /\ r.twin[n] \in DOMAIN queue
                       /\ queue[r.twin[n]].image = r.receipts[n].image

\* A run: what it holds comes from the form and stands in the queue.
Working(s) ==
  run[s] # Idle =>
    /\ run[s].at \in {"taken", "read", "lookup", "build"}
    /\ s \in world.sessions /\ run[s].up \in Uploads /\ upload[run[s].up].st # "none"
    /\ Alone(s) /\ Begun(s) /\ Found(s) /\ Known(s) /\ Decided(s) /\ Twinned(s)

\* The inductive invariant.
IInv ==
  /\ Typed
  /\ \A u \in Uploads : Uploaded(u)
  /\ \A s \in Sessions : Working(s)
  /\ OneRow(queue)

\* What a step leaves of the run of t.
Undisturbed(t) ==
  LET u == run[t].up IN
  /\ world' = world /\ run'[t] = run[t]
  /\ run[t] # Idle =>
       /\ upload'[u].form = upload[u].form /\ upload'[u].keep = upload[u].keep
       /\ upload'[u].async = upload[u].async /\ upload'[u].st # "none"
       /\ ~upload[u].async =>
            /\ upload'[u].st = upload[u].st /\ upload'[u].claims = upload[u].claims
            /\ \A z \in Sessions : z # t /\ run'[z] # Idle => run'[z].up # u
  /\ \A i \in DOMAIN queue : i \in DOMAIN queue' /\ queue'[i].image = queue[i].image

\* A run that a step leaves alone stays sound.
LEMMA UndisturbedWorks ==
  ASSUME NEW t \in Sessions, Working(t), Undisturbed(t)
  PROVE  Working(t)'
<1> SUFFICES ASSUME run[t] # Idle PROVE Working(t)'
  BY DEF Undisturbed, Working
<1>1. run'[t] = run[t] /\ world' = world
  BY DEF Undisturbed
<1>2. /\ upload'[run[t].up].form = upload[run[t].up].form
      /\ upload'[run[t].up].keep = upload[run[t].up].keep
      /\ upload'[run[t].up].st # "none"
  BY DEF Undisturbed
<1>3. Alone(t)'
  BY DEF Undisturbed, Working, Alone
<1>4. Begun(t)'
  <2>1. Begun(t)
    BY DEF Working
  <2> QED BY <1>1, <1>2, <2>1 DEF Begun
<1>5. Found(t)' /\ Known(t)'
  BY <1>1 DEF Working, Found, Known, PreRead
<1>6. Decided(t)'
  BY <1>1, <1>2 DEF Working, Decided
<1>7. Twinned(t)'
  BY DEF Undisturbed, Working, Twinned
<1> QED BY <1>1, <1>2, <1>3, <1>4, <1>5, <1>6, <1>7 DEF Working

\* A step of s within its run, which leaves uploads and queue alone.
LEMMA OthersWork ==
  ASSUME IInv, NEW s \in Sessions, run[s] # Idle, UNCHANGED <<world, upload, queue>>,
         NEW r, run' = [run EXCEPT ![s] = r], r = Idle \/ r.up = run[s].up
  PROVE  \A t \in Sessions : t # s => Working(t)'
<1> SUFFICES ASSUME NEW t \in Sessions, t # s PROVE Working(t)'
  OBVIOUS
<1>1. Working(t) /\ Working(s) /\ DOMAIN run = Sessions
  BY DEF IInv, Typed
<1>2. Undisturbed(t)
  <2>1. run'[t] = run[t]
    BY <1>1
  <2>2. ASSUME NEW z \in Sessions, z # t, run'[z] # Idle
        PROVE  run[z] # Idle /\ run'[z].up = run[z].up
    BY <1>1, <2>2
  <2>3. run[t] # Idle => upload[run[t].up].st # "none"
    BY <1>1 DEF Working
  <2>4. run[t] # Idle /\ ~upload[run[t].up].async =>
          \A z \in Sessions : z # t /\ run[z] # Idle => run[z].up # run[t].up
    BY <1>1 DEF Working, Alone
  <2> QED BY <2>1, <2>2, <2>3, <2>4 DEF Undisturbed
<1> QED BY <1>1, <1>2, UndisturbedWorks

\* A step that changes no upload, row or run leaves the runs sound.
LEMMA StillWork ==
  ASSUME IInv, UNCHANGED <<world, upload, queue, run>>
  PROVE  \A t \in Sessions : Working(t)'
<1> SUFFICES ASSUME NEW t \in Sessions PROVE Working(t)'
  OBVIOUS
<1>1. Working(t)
  BY DEF IInv
<1>2. Undisturbed(t)
  BY <1>1 DEF Undisturbed, Working, Alone
<1> QED BY <1>1, <1>2, UndisturbedWorks

\* The invariant holds at first.
LEMMA InitIInv == Init => IInv
<1> SUFFICES ASSUME Init PROVE IInv
  OBVIOUS
<1>1. NoUpload \in Submission
  BY DEF NoUpload, Submission
<1>2. Typed
  BY <1>1 DEF Init, Typed
<1>3. ASSUME NEW u \in Uploads PROVE Uploaded(u)
  <2>1. upload[u] = NoUpload
    BY DEF Init
  <2> QED BY <2>1 DEF Uploaded, NoUpload, Range
<1>4. ASSUME NEW s \in Sessions PROVE Working(s)
  BY DEF Init, Working
<1>5. OneRow(queue)
  BY DEF Init, OneRow
<1> QED BY <1>2, <1>3, <1>4, <1>5 DEF IInv

\* A form that is accepted has passed the gate under the policy it carries.
LEMMA CaptureIInv ==
  ASSUME IInv, NEW s \in world.sessions, s \in Sessions, NEW u \in Uploads,
         NEW form \in world.forms, Capture(s, u, form)
  PROVE  IInv'
<1> DEFINE async == Units(form) > InlineMax
           new == [NoUpload EXCEPT !.form = form, !.keep = keep.now, !.async = async,
                                   !.st = IF async THEN "queued" ELSE "inline",
                                   !.runs = IF async THEN 0 ELSE 1]
           r == IF async THEN Idle ELSE [at |-> "taken", up |-> u]
<1>1. /\ run[s] = Idle /\ upload[u].st = "none"
      /\ NeedsDeclaration(form, keep.now) => form.declared
      /\ upload' = [upload EXCEPT ![u] = new]
      /\ run' = [run EXCEPT ![s] = r]
      /\ UNCHANGED <<world, keep, queue, cache>>
  BY DEF Capture
<1>2. Typed /\ (\A v \in Uploads : Uploaded(v)) /\ (\A t \in Sessions : Working(t)) /\ OneRow(queue)
  BY DEF IInv
<1>3. form \in Forms /\ keep.now \in BOOLEAN
  BY <1>2, CaptureAssumption DEF Typed
<1>4. /\ new.form = form /\ new.keep = keep.now /\ new.async = async
      /\ new.st = (IF async THEN "queued" ELSE "inline") /\ new.claims = <<>>
      /\ async \in BOOLEAN
  BY DEF NoUpload
<1>5. new \in Submission
  <2>1. <<>> \in Seq(Claim) /\ {} \in SUBSET Seq(Pages) /\ (IF async THEN 0 ELSE 1) \in Nat
    OBVIOUS
  <2>2. (IF async THEN "queued" ELSE "inline") \in {"none", "inline", "queued", "running", "done", "failed"}
    OBVIOUS
  <2>3. form \in Forms \cup {None}
    BY <1>3
  <2>4. async \in BOOLEAN
    BY <1>4
  <2> HIDE DEF async
  <2> QED BY <1>3, <2>1, <2>2, <2>3, <2>4 DEF NoUpload, Submission
<1> HIDE DEF new, async
<1>6. /\ DOMAIN run = Sessions /\ DOMAIN upload = Uploads
      /\ upload'[u] = new /\ \A v \in Uploads : v # u => upload'[v] = upload[v]
      /\ run'[s] = r /\ \A t \in Sessions : t # s => run'[t] = run[t]
  BY <1>1, <1>2 DEF Typed
<1>7. Typed'
  BY <1>1, <1>2, <1>5, <1>6 DEF Typed
<1>8. ASSUME NEW v \in Uploads PROVE Uploaded(v)'
  <2>1. CASE v = u
    BY <1>1, <1>4, <1>6, <2>1 DEF Uploaded, Range
  <2>2. CASE v # u
    BY <1>1, <1>2, <1>6, <2>2 DEF Uploaded
  <2> QED BY <2>1, <2>2
<1>9. \A t \in Sessions : run[t] # Idle => run[t].up # u
  BY <1>1, <1>2 DEF Working
<1>10. ASSUME NEW t \in Sessions PROVE Working(t)'
  <2>1. CASE t = s
    <3>1. CASE async
      BY <1>6, <2>1, <3>1 DEF Working
    <3>2. CASE ~async
      <4>1. run'[s] = [at |-> "taken", up |-> u]
        BY <1>6, <3>2
      <4>2. Alone(s)'
        BY <1>4, <1>6, <1>9, <3>2, <4>1 DEF Alone
      <4>3. Begun(s)' /\ Found(s)' /\ Known(s)' /\ Decided(s)' /\ Twinned(s)'
        BY <4>1 DEF Begun, Backed, Found, Known, Decided, Twinned
      <4> QED BY <1>1, <1>4, <1>6, <2>1, <3>2, <4>1, <4>2, <4>3 DEF Working
    <3> QED BY <3>1, <3>2
  <2>2. CASE t # s
    <3>1. run[t] # Idle => /\ upload'[run[t].up] = upload[run[t].up]
                           /\ upload[run[t].up].st # "none"
      BY <1>2, <1>6, <1>9 DEF Working
    <3>2. \A z \in Sessions : run'[z] # Idle => run'[z] = run[z] \/ run'[z].up = u
      BY <1>6
    <3>3. run[t] # Idle /\ ~upload[run[t].up].async =>
            \A z \in Sessions : z # t /\ run'[z] # Idle => run'[z].up # run[t].up
      BY <1>2, <1>9, <3>2 DEF Working, Alone
    <3>4. Undisturbed(t)
      BY <1>1, <1>6, <2>2, <3>1, <3>3 DEF Undisturbed
    <3> QED BY <1>2, <3>4, UndisturbedWorks
  <2> QED BY <2>1, <2>2
<1> QED BY <1>1, <1>2, <1>7, <1>8, <1>10 DEF IInv

\* A run that ends without filing changes the state of its upload only.
LEMMA ConcludeIInv ==
  ASSUME IInv, NEW s \in Sessions, run[s] # Idle, NEW st \in {"done", "failed"},
         Conclude(s, st), UNCHANGED <<world, keep, queue, cache>>
  PROVE  IInv'
<1> DEFINE u == run[s].up
<1>1. Typed /\ (\A v \in Uploads : Uploaded(v)) /\ (\A t \in Sessions : Working(t)) /\ OneRow(queue)
  BY DEF IInv
<1>2. u \in Uploads /\ upload[u].st # "none" /\ Alone(s)
  BY <1>1 DEF Working
<1> DEFINE new == [upload[u] EXCEPT !.st = st]
<1>3. upload' = [upload EXCEPT ![u] = new] /\ run' = [run EXCEPT ![s] = Idle]
  BY DEF Conclude
<1>4. new \in Submission
  <2>1. upload[u] \in Submission
    BY <1>1, <1>2 DEF Typed
  <2> QED BY <2>1 DEF Submission
<1>5. /\ new.form = upload[u].form /\ new.keep = upload[u].keep /\ new.async = upload[u].async
      /\ new.claims = upload[u].claims /\ new.st = st
  <2>1. upload[u] \in Submission
    BY <1>1, <1>2 DEF Typed
  <2> QED BY <2>1 DEF Submission
<1> HIDE DEF new
<1>6. /\ DOMAIN run = Sessions /\ DOMAIN upload = Uploads
      /\ upload'[u] = new /\ \A v \in Uploads : v # u => upload'[v] = upload[v]
      /\ run'[s] = Idle /\ \A t \in Sessions : t # s => run'[t] = run[t]
  BY <1>1, <1>2, <1>3 DEF Typed
<1>7. Typed'
  BY <1>1, <1>2, <1>3, <1>4, <1>6 DEF Typed
<1>8. ASSUME NEW v \in Uploads PROVE Uploaded(v)'
  <2>1. CASE v = u
    <3>1. Uploaded(u)
      BY <1>1, <1>2
    <3> QED BY <1>2, <1>5, <1>6, <2>1, <3>1 DEF Uploaded
  <2>2. CASE v # u
    BY <1>1, <1>6, <2>2 DEF Uploaded
  <2> QED BY <2>1, <2>2
<1>9. ASSUME NEW t \in Sessions PROVE Working(t)'
  <2>1. CASE t = s
    BY <1>6, <2>1 DEF Working
  <2>2. CASE t # s
    <3>1. run[t] # Idle => run[t].up \in Uploads /\ upload[run[t].up].st # "none" /\ Alone(t)
      BY <1>1 DEF Working
    <3>2. run[t] # Idle /\ run[t].up = u => upload[u].async
      BY <1>2, <2>2 DEF Alone
    <3>3. run[t] # Idle /\ ~upload[run[t].up].async =>
            \A z \in Sessions : z # t /\ run'[z] # Idle => run'[z].up # run[t].up
      BY <1>6, <3>1 DEF Alone
    <3>4. Undisturbed(t)
      <4>1. CASE run[t] = Idle BY <1>6, <2>2, <4>1 DEF Undisturbed
      <4>2. CASE run[t] # Idle /\ run[t].up = u
        BY <1>5, <1>6, <2>2, <3>2, <4>2 DEF Undisturbed
      <4>3. CASE run[t] # Idle /\ run[t].up # u
        BY <1>6, <2>2, <3>1, <3>3, <4>3 DEF Undisturbed
      <4> QED BY <4>1, <4>2, <4>3
    <3> QED BY <1>1, <3>4, UndisturbedWorks
  <2> QED BY <2>1, <2>2
<1> QED BY <1>1, <1>7, <1>8, <1>9 DEF IInv

\* A change of the policy does not touch what was accepted before.
LEMMA SetRoutingIInv == ASSUME IInv, SetRouting PROVE IInv'
<1>1. Typed' /\ OneRow(queue)'
  BY DEF IInv, Typed, SetRouting, OneRow
<1>2. \A u \in Uploads : Uploaded(u)'
  BY DEF IInv, SetRouting, Uploaded
<1>3. \A s \in Sessions : Working(s)'
  BY StillWork DEF SetRouting
<1> QED BY <1>1, <1>2, <1>3 DEF IInv

\* A worker takes a job, perhaps from another that is still at it.
LEMMA TakeIInv ==
  ASSUME IInv, NEW s \in world.sessions, s \in Sessions, NEW u \in Uploads, Take(s, u)
  PROVE  IInv'
<1>1. Typed /\ (\A v \in Uploads : Uploaded(v)) /\ (\A t \in Sessions : Working(t)) /\ OneRow(queue)
  BY DEF IInv
<1> DEFINE new == [upload[u] EXCEPT !.st = "running", !.runs = @ + 1]
           r == [at |-> "taken", up |-> u]
<1>2. /\ run[s] = Idle /\ upload[u].st \in {"queued", "running"}
      /\ upload' = [upload EXCEPT ![u] = new] /\ run' = [run EXCEPT ![s] = r]
      /\ UNCHANGED <<world, keep, queue, cache>>
  BY DEF Take
<1>3. upload[u] \in Submission /\ upload[u].async
  BY <1>1, <1>2 DEF Typed, Uploaded
<1>4. /\ new \in Submission /\ new.form = upload[u].form /\ new.keep = upload[u].keep
      /\ new.async /\ new.claims = upload[u].claims /\ new.st = "running"
  <2>1. upload[u].runs + 1 \in Nat
    BY <1>3 DEF Submission
  <2>2. new \in Submission
    BY <1>3, <2>1 DEF Submission
  <2>3. /\ new.form = upload[u].form /\ new.keep = upload[u].keep /\ new.async = upload[u].async
        /\ new.claims = upload[u].claims /\ new.st = "running"
    BY <1>3 DEF Submission
  <2> HIDE DEF new
  <2> QED BY <1>3, <2>2, <2>3
<1> HIDE DEF new
<1>5. /\ DOMAIN run = Sessions /\ DOMAIN upload = Uploads
      /\ upload'[u] = new /\ \A v \in Uploads : v # u => upload'[v] = upload[v]
      /\ run'[s] = r /\ \A t \in Sessions : t # s => run'[t] = run[t]
  BY <1>1, <1>2 DEF Typed
<1>6. Typed'
  BY <1>1, <1>2, <1>4, <1>5 DEF Typed
<1>7. ASSUME NEW v \in Uploads PROVE Uploaded(v)'
  <2>1. CASE v = u
    <3>1. Uploaded(u)
      BY <1>1
    <3> QED BY <1>2, <1>3, <1>4, <1>5, <2>1, <3>1 DEF Uploaded
  <2>2. CASE v # u
    BY <1>1, <1>2, <1>5, <2>2 DEF Uploaded
  <2> QED BY <2>1, <2>2
<1>8. ASSUME NEW t \in Sessions PROVE Working(t)'
  <2>1. CASE t = s
    <3>1. Alone(s)'
      BY <1>3, <1>4, <1>5 DEF Alone
    <3>2. Begun(s)' /\ Found(s)' /\ Known(s)' /\ Decided(s)' /\ Twinned(s)'
      BY <1>5 DEF Begun, Backed, Found, Known, Decided, Twinned
    <3> QED BY <1>2, <1>4, <1>5, <2>1, <3>1, <3>2 DEF Working
  <2>2. CASE t # s
    <3>1. run[t] # Idle => run[t].up \in Uploads /\ upload[run[t].up].st # "none" /\ Alone(t)
      BY <1>1 DEF Working
    <3>2. Undisturbed(t)
      <4>1. CASE run[t] = Idle BY <1>2, <1>5, <2>2, <4>1 DEF Undisturbed
      <4>2. CASE run[t] # Idle /\ run[t].up = u
        BY <1>2, <1>3, <1>4, <1>5, <2>2, <4>2 DEF Undisturbed
      <4>3. CASE run[t] # Idle /\ run[t].up # u
        <5>1. ~upload[run[t].up].async =>
                \A z \in Sessions : z # t /\ run'[z] # Idle => run'[z].up # run[t].up
          BY <1>5, <3>1, <4>3 DEF Alone
        <5> QED BY <1>2, <1>5, <2>2, <3>1, <4>3, <5>1 DEF Undisturbed
      <4> QED BY <4>1, <4>2, <4>3
    <3> QED BY <1>1, <3>2, UndisturbedWorks
  <2> QED BY <2>1, <2>2
<1> QED BY <1>1, <1>2, <1>6, <1>7, <1>8 DEF IInv

\* The receipts of a run come from its form.
LEMMA BeginIInv == ASSUME IInv, NEW s \in Sessions, Begin(s) PROVE IInv'
<1> DEFINE u == run[s].up
           form == upload[u].form
<1>1. Typed /\ (\A v \in Uploads : Uploaded(v)) /\ Working(s) /\ OneRow(queue)
  BY DEF IInv
<1>2. PICK rs \in Flattened(form, world.split) :
        run' = [run EXCEPT ![s] = [at |-> "read", up |-> u, receipts |-> rs, hits |-> Hits(rs)]]
  BY DEF Begin
<1>3. run[s] # Idle /\ run[s].at = "taken" /\ UNCHANGED <<world, keep, upload, queue, cache>>
  BY DEF Begin, Idle
<1>4. u \in Uploads /\ form \in Forms
  BY <1>1, <1>3, CaptureAssumption DEF Working, Uploaded, Typed
<1>5. /\ rs \in Seq(Receipt)
      /\ \A n \in DOMAIN rs : \E m \in DOMAIN form.files : rs[n].item = form.files[m].item
  BY <1>4, FlattenedSound
<1>6. \A n \in DOMAIN Hits(rs) : Hits(rs)[n] \in Routes
  BY <1>1 DEF Hits, Typed
<1> DEFINE r == [at |-> "read", up |-> u, receipts |-> rs, hits |-> Hits(rs)]
<1>7. DOMAIN run = Sessions /\ run'[s] = r
  BY <1>1, <1>2 DEF Typed
<1>8. r.at = "read" /\ r.up = u /\ r.receipts = rs /\ r.hits = Hits(rs)
  OBVIOUS
<1> HIDE DEF r
<1>9. \A t \in Sessions : t # s => Working(t)'
  BY <1>2, <1>3, <1>8, OthersWork DEF r
<1>10. Alone(s)'
  <2>1. \A t \in Sessions : t # s => run'[t] = run[t]
    BY <1>2, <1>7
  <2> QED BY <1>1, <1>3, <1>7, <1>8, <2>1 DEF Working, Alone
<1>11. Working(s)'
  <2>1. Begun(s)'
    <3>1. Backed(rs, form.files)
      BY <1>5 DEF Backed
    <3> QED BY <1>3, <1>7, <1>8, <3>1 DEF Begun
  <2>2. Found(s)' /\ Known(s)' /\ Decided(s)' /\ Twinned(s)'
    BY <1>6, <1>7, <1>8 DEF Found, Known, Decided, Twinned
  <2> QED BY <1>1, <1>3, <1>7, <1>8, <1>10, <2>1, <2>2 DEF Working
<1>12. Typed' /\ OneRow(queue)'
  BY <1>1, <1>2, <1>3 DEF Typed, OneRow
<1>13. \A v \in Uploads : Uploaded(v)'
  BY <1>1, <1>3 DEF Uploaded
<1> QED BY <1>9, <1>11, <1>12, <1>13 DEF IInv

\* Every receipt has a reading, its own where the browser had it read.
LEMMA RecogniseIInv == ASSUME IInv, NEW s \in Sessions, Recognise(s) PROVE IInv'
<1> DEFINE u == run[s].up
           form == upload[u].form
           rs == run[s].receipts
           hits == run[s].hits
           misses == {n \in DOMAIN rs : ~PreRead(rs[n])} \ DOMAIN hits
<1>1. Typed /\ (\A v \in Uploads : Uploaded(v)) /\ Working(s) /\ OneRow(queue)
  BY DEF IInv
<1>2. PICK results \in [misses -> Results] :
        /\ cache' = Remembered(rs, results)
        /\ run' = [run EXCEPT ![s] =
             [at |-> "lookup", up |-> u, receipts |-> rs,
              read |-> [n \in DOMAIN rs |-> Reading(rs[n], IF n \in misses THEN results ELSE hits, n)]]]
  BY DEF Recognise
<1>3. run[s] # Idle /\ run[s].at = "read" /\ UNCHANGED <<world, keep, upload, queue>>
  BY DEF Recognise, Idle
<1>4. /\ rs \in Seq(Receipt)
      /\ \A n \in DOMAIN rs : \E m \in DOMAIN form.files : rs[n].item = form.files[m].item
      /\ \A n \in DOMAIN hits : hits[n] \in Routes
  BY <1>1, <1>3 DEF Working, Begun, Backed, Found
<1> DEFINE read == [n \in DOMAIN rs |-> Reading(rs[n], IF n \in misses THEN results ELSE hits, n)]
<1>5. ASSUME NEW n \in DOMAIN rs
      PROVE  read[n] \in Results /\ (PreRead(rs[n]) => read[n] = rs[n].item)
  <2>1. read[n] = IF PreRead(rs[n]) THEN rs[n].item ELSE (IF n \in misses THEN results ELSE hits)[n]
    BY DEF Reading
  <2>2. rs[n].item \in Routes \cup {None}
    <3>1. rs[n] \in Receipt
      BY <1>4
    <3> QED BY <3>1 DEF Receipt
  <2> HIDE DEF read
  <2>3. CASE PreRead(rs[n])
    BY <2>1, <2>2, <2>3 DEF PreRead, Results
  <2>4. CASE ~PreRead(rs[n])
    <3>1. CASE n \in misses
      <4>1. read[n] = results[n]
        BY <2>1, <2>4, <3>1
      <4> QED BY <2>4, <3>1, <4>1
    <3>2. CASE n \notin misses
      <4>1. n \in DOMAIN hits
        BY <2>4, <3>2
      <4>2. read[n] = hits[n]
        BY <2>1, <2>4, <3>2
      <4> QED BY <1>4, <2>4, <4>1, <4>2 DEF Results
    <3> QED BY <3>1, <3>2
  <2> QED BY <2>3, <2>4
<1> HIDE DEF read
<1> DEFINE r == [at |-> "lookup", up |-> u, receipts |-> rs, read |-> read]
<1>6. DOMAIN run = Sessions /\ run'[s] = r /\ run' = [run EXCEPT ![s] = r]
  BY <1>1, <1>2 DEF Typed, read
<1>7. r.at = "lookup" /\ r.up = u /\ r.receipts = rs /\ r.read = read
  OBVIOUS
<1> HIDE DEF r
<1>8. \A t \in Sessions : t # s => Working(t)'
  BY <1>3, <1>6, <1>7, OthersWork
<1>9. Alone(s)'
  <2>1. \A t \in Sessions : t # s => run'[t] = run[t]
    BY <1>6
  <2> QED BY <1>1, <1>3, <1>6, <1>7, <2>1 DEF Working, Alone
<1>10. Working(s)'
  <2>1. Begun(s)'
    <3>1. Backed(rs, form.files)
      BY <1>4 DEF Backed
    <3> QED BY <1>3, <1>6, <1>7, <3>1 DEF Begun
  <2>2. Known(s)'
    BY <1>5, <1>6, <1>7 DEF Known
  <2>3. Found(s)' /\ Decided(s)' /\ Twinned(s)'
    BY <1>6, <1>7 DEF Found, Decided, Twinned
  <2> QED BY <1>1, <1>3, <1>6, <1>7, <1>9, <2>1, <2>2, <2>3 DEF Working
<1>11. \A image \in DOMAIN cache' : cache'[image] \in Routes
  <2> DEFINE new == {n \in DOMAIN results : results[n] # "error"}
  <2>1. \A n \in new : results[n] \in Routes
    BY DEF Results
  <2>2. ASSUME NEW image \in DOMAIN cache' PROVE cache'[image] \in Routes
    <3>1. /\ image \in DOMAIN cache \cup {rs[n].image : n \in new}
          /\ cache'[image] = IF \E n \in new : rs[n].image = image
                             THEN results[CHOOSE n \in new : rs[n].image = image] ELSE cache[image]
      BY <1>2, <2>2 DEF Remembered
    <3> HIDE DEF new
    <3>2. CASE \E n \in new : rs[n].image = image
      <4>1. (CHOOSE n \in new : rs[n].image = image) \in new
        BY <3>2
      <4> QED BY <2>1, <3>1, <3>2, <4>1
    <3>3. CASE ~\E n \in new : rs[n].image = image
      BY <1>1, <3>1, <3>3 DEF Typed
    <3> QED BY <3>2, <3>3
  <2> QED BY <2>2
<1>12. Typed' /\ OneRow(queue)'
  BY <1>1, <1>3, <1>6, <1>11 DEF Typed, OneRow
<1>13. \A v \in Uploads : Uploaded(v)'
  BY <1>1, <1>3 DEF Uploaded
<1> QED BY <1>8, <1>10, <1>12, <1>13 DEF IInv

\* The twin is an open row with the same image, or 0.
LEMMA TwinSound ==
  ASSUME NEW image, Twin(image) # 0, queue \in Seq(Row)
  PROVE  Twin(image) \in DOMAIN queue /\ queue[Twin(image)].image = image
<1> DEFINE open == {i \in DOMAIN queue : queue[i].image = image /\ queue[i].st = "open"}
<1>1. open # {} /\ Twin(image) = CHOOSE i \in open : \A j \in open : i <= j
  BY DEF Twin
<1>2. \E i \in open : \A j \in open : i <= j
  <2> DEFINE P == {n \in Nat : \A i \in open : i <= n => \E k \in open : \A j \in open : k <= j}
  <2>1. DOMAIN queue = 1 .. Len(queue) /\ Len(queue) \in Nat
    OBVIOUS
  <2>2. 0 \in P
    BY <2>1
  <2>3. ASSUME NEW n \in Nat, n \in P PROVE n + 1 \in P
    <3> SUFFICES ASSUME NEW i \in open, i <= n + 1 PROVE \E k \in open : \A j \in open : k <= j
      OBVIOUS
    <3>1. CASE \E j \in open : j < i
      <4>1. PICK j \in open : j < i
        BY <3>1
      <4>2. j <= n
        BY <2>1, <4>1
      <4> QED BY <2>3, <4>2
    <3>2. CASE \A j \in open : ~(j < i)
      <4>1. \A j \in open : i <= j
        BY <2>1, <3>2
      <4> QED BY <4>1
    <3> QED BY <3>1, <3>2
  <2>4. \A n \in Nat : n \in P
    <3> HIDE DEF P
    <3> QED BY <2>2, <2>3, Induction
  <2>5. PICK i \in open : i \in Nat
    BY <1>1, <2>1
  <2> QED BY <2>4, <2>5
<1>3. Twin(image) \in open
  <2> HIDE DEF open
  <2> QED BY <1>1, <1>2
<1> QED BY <1>3

\* What the gate did not see does not become a line.
LEMMA LookupIInv == ASSUME IInv, NEW s \in Sessions, Lookup(s) PROVE IInv'
<1> DEFINE u == run[s].up
           form == upload[u].form
           rs == run[s].receipts
           to == [n \in DOMAIN rs |-> Decision(s, n)]
           twin == [n \in DOMAIN rs |-> Twin(rs[n].image)]
           r == [at |-> "build", up |-> u, receipts |-> rs, to |-> to, twin |-> twin]
<1>1. Typed /\ (\A v \in Uploads : Uploaded(v)) /\ Working(s) /\ OneRow(queue)
  BY DEF IInv
<1>2. /\ run[s] # Idle /\ run[s].at = "lookup" /\ run' = [run EXCEPT ![s] = r]
      /\ UNCHANGED <<world, keep, upload, queue, cache>>
  BY DEF Lookup, Idle
<1>3. /\ rs \in Seq(Receipt)
      /\ \A n \in DOMAIN rs : \E m \in DOMAIN form.files : rs[n].item = form.files[m].item
      /\ \A n \in DOMAIN rs : run[s].read[n] \in Results
      /\ \A n \in DOMAIN rs : PreRead(rs[n]) => run[s].read[n] = rs[n].item
  BY <1>1, <1>2 DEF Working, Begun, Backed, Known
<1>4. ASSUME NEW n \in DOMAIN rs
      PROVE  /\ to[n] \in Results
             /\ to[n] = "eclaim" => upload[u].keep \/ rs[n].item \in {None, "eclaim"}
  BY <1>3 DEF Decision, Kept, Results, Routes, PreRead
<1>5. ASSUME NEW n \in DOMAIN rs, twin[n] # 0
      PROVE  twin[n] \in DOMAIN queue /\ queue[twin[n]].image = rs[n].image
  BY <1>1, <1>5, TwinSound DEF Typed
<1>6. DOMAIN to = DOMAIN rs
  OBVIOUS
<1> HIDE DEF to, twin
<1>7. r.at = "build" /\ r.up = u /\ r.receipts = rs /\ r.to = to /\ r.twin = twin
  OBVIOUS
<1> HIDE DEF r
<1>8. DOMAIN run = Sessions /\ run'[s] = r
  BY <1>1, <1>2 DEF Typed
<1>9. \A t \in Sessions : t # s => Working(t)'
  BY <1>2, <1>7, OthersWork
<1>10. Alone(s)'
  <2>1. \A t \in Sessions : t # s => run'[t] = run[t]
    BY <1>2, <1>8
  <2> QED BY <1>1, <1>2, <1>7, <1>8, <2>1 DEF Working, Alone
<1>11. Working(s)'
  <2>1. Begun(s)'
    <3>1. Backed(rs, form.files)
      BY <1>3 DEF Backed
    <3> QED BY <1>2, <1>7, <1>8, <3>1 DEF Begun
  <2>2. Decided(s)'
    BY <1>2, <1>4, <1>6, <1>7, <1>8 DEF Decided
  <2>3. Twinned(s)'
    BY <1>2, <1>5, <1>7, <1>8 DEF Twinned
  <2>4. Found(s)' /\ Known(s)'
    BY <1>7, <1>8 DEF Found, Known
  <2> QED BY <1>1, <1>2, <1>7, <1>8, <1>10, <2>1, <2>2, <2>3, <2>4 DEF Working
<1>12. Typed' /\ OneRow(queue)'
  BY <1>1, <1>2 DEF Typed, OneRow
<1>13. \A v \in Uploads : Uploaded(v)'
  BY <1>1, <1>2 DEF Uploaded
<1> QED BY <1>9, <1>11, <1>12, <1>13 DEF IInv

\* The receipts that the run of s puts on the claim, the images of some of
\* them, and those that are reported as errors.
Onto(s) == {n \in DOMAIN run[s].receipts : run[s].to[n] = "eclaim"}

ImagesOf(s, ns) == {run[s].receipts[n].image : n \in ns}

Bad(s, refused) == ImagesOf(s, refused) \cup ImagesOf(s, {n \in DOMAIN run[s].to : run[s].to[n] = "error"})

\* The build that files: the upload is done, and its claim, if there is one, holds
\* what was not refused.
Filed(s, refused) ==
  LET u     == run[s].up
      lines == ImagesOf(s, Onto(s) \ refused)
      trip  == upload[u].form.trip = "good"
      added == lines # {} \/ trip
  IN
  /\ ~(added /\ upload[u].async /\ upload[u].claims # <<>>)
  /\ queue' = Diverted(s).rows
  /\ upload' = [upload EXCEPT
       ![u].st = "done", ![u].errors = Bad(s, refused),
       ![u].claims = IF added
                     THEN Append(@, [lines |-> lines, trip |-> trip,
                                     attested |-> upload[u].form.declared])
                     ELSE @]
  /\ run' = [run EXCEPT ![s] = Idle]

\* The build, in its two ways to end.
LEMMA BuildCases ==
  ASSUME NEW s \in Sessions, Build(s)
  PROVE  /\ run[s] # Idle /\ run[s].at = "build" /\ UNCHANGED <<world, keep, cache>>
         /\ \/ \E st \in {"done", "failed"} : Conclude(s, st) /\ UNCHANGED queue
               /\ (st = "done" => upload[run[s].up].claims # <<>>)
            \/ \E refused \in SUBSET Onto(s) : Filed(s, refused)
<1>1. run[s] # Idle /\ run[s].at = "build" /\ UNCHANGED <<world, keep, cache>>
  <2>1. run[s].at = "build" /\ UNCHANGED <<world, keep, cache>>
    BY Zenon DEF Build
  <2> QED BY <2>1 DEF Idle
<1> DEFINE u == run[s].up
           lines(refused) == ImagesOf(s, Onto(s) \ refused)
           trip == upload[u].form.trip = "good"
           added(refused) == lines(refused) # {} \/ trip
<1>2. PICK refused \in SUBSET Onto(s) :
        IF added(refused) /\ upload[u].async /\ upload[u].claims # <<>>
        THEN Conclude(s, "done") /\ UNCHANGED queue
        ELSE IF ~added(refused) /\ ~Diverted(s).landed
        THEN Conclude(s, "failed") /\ UNCHANGED queue
        ELSE /\ queue' = Held(s, added(refused))
             /\ upload' = [upload EXCEPT
                  ![u].st = "done", ![u].errors = Bad(s, refused),
                  ![u].claims = IF added(refused)
                                THEN Append(@, [lines |-> lines(refused), trip |-> trip,
                                                attested |-> upload[u].form.declared])
                                ELSE @]
             /\ run' = [run EXCEPT ![s] = Idle]
  BY DEF Build, Onto, ImagesOf, Bad
<1>3. CASE added(refused) /\ upload[u].async /\ upload[u].claims # <<>>
  <2>1. Conclude(s, "done") /\ UNCHANGED queue /\ upload[u].claims # <<>>
    BY <1>2, <1>3
  <2> QED BY <1>1, <2>1
<1>4. CASE ~(added(refused) /\ upload[u].async /\ upload[u].claims # <<>>)
           /\ ~added(refused) /\ ~Diverted(s).landed
  <2>1. Conclude(s, "failed") /\ UNCHANGED queue
    BY <1>2, <1>4
  <2> QED BY <1>1, <2>1
<1>5. CASE ~(added(refused) /\ upload[u].async /\ upload[u].claims # <<>>)
           /\ ~(~added(refused) /\ ~Diverted(s).landed)
  <2>1. Filed(s, refused)
    BY <1>2, <1>5 DEF Filed, Held
  <2> QED BY <1>1, <2>1
<1> QED BY <1>3, <1>4, <1>5

\* What a run that is about to build holds is placed.
LEMMA WorkingPlaced ==
  ASSUME IInv, NEW s \in Sessions, run[s] # Idle, run[s].at = "build" PROVE Placed(s)
<1>1. Working(s) /\ queue \in Seq(Row)
  BY DEF IInv, Typed
<1> QED BY <1>1 DEF Working, Begun, Backed, Twinned, Placed

\* The gate foresees a claim: where anything is put on one, the form declares it.
LEMMA ClaimDeclared ==
  ASSUME IInv, NEW s \in Sessions, run[s] # Idle, run[s].at = "build",
         Onto(s) # {} \/ upload[run[s].up].form.trip = "good"
  PROVE  upload[run[s].up].form.declared
<1> DEFINE u == run[s].up
           form == upload[u].form
<1>1. Working(s)
  BY DEF IInv
<1>2. u \in Uploads /\ Uploaded(u) /\ upload[u].st # "none"
  BY <1>1 DEF Working, IInv
<1> SUFFICES NeedsDeclaration(form, upload[u].keep)
  BY <1>2 DEF Uploaded
<1>3. CASE form.trip = "good"
  BY <1>3 DEF NeedsDeclaration
<1>4. CASE Onto(s) # {}
  <2>1. PICK n \in DOMAIN run[s].receipts : run[s].to[n] = "eclaim"
    BY <1>4 DEF Onto
  <2>2. PICK m \in DOMAIN form.files : run[s].receipts[n].item = form.files[m].item
    BY <1>1, <2>1 DEF Working, Begun, Backed
  <2>3. upload[u].keep \/ run[s].receipts[n].item \in {None, "eclaim"}
    BY <1>1, <2>1 DEF Working, Decided
  <2>4. CASE upload[u].keep
    <3>1. form.files # <<>>
      BY <2>2
    <3> QED BY <2>4, <3>1 DEF NeedsDeclaration
  <2>5. CASE run[s].receipts[n].item \in {None, "eclaim"}
    BY <2>2, <2>5 DEF NeedsDeclaration, FileSet
  <2> QED BY <2>3, <2>4, <2>5
<1> QED BY <1>3, <1>4

\* A build that files adds one declared claim at most, and one row for an image.
LEMMA FiledIInv ==
  ASSUME IInv, NEW s \in Sessions, run[s] # Idle, run[s].at = "build",
         UNCHANGED <<world, keep, cache>>, NEW refused \in SUBSET Onto(s), Filed(s, refused)
  PROVE  IInv'
<1> DEFINE u == run[s].up
           lines == ImagesOf(s, Onto(s) \ refused)
           trip == upload[u].form.trip = "good"
           added == lines # {} \/ trip
           claim == [lines |-> lines, trip |-> trip, attested |-> upload[u].form.declared]
           claims == IF added THEN Append(upload[u].claims, claim) ELSE upload[u].claims
           new == [upload[u] EXCEPT !.st = "done", !.errors = Bad(s, refused), !.claims = claims]
<1>1. Typed /\ (\A v \in Uploads : Uploaded(v)) /\ (\A t \in Sessions : Working(t)) /\ OneRow(queue)
  BY DEF IInv
<1>2. u \in Uploads /\ upload[u].st # "none" /\ Alone(s) /\ Uploaded(u) /\ upload[u] \in Submission
  BY <1>1 DEF Working, Typed
<1>3. /\ upload' = [upload EXCEPT ![u] = new] /\ run' = [run EXCEPT ![s] = Idle]
      /\ queue' = Diverted(s).rows
      /\ ~(added /\ upload[u].async /\ upload[u].claims # <<>>)
  BY <1>1, <1>2 DEF Filed, Typed
<1>4. Grown(queue', s) /\ OneRow(queue')
  BY <1>1, <1>3, WorkingPlaced, DivertedSound
<1>5. \A n \in DOMAIN run[s].receipts : run[s].receipts[n].image \in Seq(Pages)
  <2>1. run[s].receipts \in Seq(Receipt)
    BY <1>1 DEF Working, Begun, Backed
  <2>2. \A n \in DOMAIN run[s].receipts : run[s].receipts[n] \in Receipt
    BY <2>1
  <2> QED BY <2>2 DEF Receipt
<1>6. DOMAIN run[s].to = DOMAIN run[s].receipts
  BY <1>1 DEF Working, Decided
<1>7. lines \in SUBSET Seq(Pages) /\ Bad(s, refused) \in SUBSET Seq(Pages)
  BY <1>5, <1>6 DEF ImagesOf, Onto, Bad
<1>8. added => upload[u].form.declared
  <2>1. lines # {} => Onto(s) # {}
    BY DEF ImagesOf
  <2> QED BY <2>1, ClaimDeclared
<1>9. /\ claims \in Seq(Claim) /\ Len(claims) <= 1
      /\ \A c \in Range(claims) : c.attested
  <2>1. upload[u].claims \in Seq(Claim) /\ Len(upload[u].claims) <= 1
        /\ \A c \in Range(upload[u].claims) : c.attested
    BY <1>2 DEF Uploaded, Submission
  <2>2. CASE ~added BY <2>1, <2>2
  <2>3. CASE added
    <3>1. upload[u].claims = <<>>
      BY <1>2, <1>3, <2>3 DEF Alone
    <3>2. upload[u].form.declared
      BY <1>8, <2>3
    <3>3. upload[u].form \in Forms
      BY <1>1, <1>2, CaptureAssumption DEF Uploaded, Typed
    <3>4. upload[u].form.declared \in BOOLEAN /\ trip \in BOOLEAN
      BY <3>3 DEF Forms
    <3> HIDE DEF trip, lines
    <3>5. claim \in Claim /\ claim.attested = upload[u].form.declared
      BY <1>7, <3>4 DEF Claim
    <3> HIDE DEF claim, added
    <3>6. claims = <<claim>>
      BY <2>3, <3>1
    <3> HIDE DEF claims
    <3>7. claims \in Seq(Claim) /\ Range(claims) = {claim}
      BY <3>5, <3>6, Single
    <3>8. Len(claims) = 1
      BY <3>6
    <3>9. claim.attested
      BY <3>2, <3>5
    <3> QED BY <3>7, <3>8, <3>9
  <2> QED BY <2>2, <2>3
<1> HIDE DEF claims
<1>10. /\ new \in Submission /\ new.form = upload[u].form /\ new.keep = upload[u].keep
       /\ new.async = upload[u].async /\ new.claims = claims /\ new.st = "done"
  BY <1>2, <1>7, <1>9 DEF Submission
<1> HIDE DEF new
<1>11. /\ DOMAIN run = Sessions /\ DOMAIN upload = Uploads
       /\ upload'[u] = new /\ \A v \in Uploads : v # u => upload'[v] = upload[v]
       /\ run'[s] = Idle /\ \A t \in Sessions : t # s => run'[t] = run[t]
  BY <1>1, <1>2, <1>3 DEF Typed
<1>12. Typed'
  <2>1. queue' \in Seq(Row)
    BY <1>4 DEF Grown
  <2> QED BY <1>1, <1>2, <1>3, <1>10, <1>11, <2>1 DEF Typed
<1>13. ASSUME NEW v \in Uploads PROVE Uploaded(v)'
  <2>1. CASE v = u
    BY <1>2, <1>9, <1>10, <1>11, <2>1 DEF Uploaded
  <2>2. CASE v # u
    BY <1>1, <1>11, <2>2 DEF Uploaded
  <2> QED BY <2>1, <2>2
<1>14. ASSUME NEW t \in Sessions PROVE Working(t)'
  <2>1. CASE t = s
    BY <1>11, <2>1 DEF Working
  <2>2. CASE t # s
    <3>1. run[t] # Idle => run[t].up \in Uploads /\ upload[run[t].up].st # "none" /\ Alone(t)
      BY <1>1 DEF Working
    <3>2. run[t] # Idle /\ run[t].up = u => upload[u].async
      BY <1>2, <2>2 DEF Alone
    <3>3. run[t] # Idle /\ ~upload[run[t].up].async =>
            \A z \in Sessions : z # t /\ run'[z] # Idle => run'[z].up # run[t].up
      BY <1>11, <3>1 DEF Alone
    <3>4. \A i \in DOMAIN queue : i \in DOMAIN queue' /\ queue'[i].image = queue[i].image
      BY <1>4 DEF Grown
    <3>5. Undisturbed(t)
      <4>1. CASE run[t] = Idle BY <1>11, <2>2, <3>4, <4>1 DEF Undisturbed
      <4>2. CASE run[t] # Idle /\ run[t].up = u
        BY <1>10, <1>11, <2>2, <3>2, <3>4, <4>2 DEF Undisturbed
      <4>3. CASE run[t] # Idle /\ run[t].up # u
        BY <1>11, <2>2, <3>1, <3>3, <3>4, <4>3 DEF Undisturbed
      <4> QED BY <4>1, <4>2, <4>3
    <3> QED BY <1>1, <3>5, UndisturbedWorks
  <2> QED BY <2>1, <2>2
<1> QED BY <1>4, <1>12, <1>13, <1>14 DEF IInv

\* The build keeps the invariant.
LEMMA BuildIInv == ASSUME IInv, NEW s \in Sessions, Build(s) PROVE IInv'
BY BuildCases, ConcludeIInv, FiledIInv

\* A crash keeps the invariant.
LEMMA CrashIInv == ASSUME IInv, NEW s \in Sessions, Crash(s) PROVE IInv'
<1>1. Typed /\ (\A v \in Uploads : Uploaded(v)) /\ Working(s) /\ OneRow(queue)
  BY DEF IInv
<1>2. run[s] # Idle /\ run' = [run EXCEPT ![s] = Idle] /\ UNCHANGED <<world, keep, queue, cache>>
  BY DEF Crash
<1>3. CASE ~upload[run[s].up].async
  BY <1>2, <1>3, ConcludeIInv DEF Crash, Conclude
<1>4. CASE upload[run[s].up].async
  <2>1. UNCHANGED upload
    BY <1>4 DEF Crash
  <2>2. \A t \in Sessions : t # s => Working(t)'
    BY <1>2, <2>1, OthersWork
  <2>3. Working(s)'
    BY <1>1, <1>2 DEF Working, Typed
  <2>4. Typed' /\ OneRow(queue)' /\ \A v \in Uploads : Uploaded(v)'
    BY <1>1, <1>2, <2>1 DEF Typed, OneRow, Uploaded
  <2> QED BY <2>2, <2>3, <2>4 DEF IInv
<1> QED BY <1>3, <1>4

\* A review changes the state of a row only.
LEMMA ProcessIInv == ASSUME IInv, NEW i \in DOMAIN queue, Process(i) PROVE IInv'
<1>1. Typed /\ (\A v \in Uploads : Uploaded(v)) /\ (\A t \in Sessions : Working(t)) /\ OneRow(queue)
  BY DEF IInv
<1> DEFINE new == [queue[i] EXCEPT !.st = "consumed"]
<1>2. queue' = [queue EXCEPT ![i] = new] /\ UNCHANGED <<world, keep, upload, cache, run>>
  BY DEF Process
<1>3. queue \in Seq(Row) /\ queue[i] \in Row
  BY <1>1 DEF Typed
<1>4. new \in Row /\ new.image = queue[i].image /\ new.job = queue[i].job
  BY <1>3 DEF Row
<1> HIDE DEF new
<1>5. queue' \in Seq(Row)
  BY <1>2, <1>3, <1>4
<1>6. DOMAIN queue' = DOMAIN queue /\ \A j \in DOMAIN queue :
        queue'[j].image = queue[j].image /\ queue'[j].job = queue[j].job
  BY <1>2, <1>4
<1>7. OneRow(queue')
  BY <1>1, <1>6 DEF OneRow
<1>8. \A t \in Sessions : Working(t)'
  <2> SUFFICES ASSUME NEW t \in Sessions PROVE Working(t)'
    OBVIOUS
  <2>1. Undisturbed(t)
    BY <1>1, <1>2, <1>6 DEF Undisturbed, Working, Alone
  <2> QED BY <1>1, <2>1, UndisturbedWorks
<1>9. Typed' /\ \A v \in Uploads : Uploaded(v)'
  BY <1>1, <1>2, <1>5 DEF Typed, Uploaded
<1> QED BY <1>7, <1>8, <1>9 DEF IInv

\* Every step keeps the invariant.
LEMMA NextIInv == ASSUME IInv, [Next]_vars PROVE IInv'
<1>1. ASSUME NEW s \in world.sessions PROVE s \in Sessions
  BY DEF IInv, Typed, Sessions
<1>2. ASSUME NEW s \in world.sessions, NEW u \in Uploads, Take(s, u) PROVE IInv'
  BY <1>1, <1>2, TakeIInv
<1>3. ASSUME NEW s \in world.sessions, NEW u \in Uploads, NEW form \in world.forms, Capture(s, u, form)
      PROVE  IInv'
  BY <1>1, <1>3, CaptureIInv
<1>4. ASSUME NEW s \in world.sessions, FoundFiled(s) PROVE IInv'
  <2>1. run[s] # Idle /\ Conclude(s, "done") /\ UNCHANGED <<world, keep, queue, cache>>
    BY <1>4 DEF FoundFiled, Idle
  <2> QED BY <1>1, <2>1, ConcludeIInv
<1>5. ASSUME NEW s \in world.sessions, BadHeader(s) PROVE IInv'
  <2>1. run[s] # Idle /\ Conclude(s, "failed") /\ UNCHANGED <<world, keep, queue, cache>>
    BY <1>5 DEF BadHeader, Idle
  <2> QED BY <1>1, <2>1, ConcludeIInv
<1>6. ASSUME NEW s \in world.sessions, Raise(s) PROVE IInv'
  <2>1. PICK st \in {"done", "failed"} : Conclude(s, st)
    BY <1>6 DEF Raise
  <2>2. run[s] # Idle /\ UNCHANGED <<world, keep, queue, cache>>
    BY <1>6 DEF Raise
  <2> QED BY <1>1, <2>1, <2>2, ConcludeIInv
<1>7. ASSUME NEW s \in world.sessions, Begin(s) \/ Recognise(s) \/ Lookup(s) PROVE IInv'
  BY <1>1, <1>7, BeginIInv, RecogniseIInv, LookupIInv
<1>8. ASSUME NEW s \in world.sessions, Build(s) \/ Crash(s) PROVE IInv'
  BY <1>1, <1>8, BuildIInv, CrashIInv
<1>9. ASSUME NEW i \in DOMAIN queue, Process(i) PROVE IInv'
  BY <1>9, ProcessIInv
<1>10. CASE SetRouting
  BY <1>10, SetRoutingIInv
<1>11. CASE UNCHANGED vars
  <2>1. UNCHANGED <<world, keep, upload, queue, cache, run>>
    BY <1>11 DEF vars
  <2>2. Typed' /\ OneRow(queue)'
    BY <2>1 DEF IInv, Typed, OneRow
  <2>3. \A u \in Uploads : Uploaded(u)'
    BY <2>1 DEF IInv, Uploaded
  <2>4. \A t \in Sessions : Working(t)'
    BY <2>1, StillWork
  <2> QED BY <2>2, <2>3, <2>4 DEF IInv
<1> QED BY <1>2, <1>3, <1>4, <1>5, <1>6, <1>7, <1>8, <1>9, <1>10, <1>11 DEF Next

\* UploadFiles: whatever runs of an upload overlap, crash and read the pages
\* differently, it becomes one claim at most and one row for an image at most
\* (uq_claim_ingestion_job, uq_document_intake_job_sha), and every claim was
\* declared: the gate foresees what the later readings make of the form.
THEOREM FilesSound == Spec => []UploadFiles
<1>1. IInv => UploadFiles
  BY DEF IInv, Uploaded, OneRow, UploadFiles, OneRunFiles, ClaimsDeclared
<1>2. IInv /\ [Next]_vars => IInv'
  BY NextIInv
<1> QED BY <1>1, <1>2, InitIInv, PTL DEF Spec

-----------------------------------------------------------------------------
(***************************************************************************)
(* One run at a time: every page of an upload is accounted for.            *)
(***************************************************************************)

\* A run works on an upload that is not done and holds its pages, each in one
\* receipt unless the form repeats it.
Whole(s) ==
  LET r == run[s] IN
  r # Idle =>
    /\ upload[r.up].st \in {"inline", "running"}
    /\ r.at # "taken" => /\ PagesIn(r.receipts) = Submitted(r.up)
                         /\ Repeatless(upload[r.up].form) => Apart(r.receipts)

\* Nothing of upload u is on a claim or in the queue.
Untouched(u) ==
  /\ upload[u].claims = <<>>
  /\ \A i \in DOMAIN queue : queue[i].by # u /\ queue[i].job # u

\* An upload that is not done has left nothing; of one that is done every page
\* is accounted for.
Settled(u) ==
  /\ upload[u].st = "done" =>
       /\ Submitted(u) \subseteq OnClaims(u) \cup InQueue \cup PagesOf(upload[u].errors)
       /\ Repeatless(upload[u].form) =>
            /\ OnClaims(u) \cap HeldBy(u) = {}
            /\ PagesOf(upload[u].errors) \cap (OnClaims(u) \cup HeldBy(u)) = {}
  /\ upload[u].st # "done" => Untouched(u)

\* The account of a world whose runs do not overlap.
Calm == (\A s \in Sessions : Whole(s)) /\ (\A u \in Uploads : Settled(u))

SInv == IInv /\ (Serial => Calm)

\* The pages of the rows that upload u added.
Mine(rows, u) == PagesOf({row.image : row \in {q \in Range(rows) : q.by = u}})

\* The pages of images, of a form, of claims, of rows, of the rows of an upload.
LEMMA PagesUnfolded ==
  /\ \A images, p : p \in PagesOf(images) <=> \E image \in images : p \in Range(image)
  /\ \A form, p : p \in PagesOf({f.pages : f \in FileSet(form)}) <=>
       \E m \in DOMAIN form.files : p \in Range(form.files[m].pages)
  /\ \A claims, p : p \in PagesOf(UNION {c.lines : c \in Range(claims)}) <=>
       \E c \in Range(claims) : \E image \in c.lines : p \in Range(image)
  /\ \A rows, p : p \in PagesOf({row.image : row \in Range(rows)}) <=>
       \E i \in DOMAIN rows : p \in Range(rows[i].image)
  /\ \A rows, u, p : p \in Mine(rows, u) <=>
       \E i \in DOMAIN rows : rows[i].by = u /\ p \in Range(rows[i].image)
<1>1. \A images, p : p \in PagesOf(images) <=> \E image \in images : p \in Range(image)
  BY DEF PagesOf
<1>2. \A form, p : p \in PagesOf({f.pages : f \in FileSet(form)}) <=>
        \E m \in DOMAIN form.files : p \in Range(form.files[m].pages)
  BY <1>1 DEF FileSet
<1>3. \A claims, p : p \in PagesOf(UNION {c.lines : c \in Range(claims)}) <=>
       \E c \in Range(claims) : \E image \in c.lines : p \in Range(image)
  BY <1>1
<1>4. \A rows, q : q \in Range(rows) <=> \E i \in DOMAIN rows : q = rows[i]
  BY DEF Range
<1>5. \A rows, p : p \in PagesOf({row.image : row \in Range(rows)}) <=>
       \E i \in DOMAIN rows : p \in Range(rows[i].image)
  BY <1>1, <1>4
<1>7. ASSUME NEW rows, NEW u
      PROVE  \A p : p \in Mine(rows, u) <=>
               \E i \in DOMAIN rows : rows[i].by = u /\ p \in Range(rows[i].image)
  BY <1>1, <1>4 DEF Mine
<1> QED BY <1>1, <1>2, <1>3, <1>5, <1>7

\* The rows that upload u added, in this state and in the next.
LEMMA HeldUnfolded ==
  ASSUME NEW u
  PROVE  HeldBy(u) = Mine(queue, u) /\ HeldBy(u)' = Mine(queue', u)
BY DEF HeldBy, Mine

\* In a serial world nobody else runs.
LEMMA OneSession ==
  ASSUME IInv, Serial, NEW s \in world.sessions, NEW t \in Sessions, run[t] # Idle
  PROVE  s = t
<1>1. IsFiniteSet(world.sessions)
  BY CaptureAssumption DEF IInv, Typed
<1>2. PICK x : world.sessions = {x}
  BY <1>1, FS_Singleton DEF Serial
<1>3. t \in world.sessions
  BY DEF IInv, Working
<1> QED BY <1>2, <1>3

\* A step of s leaves the others idle.
LEMMA OnlyRun ==
  ASSUME IInv, Serial, NEW s \in world.sessions, s \in Sessions, NEW r,
         run' = [run EXCEPT ![s] = r], Whole(s)'
  PROVE  \A t \in Sessions : Whole(t)'
<1> SUFFICES ASSUME NEW t \in Sessions, t # s PROVE Whole(t)'
  OBVIOUS
<1>1. run[t] = Idle
  BY OneSession
<1>2. run'[t] = Idle
  BY <1>1 DEF IInv, Typed
<1> QED BY <1>2 DEF Whole

\* The upload that is worked on is not done and has left nothing.
LEMMA InHand ==
  ASSUME IInv, Calm, NEW s \in Sessions, run[s] # Idle
  PROVE  /\ run[s].up \in Uploads /\ upload[run[s].up] \in Submission
         /\ upload[run[s].up].st \in {"inline", "running"} /\ Untouched(run[s].up)
<1>1. run[s].up \in Uploads /\ upload \in [Uploads -> Submission]
  BY DEF IInv, Working, Typed
<1>2. upload[run[s].up].st \in {"inline", "running"}
  BY DEF Calm, Whole
<1>3. Settled(run[s].up)
  BY <1>1 DEF Calm
<1> QED BY <1>1, <1>2, <1>3 DEF Settled

\* A step leaves the claims, the errors and the form of upload v, and whether
\* it is done.
LeavesUpload(v) ==
  /\ upload'[v].form = upload[v].form /\ upload'[v].claims = upload[v].claims
  /\ upload'[v].errors = upload[v].errors
  /\ upload'[v].st = "done" <=> upload[v].st = "done"

\* It leaves the rows of the queue in place and adds none of upload v.
LeavesRows(v) ==
  /\ \A i \in DOMAIN queue : /\ i \in DOMAIN queue' /\ queue'[i].image = queue[i].image
                             /\ queue'[i].by = queue[i].by /\ queue'[i].job = queue[i].job
  /\ \A i \in DOMAIN queue' : i \notin DOMAIN queue => queue'[i].by # v /\ queue'[i].job # v

\* An upload that a step leaves alone stays settled.
LEMMA SettledStays ==
  ASSUME NEW v \in Uploads, Settled(v), LeavesUpload(v), LeavesRows(v) PROVE Settled(v)'
<1>1. upload'[v].st = "done" <=> upload[v].st = "done"
  BY DEF LeavesUpload
<1>2. Submitted(v)' = Submitted(v) /\ OnClaims(v)' = OnClaims(v)
  BY DEF Submitted, OnClaims, LeavesUpload
<1>3. InQueue \subseteq InQueue'
  <2> SUFFICES ASSUME NEW p \in InQueue PROVE p \in InQueue'
    OBVIOUS
  <2>1. PICK i \in DOMAIN queue : p \in Range(queue[i].image)
    BY PagesUnfolded DEF InQueue
  <2>2. i \in DOMAIN queue' /\ p \in Range(queue'[i].image)
    BY <2>1 DEF LeavesRows
  <2> QED BY <2>2, PagesUnfolded DEF InQueue
<1>4. HeldBy(v)' \subseteq HeldBy(v)
  <2> SUFFICES ASSUME NEW p \in HeldBy(v)' PROVE p \in HeldBy(v)
    OBVIOUS
  <2>1. PICK i \in DOMAIN queue' : queue'[i].by = v /\ p \in Range(queue'[i].image)
    BY PagesUnfolded, HeldUnfolded
  <2>2. i \in DOMAIN queue /\ queue[i].by = v /\ p \in Range(queue[i].image)
    BY <2>1 DEF LeavesRows
  <2> QED BY <2>2, PagesUnfolded, HeldUnfolded
<1>5. upload'[v].errors = upload[v].errors /\ upload'[v].form = upload[v].form
  BY DEF LeavesUpload
<1>6. upload[v].st # "done" => Untouched(v)'
  <2> SUFFICES ASSUME upload[v].st # "done" PROVE Untouched(v)'
    OBVIOUS
  <2>1. upload[v].claims = <<>> /\ \A i \in DOMAIN queue : queue[i].by # v /\ queue[i].job # v
    BY DEF Settled, Untouched
  <2> QED BY <2>1 DEF Untouched, LeavesUpload, LeavesRows
<1>7. upload[v].st = "done" =>
        /\ Submitted(v) \subseteq OnClaims(v) \cup InQueue \cup PagesOf(upload[v].errors)
        /\ Repeatless(upload[v].form) =>
             /\ OnClaims(v) \cap HeldBy(v) = {}
             /\ PagesOf(upload[v].errors) \cap (OnClaims(v) \cup HeldBy(v)) = {}
  BY DEF Settled
<1>8. ASSUME upload[v].st = "done"
      PROVE  /\ Submitted(v)' \subseteq OnClaims(v)' \cup InQueue' \cup PagesOf(upload'[v].errors)
             /\ Repeatless(upload'[v].form) =>
                  /\ OnClaims(v)' \cap HeldBy(v)' = {}
                  /\ PagesOf(upload'[v].errors) \cap (OnClaims(v)' \cup HeldBy(v)') = {}
  BY <1>2, <1>3, <1>4, <1>5, <1>7, <1>8
<1> QED BY <1>1, <1>5, <1>6, <1>8 DEF Settled

\* A step that changes no claim, form or error, adds no row, and leaves the runs
\* that go on whole.
LEMMA CalmStays ==
  ASSUME Calm, \A v \in Uploads : LeavesUpload(v) /\ LeavesRows(v),
         \A t \in Sessions : Whole(t)'
  PROVE  Calm'
BY SettledStays DEF Calm

\* What a queue has that only grows or is reviewed.
LEMMA RowsStay ==
  ASSUME NEW v \in Uploads, UNCHANGED queue PROVE LeavesRows(v)
BY DEF LeavesRows

\* A form that is accepted has left nothing yet.
LEMMA CaptureCalm ==
  ASSUME IInv, Serial, Calm, NEW s \in world.sessions, s \in Sessions, NEW u \in Uploads,
         NEW form \in world.forms, Capture(s, u, form)
  PROVE  Calm'
<1> DEFINE async == Units(form) > InlineMax
           r == IF async THEN Idle ELSE [at |-> "taken", up |-> u]
           new == [NoUpload EXCEPT !.form = form, !.keep = keep.now, !.async = async,
                                   !.st = IF async THEN "queued" ELSE "inline",
                                   !.runs = IF async THEN 0 ELSE 1]
<1>1. /\ run[s] = Idle /\ upload[u].st = "none" /\ UNCHANGED <<world, queue>>
      /\ run' = [run EXCEPT ![s] = r] /\ upload' = [upload EXCEPT ![u] = new]
  BY DEF Capture
<1>2. /\ new.claims = <<>> /\ new.st = (IF async THEN "queued" ELSE "inline") /\ new.st # "done"
  BY DEF NoUpload
<1> HIDE DEF async, new
<1>3. DOMAIN run = Sessions /\ upload \in [Uploads -> Submission]
  BY DEF IInv, Typed
<1>4. upload'[u] = new /\ \A v \in Uploads : v # u => upload'[v] = upload[v]
  BY <1>1, <1>3
<1>5. ASSUME NEW v \in Uploads PROVE Settled(v)'
  <2>1. CASE v = u
    <3>1. Untouched(u)
      BY <1>1 DEF Calm, Settled
    <3> QED BY <1>1, <1>2, <1>4, <2>1, <3>1 DEF Settled, Untouched
  <2>2. CASE v # u
    <3>1. LeavesUpload(v) /\ LeavesRows(v)
      BY <1>1, <1>4, <2>2, RowsStay DEF LeavesUpload
    <3> QED BY <3>1, SettledStays DEF Calm
  <2> QED BY <2>1, <2>2
<1>6. Whole(s)'
  <2>1. run'[s] = r
    BY <1>1, <1>3
  <2>2. CASE async
    BY <2>1, <2>2 DEF Whole
  <2>3. CASE ~async
    <3>1. run'[s] = [at |-> "taken", up |-> u]
      BY <2>1, <2>3
    <3> QED BY <1>2, <1>4, <2>3, <3>1 DEF Whole
  <2> QED BY <2>2, <2>3
<1>7. \A t \in Sessions : Whole(t)'
  BY <1>1, <1>6, OnlyRun
<1> QED BY <1>5, <1>7 DEF Calm

\* A run ends without a result.
LEMMA FailCalm ==
  ASSUME IInv, Serial, Calm, NEW s \in world.sessions, s \in Sessions, run[s] # Idle,
         Conclude(s, "failed"), UNCHANGED queue
  PROVE  Calm'
<1> DEFINE u == run[s].up
           new == [upload[u] EXCEPT !.st = "failed"]
<1>1. /\ u \in Uploads /\ upload[u] \in Submission /\ upload[u].st # "done"
      /\ upload \in [Uploads -> Submission] /\ DOMAIN run = Sessions
  BY InHand DEF IInv, Typed
<1>2. upload' = [upload EXCEPT ![u] = new] /\ run' = [run EXCEPT ![s] = Idle]
  BY DEF Conclude
<1>3. /\ new.form = upload[u].form /\ new.claims = upload[u].claims
      /\ new.errors = upload[u].errors /\ new.st = "failed"
  BY <1>1 DEF Submission
<1> HIDE DEF new
<1>4. upload'[u] = new /\ \A v \in Uploads : v # u => upload'[v] = upload[v]
  BY <1>1, <1>2
<1>5. \A v \in Uploads : LeavesUpload(v)
  BY <1>1, <1>3, <1>4 DEF LeavesUpload
<1>6. run'[s] = Idle
  BY <1>1, <1>2
<1>7. Whole(s)'
  BY <1>6 DEF Whole
<1>8. \A t \in Sessions : Whole(t)'
  BY <1>2, <1>7, OnlyRun
<1> QED BY <1>5, <1>8, RowsStay, CalmStays

\* A job that is taken again has left nothing either.
LEMMA TakeCalm ==
  ASSUME IInv, Serial, Calm, NEW s \in world.sessions, s \in Sessions, NEW u \in Uploads,
         Take(s, u)
  PROVE  Calm'
<1> DEFINE new == [upload[u] EXCEPT !.st = "running", !.runs = @ + 1]
           r == [at |-> "taken", up |-> u]
<1>1. /\ upload[u].st \in {"queued", "running"} /\ UNCHANGED <<world, queue>>
      /\ upload' = [upload EXCEPT ![u] = new] /\ run' = [run EXCEPT ![s] = r]
  BY DEF Take
<1>2. upload \in [Uploads -> Submission] /\ DOMAIN run = Sessions
  BY DEF IInv, Typed
<1>3. /\ new.form = upload[u].form /\ new.claims = upload[u].claims
      /\ new.errors = upload[u].errors /\ new.st = "running"
  <2>1. upload[u] \in Submission
    BY <1>2
  <2> QED BY <2>1 DEF Submission
<1> HIDE DEF new
<1>4. upload'[u] = new /\ \A v \in Uploads : v # u => upload'[v] = upload[v]
  BY <1>1, <1>2
<1>5. \A v \in Uploads : LeavesUpload(v)
  BY <1>1, <1>3, <1>4 DEF LeavesUpload
<1>6. Whole(s)'
  <2>1. run'[s] = r /\ r.at = "taken" /\ r.up = u
    BY <1>1, <1>2
  <2> QED BY <1>3, <1>4, <2>1 DEF Whole
<1>7. \A t \in Sessions : Whole(t)'
  BY <1>1, <1>6, OnlyRun
<1> QED BY <1>1, <1>5, <1>7, RowsStay, CalmStays

\* A step within a run changes no upload and no row.
LEMMA StepCalm ==
  ASSUME IInv, Serial, Calm, NEW s \in world.sessions, s \in Sessions,
         UNCHANGED <<world, upload, queue>>, NEW r, run' = [run EXCEPT ![s] = r], Whole(s)'
  PROVE  Calm'
<1>1. \A t \in Sessions : Whole(t)'
  BY OnlyRun
<1>2. \A v \in Uploads : LeavesUpload(v)
  BY DEF LeavesUpload
<1> QED BY <1>1, <1>2, RowsStay, CalmStays

\* The receipts of a run hold the pages of its form.
LEMMA BeginCalm ==
  ASSUME IInv, Serial, Calm, NEW s \in world.sessions, s \in Sessions, Begin(s)
  PROVE  Calm'
<1>0. PICK u : u = run[s].up
  OBVIOUS
<1> DEFINE form == upload[u].form
<1>1. run[s] # Idle /\ run[s].at = "taken" /\ UNCHANGED <<world, upload, queue>>
  BY DEF Begin, Idle
<1>2. PICK rs \in Flattened(form, world.split) :
        run' = [run EXCEPT ![s] = [at |-> "read", up |-> u, receipts |-> rs, hits |-> Hits(rs)]]
  BY <1>0 DEF Begin
<1>3. /\ u \in Uploads /\ upload[u].st \in {"inline", "running"} /\ Uploaded(u)
      /\ DOMAIN run = Sessions /\ world \in Worlds
  BY <1>0, <1>1, InHand DEF IInv, Typed
<1>4. form \in Forms
  BY <1>3, CaptureAssumption DEF Uploaded
<1>5. PagesIn(rs) = PagesUpto(form, Len(form.files)) /\ (Repeatless(form) => Apart(rs))
  BY <1>4, FlattenedSound
<1>6. PagesUpto(form, Len(form.files)) = Submitted(u)
  <2>1. DOMAIN form.files = 1 .. Len(form.files)
    BY <1>4 DEF Forms
  <2>2. ASSUME NEW m \in DOMAIN form.files PROVE Range(form.files[m].pages) \subseteq Pages
    <3>1. form.files[m] \in Files
      BY <1>4 DEF Forms
    <3>2. form.files[m].pages \in Seq(Pages)
      BY <3>1 DEF Files
    <3> QED BY <3>2 DEF Range
  <2>3. \A p : p \in Submitted(u) <=> \E m \in DOMAIN form.files : p \in Range(form.files[m].pages)
    BY PagesUnfolded DEF Submitted
  <2> QED BY <2>1, <2>2, <2>3 DEF PagesUpto
<1> DEFINE r == [at |-> "read", up |-> u, receipts |-> rs, hits |-> Hits(rs)]
<1>7. run'[s] = r /\ run' = [run EXCEPT ![s] = r]
  BY <1>2, <1>3
<1>8. r.at = "read" /\ r.up = u /\ r.receipts = rs
  OBVIOUS
<1> HIDE DEF r
<1>9. Submitted(u)' = Submitted(u)
  BY <1>1 DEF Submitted
<1>10. Whole(s)'
  BY <1>1, <1>3, <1>5, <1>6, <1>7, <1>8, <1>9 DEF Whole
<1> QED BY <1>1, <1>7, <1>10, StepCalm

\* The reading and the twins leave the receipts as they are.
LEMMA SameReceiptsCalm ==
  ASSUME IInv, Serial, Calm, NEW s \in world.sessions, s \in Sessions,
         run[s] # Idle, run[s].at # "taken", UNCHANGED <<world, upload, queue>>,
         NEW r, run' = [run EXCEPT ![s] = r],
         r.up = run[s].up, r.receipts = run[s].receipts
  PROVE  Calm'
<1>1. run'[s] = r
  BY DEF IInv, Typed
<1>2. Whole(s)
  BY DEF Calm
<1>3. \A u : Submitted(u)' = Submitted(u)
  BY DEF Submitted
<1>4. Whole(s)'
  BY <1>1, <1>2, <1>3 DEF Whole
<1> QED BY <1>4, StepCalm

\* Reading leaves the receipts as they are.
LEMMA RecogniseCalm ==
  ASSUME IInv, Serial, Calm, NEW s \in world.sessions, s \in Sessions, Recognise(s)
  PROVE  Calm'
<1>1. run[s] # Idle /\ run[s].at = "read" /\ UNCHANGED <<world, upload, queue>>
  BY DEF Recognise, Idle
<1>2. PICK read : run' = [run EXCEPT ![s] =
        [at |-> "lookup", up |-> run[s].up, receipts |-> run[s].receipts, read |-> read]]
  BY DEF Recognise
<1> DEFINE r == [at |-> "lookup", up |-> run[s].up, receipts |-> run[s].receipts, read |-> read]
<1>3. r.up = run[s].up /\ r.receipts = run[s].receipts /\ run' = [run EXCEPT ![s] = r]
  BY <1>2
<1> HIDE DEF r
<1> QED BY <1>1, <1>3, SameReceiptsCalm

\* So does the search for twins.
LEMMA LookupCalm ==
  ASSUME IInv, Serial, Calm, NEW s \in world.sessions, s \in Sessions, Lookup(s)
  PROVE  Calm'
<1>1. run[s] # Idle /\ run[s].at = "lookup" /\ UNCHANGED <<world, upload, queue>>
  BY DEF Lookup, Idle
<1>2. PICK to, twin : run' = [run EXCEPT ![s] =
        [at |-> "build", up |-> run[s].up, receipts |-> run[s].receipts, to |-> to, twin |-> twin]]
  BY DEF Lookup
<1> DEFINE r == [at |-> "build", up |-> run[s].up, receipts |-> run[s].receipts,
                 to |-> to, twin |-> twin]
<1>3. r.up = run[s].up /\ r.receipts = run[s].receipts /\ run' = [run EXCEPT ![s] = r]
  BY <1>2
<1> HIDE DEF r
<1> QED BY <1>1, <1>3, SameReceiptsCalm

\* Where the pages of a run go: every receipt is a line, held, or an error, and
\* no page has two of these places where the receipts are apart.
LEMMA PlacesSound ==
  ASSUME IInv, NEW s \in Sessions, run[s] # Idle, run[s].at = "build",
         NEW refused \in SUBSET Onto(s)
  PROVE  /\ DOMAIN run[s].receipts =
              (Onto(s) \ refused) \cup Due(s)
                \cup (refused \cup {n \in DOMAIN run[s].to : run[s].to[n] = "error"})
         /\ (Onto(s) \ refused) \cap Due(s) = {}
         /\ (refused \cup {n \in DOMAIN run[s].to : run[s].to[n] = "error"})
              \cap ((Onto(s) \ refused) \cup Due(s)) = {}
<1>1. Decided(s)
  BY DEF IInv, Working
<1>2. /\ DOMAIN run[s].to = DOMAIN run[s].receipts
      /\ \A n \in DOMAIN run[s].receipts : run[s].to[n] \in {"eclaim", "ap_holding", "pending", "error"}
  BY <1>1 DEF Decided, Results, Routes
<1> QED BY <1>2 DEF Onto, Due

\* A build that files gives every page its place.
LEMMA FiledCalm ==
  ASSUME IInv, Serial, Calm, NEW s \in world.sessions, s \in Sessions,
         run[s] # Idle, run[s].at = "build", UNCHANGED world,
         NEW refused \in SUBSET Onto(s), Filed(s, refused)
  PROVE  Calm'
<1>0. PICK u : u = run[s].up
  OBVIOUS
<1> USE <1>0
<1> DEFINE rs == run[s].receipts
           kept == Onto(s) \ refused
           gone == refused \cup {n \in DOMAIN run[s].to : run[s].to[n] = "error"}
           lines == ImagesOf(s, kept)
           trip == upload[u].form.trip = "good"
           added == lines # {} \/ trip
           claim == [lines |-> lines, trip |-> trip, attested |-> upload[u].form.declared]
           claims == IF added THEN <<claim>> ELSE <<>>
           new == [upload[u] EXCEPT !.st = "done", !.errors = Bad(s, refused), !.claims = claims]
<1>1. /\ u \in Uploads /\ upload[u] \in Submission /\ Untouched(u)
      /\ upload \in [Uploads -> Submission] /\ DOMAIN run = Sessions
  BY InHand DEF IInv, Typed
<1>2. /\ upload' = [upload EXCEPT ![u] = new] /\ run' = [run EXCEPT ![s] = Idle]
      /\ queue' = Diverted(s).rows
  <2>1. Append(<<>>, claim) = <<claim>>
    OBVIOUS
  <2>2. upload[u].claims = <<>>
    BY <1>1 DEF Untouched
  <2>3. /\ run' = [run EXCEPT ![s] = Idle] /\ queue' = Diverted(s).rows
        /\ upload' = [upload EXCEPT
             ![u].st = "done", ![u].errors = Bad(s, refused),
             ![u].claims = IF added THEN Append(@, claim) ELSE @]
    BY DEF Filed
  <2> HIDE DEF added, claim
  <2>4. (IF added THEN Append(upload[u].claims, claim) ELSE upload[u].claims) = claims
    BY <2>1, <2>2
  <2> HIDE DEF claims
  <2> QED BY <1>1, <2>3, <2>4
<1>3. /\ new.form = upload[u].form /\ new.claims = claims
      /\ new.errors = Bad(s, refused) /\ new.st = "done"
  BY <1>1 DEF Submission
<1>4. upload'[u] = new /\ \A v \in Uploads : v # u => upload'[v] = upload[v]
  BY <1>1, <1>2
<1> HIDE DEF new
<1>5. /\ Grown(queue', s)
      /\ \A n \in Due(s) : \E i \in DOMAIN queue' : queue'[i].image = rs[n].image
  BY <1>2, WorkingPlaced, DivertedSound
<1>6. /\ DOMAIN rs = kept \cup Due(s) \cup gone
      /\ kept \cap Due(s) = {} /\ gone \cap (kept \cup Due(s)) = {}
  BY PlacesSound
<1>7. PagesIn(rs) = Submitted(u) /\ (Repeatless(upload[u].form) => Apart(rs))
  BY DEF Calm, Whole
<1> DEFINE In(ns, p) == \E n \in ns : p \in Range(rs[n].image)
<1>8. ASSUME NEW p PROVE p \in OnClaims(u)' <=> In(kept, p)
  <2>1. OnClaims(u)' = PagesOf(UNION {c.lines : c \in Range(claims)})
    BY <1>3, <1>4 DEF OnClaims
  <2>2. In(kept, p) => added
    BY DEF ImagesOf
  <2>3. CASE added
    <3>1. claims = <<claim>>
      BY <2>3
    <3> HIDE DEF claim, claims
    <3>2. Range(claims) = {claim}
      BY <3>1, Single
    <3>3. UNION {c.lines : c \in Range(claims)} = claim.lines
      BY <3>2
    <3>4. claim.lines = lines
      BY DEF claim
    <3>5. p \in PagesOf(lines) <=> In(kept, p)
      BY PagesUnfolded DEF ImagesOf
    <3> QED BY <2>1, <3>3, <3>4, <3>5
  <2>4. CASE ~added
    <3>1. claims = <<>>
      BY <2>4
    <3>2. UNION {c.lines : c \in Range(claims)} = {}
      BY <3>1 DEF Range
    <3>3. p \notin PagesOf({})
      BY PagesUnfolded
    <3> QED BY <2>1, <2>2, <2>4, <3>2, <3>3
  <2> QED BY <2>3, <2>4
<1>9. ASSUME NEW p PROVE p \in PagesOf(upload'[u].errors) <=> In(gone, p)
  <2>1. upload'[u].errors = ImagesOf(s, refused)
          \cup ImagesOf(s, {n \in DOMAIN run[s].to : run[s].to[n] = "error"})
    BY <1>3, <1>4 DEF Bad
  <2> QED BY <2>1, PagesUnfolded DEF ImagesOf
<1>10. ASSUME NEW p \in HeldBy(u)' PROVE In(Due(s), p)
  <2>1. PICK i \in DOMAIN queue' : queue'[i].by = u /\ p \in Range(queue'[i].image)
    BY PagesUnfolded, HeldUnfolded
  <2>2. i \notin DOMAIN queue
    BY <1>1, <1>5, <2>1 DEF Untouched, Grown
  <2> QED BY <1>5, <2>1, <2>2 DEF Grown
<1>11. ASSUME NEW p, In(Due(s), p) PROVE p \in InQueue'
  <2>1. PICK n \in Due(s) : p \in Range(rs[n].image)
    BY <1>11
  <2>2. PICK i \in DOMAIN queue' : queue'[i].image = rs[n].image
    BY <1>5
  <2>3. i \in DOMAIN queue' /\ p \in Range(queue'[i].image)
    BY <2>1, <2>2
  <2> QED BY <2>3, PagesUnfolded DEF InQueue
<1>12. Settled(u)'
  <2>1. Submitted(u)' = Submitted(u)
    <3>1. upload'[u].form = upload[u].form
      BY <1>3, <1>4
    <3> QED BY <3>1 DEF Submitted
  <2>2. \A p : p \in Submitted(u) => In(kept, p) \/ In(Due(s), p) \/ In(gone, p)
    BY <1>6, <1>7 DEF PagesIn
  <2>3. Submitted(u)' \subseteq OnClaims(u)' \cup InQueue' \cup PagesOf(upload'[u].errors)
    <3> HIDE DEF In
    <3> QED BY <1>8, <1>9, <1>11, <2>1, <2>2
  <2>4. ASSUME Repeatless(upload[u].form), NEW A, NEW B, A \subseteq DOMAIN rs,
               B \subseteq DOMAIN rs, A \cap B = {}
        PROVE  \A p : ~(In(A, p) /\ In(B, p))
    BY <1>7, <2>4 DEF Apart
  <2>5. Repeatless(upload[u].form) => \A p : /\ ~(In(kept, p) /\ In(Due(s), p))
                                             /\ ~(In(gone, p) /\ In(kept, p))
                                             /\ ~(In(gone, p) /\ In(Due(s), p))
    <3>1. kept \subseteq DOMAIN rs /\ Due(s) \subseteq DOMAIN rs /\ gone \subseteq DOMAIN rs
          /\ kept \cap Due(s) = {} /\ gone \cap kept = {} /\ gone \cap Due(s) = {}
      BY <1>6
    <3> HIDE DEF In, kept, gone
    <3> QED BY <2>4, <3>1
  <2>6. Repeatless(upload[u].form) =>
          /\ OnClaims(u)' \cap HeldBy(u)' = {}
          /\ PagesOf(upload'[u].errors) \cap (OnClaims(u)' \cup HeldBy(u)') = {}
    <3> HIDE DEF In, kept, gone
    <3> QED BY <1>8, <1>9, <1>10, <2>5
  <2>7. upload'[u].st = "done" /\ upload'[u].form = upload[u].form
    BY <1>3, <1>4
  <2> QED BY <2>3, <2>6, <2>7 DEF Settled
<1>13. ASSUME NEW v \in Uploads, v # u PROVE Settled(v)'
  <2>1. JobOf(u) # v
    BY <1>13, CaptureAssumption DEF JobOf
  <2>2. LeavesRows(v)
    BY <1>5, <1>13, <2>1 DEF Grown, LeavesRows
  <2>3. LeavesUpload(v)
    BY <1>4, <1>13 DEF LeavesUpload
  <2>4. Settled(v)
    BY DEF Calm
  <2> QED BY <2>2, <2>3, <2>4, SettledStays
<1>14. Whole(s)'
  BY <1>1, <1>2 DEF Whole
<1>15. \A t \in Sessions : Whole(t)'
  BY <1>2, <1>14, OnlyRun
<1> QED BY <1>12, <1>13, <1>15 DEF Calm

\* The build settles its upload or leaves nothing of it.
LEMMA BuildCalm ==
  ASSUME IInv, Serial, Calm, NEW s \in world.sessions, s \in Sessions, Build(s)
  PROVE  Calm'
<1>1. /\ run[s] # Idle /\ run[s].at = "build" /\ UNCHANGED <<world, keep, cache>>
      /\ \/ \E st \in {"done", "failed"} : Conclude(s, st) /\ UNCHANGED queue
               /\ (st = "done" => upload[run[s].up].claims # <<>>)
         \/ \E refused \in SUBSET Onto(s) : Filed(s, refused)
  BY BuildCases
<1>2. upload[run[s].up].claims = <<>>
  BY <1>1, InHand DEF Untouched
<1>3. CASE Conclude(s, "failed") /\ UNCHANGED queue
  BY <1>1, <1>3, FailCalm
<1>4. CASE \E refused \in SUBSET Onto(s) : Filed(s, refused)
  BY <1>1, <1>4, FiledCalm
<1> QED BY <1>1, <1>2, <1>3, <1>4

\* A crash leaves nothing of the upload.
LEMMA CrashCalm ==
  ASSUME IInv, Serial, Calm, NEW s \in world.sessions, s \in Sessions, Crash(s)
  PROVE  Calm'
<1>1. run[s] # Idle /\ run' = [run EXCEPT ![s] = Idle] /\ UNCHANGED <<world, queue>>
  BY DEF Crash
<1>2. CASE ~upload[run[s].up].async
  BY <1>1, <1>2, FailCalm DEF Crash, Conclude
<1>3. CASE upload[run[s].up].async
  <2>1. UNCHANGED upload
    BY <1>3 DEF Crash
  <2>2. run'[s] = Idle
    BY <1>1 DEF IInv, Typed
  <2>3. Whole(s)'
    BY <2>2 DEF Whole
  <2> QED BY <1>1, <2>1, <2>3, StepCalm
<1> QED BY <1>2, <1>3

\* A row that is reviewed stays in the queue's account.
LEMMA ProcessCalm == ASSUME IInv, Calm, NEW i \in DOMAIN queue, Process(i) PROVE Calm'
<1>1. queue' = [queue EXCEPT ![i].st = "consumed"] /\ UNCHANGED <<upload, run>>
  BY DEF Process
<1>2. queue \in Seq(Row)
  BY DEF IInv, Typed
<1>3. ASSUME NEW j \in DOMAIN queue
      PROVE  /\ j \in DOMAIN queue' /\ queue'[j].image = queue[j].image
             /\ queue'[j].by = queue[j].by /\ queue'[j].job = queue[j].job
  <2>1. queue[j] \in Row
    BY <1>2
  <2> QED BY <1>1, <2>1 DEF Row
<1>4. DOMAIN queue' = DOMAIN queue
  BY <1>1
<1>5. \A v \in Uploads : LeavesUpload(v) /\ LeavesRows(v)
  BY <1>1, <1>3, <1>4 DEF LeavesUpload, LeavesRows
<1>6. \A t \in Sessions : Whole(t)'
  BY <1>1 DEF Calm, Whole, Submitted
<1> QED BY <1>5, <1>6, CalmStays

\* A step that changes no upload, row or run.
LEMMA QuietCalm == ASSUME Calm, UNCHANGED <<upload, queue, run>> PROVE Calm'
<1>1. \A v \in Uploads : LeavesUpload(v)
  BY DEF LeavesUpload
<1>2. \A t \in Sessions : Whole(t)'
  BY DEF Calm, Whole, Submitted
<1> QED BY <1>1, <1>2, RowsStay, CalmStays

\* Every step keeps the account where the runs do not overlap.
LEMMA NextCalm == ASSUME IInv, Serial, Calm, [Next]_vars PROVE Calm'
<1>1. ASSUME NEW s \in world.sessions PROVE s \in Sessions
  BY DEF IInv, Typed, Sessions
<1>2. ASSUME NEW s \in world.sessions, NEW u \in Uploads, Take(s, u) PROVE Calm'
  BY <1>1, <1>2, TakeCalm
<1>3. ASSUME NEW s \in world.sessions, NEW u \in Uploads, NEW form \in world.forms, Capture(s, u, form)
      PROVE  Calm'
  BY <1>1, <1>3, CaptureCalm
<1>4. ASSUME NEW s \in world.sessions PROVE ~FoundFiled(s)
  <2> SUFFICES ASSUME FoundFiled(s) PROVE FALSE
    OBVIOUS
  <2>1. run[s] # Idle /\ Prior(run[s].up)
    BY DEF FoundFiled, Idle
  <2>2. Untouched(run[s].up)
    BY <1>1, <2>1, InHand
  <2> QED BY <2>1, <2>2 DEF Prior, Untouched
<1>5. ASSUME NEW s \in world.sessions, BadHeader(s) PROVE Calm'
  <2>1. run[s] # Idle /\ Conclude(s, "failed") /\ UNCHANGED queue
    BY <1>5 DEF BadHeader, Idle
  <2> QED BY <1>1, <2>1, FailCalm
<1>6. ASSUME NEW s \in world.sessions, Raise(s) PROVE Calm'
  <2>1. run[s] # Idle /\ UNCHANGED queue
    BY <1>6 DEF Raise
  <2>2. upload[run[s].up].claims = <<>>
    BY <1>1, <2>1, InHand DEF Untouched
  <2>3. Conclude(s, "failed")
    BY <1>6, <2>2 DEF Raise
  <2> QED BY <1>1, <2>1, <2>3, FailCalm
<1>7. ASSUME NEW s \in world.sessions, Begin(s) \/ Recognise(s) \/ Lookup(s) PROVE Calm'
  BY <1>1, <1>7, BeginCalm, RecogniseCalm, LookupCalm
<1>8. ASSUME NEW s \in world.sessions, Build(s) \/ Crash(s) PROVE Calm'
  BY <1>1, <1>8, BuildCalm, CrashCalm
<1>9. ASSUME NEW i \in DOMAIN queue, Process(i) PROVE Calm'
  BY <1>9, ProcessCalm
<1>10. CASE SetRouting
  BY <1>10, QuietCalm DEF SetRouting
<1>11. CASE UNCHANGED vars
  BY <1>11, QuietCalm DEF vars
<1> QED BY <1>2, <1>3, <1>4, <1>5, <1>6, <1>7, <1>8, <1>9, <1>10, <1>11 DEF Next

\* The instance never changes.
LEMMA SameWorld == [Next]_vars => world' = world
<1>1. ASSUME NEW s, NEW u, Take(s, u) \/ \E form \in world.forms : Capture(s, u, form)
      PROVE  world' = world
  BY <1>1 DEF Take, Capture
<1>2. ASSUME NEW s, FoundFiled(s) \/ BadHeader(s) \/ Raise(s) \/ Crash(s) PROVE world' = world
  BY <1>2 DEF FoundFiled, BadHeader, Raise, Crash
<1>3. ASSUME NEW s, Begin(s) \/ Recognise(s) \/ Lookup(s) PROVE world' = world
  BY <1>3 DEF Begin, Recognise, Lookup
<1>4. ASSUME NEW s, Build(s) PROVE world' = world
  BY <1>4 DEF Build
<1>5. ASSUME NEW i, Process(i) PROVE world' = world
  BY <1>5 DEF Process
<1>6. CASE SetRouting \/ UNCHANGED vars
  BY <1>6 DEF SetRouting, vars
<1> QED BY <1>1, <1>2, <1>3, <1>4, <1>5, <1>6 DEF Next

\* Nothing has been submitted at first.
LEMMA InitCalm == Init => Calm
<1> SUFFICES ASSUME Init PROVE Calm
  OBVIOUS
<1>1. \A s \in Sessions : Whole(s)
  BY DEF Init, Whole
<1>2. ASSUME NEW u \in Uploads PROVE Settled(u)
  <2>1. upload[u].st = "none" /\ upload[u].claims = <<>> /\ DOMAIN queue = {}
    BY DEF Init, NoUpload
  <2> QED BY <2>1 DEF Settled, Untouched
<1> QED BY <1>1, <1>2 DEF Calm

\* UploadAccounted: where the runs do not overlap, every page of an upload that is
\* reported done is on its claim, in the holding queue or reported as an error,
\* and has one of these places only unless the form repeats it; an upload that is
\* not done has left nothing, however often it crashed.
THEOREM PagesAccounted == Spec => []UploadAccounted
<1>1. Init => SInv
  BY InitIInv, InitCalm DEF SInv
<1>2. SInv /\ [Next]_vars => SInv'
  <2> SUFFICES ASSUME SInv, [Next]_vars PROVE SInv'
    OBVIOUS
  <2>1. IInv /\ IInv'
    BY NextIInv DEF SInv
  <2>2. ASSUME Serial' PROVE Calm'
    <3>1. world' = world
      BY SameWorld
    <3>2. Serial
      BY <2>2, <3>1 DEF Serial
    <3> QED BY <2>1, <3>2, NextCalm DEF SInv
  <2> QED BY <2>1, <2>2 DEF SInv
<1>3. SInv => UploadAccounted
  <2> SUFFICES ASSUME SInv, Serial, NEW u \in Uploads
               PROVE  IF upload[u].st = "done"
                      THEN /\ Submitted(u) \subseteq OnClaims(u) \cup InQueue \cup PagesOf(upload[u].errors)
                           /\ Repeatless(upload[u].form) =>
                                /\ OnClaims(u) \cap HeldBy(u) = {}
                                /\ PagesOf(upload[u].errors) \cap (OnClaims(u) \cup HeldBy(u)) = {}
                      ELSE upload[u].claims = <<>> /\ HeldBy(u) = {}
    BY DEF UploadAccounted
  <2>1. Settled(u)
    BY DEF SInv, Calm
  <2>2. Untouched(u) => upload[u].claims = <<>> /\ HeldBy(u) = {}
    BY PagesUnfolded, HeldUnfolded DEF Untouched
  <2> QED BY <2>1, <2>2 DEF Settled
<1> QED BY <1>1, <1>2, <1>3, PTL DEF Spec
=============================================================================
