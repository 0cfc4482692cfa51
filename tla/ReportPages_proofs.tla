------------------------- MODULE ReportPages_proofs -------------------------
(***************************************************************************)
(* What the pages of reports show, for any weeks, months, people and       *)
(* viewers and any number of uploads, deletions and releases.              *)
(***************************************************************************)
EXTENDS ReportPages, FiniteSetTheorems, SequenceTheorems, WellFoundedInduction, TLAPS

(***************************************************************************)
(* Reports in order                                                        *)
(***************************************************************************)
\* Reports that can be put in order: no two have the same number.
Distinct(rs) ==
  /\ IsFiniteSet(rs)
  /\ \A r \in rs : r.week \in Int /\ r.id \in Int
  /\ \A r, s \in rs : r.id = s.id => r = s

LEMMA DistinctSubset ==
  ASSUME NEW rs, Distinct(rs), NEW part \in SUBSET rs
  PROVE  Distinct(part)
  <1>1. IsFiniteSet(part)
    BY FS_Subset DEF Distinct
  <1> QED
    BY <1>1 DEF Distinct

\* A report comes before another exactly when its position does.
LEMMA Positions ==
  ASSUME NEW rs, Distinct(rs)
  PROVE  /\ \A r \in rs : Position(rs, r) \in 1..Cardinality(rs)
         /\ \A r, s \in rs : Precedes(r, s) => Position(rs, r) < Position(rs, s)
         /\ \A r, s \in rs : Position(rs, r) < Position(rs, s) => Precedes(r, s)
         /\ \A r, s \in rs : Position(rs, r) = Position(rs, s) => r = s
  <1> DEFINE Earlier(r) == {s \in rs : Precedes(s, r)}
  <1>1. Cardinality(rs) \in Nat /\ IsFiniteSet(rs)
    BY FS_CardinalityType DEF Distinct
  <1>2. ASSUME NEW r \in rs
        PROVE  /\ Earlier(r) \subseteq rs /\ r \notin Earlier(r)
               /\ IsFiniteSet(Earlier(r)) /\ Cardinality(Earlier(r)) \in Nat
               /\ Cardinality(Earlier(r)) < Cardinality(rs)
    <2>1. Earlier(r) \subseteq rs /\ r \notin Earlier(r)
      BY DEF Distinct, Precedes
    <2>2. IsFiniteSet(Earlier(r)) /\ Cardinality(Earlier(r)) <= Cardinality(rs) /\ Cardinality(Earlier(r)) # Cardinality(rs)
      BY <1>1, <2>1, FS_Subset
    <2>3. Cardinality(Earlier(r)) \in Nat
      BY <2>2, FS_CardinalityType
    <2> QED
      BY <1>1, <2>1, <2>2, <2>3
  <1>3. \A r \in rs : Position(rs, r) = Cardinality(Earlier(r)) + 1
    BY DEF Position
  <1>4. ASSUME NEW r \in rs, NEW s \in rs, Precedes(r, s)
        PROVE  Cardinality(Earlier(r)) < Cardinality(Earlier(s))
    <2>1. Earlier(r) \subseteq Earlier(s) /\ r \in Earlier(s)
      BY <1>4 DEF Distinct, Precedes
    <2>2. Earlier(r) # Earlier(s)
      BY <1>2, <2>1
    <2>3. Cardinality(Earlier(r)) <= Cardinality(Earlier(s)) /\ Cardinality(Earlier(r)) # Cardinality(Earlier(s))
      BY <1>2, <2>1, <2>2, FS_Subset
    <2> QED
      BY <1>2, <2>3
  <1>5. \A r, s \in rs : Precedes(r, s) \/ Precedes(s, r) \/ r = s
    BY DEF Distinct, Precedes
  <1> HIDE DEF Earlier
  <1>6. \A r \in rs : Position(rs, r) \in 1..Cardinality(rs)
    BY <1>1, <1>2, <1>3
  <1>7. \A r, s \in rs : Precedes(r, s) => Position(rs, r) < Position(rs, s)
    BY <1>2, <1>3, <1>4
  <1>8. \A r \in rs : Position(rs, r) \in Nat
    BY <1>2, <1>3
  <1> QED
    BY <1>5, <1>6, <1>7, <1>8

\* All of the reports, each once, in their order.
LEMMA SortedProperties ==
  ASSUME NEW rs, Distinct(rs)
  PROVE  /\ Sorted(rs) \in Seq(rs)
         /\ Len(Sorted(rs)) = Cardinality(rs) /\ Cardinality(rs) \in Nat
         /\ \A r \in rs : Position(rs, r) \in 1..Cardinality(rs) /\ Sorted(rs)[Position(rs, r)] = r
         /\ \A i \in 1..Cardinality(rs) : Sorted(rs)[i] \in rs
         /\ \A i, j \in 1..Cardinality(rs) : i < j => Precedes(Sorted(rs)[i], Sorted(rs)[j])
  <1> DEFINE n == Cardinality(rs)
             position == [r \in rs |-> Position(rs, r)]
  <1>1. n \in Nat /\ IsFiniteSet(rs)
    BY FS_CardinalityType DEF Distinct
  <1>2. position \in Injection(rs, 1..n)
    <2>1. position \in [rs -> 1..n]
      BY Positions
    <2>2. \A r, s \in rs : position[r] = position[s] => r = s
      BY Positions
    <2> QED
      BY <2>1, <2>2 DEF Injection, IsInjective
  <1>3. IsFiniteSet(1..n) /\ Cardinality(1..n) = n
    BY <1>1, FS_Interval
  <1>4. position \in Surjection(rs, 1..n)
    BY <1>2, <1>3, FS_Injection
  <1>5. \A i \in 1..n : \E r \in rs : Position(rs, r) = i
    BY <1>4 DEF Surjection
  <1>6. Sorted(rs) = [i \in 1..n |-> CHOOSE r \in rs : Position(rs, r) = i]
    BY DEF Sorted
  <1> HIDE DEF n, position
  <1>7. \A i \in 1..n : Sorted(rs)[i] \in rs /\ Position(rs, Sorted(rs)[i]) = i
    BY <1>5, <1>6
  <1>8. Sorted(rs) \in [1..n -> rs]
    BY <1>6, <1>7
  <1>9. Sorted(rs) \in Seq(rs)
    BY <1>1, <1>8, SeqDef
  <1>10. Len(Sorted(rs)) = n
    BY <1>1, <1>8, <1>9, LenProperties
  <1>11. \A r \in rs : Position(rs, r) \in 1..n
    BY Positions DEF n
  <1>12. \A r \in rs : Sorted(rs)[Position(rs, r)] = r
    BY <1>7, <1>11, Positions
  <1>13. ASSUME NEW i \in 1..n, NEW j \in 1..n, i < j
         PROVE  Precedes(Sorted(rs)[i], Sorted(rs)[j])
    BY <1>7, <1>13, Positions
  <1> QED
    BY <1>1, <1>7, <1>9, <1>10, <1>11, <1>12, <1>13 DEF n

LEMMA LastOfProperties ==
  ASSUME NEW S, NEW seq \in Seq(S), NEW n \in Nat \ {0},
         NEW k, k = IF Len(seq) > n THEN Len(seq) - n ELSE 0
  PROVE  /\ k \in Nat /\ k <= Len(seq)
         /\ LastOf(seq, n) \in Seq(S)
         /\ Len(LastOf(seq, n)) = Len(seq) - k
         /\ LastOf(seq, n) = [i \in 1..(Len(seq) - k) |-> seq[k + i]]
  <1>1. PICK l : l = Len(seq)
    OBVIOUS
  <1>2. l \in Nat /\ n \in Nat /\ n > 0
    BY <1>1, LenProperties
  <1>3. k = IF l > n THEN l - n ELSE 0
    BY <1>1
  <1>4. k \in Nat /\ k <= l /\ k + 1 = (IF l > n THEN l - n + 1 ELSE 1) /\ k + 1 \in 1..(l + 1)
    BY <1>2, <1>3
  <1>5. LastOf(seq, n) = SubSeq(seq, k + 1, l)
    BY <1>1, <1>4 DEF LastOf
  <1>6. PICK from : from = k + 1
    OBVIOUS
  <1>7. from \in 1..(l + 1) /\ l \in (from - 1)..l /\ l - from + 1 = l - k
    BY <1>2, <1>4, <1>6
  <1>8. \A i \in 1..(l - k) : from + i - 1 = k + i /\ k + i \in 1..l
    BY <1>2, <1>4, <1>6
  <1>9. /\ SubSeq(seq, from, l) \in Seq(S)
        /\ Len(SubSeq(seq, from, l)) = IF from <= l THEN l - from + 1 ELSE 0
        /\ \A i \in 1..(l - from + 1) : SubSeq(seq, from, l)[i] = seq[from + i - 1]
    BY <1>1, <1>2, <1>7, SubSeqProperties
  <1>10. Len(SubSeq(seq, from, l)) = l - k
    <2>1. CASE from <= l
      BY <1>7, <1>9, <2>1
    <2>2. CASE ~(from <= l)
      <3>1. l - k = 0
        BY <1>2, <1>4, <1>6, <2>2
      <3> QED
        BY <1>9, <2>2, <3>1
    <2> QED
      BY <2>1, <2>2
  <1>11. \A i \in 1..(l - k) : SubSeq(seq, from, l)[i] = seq[k + i]
    BY <1>7, <1>8, <1>9
  <1>12. LastOf(seq, n) = SubSeq(seq, from, l)
    BY <1>5, <1>6
  <1>13. LastOf(seq, n) \in Seq(S) /\ Len(LastOf(seq, n)) = l - k
    BY <1>9, <1>10, <1>12
  <1>14. LastOf(seq, n) = [i \in 1..(l - k) |-> seq[k + i]]
    <2>1. LastOf(seq, n) = [i \in 1..(l - k) |-> LastOf(seq, n)[i]]
      BY <1>13, LenProperties
    <2>2. \A i \in 1..(l - k) : LastOf(seq, n)[i] = seq[k + i]
      BY <1>11, <1>12
    <2> QED
      BY <2>1, <2>2
  <1> QED
    BY <1>1, <1>3, <1>4, <1>13, <1>14

(***************************************************************************)
(* The dashboard                                                           *)
(***************************************************************************)
\* By fiscal year and week or by the days: the same weeks come first.
LEMMA ThroughIsUpTo ==
  ASSUME NEW w \in Weeks, NEW target \in Weeks
  PROVE  Through(w, target) <=> w <= target
  <1> DEFINE Same(v) == {u \in 1..v : FiscalYearOf[u] = FiscalYearOf[v]}
  <1>1. /\ Cardinality(Weeks) \in Nat /\ Weeks = 1..Cardinality(Weeks)
        /\ w \in Nat /\ target \in Nat /\ w > 0 /\ target > 0
    BY WeeksAssumption, FS_CardinalityType
  <1>2. /\ FiscalYearOf[w] \in Int /\ FiscalYearOf[target] \in Int
        /\ w <= target => FiscalYearOf[w] <= FiscalYearOf[target]
        /\ target <= w => FiscalYearOf[target] <= FiscalYearOf[w]
    BY YearsAssumption
  <1>3. \A v \in Weeks : IsFiniteSet(Same(v)) /\ Cardinality(Same(v)) \in Nat
    <2>1. ASSUME NEW v \in Weeks
          PROVE  IsFiniteSet(Same(v)) /\ Cardinality(Same(v)) \in Nat
      <3>1. IsFiniteSet(1..v)
        BY <1>1, FS_Interval
      <3>2. IsFiniteSet(Same(v))
        BY <3>1, FS_Subset
      <3> QED
        BY <3>2, FS_CardinalityType
    <2> QED
      BY <2>1
  <1>4. FiscalWeekOf(w) = Cardinality(Same(w)) /\ FiscalWeekOf(target) = Cardinality(Same(target))
    BY DEF FiscalWeekOf
  <1>5. ASSUME FiscalYearOf[w] = FiscalYearOf[target]
        PROVE  Cardinality(Same(w)) <= Cardinality(Same(target)) <=> w <= target
    <2>1. CASE w <= target
      <3>1. Same(w) \subseteq Same(target)
        BY <1>1, <1>5, <2>1
      <3>2. Cardinality(Same(w)) <= Cardinality(Same(target))
        BY <1>3, <3>1, FS_Subset
      <3> QED
        BY <2>1, <3>2
    <2>2. CASE w > target
      <3>1. Same(target) \subseteq Same(w) /\ w \in Same(w) /\ w \notin Same(target)
        BY <1>1, <1>5, <2>2
      <3>2. Cardinality(Same(target)) <= Cardinality(Same(w)) /\ Cardinality(Same(target)) # Cardinality(Same(w))
        BY <1>3, <3>1, FS_Subset
      <3>3. Cardinality(Same(target)) \in Nat /\ Cardinality(Same(w)) \in Nat
        BY <1>3
      <3>4. ~(Cardinality(Same(w)) <= Cardinality(Same(target)))
        BY <3>2, <3>3
      <3> QED
        BY <1>1, <2>2, <3>4
    <2> QED
      BY <1>1, <2>1, <2>2
  <1> HIDE DEF Same
  <1> QED
    BY <1>1, <1>2, <1>4, <1>5 DEF Through

\* The latest reports up to a week, in their order.
LEMMA ShownUpTo ==
  ASSUME NEW rs, Distinct(rs), \A r \in rs : r.week \in Weeks, NEW target \in Weeks,
         NEW shown, shown = LastOf(Sorted({r \in rs : Through(r.week, target)}), DashboardLimit)
  PROVE  /\ UpTo(shown, rs, target)
         /\ shown \in Seq(rs)
         /\ \A r \in rs : r.week = target => Len(shown) > 0 /\ shown[Len(shown)].week = target
  <1> DEFINE through == {r \in rs : Through(r.week, target)}
             all == Sorted(through)
  <1>1. \A r \in rs : r \in through <=> r.week <= target
    BY ThroughIsUpTo
  <1>2. target \in Int /\ \A r \in rs : r.week \in Int /\ r.id \in Int
    BY WeeksAssumption, FS_CardinalityType DEF Distinct
  <1>3. Distinct(through) /\ through \subseteq rs
    BY DistinctSubset
  <1> HIDE DEF through
  <1>4. PICK n : n = Cardinality(through)
    OBVIOUS
  <1>5. /\ all \in Seq(through) /\ Len(all) = n /\ n \in Nat
        /\ \A r \in through : \E j \in 1..n : all[j] = r
        /\ \A i \in 1..n : all[i] \in through
        /\ \A i, j \in 1..n : i < j => Precedes(all[i], all[j])
    BY <1>3, <1>4, SortedProperties
  <1> HIDE DEF all
  <1>6. DashboardLimit \in Nat \ {0}
    BY LimitAssumption
  <1>7. PICK k : k = IF n > DashboardLimit THEN n - DashboardLimit ELSE 0
    OBVIOUS
  <1>8. /\ k \in Nat /\ k <= n
        /\ shown \in Seq(through)
        /\ Len(shown) = n - k
        /\ \A i \in 1..(n - k) : k + i \in 1..n /\ shown[i] = all[k + i]
    <2>1. shown = LastOf(all, DashboardLimit)
      BY DEF all, through
    <2>2. all \in Seq(through) /\ Len(all) = n /\ k = IF Len(all) > DashboardLimit THEN Len(all) - DashboardLimit ELSE 0
      BY <1>5, <1>7
    <2>3. k \in Nat /\ k <= Len(all)
      BY <1>6, <2>2, LastOfProperties
    <2>4. LastOf(all, DashboardLimit) \in Seq(through)
      BY <1>6, <2>2, LastOfProperties
    <2>5. Len(LastOf(all, DashboardLimit)) = Len(all) - k
      BY <1>6, <2>2, LastOfProperties
    <2>6. LastOf(all, DashboardLimit) = [i \in 1..(Len(all) - k) |-> all[k + i]]
      BY <1>6, <2>2, LastOfProperties
    <2>7. k \in Nat /\ k <= n /\ n \in Nat
      BY <1>5, <2>2, <2>3
    <2>8. \A i \in 1..(n - k) : k + i \in 1..n
      BY <2>7
    <2>9. \A i \in 1..(n - k) : shown[i] = all[k + i]
      BY <2>1, <2>2, <2>6
    <2> QED
      BY <2>1, <2>2, <2>4, <2>5, <2>7, <2>8, <2>9
  <1>9. DOMAIN shown = 1..(n - k) /\ n - k \in Nat /\ (n > 0 => n - k > 0)
    BY <1>5, <1>6, <1>7, <1>8, LenProperties
  <1>10. \A i \in 1..(n - k) : shown[i] \in through
    BY <1>5, <1>8
  <1>11. ASSUME NEW i \in 1..(n - k), i > 1
         PROVE  Precedes(shown[i - 1], shown[i])
    <2>1. PICK j \in 1..(n - k) : j = i - 1
      <3>1. n \in Nat /\ k \in Nat /\ k <= n
        BY <1>5, <1>8
      <3> QED
        BY <1>11, <3>1
    <2>2. k + j \in 1..n /\ k + i \in 1..n /\ shown[j] = all[k + j] /\ shown[i] = all[k + i]
      BY <1>8
    <2>3. k + j < k + i
      BY <1>8, <2>1
    <2>4. Precedes(shown[j], shown[i])
      BY <1>5, <2>2, <2>3
    <2> QED
      BY <2>1, <2>4
  <1>12. ASSUME NEW r \in rs \ ToSet(shown), ~(r.week > target)
         PROVE  shown # <<>> /\ Precedes(r, shown[1])
    <2>1. r \in through
      BY <1>1, <1>2, <1>12
    <2>2. PICK j \in 1..n : all[j] = r
      BY <1>5, <2>1
    <2>3. j <= k
      <3>1. ASSUME j > k
            PROVE  FALSE
        <4>1. n \in Nat /\ k \in Nat /\ k <= n
          BY <1>5, <1>8
        <4>2. PICK i \in 1..(n - k) : i = j - k
          BY <3>1, <4>1
        <4>3. k + i = j
          BY <4>1, <4>2
        <4>4. shown[i] = r
          BY <1>8, <2>2, <4>3
        <4> QED
          BY <1>9, <4>4 DEF ToSet
      <3> QED
        BY <1>8, <3>1
    <2>4. k > 0 /\ n > 0 /\ 1 \in 1..(n - k) /\ k + 1 \in 1..n /\ j < k + 1
      BY <1>5, <1>7, <1>8, <1>9, <2>3
    <2>5. shown[1] = all[k + 1]
      BY <1>8, <2>4
    <2>6. shown # <<>>
      BY <1>9, <2>4
    <2> QED
      BY <1>5, <2>2, <2>4, <2>5, <2>6
  <1>13. UpTo(shown, rs, target)
    BY <1>1, <1>3, <1>9, <1>10, <1>11, <1>12 DEF UpTo
  <1>14. ASSUME NEW r \in rs, r.week = target
         PROVE  Len(shown) > 0 /\ shown[Len(shown)].week = target
    <2>1. r \in through
      BY <1>1, <1>2, <1>14
    <2>2. PICK j \in 1..n : all[j] = r
      BY <1>5, <2>1
    <2>3. n > 0 /\ n - k > 0 /\ n - k \in 1..(n - k) /\ k + (n - k) = n /\ n \in 1..n
      <3>1. n \in Nat /\ k \in Nat /\ n > 0 /\ n - k > 0
        BY <1>5, <1>9, <1>8, <2>2
      <3> QED
        BY <3>1
    <2>4. shown[n - k] = all[n]
      BY <1>8, <2>3
    <2>5. all[n] = r \/ Precedes(r, all[n])
      BY <1>5, <2>2, <2>3
    <2>6. all[n] \in rs /\ all[n].week <= target
      BY <1>1, <1>3, <1>5, <2>3
    <2>7. all[n].week = target
      BY <1>2, <1>14, <2>5, <2>6 DEF Precedes
    <2> QED
      BY <1>8, <2>3, <2>4, <2>7
  <1>15. shown \in Seq(rs)
    BY <1>3, <1>8
  <1> QED
    BY <1>13, <1>14, <1>15

(***************************************************************************)
(* Pages being made                                                        *)
(***************************************************************************)
ReportRecords ==
  [id : Nat, kind : Kinds, week : Weeks, listed : Lists, dpt : Nat \union {None}, old : BOOLEAN]
PageRecords ==
  [kind : Kinds \union {None}, shown : SUBSET Nat, seen : SUBSET Nat, todo : Seq(ReportRecords),
   dpt : {None} \union {<<x>> : x \in Nat \union {None}}]

PagesTypeOK ==
  /\ changes \in Nat
  /\ reports \in SUBSET ReportRecords /\ IsFiniteSet(reports)
  /\ pages \in [Viewers -> PageRecords]
  /\ \A v \in Viewers : pages[v].kind = None => pages[v] = NoPage

\* A number is given once, and what a page holds is of reports uploaded before.
Numbered ==
  /\ \A r \in reports : r.id < changes
  /\ \A r, s \in reports : r.id = s.id => r = s
  /\ \A v \in Viewers :
       /\ \A i \in pages[v].shown \union pages[v].seen : i < changes
       /\ \A i \in DOMAIN pages[v].todo : pages[v].todo[i].id < changes

\* A page's copies are of the reports they were.
Copied ==
  \A v \in Viewers, r \in reports : \A i \in DOMAIN pages[v].todo :
    r.id = pages[v].todo[i].id => r.kind = pages[v].todo[i].kind /\ r.week = pages[v].todo[i].week

\* What one page has come after, all open pages have.
SeenByAll ==
  \A u, v \in Viewers, s \in reports : pages[u].kind # None /\ s.id \in pages[v].seen => s.id \in pages[u].seen

\* Sales that a page has come after are found when it looks for them.
SalesFound ==
  \A v \in Viewers, s \in Of(reports, "sales") :
    Due(v) /\ Current(v).week = s.week /\ s.id \in pages[v].seen /\ pages[v].dpt # None => pages[v].dpt[1] # None

\* A report without its figures is still to be read by the page that shows it.
StillToRead ==
  \A v \in Viewers, g \in Of(reports, "gift"), s \in Of(reports, "sales") :
    s.week = g.week /\ s.id \in pages[v].seen /\ g.id \in pages[v].shown /\ g.dpt = None =>
      \E i \in DOMAIN pages[v].todo : pages[v].todo[i].id = g.id /\ pages[v].todo[i].dpt = None

PagesInv == PagesTypeOK /\ Numbered /\ Copied /\ SeenByAll /\ SalesFound /\ StillToRead

LEMMA NoPageTyped ==
  /\ NoPage \in PageRecords
  /\ NoPage.kind = None /\ NoPage.shown = {} /\ NoPage.seen = {} /\ NoPage.todo = <<>> /\ NoPage.dpt = None
  /\ DOMAIN NoPage.todo = {}
  <1>1. <<>> \in Seq(ReportRecords) /\ DOMAIN <<>> = {}
    BY EmptySeq
  <1> QED
    BY <1>1 DEF NoPage, PageRecords

LEMMA PageTyped ==
  ASSUME PagesInv, NEW v \in Viewers
  PROVE  /\ pages[v] \in PageRecords
         /\ pages[v].todo \in Seq(ReportRecords)
         /\ Due(v) => /\ pages[v].kind # None
                      /\ Current(v) \in ReportRecords
                      /\ 1 \in DOMAIN pages[v].todo /\ Current(v) = pages[v].todo[1]
                      /\ Tail(pages[v].todo) \in Seq(ReportRecords)
                      /\ \A i \in DOMAIN Tail(pages[v].todo) :
                           \E j \in DOMAIN pages[v].todo : Tail(pages[v].todo)[i] = pages[v].todo[j]
                      /\ \A j \in DOMAIN pages[v].todo :
                           j = 1 \/ \E i \in DOMAIN Tail(pages[v].todo) : Tail(pages[v].todo)[i] = pages[v].todo[j]
  <1>1. pages[v] \in PageRecords /\ (pages[v].kind = None => pages[v] = NoPage)
    BY DEF PagesInv, PagesTypeOK
  <1>2. pages[v].todo \in Seq(ReportRecords)
    BY <1>1 DEF PageRecords
  <1>3. ASSUME Due(v)
        PROVE  /\ pages[v].kind # None
               /\ Current(v) \in ReportRecords
               /\ 1 \in DOMAIN pages[v].todo /\ Current(v) = pages[v].todo[1]
               /\ Tail(pages[v].todo) \in Seq(ReportRecords)
               /\ \A i \in DOMAIN Tail(pages[v].todo) :
                    \E j \in DOMAIN pages[v].todo : Tail(pages[v].todo)[i] = pages[v].todo[j]
               /\ \A j \in DOMAIN pages[v].todo :
                    j = 1 \/ \E i \in DOMAIN Tail(pages[v].todo) : Tail(pages[v].todo)[i] = pages[v].todo[j]
    <2>1. pages[v].kind # None
      BY <1>1, <1>3, NoPageTyped DEF Due
    <2>2. PICK todo, n : todo = pages[v].todo /\ n = Len(todo)
      OBVIOUS
    <2>3. todo \in Seq(ReportRecords) /\ todo # <<>> /\ n \in Nat /\ DOMAIN todo = 1..n
      BY <1>2, <1>3, <2>2, LenProperties DEF Due
    <2>4. /\ Head(todo) \in ReportRecords /\ Head(todo) = todo[1]
          /\ Tail(todo) \in Seq(ReportRecords)
          /\ Len(Tail(todo)) = n - 1
          /\ \A i \in 1..(n - 1) : Tail(todo)[i] = todo[i + 1]
      BY <2>2, <2>3, HeadTailProperties
    <2>5. n > 0
      BY <2>2, <2>3, EmptySeq
    <2>6. DOMAIN Tail(todo) = 1..(n - 1)
      BY <2>4, LenProperties
    <2>7. \A i \in 1..(n - 1) : i + 1 \in 1..n
      BY <2>3
    <2>8. ASSUME NEW j \in 1..n, j # 1
          PROVE  \E i \in 1..(n - 1) : Tail(todo)[i] = todo[j]
      <3>1. PICK i \in 1..(n - 1) : i + 1 = j
        <4>1. j - 1 \in 1..(n - 1) /\ (j - 1) + 1 = j
          BY <2>3, <2>8
        <4> QED
          BY <4>1
      <3> QED
        BY <2>4, <3>1
    <2>9. 1 \in 1..n
      BY <2>3, <2>5
    <2>10. Current(v) = todo[1] /\ Current(v) \in ReportRecords
      BY <2>2, <2>4 DEF Current
    <2>11. \A i \in DOMAIN Tail(todo) : \E j \in DOMAIN todo : Tail(todo)[i] = todo[j]
      BY <2>3, <2>4, <2>6, <2>7
    <2>12. \A j \in DOMAIN todo : j = 1 \/ \E i \in DOMAIN Tail(todo) : Tail(todo)[i] = todo[j]
      BY <2>3, <2>6, <2>8
    <2> QED
      BY <2>1, <2>2, <2>3, <2>4, <2>9, <2>10, <2>11, <2>12
  <1> QED
    BY <1>1, <1>2, <1>3

LEMMA ReportsDistinct ==
  ASSUME PagesInv
  PROVE  Distinct(reports) /\ \A r \in reports : r.week \in Weeks
  <1>1. \A r \in reports : r.id \in Int /\ r.week \in Weeks
    BY DEF PagesInv, PagesTypeOK, ReportRecords
  <1>2. Weeks \subseteq Int
    BY WeeksAssumption, FS_CardinalityType
  <1> QED
    BY <1>1, <1>2 DEF PagesInv, PagesTypeOK, Numbered, Distinct

\* The latest of some reports is one of them.
LEMMA LatestIsOne ==
  ASSUME NEW part, Distinct(part), NEW latest, latest = LastOf(Sorted(part), 1)
  PROVE  /\ latest \in Seq(part)
         /\ part # {} => latest # <<>>
         /\ latest # <<>> => latest[1] \in part
         /\ ToSet(latest) \subseteq part
  <1>1. PICK all, n : all = Sorted(part) /\ n = Cardinality(part)
    OBVIOUS
  <1>2. all \in Seq(part) /\ Len(all) = n /\ n \in Nat
    BY <1>1, SortedProperties
  <1>3. PICK k : k = IF Len(all) > 1 THEN Len(all) - 1 ELSE 0
    OBVIOUS
  <1>4. 1 \in Nat \ {0} /\ latest = LastOf(all, 1)
    BY <1>1
  <1>5. latest \in Seq(part)
    BY <1>2, <1>3, <1>4, LastOfProperties
  <1>6. Len(latest) = Len(all) - k
    BY <1>2, <1>3, <1>4, LastOfProperties
  <1>7. part # {} => latest # <<>>
    <2>1. ASSUME part # {}
          PROVE  n > 0
      <3>1. IsFiniteSet(part)
        BY DEF Distinct
      <3> QED
        BY <1>1, <1>2, <2>1, <3>1, FS_EmptySet
    <2>2. n > 0 => Len(latest) > 0
      BY <1>2, <1>3, <1>6
    <2> QED
      BY <2>1, <2>2, EmptySeq
  <1>8. latest # <<>> => latest[1] \in part
    <2>1. ASSUME latest # <<>>
          PROVE  latest[1] \in part
      <3>1. Head(latest) \in part /\ Head(latest) = latest[1]
        BY <1>5, <2>1, HeadTailProperties
      <3> QED
        BY <3>1
    <2> QED
      BY <2>1
  <1>9. ToSet(latest) \subseteq part
    BY <1>5 DEF ToSet
  <1> QED
    BY <1>5, <1>7, <1>8, <1>9

\* And no other comes after it.
LEMMA LatestIsLast ==
  ASSUME NEW part, Distinct(part), NEW latest, latest = LastOf(Sorted(part), 1), part # {}
  PROVE  \E t \in part : ToSet(latest) = {t} /\ \A r \in part : r = t \/ Precedes(r, t)
  <1>1. PICK all, n : all = Sorted(part) /\ n = Cardinality(part)
    OBVIOUS
  <1>2. all \in Seq(part) /\ Len(all) = n /\ n \in Nat
    BY <1>1, SortedProperties
  <1>3. n > 0
    <2>1. IsFiniteSet(part)
      BY DEF Distinct
    <2> QED
      BY <1>1, <1>2, <2>1, FS_EmptySet
  <1>4. PICK k : k = IF Len(all) > 1 THEN Len(all) - 1 ELSE 0
    OBVIOUS
  <1>5. k = n - 1 /\ n - k = 1 /\ k + 1 = n
    BY <1>2, <1>3, <1>4
  <1>6. latest = [i \in 1..(Len(all) - k) |-> all[k + i]]
    <2>1. 1 \in Nat \ {0} /\ latest = LastOf(all, 1)
      BY <1>1
    <2> QED
      BY <1>2, <1>4, <2>1, LastOfProperties
  <1>7. latest = [i \in 1..1 |-> all[n]]
    <2>1. Len(all) - k = 1 /\ \A i \in 1..1 : k + i = n
      BY <1>2, <1>5
    <2> QED
      BY <1>6, <2>1
  <1>8. ToSet(latest) = {all[n]}
    BY <1>7 DEF ToSet
  <1>9. all[n] \in part /\ \A r \in part : r = all[n] \/ Precedes(r, all[n])
    <2>1. n \in 1..n
      BY <1>2, <1>3
    <2>2. all[n] \in part
      BY <1>1, <2>1, SortedProperties
    <2>3. ASSUME NEW r \in part
          PROVE  r = all[n] \/ Precedes(r, all[n])
      <3>1. PICK i : i = Position(part, r)
        OBVIOUS
      <3>2. i \in 1..n /\ all[i] = r
        BY <1>1, <3>1, SortedProperties
      <3>3. i < n => Precedes(all[i], all[n])
        BY <1>1, <2>1, <3>2, SortedProperties
      <3> QED
        BY <1>2, <3>2, <3>3
    <2> QED
      BY <2>2, <2>3
  <1> QED
    BY <1>8, <1>9

LEMMA SalesLookedUp ==
  ASSUME PagesInv, NEW r
  PROVE  /\ SalesOf(r) # <<>> => SalesOf(r)[1].id \in Nat
         /\ \A s \in Of(reports, "sales") : s.week = r.week => SalesOf(r) # <<>>
  <1>1. PICK part : part = {s \in Of(reports, "sales") : s.week = r.week}
    OBVIOUS
  <1>2. part \subseteq reports /\ Distinct(part)
    BY <1>1, ReportsDistinct, DistinctSubset DEF Of
  <1>3. SalesOf(r) = LastOf(Sorted(part), 1)
    BY <1>1 DEF SalesOf, LatestOf
  <1>4. SalesOf(r) # <<>> => SalesOf(r)[1] \in part
    BY <1>2, <1>3, LatestIsOne
  <1>5. part # {} => SalesOf(r) # <<>>
    BY <1>2, <1>3, LatestIsOne
  <1>6. \A s \in reports : s.id \in Nat
    BY DEF PagesInv, PagesTypeOK, ReportRecords
  <1> QED
    BY <1>1, <1>2, <1>4, <1>5, <1>6

(***************************************************************************)
(* The steps                                                               *)
(***************************************************************************)
LEMMA PagesInitially == PagesInit => PagesInv
  <1> SUFFICES ASSUME PagesInit PROVE PagesInv
    OBVIOUS
  <1>1. \A v \in Viewers : pages[v] = NoPage /\ ~Due(v)
    BY NoPageTyped DEF PagesInit, Due
  <1>2. PagesTypeOK
    <2>1. IsFiniteSet(reports)
      BY FS_EmptySet DEF PagesInit
    <2> QED
      BY <2>1, <1>1, NoPageTyped DEF PagesInit, PagesTypeOK
  <1> QED
    BY <1>1, <1>2, NoPageTyped DEF PagesInit, PagesInv, Numbered, Copied, SeenByAll, SalesFound, StillToRead, Of

\* Uploads of what the weeks' reports list.
LEMMA UploadKeeps ==
  ASSUME PagesInv, NEW kind \in Kinds, NEW week \in Weeks, NEW listed \in Lists, Upload(kind, week, listed)
  PROVE  PagesInv'
  <1> DEFINE new == [id |-> changes, kind |-> kind, week |-> week, listed |-> listed, dpt |-> None, old |-> FALSE]
  <1>1. PICK n : n = new
    OBVIOUS
  <1>2. n \in ReportRecords /\ n.id = changes /\ n.kind = kind /\ n.week = week
    BY <1>1 DEF ReportRecords, PagesInv, PagesTypeOK
  <1>3. reports' = reports \union {n} /\ changes' = changes + 1 /\ pages' = pages /\ changes \in Nat
    BY <1>1 DEF Upload, Change, PagesInv, PagesTypeOK
  <1>4. PagesTypeOK'
    <2>1. IsFiniteSet(reports')
      BY <1>3, FS_AddElement DEF PagesInv, PagesTypeOK
    <2> QED
      BY <1>2, <1>3, <2>1 DEF PagesInv, PagesTypeOK
  <1>5. \A r \in reports : r.id \in Nat /\ r.id < changes
    BY DEF PagesInv, PagesTypeOK, ReportRecords, Numbered
  <1>6. /\ \A v \in Viewers : n.id \notin pages[v].seen /\ n.id \notin pages[v].shown
        /\ \A v \in Viewers : \A i \in DOMAIN pages[v].todo : n.id # pages[v].todo[i].id
    BY <1>2, <1>3 DEF PagesInv, Numbered
  <1>7. Numbered'
    <2>1. \A r \in reports' : r.id < changes'
      BY <1>2, <1>3, <1>5
    <2>2. \A r, s \in reports' : r.id = s.id => r = s
      BY <1>2, <1>3, <1>5 DEF PagesInv, Numbered
    <2>3. ASSUME NEW v \in Viewers
          PROVE  /\ \A i \in pages[v].shown \union pages[v].seen : i < changes'
                 /\ \A i \in DOMAIN pages[v].todo : pages[v].todo[i].id < changes'
      <3>1. pages[v] \in PageRecords
        BY PageTyped
      <3>2. \A i \in pages[v].shown \union pages[v].seen : i \in Nat /\ i < changes
        BY <3>1 DEF PageRecords, PagesInv, Numbered
      <3>3. \A i \in DOMAIN pages[v].todo : pages[v].todo[i] \in ReportRecords
        BY <3>1, ElementOfSeq, LenProperties DEF PageRecords
      <3>4. \A i \in DOMAIN pages[v].todo : pages[v].todo[i].id \in Nat /\ pages[v].todo[i].id < changes
        BY <3>3 DEF ReportRecords, PagesInv, Numbered
      <3> QED
        BY <1>3, <3>2, <3>4
    <2> QED
      BY <1>3, <2>1, <2>2, <2>3 DEF Numbered
  <1>8. Copied'
    BY <1>3, <1>6 DEF PagesInv, Copied
  <1>9. SeenByAll'
    BY <1>3, <1>6 DEF PagesInv, SeenByAll
  <1>10. SalesFound'
    BY <1>3, <1>6 DEF PagesInv, SalesFound, Of, Due, Current
  <1>11. StillToRead'
    BY <1>3, <1>6 DEF PagesInv, StillToRead, Of
  <1> QED
    BY <1>4, <1>7, <1>8, <1>9, <1>10, <1>11 DEF PagesInv

LEMMA DeleteKeeps ==
  ASSUME PagesInv, NEW d \in reports, Delete(d)
  PROVE  PagesInv'
  <1>1. reports' \subseteq reports /\ changes' = changes + 1 /\ pages' = pages /\ changes \in Nat
    BY DEF Delete, Change, PagesInv, PagesTypeOK
  <1>2. PagesTypeOK'
    <2>1. IsFiniteSet(reports')
      BY <1>1, FS_Subset DEF PagesInv, PagesTypeOK
    <2> QED
      BY <1>1, <2>1 DEF PagesInv, PagesTypeOK
  <1>3. Numbered'
    <2>1. \A r \in reports' : r.id < changes'
      BY <1>1 DEF PagesInv, PagesTypeOK, ReportRecords, Numbered
    <2>2. ASSUME NEW v \in Viewers
          PROVE  /\ \A i \in pages[v].shown \union pages[v].seen : i < changes'
                 /\ \A i \in DOMAIN pages[v].todo : pages[v].todo[i].id < changes'
      <3>1. pages[v] \in PageRecords
        BY PageTyped
      <3>2. \A i \in pages[v].shown \union pages[v].seen : i \in Nat /\ i < changes
        BY <3>1 DEF PageRecords, PagesInv, Numbered
      <3>3. \A i \in DOMAIN pages[v].todo : pages[v].todo[i] \in ReportRecords
        BY <3>1, ElementOfSeq, LenProperties DEF PageRecords
      <3>4. \A i \in DOMAIN pages[v].todo : pages[v].todo[i].id \in Nat /\ pages[v].todo[i].id < changes
        BY <3>3 DEF ReportRecords, PagesInv, Numbered
      <3> QED
        BY <1>1, <3>2, <3>4
    <2> QED
      BY <1>1, <2>1, <2>2 DEF PagesInv, Numbered
  <1>4. Copied' /\ SeenByAll'
    BY <1>1 DEF PagesInv, Copied, SeenByAll
  <1>5. SalesFound'
    BY <1>1 DEF PagesInv, SalesFound, Of, Due, Current
  <1>6. StillToRead'
    BY <1>1 DEF PagesInv, StillToRead, Of
  <1> QED
    BY <1>2, <1>3, <1>4, <1>5, <1>6 DEF PagesInv

\* What replaces each report of a finite set is finite.
LEMMA FiniteImage ==
  ASSUME NEW rs, IsFiniteSet(rs), NEW f
  PROVE  IsFiniteSet({f[r] : r \in rs})
  <1>1. [r \in rs |-> f[r]] \in Surjection(rs, {f[r] : r \in rs})
    BY DEF Surjection
  <1> QED
    BY <1>1, FS_Surjection

LEMMA UpgradeKeeps ==
  ASSUME PagesInv, Upgrade
  PROVE  PagesInv'
  <1>1. PICK f : f = [r \in reports |-> [r EXCEPT !.old = TRUE]]
    OBVIOUS
  <1>2. reports' = {f[r] : r \in reports}
    BY <1>1 DEF Upgrade
  <1>3. \A r \in reports : f[r] \in ReportRecords /\ f[r].id = r.id
    BY <1>1 DEF PagesInv, PagesTypeOK, ReportRecords
  <1>4. IsFiniteSet(reports')
    BY <1>2, FiniteImage DEF PagesInv, PagesTypeOK
  <1>5. changes' = changes + 1 /\ changes \in Nat
    BY DEF Upgrade, Change, PagesInv, PagesTypeOK
  <1>6. pages' = [v \in Viewers |-> NoPage]
    BY DEF Upgrade
  <1>7. \A v \in Viewers : pages'[v] = NoPage /\ ~(pages'[v].todo # <<>>)
    BY <1>6, NoPageTyped
  <1>8. PagesTypeOK'
    BY <1>2, <1>3, <1>4, <1>5, <1>6, NoPageTyped DEF PagesTypeOK
  <1>9. Numbered'
    <2>1. \A r \in reports' : r.id < changes'
      BY <1>2, <1>3, <1>5 DEF PagesInv, PagesTypeOK, ReportRecords, Numbered
    <2>2. \A r, s \in reports' : r.id = s.id => r = s
      BY <1>2, <1>3 DEF PagesInv, Numbered
    <2> QED
      BY <1>7, <2>1, <2>2, NoPageTyped DEF Numbered
  <1> QED
    BY <1>7, <1>8, <1>9, NoPageTyped DEF PagesInv, Copied, SeenByAll, SalesFound, StillToRead, Due

\* A page that ends leaves the others as they are.
LEMMA EndKeeps ==
  ASSUME PagesInv, NEW v \in Viewers, pages' = [pages EXCEPT ![v] = NoPage], UNCHANGED <<reports, changes>>
  PROVE  PagesInv'
  <1>1. pages'[v] = NoPage /\ \A u \in Viewers : u # v => pages'[u] = pages[u]
    BY DEF PagesInv, PagesTypeOK
  <1>2. reports' = reports /\ changes' = changes
    OBVIOUS
  <1>3. PagesTypeOK'
    BY <1>1, <1>2, NoPageTyped DEF PagesInv, PagesTypeOK
  <1>4. Numbered'
    BY <1>1, <1>2, NoPageTyped DEF PagesInv, Numbered
  <1>5. Copied'
    BY <1>1, <1>2, NoPageTyped DEF PagesInv, Copied
  <1>6. SeenByAll'
    BY <1>1, <1>2, NoPageTyped DEF PagesInv, SeenByAll
  <1>7. SalesFound'
    BY <1>1, <1>2, NoPageTyped DEF PagesInv, SalesFound, Due, Current, Of
  <1>8. StillToRead'
    BY <1>1, <1>2, NoPageTyped DEF PagesInv, StillToRead, Of
  <1> QED
    BY <1>3, <1>4, <1>5, <1>6, <1>7, <1>8 DEF PagesInv

\* Sales of the week that any page has come after are known to a page that has
\* looked for them.
LEMMA SalesKnown ==
  ASSUME PagesInv, NEW u \in Viewers, NEW v \in Viewers, Due(v), pages[v].dpt # None,
         NEW s \in Of(reports, "sales"), Current(v).week = s.week, s.id \in pages[u].seen
  PROVE  pages[v].dpt[1] # None
  <1>1. s \in reports
    BY DEF Of
  <1>2. s.id \in pages[v].seen
    BY <1>1, PageTyped DEF PagesInv, SeenByAll
  <1> QED
    BY <1>2 DEF PagesInv, SalesFound

\* A page goes on to its next report, and the one it leaves keeps the figures it
\* had or has those that were looked up.
LEMMA TurnedKeeps ==
  ASSUME PagesInv, NEW v \in Viewers, Due(v), pages' = NextReport(v), changes' = changes,
         reports' \in SUBSET ReportRecords, IsFiniteSet(reports'),
         \A r, s \in reports' : r.id = s.id => r = s,
         \A r \in reports' : \E s \in reports :
           /\ r.id = s.id /\ r.kind = s.kind /\ r.week = s.week
           /\ \/ r.dpt = s.dpt
              \/ r.kind = "gift" /\ r.id = Current(v).id /\ pages[v].dpt # None /\ r.dpt = pages[v].dpt[1],
         \A g \in Of(reports', "gift") : g.id = Current(v).id =>
           Current(v).dpt # None \/ (pages[v].dpt # None /\ g.dpt = pages[v].dpt[1])
  PROVE  PagesInv'
  <1>1. /\ pages'[v] = [pages[v] EXCEPT !.todo = Tail(@), !.dpt = None]
        /\ \A u \in Viewers : u # v => pages'[u] = pages[u]
        /\ pages' \in [Viewers -> PageRecords]
    <2>1. pages[v] \in PageRecords /\ Tail(pages[v].todo) \in Seq(ReportRecords)
      BY PageTyped
    <2>2. [pages[v] EXCEPT !.todo = Tail(@), !.dpt = None] \in PageRecords
      BY <2>1 DEF PageRecords
    <2> QED
      BY <2>2 DEF NextReport, PagesInv, PagesTypeOK
  <1>2. /\ pages'[v].kind = pages[v].kind /\ pages[v].kind # None
        /\ pages'[v].shown = pages[v].shown /\ pages'[v].seen = pages[v].seen
        /\ pages'[v].todo = Tail(pages[v].todo) /\ pages'[v].dpt = None
    BY <1>1, PageTyped DEF PageRecords
  <1>3. \A u \in Viewers : pages'[u].kind = pages[u].kind /\ pages'[u].shown = pages[u].shown /\ pages'[u].seen = pages[u].seen
    BY <1>1, <1>2
  <1>4. \A u \in Viewers : \A i \in DOMAIN pages'[u].todo : \E j \in DOMAIN pages[u].todo : pages'[u].todo[i] = pages[u].todo[j]
    <2>1. \A i \in DOMAIN pages'[v].todo : \E j \in DOMAIN pages[v].todo : pages'[v].todo[i] = pages[v].todo[j]
      <3>1. pages'[v].todo = Tail(pages[v].todo)
        BY <1>2
      <3>2. \A i \in DOMAIN Tail(pages[v].todo) : \E j \in DOMAIN pages[v].todo : Tail(pages[v].todo)[i] = pages[v].todo[j]
        BY PageTyped
      <3> QED
        BY <3>1, <3>2
    <2>2. ASSUME NEW u \in Viewers, u # v
          PROVE  \A i \in DOMAIN pages'[u].todo : \E j \in DOMAIN pages[u].todo : pages'[u].todo[i] = pages[u].todo[j]
      BY <1>1, <2>2
    <2> QED
      BY <2>1, <2>2
  <1>5. \A r \in reports' : \E s \in reports : r.id = s.id /\ r.kind = s.kind /\ r.week = s.week
    OBVIOUS
  <1>6. PagesTypeOK'
    <2>1. \A u \in Viewers : pages'[u].kind = None => pages'[u] = NoPage
      BY <1>1, <1>2 DEF PagesInv, PagesTypeOK
    <2> QED
      BY <1>1, <2>1 DEF PagesInv, PagesTypeOK
  <1>7. Numbered'
    BY <1>3, <1>4, <1>5 DEF PagesInv, Numbered
  <1>8. Copied'
    BY <1>4, <1>5 DEF PagesInv, Copied
  <1>9. SeenByAll'
    BY <1>3, <1>5 DEF PagesInv, SeenByAll
  <1>10. SalesFound'
    <2>1. ASSUME NEW u \in Viewers, NEW s \in Of(reports', "sales"), Due(u)', Current(u)'.week = s.week,
                 s.id \in pages'[u].seen, pages'[u].dpt # None
          PROVE  pages'[u].dpt[1] # None
      <3>1. u # v /\ pages'[u] = pages[u]
        BY <1>1, <1>2, <2>1
      <3>2. PICK t \in reports : s.id = t.id /\ s.kind = t.kind /\ s.week = t.week
        BY <1>5, <2>1 DEF Of
      <3>3. t \in Of(reports, "sales")
        BY <3>2 DEF Of
      <3> QED
        BY <2>1, <3>1, <3>2, <3>3 DEF PagesInv, SalesFound, Due, Current
    <2> QED
      BY <2>1 DEF SalesFound, Of
  <1>11. StillToRead'
    <2>1. ASSUME NEW u \in Viewers, NEW g \in Of(reports', "gift"), NEW s \in Of(reports', "sales"),
                 s.week = g.week, s.id \in pages'[u].seen, g.id \in pages'[u].shown, g.dpt = None
          PROVE  \E i \in DOMAIN pages'[u].todo : pages'[u].todo[i].id = g.id /\ pages'[u].todo[i].dpt = None
      <3>1. PICK t \in reports : s.id = t.id /\ s.kind = t.kind /\ s.week = t.week
        BY <1>5 DEF Of
      <3>2. PICK h \in reports :
              /\ g.id = h.id /\ g.kind = h.kind /\ g.week = h.week
              /\ \/ g.dpt = h.dpt
                 \/ g.kind = "gift" /\ g.id = Current(v).id /\ pages[v].dpt # None /\ g.dpt = pages[v].dpt[1]
        BY DEF Of
      <3>3. t \in Of(reports, "sales") /\ h \in Of(reports, "gift") /\ t.week = h.week
        BY <2>1, <3>1, <3>2 DEF Of
      <3>4. t.id \in pages[u].seen /\ h.id \in pages[u].shown
        BY <1>3, <2>1, <3>1, <3>2
      <3>5. Current(v).id = g.id => Current(v).week = t.week
        BY <3>2, <3>3, PageTyped DEF PagesInv, Copied
      <3>6. ~(g.id = Current(v).id /\ pages[v].dpt # None /\ g.dpt = pages[v].dpt[1])
        BY <2>1, <3>3, <3>4, <3>5, SalesKnown
      <3>7. h.dpt = None
        BY <2>1, <3>2, <3>6
      <3>8. PICK j \in DOMAIN pages[u].todo : pages[u].todo[j].id = g.id /\ pages[u].todo[j].dpt = None
        BY <3>2, <3>3, <3>4, <3>7 DEF PagesInv, StillToRead
      <3>9. CASE u # v
        BY <1>1, <3>8, <3>9
      <3>10. CASE u = v
        <4>1. ~(Current(v).id = g.id /\ Current(v).dpt = None)
          BY <3>6
        <4>2. j # 1
          BY <3>8, <3>10, <4>1, PageTyped
        <4>3. PICK i \in DOMAIN Tail(pages[v].todo) : Tail(pages[v].todo)[i] = pages[v].todo[j]
          <5>1. j \in DOMAIN pages[v].todo
            BY <3>8, <3>10
          <5> QED
            BY <4>2, <5>1, PageTyped
        <4>4. pages'[u].todo = Tail(pages[v].todo)
          BY <1>2, <3>10
        <4> QED
          BY <3>8, <3>10, <4>3, <4>4
      <3> QED
        BY <3>9, <3>10
    <2> QED
      BY <2>1 DEF StillToRead, Of
  <1> QED
    BY <1>6, <1>7, <1>8, <1>9, <1>10, <1>11 DEF PagesInv

LEMMA SkipKeeps ==
  ASSUME PagesInv, NEW v \in Viewers, Skip(v)
  PROVE  PagesInv'
  <1>1. Due(v) /\ ~Stale(Current(v)) /\ pages' = NextReport(v) /\ reports' = reports /\ changes' = changes
    BY DEF Skip
  <1>2. ASSUME NEW g \in Of(reports', "gift"), g.id = Current(v).id
        PROVE  Current(v).dpt # None
    <2>1. g \in reports /\ g.kind = "gift"
      BY <1>1, <1>2 DEF Of
    <2>2. Current(v).kind = "gift"
      BY <1>1, <1>2, <2>1, PageTyped DEF PagesInv, Copied
    <2> QED
      BY <1>1, <2>2 DEF Stale, StaleGift
  <1> QED
    BY <1>1, <1>2, TurnedKeeps DEF PagesInv, PagesTypeOK, Numbered

LEMMA StoreKeeps ==
  ASSUME PagesInv, NEW v \in Viewers, Store(v)
  PROVE  PagesInv'
  <1>1. Due(v) /\ changes' = changes /\ (Current(v).kind = "gift" => pages[v].dpt # None)
    BY DEF Store
  <1>2. CASE Current(v).id \in Ids(reports)
    <2>1. PICK f : f = [s \in reports |->
                          IF s.id # Current(v).id THEN s
                          ELSE [s EXCEPT !.old = FALSE, !.dpt = IF s.kind = "gift" THEN pages[v].dpt[1] ELSE @]]
      OBVIOUS
    <2>2. reports' = {f[s] : s \in reports} /\ pages' = NextReport(v)
      BY <1>2, <2>1 DEF Store
    <2>3. ASSUME NEW s \in reports
          PROVE  /\ f[s] \in ReportRecords
                 /\ f[s].id = s.id /\ f[s].kind = s.kind /\ f[s].week = s.week
                 /\ \/ f[s].dpt = s.dpt
                    \/ s.kind = "gift" /\ s.id = Current(v).id /\ pages[v].dpt # None /\ f[s].dpt = pages[v].dpt[1]
                 /\ s.kind = "gift" /\ s.id = Current(v).id => pages[v].dpt # None /\ f[s].dpt = pages[v].dpt[1]
      <3>1. s \in ReportRecords
        BY DEF PagesInv, PagesTypeOK
      <3>2. s.kind = "gift" /\ s.id = Current(v).id => pages[v].dpt # None
        BY <1>1, PageTyped DEF PagesInv, Copied
      <3>3. pages[v].dpt # None => pages[v].dpt[1] \in Nat \union {None}
        BY PageTyped DEF PageRecords
      <3>4. CASE s.id # Current(v).id
        BY <2>1, <3>1, <3>4
      <3>5. CASE s.id = Current(v).id /\ s.kind = "gift"
        <4>1. f[s] = [s EXCEPT !.old = FALSE, !.dpt = pages[v].dpt[1]]
          BY <2>1, <3>5
        <4> QED
          BY <3>1, <3>2, <3>3, <3>5, <4>1 DEF ReportRecords
      <3>6. CASE s.id = Current(v).id /\ s.kind # "gift"
        <4>1. f[s] = [s EXCEPT !.old = FALSE, !.dpt = s.dpt]
          BY <2>1, <3>6
        <4> QED
          BY <3>1, <3>6, <4>1 DEF ReportRecords
      <3> QED
        BY <3>4, <3>5, <3>6
    <2>4. IsFiniteSet(reports')
      BY <2>2, FiniteImage DEF PagesInv, PagesTypeOK
    <2>5. reports' \in SUBSET ReportRecords
      BY <2>2, <2>3
    <2>6. \A r, s \in reports' : r.id = s.id => r = s
      BY <2>2, <2>3 DEF PagesInv, Numbered
    <2>7. \A r \in reports' : \E s \in reports :
            /\ r.id = s.id /\ r.kind = s.kind /\ r.week = s.week
            /\ \/ r.dpt = s.dpt
               \/ r.kind = "gift" /\ r.id = Current(v).id /\ pages[v].dpt # None /\ r.dpt = pages[v].dpt[1]
      BY <2>2, <2>3
    <2>8. \A g \in Of(reports', "gift") : g.id = Current(v).id =>
            Current(v).dpt # None \/ (pages[v].dpt # None /\ g.dpt = pages[v].dpt[1])
      BY <2>2, <2>3 DEF Of
    <2> QED
      BY <1>1, <2>2, <2>4, <2>5, <2>6, <2>7, <2>8, TurnedKeeps
  <1>3. CASE Current(v).id \notin Ids(reports)
    <2>1. pages' = [pages EXCEPT ![v] = NoPage] /\ UNCHANGED <<reports, changes>>
      BY <1>1, <1>3 DEF Store
    <2> QED
      BY <2>1, EndKeeps
  <1> QED
    BY <1>2, <1>3

LEMMA ReadSalesKeeps ==
  ASSUME PagesInv, NEW v \in Viewers, ReadSales(v)
  PROVE  PagesInv'
  <1>1. PICK found : found = <<IF SalesOf(Current(v)) = <<>> THEN None ELSE SalesOf(Current(v))[1].id>>
    OBVIOUS
  <1>2. /\ Due(v) /\ reports' = reports /\ changes' = changes
        /\ pages' = [pages EXCEPT ![v].dpt = found]
    BY <1>1 DEF ReadSales
  <1>3. found \in {<<x>> : x \in Nat \union {None}}
    BY <1>1, SalesLookedUp
  <1>4. \A s \in Of(reports, "sales") : Current(v).week = s.week => found[1] # None
    BY <1>1, SalesLookedUp, NoneAssumption
  <1>5. /\ pages'[v] = [pages[v] EXCEPT !.dpt = found] /\ pages[v] \in PageRecords
        /\ \A u \in Viewers : u # v => pages'[u] = pages[u]
    BY <1>2, PageTyped DEF PagesInv, PagesTypeOK
  <1>6. /\ pages'[v].dpt = found /\ pages'[v].kind = pages[v].kind /\ pages[v].kind # None
        /\ pages'[v].shown = pages[v].shown /\ pages'[v].seen = pages[v].seen /\ pages'[v].todo = pages[v].todo
        /\ pages'[v] \in PageRecords
    <2>1. pages[v].kind # None
      BY <1>2, PageTyped
    <2>2. [pages[v] EXCEPT !.dpt = found] \in PageRecords
      BY <1>3, <1>5 DEF PageRecords
    <2> QED
      BY <1>5, <2>1, <2>2 DEF PageRecords
  <1>7. \A u \in Viewers : /\ pages'[u].kind = pages[u].kind /\ pages'[u].shown = pages[u].shown
                           /\ pages'[u].seen = pages[u].seen /\ pages'[u].todo = pages[u].todo
    BY <1>5, <1>6
  <1>8. PagesTypeOK'
    BY <1>2, <1>5, <1>6 DEF PagesInv, PagesTypeOK
  <1>9. Numbered' /\ Copied' /\ SeenByAll'
    BY <1>2, <1>7 DEF PagesInv, Numbered, Copied, SeenByAll
  <1>10. SalesFound'
    <2>1. ASSUME NEW u \in Viewers, NEW s \in Of(reports, "sales"), Due(u)', Current(u)'.week = s.week,
                 s.id \in pages'[u].seen, pages'[u].dpt # None
          PROVE  pages'[u].dpt[1] # None
      <3>1. CASE u = v
        BY <1>4, <1>6, <2>1, <3>1 DEF Current
      <3>2. CASE u # v
        BY <1>5, <2>1, <3>2 DEF PagesInv, SalesFound, Due, Current
      <3> QED
        BY <3>1, <3>2
    <2> QED
      BY <1>2, <2>1 DEF SalesFound, Of
  <1>11. StillToRead'
    BY <1>2, <1>7 DEF PagesInv, StillToRead, Of
  <1> QED
    BY <1>8, <1>9, <1>10, <1>11 DEF PagesInv

\* A page shows reports of its kind.
LEMMA SelectedOf ==
  ASSUME PagesInv, NEW kind, NEW shown \in Selections(kind)
  PROVE  shown \subseteq reports
  <1>1. Of(reports, kind) \subseteq reports
    BY DEF Of
  <1>2. Distinct(Of(reports, kind))
    BY <1>1, ReportsDistinct, DistinctSubset
  <1>3. ToSet(Latest(reports, kind)) \subseteq Of(reports, kind)
    BY <1>2, LatestIsOne DEF Latest
  <1>4. \A from, to : Selected(reports, kind, "last_week", from, to) \subseteq Of(reports, kind)
    BY <1>3 DEF Selected
  <1>5. \A from, to : Selected(reports, kind, "month", from, to) \subseteq Of(reports, kind)
    BY DEF Selected
  <1>6. \A from, to : Selected(reports, kind, "quarter", from, to) \subseteq Of(reports, kind)
    BY DEF Selected
  <1>7. \A from, to : Selected(reports, kind, "year", from, to) \subseteq Of(reports, kind)
    BY DEF Selected
  <1>8. \A from, to : Selected(reports, kind, "range", from, to) \subseteq Of(reports, kind)
    BY DEF Selected, InRange
  <1> QED
    BY <1>1, <1>4, <1>5, <1>6, <1>7, <1>8 DEF Selections, Filters, Detail

LEMMA OpenKeeps ==
  ASSUME PagesInv, NEW v \in Viewers, NEW kind \in Watched, Open(v, kind)
  PROVE  PagesInv'
  <1>1. reports' = reports /\ changes' = changes /\ pages[v] = NoPage
    BY DEF Open
  <1>2. PICK shown \in Selections(kind) :
          pages' = [pages EXCEPT ![v] =
            [kind |-> kind, shown |-> Ids(shown),
             seen |-> {i \in Ids(reports) : \A o \in {pages[u].seen : u \in {u \in Viewers : pages[u].kind # None}} : i \in o},
             todo |-> Sorted(shown), dpt |-> None]]
    BY DEF Open
  <1>3. PICK seen : seen = {i \in Ids(reports) : \A u \in Viewers : pages[u].kind # None => i \in pages[u].seen}
    OBVIOUS
  <1>4. seen = {i \in Ids(reports) : \A o \in {pages[u].seen : u \in {u \in Viewers : pages[u].kind # None}} : i \in o}
    BY <1>3
  <1>5. shown \subseteq reports /\ Distinct(shown)
    BY <1>2, SelectedOf, ReportsDistinct, DistinctSubset
  <1>6. PICK todo, n : todo = Sorted(shown) /\ n = Cardinality(shown)
    OBVIOUS
  <1>7. /\ todo \in Seq(shown) /\ DOMAIN todo = 1..n /\ n \in Nat
        /\ \A r \in shown : \E i \in 1..n : todo[i] = r
        /\ \A i \in 1..n : todo[i] \in shown
    BY <1>5, <1>6, SortedProperties, LenProperties
  <1>8. /\ pages'[v] = [kind |-> kind, shown |-> Ids(shown), seen |-> seen, todo |-> todo, dpt |-> None]
        /\ \A u \in Viewers : u # v => pages'[u] = pages[u]
        /\ DOMAIN pages' = Viewers
    BY <1>2, <1>4, <1>6 DEF PagesInv, PagesTypeOK
  <1>9. kind \in Kinds /\ kind # None
    BY WatchedAssumption, NoneAssumption DEF Kinds
  <1>10. /\ pages'[v].kind = kind /\ pages'[v].shown = Ids(shown) /\ pages'[v].seen = seen
         /\ pages'[v].todo = todo /\ pages'[v].dpt = None
    BY <1>8
  <1>11. \A r \in reports : r \in ReportRecords /\ r.id \in Nat /\ r.id < changes
    BY DEF PagesInv, PagesTypeOK, ReportRecords, Numbered
  <1>12. Ids(shown) \in SUBSET Nat /\ seen \in SUBSET Nat /\ seen \subseteq Ids(reports) /\ Ids(shown) \subseteq Ids(reports)
    BY <1>3, <1>5, <1>11 DEF Ids
  <1>13. PagesTypeOK'
    <2>1. todo \in Seq(ReportRecords)
      BY <1>5, <1>7, <1>11, SeqDef
    <2>2. pages'[v] \in PageRecords
      BY <1>8, <1>9, <1>12, <2>1 DEF PageRecords
    <2>3. pages' \in [Viewers -> PageRecords]
      BY <1>2, <1>8, <2>2 DEF PagesInv, PagesTypeOK
    <2>4. \A u \in Viewers : pages'[u].kind = None => pages'[u] = NoPage
      BY <1>8, <1>9, <1>10 DEF PagesInv, PagesTypeOK
    <2> QED
      BY <1>1, <2>3, <2>4 DEF PagesInv, PagesTypeOK
  <1>14. Numbered'
    <2>1. \A i \in Ids(reports) : i < changes
      BY <1>11 DEF Ids
    <2>2. \A i \in pages'[v].shown \union pages'[v].seen : i < changes
      BY <1>10, <1>12, <2>1
    <2>3. \A i \in DOMAIN pages'[v].todo : pages'[v].todo[i].id < changes
      BY <1>5, <1>7, <1>10, <1>11
    <2>4. \A u \in Viewers : u # v =>
            /\ \A i \in pages'[u].shown \union pages'[u].seen : i < changes
            /\ \A i \in DOMAIN pages'[u].todo : pages'[u].todo[i].id < changes
      BY <1>8 DEF PagesInv, Numbered
    <2> QED
      BY <1>1, <2>2, <2>3, <2>4 DEF PagesInv, Numbered
  <1>15. Copied'
    <2>1. \A r \in reports : \A i \in 1..n : r.id = todo[i].id => r = todo[i]
      BY <1>5, <1>7 DEF PagesInv, Numbered
    <2>2. \A r \in reports : \A i \in DOMAIN pages'[v].todo :
            r.id = pages'[v].todo[i].id => r.kind = pages'[v].todo[i].kind /\ r.week = pages'[v].todo[i].week
      BY <1>7, <1>10, <2>1
    <2>3. \A u \in Viewers : u # v => \A r \in reports : \A i \in DOMAIN pages'[u].todo :
            r.id = pages'[u].todo[i].id => r.kind = pages'[u].todo[i].kind /\ r.week = pages'[u].todo[i].week
      BY <1>8 DEF PagesInv, Copied
    <2> QED
      BY <1>1, <2>2, <2>3 DEF Copied
  <1>16. SeenByAll'
    <2>1. ASSUME NEW u \in Viewers, NEW w \in Viewers, NEW s \in reports, pages'[u].kind # None, s.id \in pages'[w].seen
          PROVE  s.id \in pages'[u].seen
      <3>1. s.id \in Ids(reports)
        BY DEF Ids
      <3>2. CASE u = v /\ w = v
        BY <2>1, <3>2
      <3>3. CASE u = v /\ w # v
        <4>1. s.id \in pages[w].seen
          BY <1>8, <2>1, <3>3
        <4>2. \A x \in Viewers : pages[x].kind # None => s.id \in pages[x].seen
          BY <4>1 DEF PagesInv, SeenByAll
        <4> QED
          BY <1>3, <1>10, <3>1, <3>3, <4>2
      <3>4. CASE u # v /\ w = v
        BY <1>3, <1>8, <1>10, <2>1, <3>4
      <3>5. CASE u # v /\ w # v
        BY <1>8, <2>1, <3>5 DEF PagesInv, SeenByAll
      <3> QED
        BY <3>2, <3>3, <3>4, <3>5
    <2> QED
      BY <1>1, <2>1 DEF SeenByAll
  <1>17. SalesFound'
    <2>1. ASSUME NEW u \in Viewers, NEW s \in Of(reports, "sales"), Due(u)', Current(u)'.week = s.week,
                 s.id \in pages'[u].seen, pages'[u].dpt # None
          PROVE  pages'[u].dpt[1] # None
      <3>1. u # v /\ pages'[u] = pages[u]
        BY <1>8, <1>10, <2>1
      <3> QED
        BY <2>1, <3>1 DEF PagesInv, SalesFound, Due, Current
    <2> QED
      BY <1>1, <2>1 DEF SalesFound, Of
  <1>18. StillToRead'
    <2>1. ASSUME NEW u \in Viewers, NEW g \in Of(reports, "gift"), NEW s \in Of(reports, "sales"),
                 s.week = g.week, s.id \in pages'[u].seen, g.id \in pages'[u].shown, g.dpt = None
          PROVE  \E i \in DOMAIN pages'[u].todo : pages'[u].todo[i].id = g.id /\ pages'[u].todo[i].dpt = None
      <3>1. CASE u = v
        <4>1. g \in shown
          <5>1. PICK r \in shown : r.id = g.id
            BY <1>10, <2>1, <3>1 DEF Ids
          <5>2. r \in reports /\ g \in reports
            BY <1>5 DEF Of
          <5> QED
            BY <5>1, <5>2 DEF PagesInv, Numbered
        <4> QED
          BY <1>7, <1>10, <2>1, <3>1, <4>1
      <3>2. CASE u # v
        BY <1>8, <2>1, <3>2 DEF PagesInv, StillToRead
      <3> QED
        BY <3>1, <3>2
    <2> QED
      BY <1>1, <2>1 DEF StillToRead, Of
  <1> QED
    BY <1>13, <1>14, <1>15, <1>16, <1>17, <1>18 DEF PagesInv

LEMMA PagesPreserved == PagesInv /\ [PagesNext]_pagesVars => PagesInv'
  <1> SUFFICES ASSUME PagesInv, [PagesNext]_pagesVars PROVE PagesInv'
    OBVIOUS
  <1>1. ASSUME NEW kind \in Kinds, NEW week \in Weeks, NEW listed \in Lists, Upload(kind, week, listed)
        PROVE  PagesInv'
    BY <1>1, UploadKeeps
  <1>2. ASSUME NEW r \in reports, Delete(r)
        PROVE  PagesInv'
    BY <1>2, DeleteKeeps
  <1>3. CASE Upgrade
    BY <1>3, UpgradeKeeps
  <1>4. ASSUME NEW v \in Viewers, NEW kind \in Watched, Open(v, kind)
        PROVE  PagesInv'
    BY <1>4, OpenKeeps
  <1>5. ASSUME NEW v \in Viewers, Skip(v)
        PROVE  PagesInv'
    BY <1>5, SkipKeeps
  <1>6. ASSUME NEW v \in Viewers, ReadSales(v)
        PROVE  PagesInv'
    BY <1>6, ReadSalesKeeps
  <1>7. ASSUME NEW v \in Viewers, Store(v)
        PROVE  PagesInv'
    BY <1>7, StoreKeeps
  <1>8. ASSUME NEW v \in Viewers, Close(v)
        PROVE  PagesInv'
    BY <1>8, EndKeeps DEF Close
  <1>9. CASE UNCHANGED pagesVars
    <2>1. reports' = reports /\ changes' = changes /\ pages' = pages
      BY <1>9 DEF pagesVars
    <2> QED
      BY <2>1 DEF PagesInv, PagesTypeOK, Numbered, Copied, SeenByAll, SalesFound, StillToRead, Due, Current, Of
  <1> QED
    BY <1>1, <1>2, <1>3, <1>4, <1>5, <1>6, <1>7, <1>8, <1>9 DEF PagesNext

LEMMA PagesAlways == PagesSpec => []PagesInv
  BY PagesInitially, PagesPreserved, PTL DEF PagesSpec

(***************************************************************************)
(* The report of a year                                                    *)
(***************************************************************************)
\* Rows of the report, and what PeriodRows gathers on its way.
PartNames == {"week", "month", "quarter", "year"}
RowRecords(S) == [part : PartNames, of : Seq(S)]
Gathering(S) == [rows : Seq(RowRecords(S)), month : Seq(S), quarter : Seq(S)]

\* The rows of a part, and what is gathered for the next one, go once through
\* what has been seen, in its order; each row is of one period.
Covers(rows, part, gathered, seen) ==
  /\ \A i \in 1..Len(rows) : rows[i].part = part => \A k \in 1..Len(rows[i].of) : rows[i].of[k] \in seen
  /\ \A k \in 1..Len(gathered) : gathered[k] \in seen
  /\ \A r \in seen :
       \/ \E k \in 1..Len(gathered) : gathered[k] = r
       \/ \E i \in 1..Len(rows) : rows[i].part = part /\ \E k \in 1..Len(rows[i].of) : rows[i].of[k] = r
InOrder(rows, part, gathered) ==
  /\ \A k, l \in 1..Len(gathered) : k < l => Precedes(gathered[k], gathered[l])
  /\ \A i \in 1..Len(rows) : rows[i].part = part =>
       \A k \in 1..Len(rows[i].of), l \in 1..Len(gathered) : Precedes(rows[i].of[k], gathered[l])
  /\ \A i, j \in 1..Len(rows) : rows[i].part = part /\ rows[j].part = part =>
       \A k \in 1..Len(rows[i].of), l \in 1..Len(rows[j].of) :
         i < j \/ (i = j /\ k < l) => Precedes(rows[i].of[k], rows[j].of[l])
OfOnePeriod(rows, part, period) ==
  \A i \in 1..Len(rows) : rows[i].part = part =>
    \A k, l \in 1..Len(rows[i].of) : period[rows[i].of[k]] = period[rows[i].of[l]]
GoesThrough(S, rows, part, gathered, seen, period) ==
  /\ rows \in Seq(RowRecords(S)) /\ gathered \in Seq(S) /\ seen \subseteq S
  /\ Covers(rows, part, gathered, seen)
  /\ InOrder(rows, part, gathered)
  /\ OfOnePeriod(rows, part, period)

\* The rows of a part are of later and later periods, and what is gathered of a
\* later one still.
PeriodsApart(rows, part, gathered, period) ==
  /\ \A i, j \in 1..Len(rows) : rows[i].part = part /\ rows[j].part = part /\ i < j =>
       \A k \in 1..Len(rows[i].of), l \in 1..Len(rows[j].of) : period[rows[i].of[k]] < period[rows[j].of[l]]
  /\ \A i \in 1..Len(rows) : rows[i].part = part =>
       \A k \in 1..Len(rows[i].of), l \in 1..Len(gathered) : period[rows[i].of[k]] < period[gathered[l]]
AllBefore(rows, part, period, p) ==
  \A i \in 1..Len(rows) : rows[i].part = part => \A k \in 1..Len(rows[i].of) : period[rows[i].of[k]] < p

\* What Append gives.
LEMMA OneMore ==
  ASSUME NEW S, NEW seq \in Seq(S), NEW e \in S
  PROVE  /\ Append(seq, e) \in Seq(S) /\ Len(Append(seq, e)) = Len(seq) + 1 /\ Len(seq) \in Nat
         /\ \A i \in 1..Len(seq) : Append(seq, e)[i] = seq[i]
         /\ Append(seq, e)[Len(seq) + 1] = e
         /\ \A i \in 1..(Len(seq) + 1) : i \in 1..Len(seq) \/ i = Len(seq) + 1
  BY AppendProperties, LenProperties

\* One more report is gathered.
LEMMA GatherOne ==
  ASSUME NEW S, NEW rows, NEW part, NEW gathered, NEW seen, NEW period,
         GoesThrough(S, rows, part, gathered, seen, period),
         NEW e \in S, \A r \in seen : Precedes(r, e)
  PROVE  GoesThrough(S, rows, part, Append(gathered, e), seen \union {e}, period)
  <1> DEFINE more == Append(gathered, e)
             n == Len(gathered)
  <1>1. gathered \in Seq(S) /\ rows \in Seq(RowRecords(S)) /\ seen \subseteq S
    BY DEF GoesThrough
  <1>2. /\ more \in Seq(S) /\ Len(more) = n + 1 /\ n \in Nat
        /\ \A i \in 1..n : more[i] = gathered[i]
        /\ more[n + 1] = e
        /\ \A i \in 1..(n + 1) : i \in 1..n \/ i = n + 1
    BY <1>1, OneMore
  <1>3. \A k \in 1..n : gathered[k] \in seen
    BY DEF GoesThrough, Covers
  <1> HIDE DEF more, n
  <1>4. n + 1 \in 1..(n + 1) /\ \A k \in 1..n : k \in 1..(n + 1)
    BY <1>2
  <1>5. Covers(rows, part, more, seen \union {e})
    <2>1. \A i \in 1..Len(rows) : rows[i].part = part => \A k \in 1..Len(rows[i].of) : rows[i].of[k] \in seen \union {e}
      BY DEF GoesThrough, Covers
    <2>2. \A k \in 1..Len(more) : more[k] \in seen \union {e}
      BY <1>2, <1>3
    <2>3. ASSUME NEW r \in seen
          PROVE  \/ \E k \in 1..Len(more) : more[k] = r
                 \/ \E i \in 1..Len(rows) : rows[i].part = part /\ \E k \in 1..Len(rows[i].of) : rows[i].of[k] = r
      <3>1. \/ \E k \in 1..n : gathered[k] = r
            \/ \E i \in 1..Len(rows) : rows[i].part = part /\ \E k \in 1..Len(rows[i].of) : rows[i].of[k] = r
        BY DEF GoesThrough, Covers, n
      <3> QED
        BY <1>2, <1>4, <3>1
    <2>4. \E k \in 1..Len(more) : more[k] = e
      BY <1>2, <1>4
    <2> QED
      BY <2>1, <2>2, <2>3, <2>4 DEF Covers
  <1>6. InOrder(rows, part, more)
    <2>1. ASSUME NEW k \in 1..Len(more), NEW l \in 1..Len(more), k < l
          PROVE  Precedes(more[k], more[l])
      <3>1. k \in 1..n
        BY <1>2, <2>1
      <3>2. CASE l \in 1..n
        <4>1. Precedes(gathered[k], gathered[l])
          BY <2>1, <3>1, <3>2 DEF GoesThrough, InOrder, n
        <4> QED
          BY <1>2, <3>1, <3>2, <4>1
      <3>3. CASE l = n + 1
        BY <1>2, <1>3, <3>1, <3>3
      <3> QED
        BY <1>2, <3>2, <3>3
    <2>2. ASSUME NEW i \in 1..Len(rows), rows[i].part = part, NEW k \in 1..Len(rows[i].of), NEW l \in 1..Len(more)
          PROVE  Precedes(rows[i].of[k], more[l])
      <3>1. CASE l \in 1..n
        <4>1. Precedes(rows[i].of[k], gathered[l])
          BY <2>2, <3>1 DEF GoesThrough, InOrder, n
        <4> QED
          BY <1>2, <3>1, <4>1
      <3>2. CASE l = n + 1
        <4>1. rows[i].of[k] \in seen
          BY <2>2 DEF GoesThrough, Covers
        <4> QED
          BY <1>2, <3>2, <4>1
      <3> QED
        BY <1>2, <3>1, <3>2
    <2>3. \A i, j \in 1..Len(rows) : rows[i].part = part /\ rows[j].part = part =>
            \A k \in 1..Len(rows[i].of), l \in 1..Len(rows[j].of) :
              i < j \/ (i = j /\ k < l) => Precedes(rows[i].of[k], rows[j].of[l])
      BY DEF GoesThrough, InOrder
    <2> QED
      BY <2>1, <2>2, <2>3 DEF InOrder
  <1> QED
    BY <1>1, <1>2, <1>5, <1>6 DEF GoesThrough, more

\* A row of another part.
LEMMA RowOfAnother ==
  ASSUME NEW S, NEW rows, NEW part, NEW gathered, NEW seen, NEW period,
         GoesThrough(S, rows, part, gathered, seen, period),
         NEW row \in RowRecords(S), row.part # part
  PROVE  GoesThrough(S, Append(rows, row), part, gathered, seen, period)
  <1> DEFINE more == Append(rows, row)
             n == Len(rows)
  <1>1. gathered \in Seq(S) /\ rows \in Seq(RowRecords(S)) /\ seen \subseteq S
    BY DEF GoesThrough
  <1>2. /\ more \in Seq(RowRecords(S)) /\ Len(more) = n + 1 /\ n \in Nat
        /\ \A i \in 1..n : more[i] = rows[i]
        /\ more[n + 1] = row
        /\ \A i \in 1..(n + 1) : i \in 1..n \/ i = n + 1
    BY <1>1, OneMore
  <1> HIDE DEF more
  <1>3. \A i \in 1..Len(more) : more[i].part = part => i \in 1..n /\ more[i] = rows[i]
    BY <1>2
  <1>4. \A i \in 1..n : i \in 1..Len(more) /\ more[i] = rows[i]
    BY <1>2
  <1>5. Covers(more, part, gathered, seen)
    <2>1. Covers(rows, part, gathered, seen)
      BY DEF GoesThrough
    <2> QED
      BY <1>3, <1>4, <2>1 DEF Covers
  <1>6. InOrder(more, part, gathered)
    <2>1. InOrder(rows, part, gathered)
      BY DEF GoesThrough
    <2> QED
      BY <1>3, <2>1 DEF InOrder
  <1>7. OfOnePeriod(more, part, period)
    <2>1. OfOnePeriod(rows, part, period)
      BY DEF GoesThrough
    <2> QED
      BY <1>3, <2>1 DEF OfOnePeriod
  <1> QED
    BY <1>1, <1>2, <1>5, <1>6, <1>7 DEF GoesThrough, more

\* A row of what has been gathered, of one period.
LEMMA RowOfPart ==
  ASSUME NEW S, NEW rows, NEW part \in PartNames, NEW gathered, NEW seen, NEW period,
         GoesThrough(S, rows, part, gathered, seen, period),
         \A k, l \in 1..Len(gathered) : period[gathered[k]] = period[gathered[l]]
  PROVE  GoesThrough(S, Append(rows, [part |-> part, of |-> gathered]), part, <<>>, seen, period)
  <1> DEFINE row == [part |-> part, of |-> gathered]
             more == Append(rows, row)
             n == Len(rows)
  <1>1. gathered \in Seq(S) /\ rows \in Seq(RowRecords(S)) /\ seen \subseteq S
    BY DEF GoesThrough
  <1>2. row \in RowRecords(S) /\ row.part = part /\ row.of = gathered
    BY <1>1 DEF RowRecords
  <1> HIDE DEF row
  <1>3. /\ more \in Seq(RowRecords(S)) /\ Len(more) = n + 1 /\ n \in Nat
        /\ \A i \in 1..n : more[i] = rows[i]
        /\ more[n + 1] = row
        /\ \A i \in 1..(n + 1) : i \in 1..n \/ i = n + 1
    BY <1>1, <1>2, OneMore
  <1> HIDE DEF more, n
  <1>4. n + 1 \in 1..Len(more) /\ \A i \in 1..n : i \in 1..Len(more) /\ more[i] = rows[i]
    BY <1>3
  <1>5. Covers(rows, part, gathered, seen) /\ InOrder(rows, part, gathered) /\ OfOnePeriod(rows, part, period)
    BY DEF GoesThrough
  <1>6. <<>> \in Seq(S) /\ Len(<<>>) = 0
    OBVIOUS
  <1>7. Covers(more, part, <<>>, seen)
    <2>1. ASSUME NEW i \in 1..Len(more), more[i].part = part, NEW k \in 1..Len(more[i].of)
          PROVE  more[i].of[k] \in seen
      <3>1. CASE i \in 1..n
        BY <1>3, <1>5, <2>1, <3>1 DEF Covers, n
      <3>2. CASE i = n + 1
        BY <1>2, <1>3, <1>5, <2>1, <3>2 DEF Covers
      <3> QED
        BY <1>3, <3>1, <3>2
    <2>2. ASSUME NEW r \in seen
          PROVE  \E i \in 1..Len(more) : more[i].part = part /\ \E k \in 1..Len(more[i].of) : more[i].of[k] = r
      <3>1. CASE \E k \in 1..Len(gathered) : gathered[k] = r
        BY <1>2, <1>3, <1>4, <3>1
      <3>2. CASE \E i \in 1..n : rows[i].part = part /\ \E k \in 1..Len(rows[i].of) : rows[i].of[k] = r
        BY <1>4, <3>2
      <3> QED
        BY <1>5, <3>1, <3>2 DEF Covers, n
    <2> QED
      BY <1>6, <2>1, <2>2 DEF Covers
  <1>8. InOrder(more, part, <<>>)
    <2>1. ASSUME NEW i \in 1..Len(more), NEW j \in 1..Len(more), more[i].part = part, more[j].part = part,
                 NEW k \in 1..Len(more[i].of), NEW l \in 1..Len(more[j].of), i < j \/ (i = j /\ k < l)
          PROVE  Precedes(more[i].of[k], more[j].of[l])
      <3>1. CASE i \in 1..n /\ j \in 1..n
        BY <1>3, <1>5, <2>1, <3>1 DEF InOrder, n
      <3>2. CASE i \in 1..n /\ j = n + 1
        BY <1>2, <1>3, <1>5, <2>1, <3>2 DEF InOrder, n
      <3>3. CASE i = n + 1 /\ j = n + 1
        <4>1. k < l /\ more[i].of = gathered /\ more[j].of = gathered
          BY <1>2, <1>3, <2>1, <3>3
        <4> QED
          BY <1>5, <2>1, <4>1 DEF InOrder
      <3>4. ~(i = n + 1 /\ j \in 1..n)
        BY <1>3, <2>1
      <3> QED
        BY <1>3, <3>1, <3>2, <3>3, <3>4
    <2> QED
      BY <1>6, <2>1 DEF InOrder
  <1>9. OfOnePeriod(more, part, period)
    <2>1. ASSUME NEW i \in 1..Len(more), more[i].part = part,
                 NEW k \in 1..Len(more[i].of), NEW l \in 1..Len(more[i].of)
          PROVE  period[more[i].of[k]] = period[more[i].of[l]]
      <3>1. CASE i \in 1..n
        BY <1>3, <1>5, <2>1, <3>1 DEF OfOnePeriod, n
      <3>2. CASE i = n + 1
        BY <1>2, <1>3, <2>1, <3>2
      <3> QED
        BY <1>3, <3>1, <3>2
    <2> QED
      BY <2>1 DEF OfOnePeriod
  <1> QED
    BY <1>1, <1>3, <1>6, <1>7, <1>8, <1>9 DEF GoesThrough, more, row

\* One more report of a later period than the rows.
LEMMA ApartGather ==
  ASSUME NEW S, NEW rows, NEW part, NEW gathered \in Seq(S), NEW period, PeriodsApart(rows, part, gathered, period),
         NEW e \in S, AllBefore(rows, part, period, period[e])
  PROVE  PeriodsApart(rows, part, Append(gathered, e), period)
  <1>1. /\ Len(Append(gathered, e)) = Len(gathered) + 1
        /\ \A i \in 1..Len(gathered) : Append(gathered, e)[i] = gathered[i]
        /\ Append(gathered, e)[Len(gathered) + 1] = e
        /\ \A i \in 1..(Len(gathered) + 1) : i \in 1..Len(gathered) \/ i = Len(gathered) + 1
    BY OneMore
  <1>2. ASSUME NEW i \in 1..Len(rows), rows[i].part = part, NEW k \in 1..Len(rows[i].of),
               NEW l \in 1..Len(Append(gathered, e))
        PROVE  period[rows[i].of[k]] < period[Append(gathered, e)[l]]
    <2>1. CASE l \in 1..Len(gathered)
      BY <1>1, <1>2, <2>1 DEF PeriodsApart
    <2>2. CASE l = Len(gathered) + 1
      BY <1>1, <1>2, <2>2 DEF AllBefore
    <2> QED
      BY <1>1, <2>1, <2>2
  <1> QED
    BY <1>2 DEF PeriodsApart

\* What is before a period is before a later one.
LEMMA AllBeforeLater ==
  ASSUME NEW S, NEW rows \in Seq(RowRecords(S)), NEW part, NEW period \in [S -> Int],
         NEW p \in Int, NEW q \in Int, p <= q, AllBefore(rows, part, period, p)
  PROVE  AllBefore(rows, part, period, q)
  <1>1. ASSUME NEW i \in 1..Len(rows), rows[i].part = part, NEW k \in 1..Len(rows[i].of)
        PROVE  period[rows[i].of[k]] < q
    <2>1. rows[i] \in RowRecords(S)
      OBVIOUS
    <2>2. rows[i].of[k] \in S
      BY <2>1 DEF RowRecords
    <2>3. period[rows[i].of[k]] \in Int /\ period[rows[i].of[k]] < p
      BY <1>1, <2>2 DEF AllBefore
    <2> QED
      BY <2>3
  <1> QED
    BY <1>1 DEF AllBefore

\* A row of another part.
LEMMA ApartAnother ==
  ASSUME NEW S, NEW rows \in Seq(RowRecords(S)), NEW part, NEW period, NEW row \in RowRecords(S), row.part # part
  PROVE  /\ \A gathered : PeriodsApart(rows, part, gathered, period) => PeriodsApart(Append(rows, row), part, gathered, period)
         /\ \A p : AllBefore(rows, part, period, p) => AllBefore(Append(rows, row), part, period, p)
  <1> DEFINE more == Append(rows, row)
  <1>1. /\ Len(more) = Len(rows) + 1
        /\ \A i \in 1..Len(rows) : more[i] = rows[i]
        /\ more[Len(rows) + 1] = row
        /\ \A i \in 1..(Len(rows) + 1) : i \in 1..Len(rows) \/ i = Len(rows) + 1
    BY OneMore
  <1> HIDE DEF more
  <1>2. \A i \in 1..Len(more) : more[i].part = part => i \in 1..Len(rows) /\ more[i] = rows[i]
    BY <1>1
  <1>3. \A gathered : PeriodsApart(rows, part, gathered, period) => PeriodsApart(more, part, gathered, period)
    BY <1>2 DEF PeriodsApart
  <1>4. \A p : AllBefore(rows, part, period, p) => AllBefore(more, part, period, p)
    BY <1>2 DEF AllBefore
  <1> QED
    BY <1>3, <1>4 DEF more

\* A row of what has been gathered, all of one period.
LEMMA ApartPart ==
  ASSUME NEW S, NEW rows \in Seq(RowRecords(S)), NEW part \in PartNames, NEW gathered \in Seq(S), NEW period,
         PeriodsApart(rows, part, gathered, period), NEW row, row = [part |-> part, of |-> gathered]
  PROVE  /\ PeriodsApart(Append(rows, row), part, <<>>, period)
         /\ \A p : AllBefore(rows, part, period, p) /\ (\A k \in 1..Len(gathered) : period[gathered[k]] < p)
                     => AllBefore(Append(rows, row), part, period, p)
  <1> DEFINE more == Append(rows, row)
             n == Len(rows)
  <1>1. row \in RowRecords(S) /\ row.part = part /\ row.of = gathered
    BY DEF RowRecords
  <1>2. /\ Len(more) = n + 1 /\ n \in Nat
        /\ \A i \in 1..n : more[i] = rows[i]
        /\ more[n + 1] = row
        /\ \A i \in 1..(n + 1) : i \in 1..n \/ i = n + 1
    BY <1>1, OneMore
  <1> HIDE DEF more, n
  <1>3. ASSUME NEW i \in 1..Len(more), NEW j \in 1..Len(more), more[i].part = part, more[j].part = part, i < j,
               NEW k \in 1..Len(more[i].of), NEW l \in 1..Len(more[j].of)
        PROVE  period[more[i].of[k]] < period[more[j].of[l]]
    <2>1. i \in 1..n
      BY <1>2, <1>3
    <2>2. CASE j \in 1..n
      BY <1>2, <1>3, <2>1, <2>2 DEF PeriodsApart, n
    <2>3. CASE j = n + 1
      BY <1>1, <1>2, <1>3, <2>1, <2>3 DEF PeriodsApart, n
    <2> QED
      BY <1>2, <2>2, <2>3
  <1>4. 1..Len(<<>>) = {}
    BY EmptySeq
  <1>5. PeriodsApart(more, part, <<>>, period)
    BY <1>3, <1>4 DEF PeriodsApart
  <1>6. ASSUME NEW p, AllBefore(rows, part, period, p), \A k \in 1..Len(gathered) : period[gathered[k]] < p
        PROVE  AllBefore(more, part, period, p)
    <2>1. ASSUME NEW i \in 1..Len(more), more[i].part = part, NEW k \in 1..Len(more[i].of)
          PROVE  period[more[i].of[k]] < p
      <3>1. CASE i \in 1..n
        BY <1>2, <1>6, <2>1, <3>1 DEF AllBefore, n
      <3>2. CASE i = n + 1
        BY <1>1, <1>2, <1>6, <2>1, <3>2
      <3> QED
        BY <1>2, <3>1, <3>2
    <2> QED
      BY <2>1 DEF AllBefore
  <1> QED
    BY <1>5, <1>6 DEF more

\* The period a report is of.
Months(S) == [r \in S |-> MonthOf[r.week]]
Quarters(S) == [r \in S |-> Quarter(MonthOf[r.week])]

\* A later report is not of an earlier month.
MonthsFollow(S) ==
  \A r, s \in S : MonthOf[r.week] \in Int /\ (Precedes(r, s) => MonthOf[r.week] <= MonthOf[s.week])

\* The four parts of the report when these reports have been seen; the year's
\* row comes last.
PartsSoFar(S, acc, seen) ==
  /\ acc \in Gathering(S)
  /\ GoesThrough(S, acc.rows, "week", <<>>, seen, Months(S))
  /\ GoesThrough(S, acc.rows, "month", acc.month, seen, Months(S))
  /\ GoesThrough(S, acc.rows, "quarter", acc.quarter, seen, Quarters(S))
  /\ GoesThrough(S, acc.rows, "year", <<>>, {}, Months(S))
  /\ PeriodsApart(acc.rows, "month", acc.month, Months(S))
  /\ PeriodsApart(acc.rows, "quarter", acc.quarter, Quarters(S))

\* What is gathered is of the next report's month and quarter, the rows are of
\* earlier ones, and nothing is left at the end.
YearSoFar(S, entries, acc, i) ==
  /\ PartsSoFar(S, acc, {entries[j] : j \in 1..i})
  /\ \A k \in 1..Len(acc.month) :
       i < Len(entries) /\ Months(S)[acc.month[k]] = Months(S)[entries[i + 1]]
  /\ \A k \in 1..Len(acc.quarter) :
       i < Len(entries) /\ Quarters(S)[acc.quarter[k]] = Quarters(S)[entries[i + 1]]
  /\ i < Len(entries) =>
       /\ AllBefore(acc.rows, "month", Months(S), Months(S)[entries[i + 1]])
       /\ AllBefore(acc.rows, "quarter", Quarters(S), Quarters(S)[entries[i + 1]])

\* A record of what is gathered.
LEMMA GatheringIs ==
  ASSUME NEW S, NEW rows \in Seq(RowRecords(S)), NEW month \in Seq(S), NEW quarter \in Seq(S),
         NEW acc, acc = [rows |-> rows, month |-> month, quarter |-> quarter]
  PROVE  acc \in Gathering(S) /\ acc.rows = rows /\ acc.month = month /\ acc.quarter = quarter
  BY DEF Gathering

\* FlushIf with a month: the parts stay as they are, the month's row takes what
\* has been gathered when it is due, and every row stays before later periods.
MonthFlushed(S, acc, next, due, seen) ==
  /\ PartsSoFar(S, next, seen)
  /\ next.quarter = acc.quarter
  /\ IF due THEN next.month = <<>> ELSE next.month = acc.month
  /\ \A p : AllBefore(acc.rows, "quarter", Quarters(S), p) => AllBefore(next.rows, "quarter", Quarters(S), p)
  /\ \A p : AllBefore(acc.rows, "month", Months(S), p)
              /\ (due => \A k \in 1..Len(acc.month) : Months(S)[acc.month[k]] < p)
              => AllBefore(next.rows, "month", Months(S), p)

LEMMA FlushMonth ==
  ASSUME NEW S, NEW acc, NEW seen, PartsSoFar(S, acc, seen), NEW due \in BOOLEAN,
         \A k, l \in 1..Len(acc.month) : Months(S)[acc.month[k]] = Months(S)[acc.month[l]],
         NEW next, next = FlushIf(due, acc, "month")
  PROVE  MonthFlushed(S, acc, next, due, seen)
  <1>1. acc \in Gathering(S)
    BY DEF PartsSoFar
  <1>2. CASE due /\ acc.month # <<>>
    <2> DEFINE row == [part |-> "month", of |-> acc.month]
    <2>1. acc = [rows |-> acc.rows, month |-> acc.month, quarter |-> acc.quarter] /\ acc["month"] = acc.month
      BY <1>1 DEF Gathering
    <2>2. next = [rows |-> Append(acc.rows, row), month |-> <<>>, quarter |-> acc.quarter]
      BY <1>2, <2>1 DEF FlushIf
    <2>3. row \in RowRecords(S) /\ row.part = "month"
      BY <1>1 DEF Gathering, RowRecords, PartNames
    <2>4. GoesThrough(S, Append(acc.rows, row), "month", <<>>, seen, Months(S))
      BY RowOfPart DEF PartsSoFar, PartNames
    <2>5. /\ PeriodsApart(Append(acc.rows, row), "month", <<>>, Months(S))
           /\ \A p : AllBefore(acc.rows, "month", Months(S), p) /\ (\A k \in 1..Len(acc.month) : Months(S)[acc.month[k]] < p)
                       => AllBefore(Append(acc.rows, row), "month", Months(S), p)
      BY <1>1, ApartPart DEF PartsSoFar, PartNames, Gathering
    <2> HIDE DEF row
    <2>6. /\ PeriodsApart(Append(acc.rows, row), "quarter", acc.quarter, Quarters(S))
           /\ \A p : AllBefore(acc.rows, "quarter", Quarters(S), p) => AllBefore(Append(acc.rows, row), "quarter", Quarters(S), p)
      <3>1. acc.rows \in Seq(RowRecords(S)) /\ row.part # "quarter"
        BY <1>1, <2>3 DEF Gathering
      <3> QED
        BY <2>3, <3>1, ApartAnother DEF PartsSoFar
    <2>7. /\ GoesThrough(S, Append(acc.rows, row), "week", <<>>, seen, Months(S))
          /\ GoesThrough(S, Append(acc.rows, row), "quarter", acc.quarter, seen, Quarters(S))
          /\ GoesThrough(S, Append(acc.rows, row), "year", <<>>, {}, Months(S))
      BY <2>3, RowOfAnother DEF PartsSoFar
    <2>8. Append(acc.rows, row) \in Seq(RowRecords(S)) /\ <<>> \in Seq(S)
      BY <2>4 DEF GoesThrough
    <2>9. PICK rows \in Seq(RowRecords(S)) : rows = Append(acc.rows, row)
      BY <2>8
    <2>10. PICK none \in Seq(S) : none = <<>>
      BY <2>8
    <2>11. acc.month \in Seq(S) /\ acc.quarter \in Seq(S)
      BY <1>1 DEF Gathering
    <2>12. PICK other \in Seq(S) : other = acc.quarter
      BY <2>11
    <2>13. next = [rows |-> rows, month |-> none, quarter |-> other]
      BY <2>2, <2>9, <2>10, <2>12
    <2>14. next \in Gathering(S) /\ next.rows = rows /\ next.month = none /\ next.quarter = other
      BY <2>13, GatheringIs
    <2> QED
      BY <1>2, <2>4, <2>7, <2>9, <2>10, <2>12, <2>14, <2>5, <2>6 DEF PartsSoFar, MonthFlushed
  <1>3. CASE ~due \/ acc.month = <<>>
    <2>1. acc["month"] = acc.month
      BY <1>1 DEF Gathering
    <2>2. next = acc
      BY <1>3, <2>1 DEF FlushIf
    <2> QED
      BY <1>3, <2>2 DEF MonthFlushed
  <1> QED
    BY <1>2, <1>3

\* The same with a quarter.
QuarterFlushed(S, acc, next, due, seen) ==
  /\ PartsSoFar(S, next, seen)
  /\ next.month = acc.month
  /\ IF due THEN next.quarter = <<>> ELSE next.quarter = acc.quarter
  /\ \A p : AllBefore(acc.rows, "month", Months(S), p) => AllBefore(next.rows, "month", Months(S), p)
  /\ \A p : AllBefore(acc.rows, "quarter", Quarters(S), p)
              /\ (due => \A k \in 1..Len(acc.quarter) : Quarters(S)[acc.quarter[k]] < p)
              => AllBefore(next.rows, "quarter", Quarters(S), p)

LEMMA FlushQuarter ==
  ASSUME NEW S, NEW acc, NEW seen, PartsSoFar(S, acc, seen), NEW due \in BOOLEAN,
         \A k, l \in 1..Len(acc.quarter) : Quarters(S)[acc.quarter[k]] = Quarters(S)[acc.quarter[l]],
         NEW next, next = FlushIf(due, acc, "quarter")
  PROVE  QuarterFlushed(S, acc, next, due, seen)
  <1>1. acc \in Gathering(S)
    BY DEF PartsSoFar
  <1>2. CASE due /\ acc.quarter # <<>>
    <2> DEFINE row == [part |-> "quarter", of |-> acc.quarter]
    <2>1. acc = [rows |-> acc.rows, month |-> acc.month, quarter |-> acc.quarter] /\ acc["quarter"] = acc.quarter
      BY <1>1 DEF Gathering
    <2>2. next = [rows |-> Append(acc.rows, row), month |-> acc.month, quarter |-> <<>>]
      BY <1>2, <2>1 DEF FlushIf
    <2>3. row \in RowRecords(S) /\ row.part = "quarter"
      BY <1>1 DEF Gathering, RowRecords, PartNames
    <2>4. GoesThrough(S, Append(acc.rows, row), "quarter", <<>>, seen, Quarters(S))
      BY RowOfPart DEF PartsSoFar, PartNames
    <2>5. /\ PeriodsApart(Append(acc.rows, row), "quarter", <<>>, Quarters(S))
           /\ \A p : AllBefore(acc.rows, "quarter", Quarters(S), p) /\ (\A k \in 1..Len(acc.quarter) : Quarters(S)[acc.quarter[k]] < p)
                       => AllBefore(Append(acc.rows, row), "quarter", Quarters(S), p)
      BY <1>1, ApartPart DEF PartsSoFar, PartNames, Gathering
    <2> HIDE DEF row
    <2>6. /\ PeriodsApart(Append(acc.rows, row), "month", acc.month, Months(S))
           /\ \A p : AllBefore(acc.rows, "month", Months(S), p) => AllBefore(Append(acc.rows, row), "month", Months(S), p)
      <3>1. acc.rows \in Seq(RowRecords(S)) /\ row.part # "month"
        BY <1>1, <2>3 DEF Gathering
      <3> QED
        BY <2>3, <3>1, ApartAnother DEF PartsSoFar
    <2>7. /\ GoesThrough(S, Append(acc.rows, row), "week", <<>>, seen, Months(S))
          /\ GoesThrough(S, Append(acc.rows, row), "month", acc.month, seen, Months(S))
          /\ GoesThrough(S, Append(acc.rows, row), "year", <<>>, {}, Months(S))
      BY <2>3, RowOfAnother DEF PartsSoFar
    <2>8. Append(acc.rows, row) \in Seq(RowRecords(S)) /\ <<>> \in Seq(S)
      BY <2>4 DEF GoesThrough
    <2>9. PICK rows \in Seq(RowRecords(S)) : rows = Append(acc.rows, row)
      BY <2>8
    <2>10. PICK none \in Seq(S) : none = <<>>
      BY <2>8
    <2>11. acc.month \in Seq(S) /\ acc.quarter \in Seq(S)
      BY <1>1 DEF Gathering
    <2>12. PICK other \in Seq(S) : other = acc.month
      BY <2>11
    <2>13. next = [rows |-> rows, month |-> other, quarter |-> none]
      BY <2>2, <2>9, <2>10, <2>12
    <2>14. next \in Gathering(S) /\ next.rows = rows /\ next.month = other /\ next.quarter = none
      BY <2>13, GatheringIs
    <2> QED
      BY <1>2, <2>4, <2>7, <2>9, <2>10, <2>12, <2>14, <2>5, <2>6 DEF PartsSoFar, QuarterFlushed
  <1>3. CASE ~due \/ acc.quarter = <<>>
    <2>1. acc["quarter"] = acc.quarter
      BY <1>1 DEF Gathering
    <2>2. next = acc
      BY <1>3, <2>1 DEF FlushIf
    <2> QED
      BY <1>3, <2>2 DEF QuarterFlushed
  <1> QED
    BY <1>2, <1>3

\* The next report of the year.
LEMMA AddWeekKeeps ==
  ASSUME NEW S, NEW entries \in Seq(S), NEW n \in Nat, n = Len(entries),
         \A j, k \in 1..n : j < k => Precedes(entries[j], entries[k]), MonthsFollow(S),
         NEW i \in 1..n, NEW acc, YearSoFar(S, entries, acc, i - 1)
  PROVE  YearSoFar(S, entries, AddWeek(entries, acc, i), i)
  <1> DEFINE before == {entries[j] : j \in 1..(i - 1)}
             seen == {entries[j] : j \in 1..i}
             e == entries[i]
             row == [part |-> "week", of |-> <<e>>]
             gathered == [rows |-> Append(acc.rows, row),
                          month |-> Append(acc.month, e), quarter |-> Append(acc.quarter, e)]
             last == i = n
             monthDue == last \/ MonthOf[entries[i + 1].week] # MonthOf[e.week]
             quarterDue == last \/ Quarter(MonthOf[entries[i + 1].week]) # Quarter(MonthOf[e.week])
             months == FlushIf(monthDue, gathered, "month")
             next == FlushIf(quarterDue, months, "quarter")
  <1>1. AddWeek(entries, acc, i) = next
    BY DEF AddWeek
  <1>2. \A j \in 1..n : entries[j] \in S
    OBVIOUS
  <1>3. e \in S /\ seen = before \union {e} /\ i - 1 + 1 = i
    BY <1>2
  <1>4. \A r \in before : Precedes(r, e)
    OBVIOUS
  <1>5. PartsSoFar(S, acc, before)
    BY DEF YearSoFar
  <1>6. \A k \in 1..Len(acc.month) : Months(S)[acc.month[k]] = Months(S)[e]
    BY <1>3 DEF YearSoFar
  <1>7. \A k \in 1..Len(acc.quarter) : Quarters(S)[acc.quarter[k]] = Quarters(S)[e]
    BY <1>3 DEF YearSoFar
  <1>8. /\ AllBefore(acc.rows, "month", Months(S), Months(S)[e])
         /\ AllBefore(acc.rows, "quarter", Quarters(S), Quarters(S)[e])
    <2>1. i - 1 < Len(entries)
      OBVIOUS
    <2> QED
      BY <1>3, <2>1 DEF YearSoFar
  <1>9. acc \in Gathering(S)
    BY <1>5 DEF PartsSoFar
  <1>10. acc.rows \in Seq(RowRecords(S)) /\ acc.month \in Seq(S) /\ acc.quarter \in Seq(S)
    BY <1>9 DEF Gathering
  <1>11. row \in RowRecords(S) /\ row.part = "week"
    BY <1>3 DEF RowRecords, PartNames
  <1> HIDE DEF e, before, seen
  <1>12. /\ GoesThrough(S, Append(acc.rows, row), "month", acc.month, before, Months(S))
         /\ GoesThrough(S, Append(acc.rows, row), "quarter", acc.quarter, before, Quarters(S))
         /\ GoesThrough(S, Append(acc.rows, row), "year", <<>>, {}, Months(S))
    <2> HIDE DEF row
    <2> QED
      BY <1>5, <1>11, RowOfAnother DEF PartsSoFar
  <1>13. /\ GoesThrough(S, Append(acc.rows, row), "month", Append(acc.month, e), seen, Months(S))
         /\ GoesThrough(S, Append(acc.rows, row), "quarter", Append(acc.quarter, e), seen, Quarters(S))
    BY <1>3, <1>4, <1>12, GatherOne
  <1>14. GoesThrough(S, Append(acc.rows, row), "week", <<>>, seen, Months(S))
    <2>1. GoesThrough(S, acc.rows, "week", Append(<<>>, e), seen, Months(S))
      BY <1>3, <1>4, <1>5, GatherOne DEF PartsSoFar
    <2>2. Append(<<>>, e) = <<e>> /\ \A k, l \in 1..Len(<<e>>) : <<e>>[k] = <<e>>[l]
      OBVIOUS
    <2> QED
      BY <2>1, <2>2, RowOfPart DEF PartNames
  <1>15. /\ PeriodsApart(Append(acc.rows, row), "month", acc.month, Months(S))
         /\ PeriodsApart(Append(acc.rows, row), "quarter", acc.quarter, Quarters(S))
         /\ AllBefore(Append(acc.rows, row), "month", Months(S), Months(S)[e])
         /\ AllBefore(Append(acc.rows, row), "quarter", Quarters(S), Quarters(S)[e])
    <2> HIDE DEF row
    <2> QED
      BY <1>5, <1>10, <1>11, <1>8, ApartAnother DEF PartsSoFar
  <1>16. /\ PeriodsApart(Append(acc.rows, row), "month", Append(acc.month, e), Months(S))
         /\ PeriodsApart(Append(acc.rows, row), "quarter", Append(acc.quarter, e), Quarters(S))
    BY <1>3, <1>10, <1>15, ApartGather
  <1>17. gathered \in Gathering(S)
    <2>1. /\ Append(acc.rows, row) \in Seq(RowRecords(S))
          /\ Append(acc.month, e) \in Seq(S) /\ Append(acc.quarter, e) \in Seq(S)
      BY <1>13 DEF GoesThrough
    <2> QED
      BY <2>1 DEF Gathering
  <1>18. PartsSoFar(S, gathered, seen)
    BY <1>12, <1>13, <1>14, <1>17, <1>16 DEF PartsSoFar
  <1>19. \A k \in 1..Len(gathered.month) : Months(S)[gathered.month[k]] = Months(S)[e]
    <2>1. gathered.month = Append(acc.month, e)
      OBVIOUS
    <2>2. /\ Len(Append(acc.month, e)) = Len(acc.month) + 1
          /\ \A k \in 1..Len(acc.month) : Append(acc.month, e)[k] = acc.month[k]
          /\ Append(acc.month, e)[Len(acc.month) + 1] = e
          /\ \A k \in 1..(Len(acc.month) + 1) : k \in 1..Len(acc.month) \/ k = Len(acc.month) + 1
      BY <1>3, <1>10, OneMore
    <2> HIDE DEF gathered
    <2> QED
      BY <1>6, <2>1, <2>2
  <1>20. \A k \in 1..Len(gathered.quarter) : Quarters(S)[gathered.quarter[k]] = Quarters(S)[e]
    <2>1. gathered.quarter = Append(acc.quarter, e)
      OBVIOUS
    <2>2. /\ Len(Append(acc.quarter, e)) = Len(acc.quarter) + 1
          /\ \A k \in 1..Len(acc.quarter) : Append(acc.quarter, e)[k] = acc.quarter[k]
          /\ Append(acc.quarter, e)[Len(acc.quarter) + 1] = e
          /\ \A k \in 1..(Len(acc.quarter) + 1) : k \in 1..Len(acc.quarter) \/ k = Len(acc.quarter) + 1
      BY <1>3, <1>10, OneMore
    <2> HIDE DEF gathered
    <2> QED
      BY <1>7, <2>1, <2>2
  <1>21. /\ AllBefore(gathered.rows, "month", Months(S), Months(S)[e])
         /\ AllBefore(gathered.rows, "quarter", Quarters(S), Quarters(S)[e])
    BY <1>15
  <1>22. monthDue \in BOOLEAN /\ quarterDue \in BOOLEAN
    OBVIOUS
  <1> HIDE DEF row, gathered, monthDue, quarterDue
  <1>23. /\ PartsSoFar(S, months, seen)
         /\ months.quarter = gathered.quarter
         /\ IF monthDue THEN months.month = <<>> ELSE months.month = gathered.month
         /\ \A p : AllBefore(gathered.rows, "quarter", Quarters(S), p) => AllBefore(months.rows, "quarter", Quarters(S), p)
         /\ \A p : AllBefore(gathered.rows, "month", Months(S), p)
                     /\ (monthDue => \A k \in 1..Len(gathered.month) : Months(S)[gathered.month[k]] < p)
                     => AllBefore(months.rows, "month", Months(S), p)
    <2>1. PICK due \in BOOLEAN : due = monthDue
      BY <1>22
    <2>2. PICK g : g = gathered
      OBVIOUS
    <2>3. \A k, l \in 1..Len(g.month) : Months(S)[g.month[k]] = Months(S)[g.month[l]]
      BY <1>19, <2>2
    <2>4. PartsSoFar(S, g, seen) /\ months = FlushIf(due, g, "month")
      BY <1>18, <2>1, <2>2
    <2> HIDE DEF months
    <2>5. MonthFlushed(S, g, months, due, seen)
      BY <2>3, <2>4, FlushMonth
    <2> QED
      BY <2>1, <2>2, <2>5 DEF MonthFlushed
  <1> HIDE DEF months
  <1>24. /\ PartsSoFar(S, next, seen)
         /\ next.month = months.month
         /\ IF quarterDue THEN next.quarter = <<>> ELSE next.quarter = gathered.quarter
         /\ \A p : AllBefore(months.rows, "month", Months(S), p) => AllBefore(next.rows, "month", Months(S), p)
         /\ \A p : AllBefore(months.rows, "quarter", Quarters(S), p)
                     /\ (quarterDue => \A k \in 1..Len(gathered.quarter) : Quarters(S)[gathered.quarter[k]] < p)
                     => AllBefore(next.rows, "quarter", Quarters(S), p)
    <2>1. PICK due \in BOOLEAN : due = quarterDue
      BY <1>22
    <2>2. \A k, l \in 1..Len(months.quarter) : Quarters(S)[months.quarter[k]] = Quarters(S)[months.quarter[l]]
      BY <1>20, <1>23
    <2>3. PartsSoFar(S, months, seen) /\ next = FlushIf(due, months, "quarter") /\ months.quarter = gathered.quarter
      BY <1>23, <2>1
    <2> HIDE DEF next
    <2>4. QuarterFlushed(S, months, next, due, seen)
      BY <2>2, <2>3, FlushQuarter
    <2> QED
      BY <2>1, <2>3, <2>4 DEF QuarterFlushed
  <1> HIDE DEF next
  <1>25. ASSUME NEW k \in 1..Len(next.month)
         PROVE  i < n /\ Months(S)[next.month[k]] = Months(S)[entries[i + 1]]
    <2>1. ~monthDue /\ next.month = gathered.month
      BY <1>23, <1>24, <1>25
    <2>2. i < n /\ MonthOf[entries[i + 1].week] = MonthOf[e.week] /\ entries[i + 1] \in S
      BY <1>2, <2>1 DEF monthDue
    <2> QED
      BY <1>3, <1>19, <1>25, <2>1, <2>2 DEF Months
  <1>26. ASSUME NEW k \in 1..Len(next.quarter)
         PROVE  i < n /\ Quarters(S)[next.quarter[k]] = Quarters(S)[entries[i + 1]]
    <2>1. ~quarterDue /\ next.quarter = gathered.quarter
      BY <1>24, <1>26
    <2>2. i < n /\ Quarter(MonthOf[entries[i + 1].week]) = Quarter(MonthOf[e.week]) /\ entries[i + 1] \in S
      BY <1>2, <2>1 DEF quarterDue
    <2> QED
      BY <1>3, <1>20, <1>26, <2>1, <2>2 DEF Quarters
  <1>27. ASSUME i < n
         PROVE  /\ AllBefore(next.rows, "month", Months(S), Months(S)[entries[i + 1]])
                /\ AllBefore(next.rows, "quarter", Quarters(S), Quarters(S)[entries[i + 1]])
    <2>1. PICK f \in S : f = entries[i + 1] /\ Precedes(e, f)
      <3>1. i + 1 \in 1..n /\ i < i + 1
        BY <1>27
      <3> QED
        BY <1>2, <3>1 DEF e
    <2>2. PICK m \in Int, o \in Int : m = MonthOf[e.week] /\ o = MonthOf[f.week] /\ m <= o
      BY <1>3, <2>1 DEF MonthsFollow
    <2>3. Months(S)[e] = m /\ Months(S)[f] = o
      BY <1>3, <2>2 DEF Months
    <2>4. Quarters(S)[e] = Quarter(m) /\ Quarters(S)[f] = Quarter(o)
      BY <1>3, <2>2 DEF Quarters
    <2>5. Quarter(m) \in Int /\ Quarter(o) \in Int /\ Quarter(m) <= Quarter(o)
      BY <2>2 DEF Quarter
    <2>6. monthDue => m < o
      BY <1>27, <2>1, <2>2 DEF monthDue
    <2>7. quarterDue => Quarter(m) < Quarter(o)
      BY <1>27, <2>1, <2>2, <2>5 DEF quarterDue
    <2>8. gathered.rows \in Seq(RowRecords(S))
      BY <1>17 DEF Gathering
    <2>9. Months(S) \in [S -> Int] /\ Quarters(S) \in [S -> Int]
      BY DEF Months, Quarters, MonthsFollow, Quarter
    <2>10. AllBefore(gathered.rows, "month", Months(S), o)
      BY <1>21, <2>2, <2>3, <2>8, <2>9, AllBeforeLater
    <2>11. AllBefore(gathered.rows, "quarter", Quarters(S), Quarter(o))
      BY <1>21, <2>4, <2>5, <2>8, <2>9, AllBeforeLater
    <2>12. AllBefore(next.rows, "month", Months(S), o)
      BY <1>19, <1>23, <1>24, <2>3, <2>6, <2>10
    <2>13. AllBefore(next.rows, "quarter", Quarters(S), Quarter(o))
      BY <1>20, <1>23, <1>24, <2>4, <2>7, <2>11
    <2> QED
      BY <2>1, <2>3, <2>4, <2>12, <2>13
  <1>28. YearSoFar(S, entries, next, i)
    BY <1>24, <1>25, <1>26, <1>27 DEF YearSoFar, seen
  <1> QED
    BY <1>1, <1>28

\* What holds at 0 and of each next number holds at n, or some least number
\* would be without it.
LEMMA CountUp ==
  ASSUME NEW n \in Nat, NEW good \in SUBSET (0..n), 0 \in good,
         \A i \in 1..n : i - 1 \in good => i \in good
  PROVE  \A i \in 0..n : i \in good
  <1> DEFINE upTo(i) == 0..i
             without == {upTo(i) : i \in (0..n) \ good}
  <1>1. SUFFICES ASSUME NEW missing \in 0..n, missing \notin good
                 PROVE  FALSE
    OBVIOUS
  <1>2. without \in SUBSET (SUBSET (0..n)) /\ without # {}
    BY <1>1
  <1>3. IsFiniteSet(0..n)
    <2>1. 0 \in Int /\ n \in Int
      OBVIOUS
    <2> QED
      BY <2>1, FS_Interval
  <1>4. without \subseteq FiniteSubsetsOf(0..n)
    <2> HIDE DEF without
    <2> QED
      BY <1>2, <1>3, FS_Subset DEF FiniteSubsetsOf
  <1>5. PICK least \in without : \A other \in without : ~(<<other, least>> \in StrictSubsetOrdering(0..n))
    <2> HIDE DEF without
    <2> QED
      BY <1>2, <1>3, <1>4, FS_StrictSubsetOrderingWellFounded, WFMin
  <1>6. PICK i \in (0..n) \ good : least = upTo(i)
    OBVIOUS
  <1>7. i \in 1..n /\ i - 1 \in (0..n) \ good
    OBVIOUS
  <1>8. <<upTo(i - 1), upTo(i)>> \in StrictSubsetOrdering(0..n)
    <2>1. upTo(i - 1) \subseteq upTo(i) /\ i \in upTo(i) /\ i \notin upTo(i - 1)
      BY <1>7
    <2>2. upTo(i - 1) \subseteq 0..n /\ upTo(i) \subseteq 0..n
      BY <1>7
    <2> HIDE DEF upTo
    <2>3. upTo(i - 1) # upTo(i)
      BY <2>1
    <2> QED
      BY <2>1, <2>2, <2>3 DEF StrictSubsetOrdering
  <1> QED
    BY <1>5, <1>6, <1>7, <1>8

\* What PeriodRows computes after each report, as a function.
Nothing == [rows |-> <<>>, month |-> <<>>, quarter |-> <<>>]
IsGathered(acc, entries, n) ==
  acc = [i \in 0..n |-> IF i = 0 THEN Nothing ELSE AddWeek(entries, acc[i - 1], i)]

\* What has been gathered after each report is defined.
LEMMA GatheredExists ==
  ASSUME NEW entries, NEW n \in Nat
  PROVE  \E acc : IsGathered(acc, entries, n)
  <1> DEFINE good == {m \in 0..n : \E acc : IsGathered(acc, entries, m)}
  <1>1. 0 \in good
    <2>1. IsGathered([i \in 0..0 |-> Nothing], entries, 0)
      BY DEF IsGathered
    <2> QED
      BY <2>1
  <1>2. ASSUME NEW m \in 1..n, m - 1 \in good
        PROVE  m \in good
    <2>1. PICK acc : IsGathered(acc, entries, m - 1)
      BY <1>2
    <2> DEFINE more == [i \in 0..m |-> IF i = m THEN AddWeek(entries, acc[m - 1], m) ELSE acc[i]]
    <2>2. \A i \in 0..(m - 1) : acc[i] = IF i = 0 THEN Nothing ELSE AddWeek(entries, acc[i - 1], i)
      BY <2>1 DEF IsGathered
    <2>3. \A i \in 0..m : i \in 0..(m - 1) \/ i = m
      OBVIOUS
    <2>4. \A i \in 0..(m - 1) : i \in 0..m /\ i # m
      OBVIOUS
    <2>5. \A i \in 0..(m - 1) : more[i] = acc[i]
      BY <2>4
    <2>6. more[m] = AddWeek(entries, acc[m - 1], m) /\ m # 0 /\ m - 1 \in 0..(m - 1)
      OBVIOUS
    <2>7. \A i \in 0..m : i # 0 => i - 1 \in 0..(m - 1)
      OBVIOUS
    <2>8. ASSUME NEW i \in 0..m
          PROVE  more[i] = IF i = 0 THEN Nothing ELSE AddWeek(entries, more[i - 1], i)
      <3> HIDE DEF more
      <3>1. CASE i = m
        BY <2>5, <2>6, <3>1
      <3>2. CASE i \in 0..(m - 1)
        BY <2>2, <2>5, <2>7, <3>2
      <3> QED
        BY <2>3, <3>1, <3>2
    <2>9. IsGathered(more, entries, m)
      BY <2>8 DEF IsGathered
    <2> QED
      BY <2>9
  <1>3. n \in 0..n
    OBVIOUS
  <1>4. good \in SUBSET (0..n)
    OBVIOUS
  <1> HIDE DEF good
  <1>5. n \in good
    BY <1>1, <1>2, <1>3, <1>4, CountUp
  <1> QED
    BY <1>5 DEF good

\* The rows of a year's reports, before the year's own.
LEMMA YearIsGathered ==
  ASSUME NEW S, NEW entries \in Seq(S), NEW n \in Nat, n = Len(entries),
         \A j, k \in 1..n : j < k => Precedes(entries[j], entries[k]),
         MonthsFollow(S), NEW acc, IsGathered(acc, entries, n)
  PROVE  YearSoFar(S, entries, acc[n], n)
  <1> DEFINE good == {i \in 0..n : YearSoFar(S, entries, acc[i], i)}
  <1>1. \A i \in 0..n : acc[i] = IF i = 0 THEN Nothing ELSE AddWeek(entries, acc[i - 1], i)
    BY DEF IsGathered
  <1>2. 0 \in good
    <2>1. acc[0] = Nothing /\ 0 \in 0..n
      BY <1>1
    <2>2. PICK rows \in Seq(RowRecords(S)) : rows = <<>>
      BY EmptySeq
    <2>3. PICK none \in Seq(S) : none = rows /\ Len(rows) = 0
      BY <2>2, EmptySeq
    <2>4. Nothing = [rows |-> rows, month |-> none, quarter |-> none]
      BY <2>2, <2>3 DEF Nothing
    <2>5. Nothing \in Gathering(S) /\ Nothing.rows = rows /\ Nothing.month = none /\ Nothing.quarter = none
      BY <2>4, GatheringIs
    <2>6. \A part, period : /\ GoesThrough(S, rows, part, rows, {}, period)
                            /\ PeriodsApart(rows, part, rows, period)
                            /\ \A p : AllBefore(rows, part, period, p)
      BY <2>3 DEF GoesThrough, Covers, InOrder, OfOnePeriod, PeriodsApart, AllBefore
    <2>7. {entries[j] : j \in 1..0} = {}
      OBVIOUS
    <2>8. PartsSoFar(S, Nothing, {})
      BY <2>2, <2>3, <2>5, <2>6 DEF PartsSoFar
    <2>9. YearSoFar(S, entries, Nothing, 0)
      BY <2>3, <2>5, <2>6, <2>7, <2>8 DEF YearSoFar
    <2> QED
      BY <2>1, <2>9
  <1>3. ASSUME NEW i \in 1..n, i - 1 \in good
        PROVE  i \in good
    <2>1. i \in 0..n /\ i # 0 /\ acc[i] = AddWeek(entries, acc[i - 1], i)
      BY <1>1
    <2>2. YearSoFar(S, entries, acc[i - 1], i - 1)
      BY <1>3
    <2>3. YearSoFar(S, entries, AddWeek(entries, acc[i - 1], i), i)
      BY <2>2, AddWeekKeeps
    <2> QED
      BY <2>1, <2>3
  <1>4. good \in SUBSET (0..n) /\ n \in 0..n
    OBVIOUS
  <1> HIDE DEF good
  <1>5. n \in good
    BY <1>2, <1>3, <1>4, CountUp
  <1> QED
    BY <1>5 DEF good

\* The four parts of the report of a year.
LEMMA YearRows ==
  ASSUME NEW sales, NEW entries, entries = YearEntries(sales), entries # <<>>,
         NEW S, entries \in Seq(S), NEW n \in Nat, n = Len(entries),
         \A j, k \in 1..n : j < k => Precedes(entries[j], entries[k]), MonthsFollow(S),
         NEW seen, seen = {entries[j] : j \in 1..n}
  PROVE  /\ GoesThrough(S, PeriodRows(sales), "week", <<>>, seen, Months(S))
         /\ GoesThrough(S, PeriodRows(sales), "month", <<>>, seen, Months(S))
         /\ GoesThrough(S, PeriodRows(sales), "quarter", <<>>, seen, Quarters(S))
         /\ GoesThrough(S, PeriodRows(sales), "year", <<>>, seen, [r \in S |-> 0])
         /\ PeriodsApart(PeriodRows(sales), "month", <<>>, Months(S))
         /\ PeriodsApart(PeriodRows(sales), "quarter", <<>>, Quarters(S))
  <1> DEFINE row == [part |-> "year", of |-> entries]
  <1>1. PICK acc : IsGathered(acc, entries, n) /\ PeriodRows(sales) = Append(acc[n].rows, row)
    <2>1. PICK g : IsGathered(g, entries, n)
      BY GatheredExists
    <2> QED
      BY <2>1 DEF PeriodRows, IsGathered, Nothing
  <1>2. PICK last : last = acc[n]
    OBVIOUS
  <1>3. YearSoFar(S, entries, last, n)
    BY <1>1, <1>2, YearIsGathered
  <1>4. PartsSoFar(S, last, seen)
    BY <1>3 DEF YearSoFar
  <1>5. last.month \in Seq(S) /\ last.quarter \in Seq(S) /\ last.rows \in Seq(RowRecords(S))
    BY <1>4 DEF PartsSoFar, Gathering
  <1>6. 1..Len(last.month) = {} /\ 1..Len(last.quarter) = {}
    BY <1>3 DEF YearSoFar
  <1>7. last.month = <<>> /\ last.quarter = <<>>
    <2>1. ASSUME NEW seq \in Seq(S), 1..Len(seq) = {}
          PROVE  seq = <<>>
      <3>1. Len(seq) \in Nat
        BY LenProperties
      <3>2. Len(seq) = 0
        <4>1. PICK k \in Nat : k = Len(seq)
          BY <3>1
        <4>2. 1 \notin 1..k
          BY <2>1, <4>1
        <4> QED
          BY <4>1, <4>2
      <3> QED
        BY <3>2, EmptySeq
    <2> QED
      BY <1>5, <1>6, <2>1
  <1>8. row \in RowRecords(S) /\ row.part = "year" /\ row.of = entries
    BY DEF RowRecords, PartNames
  <1>9. /\ GoesThrough(S, last.rows, "week", <<>>, seen, Months(S))
        /\ GoesThrough(S, last.rows, "month", <<>>, seen, Months(S))
        /\ GoesThrough(S, last.rows, "quarter", <<>>, seen, Quarters(S))
        /\ GoesThrough(S, last.rows, "year", <<>>, {}, Months(S))
    BY <1>4, <1>7 DEF PartsSoFar
  <1>10. GoesThrough(S, last.rows, "year", entries, seen, [r \in S |-> 0])
    <2>1. \A j \in 1..n : entries[j] \in S
      OBVIOUS
    <2>2. seen \subseteq S
      BY <2>1
    <2>3. \A i \in 1..Len(last.rows) : last.rows[i].part = "year" => 1..Len(last.rows[i].of) = {}
      BY <1>9 DEF GoesThrough, Covers
    <2>4. Covers(last.rows, "year", entries, seen)
      BY <2>3 DEF Covers
    <2>5. InOrder(last.rows, "year", entries)
      BY <2>3 DEF InOrder
    <2>6. OfOnePeriod(last.rows, "year", [r \in S |-> 0])
      BY <2>3 DEF OfOnePeriod
    <2> QED
      BY <1>5, <2>2, <2>4, <2>5, <2>6 DEF GoesThrough
  <1>11. GoesThrough(S, Append(last.rows, row), "year", <<>>, seen, [r \in S |-> 0])
    <2>1. \A j, k \in 1..Len(entries) : [r \in S |-> 0][entries[j]] = [r \in S |-> 0][entries[k]]
      OBVIOUS
    <2> QED
      BY <1>10, <2>1, RowOfPart DEF PartNames
  <1> HIDE DEF row
  <1>12. /\ GoesThrough(S, Append(last.rows, row), "week", <<>>, seen, Months(S))
         /\ GoesThrough(S, Append(last.rows, row), "month", <<>>, seen, Months(S))
         /\ GoesThrough(S, Append(last.rows, row), "quarter", <<>>, seen, Quarters(S))
    BY <1>8, <1>9, RowOfAnother
  <1>13. /\ PeriodsApart(Append(last.rows, row), "month", <<>>, Months(S))
         /\ PeriodsApart(Append(last.rows, row), "quarter", <<>>, Quarters(S))
    BY <1>4, <1>5, <1>7, <1>8, ApartAnother DEF PartsSoFar
  <1> QED
    BY <1>1, <1>2, <1>11, <1>12, <1>13

(***************************************************************************)
(* The theorems                                                            *)
(***************************************************************************)
\* Reports and pages are what they are declared to be (the summaries and the
\* report pages of apps/reports/views.py).
THEOREM PagesStayTyped == PagesSpec => []PagesTypeOK
  <1>1. PagesInv => PagesTypeOK
    BY DEF PagesInv
  <1> QED
    BY <1>1, PagesAlways, PTL

\* The dashboard and a week's review end with the week they are for and show the
\* latest weeks up to it, for any calendar whose fiscal years follow each other
\* (_dashboard_weekly_sales_summaries, _dashboard_ranking_summaries).
THEOREM DashboardEndsWithItsWeek == PagesSpec => []DashboardWeek
  <1>1. PagesInv => DashboardWeek
    <2> SUFFICES ASSUME PagesInv, NEW target \in Weeks
                 PROVE  LET page == Dashboard(reports, target)
                            sales == Of(reports, "sales")
                            missing == \A r \in sales : r.week # target
                        IN  /\ IF missing THEN page.weekly = <<>> ELSE UpTo(page.weekly, sales, target)
                            /\ page.trend # <<>> => page.trend[2].week = target
                            /\ UpTo(page.ranking, Of(reports, "ranking"), target)
      BY DEF DashboardWeek
    <2>1. PICK sales, ranking : sales = Of(reports, "sales") /\ ranking = Of(reports, "ranking")
      OBVIOUS
    <2>2. /\ Distinct(sales) /\ \A r \in sales : r.week \in Weeks
          /\ Distinct(ranking) /\ \A r \in ranking : r.week \in Weeks
      BY <2>1, ReportsDistinct, DistinctSubset DEF Of
    <2>3. PICK shown : shown = LastOf(Sorted({r \in sales : Through(r.week, target)}), DashboardLimit)
      OBVIOUS
    <2>4. /\ UpTo(shown, sales, target)
          /\ shown \in Seq(sales)
          /\ \A r \in sales : r.week = target => shown[Len(shown)].week = target
      BY <2>2, <2>3, ShownUpTo
    <2>5. \A r \in sales : r.week = target => Through(r.week, target)
      BY ThroughIsUpTo, WeeksAssumption, FS_CardinalityType
    <2>6. WeeklySales(reports, target) = IF \A r \in sales : r.week # target THEN <<>> ELSE shown
      BY <2>1, <2>3, <2>5 DEF WeeklySales
    <2>7. Ranking(reports, target) = LastOf(Sorted({r \in ranking : Through(r.week, target)}), DashboardLimit)
      BY <2>1 DEF Ranking
    <2>8. UpTo(Ranking(reports, target), ranking, target)
      BY <2>2, <2>7, ShownUpTo
    <2>9. PICK weekly : weekly = WeeklySales(reports, target)
      OBVIOUS
    <2>10. Trend(weekly) # <<>> => Trend(weekly)[2].week = target
      <3>1. CASE \A r \in sales : r.week # target
        <4>1. Len(weekly) = 0
          BY <2>6, <2>9, <3>1, EmptySeq
        <4> QED
          BY <4>1 DEF Trend
      <3>2. CASE ~(\A r \in sales : r.week # target)
        <4>1. weekly[Len(weekly)].week = target
          BY <2>4, <2>6, <2>9, <3>2
        <4> QED
          BY <4>1 DEF Trend
      <3> QED
        BY <3>1, <3>2
    <2>11. /\ Dashboard(reports, target).weekly = weekly
           /\ Dashboard(reports, target).trend = Trend(weekly)
           /\ Dashboard(reports, target).ranking = Ranking(reports, target)
      BY <2>9 DEF Dashboard
    <2> QED
      BY <2>1, <2>4, <2>6, <2>8, <2>9, <2>10, <2>11
  <1> QED
    BY <1>1, PagesAlways, PTL

\* A page of gift cards leaves no missed opportunity unknown whose sales were
\* there when it, and every page open beside it, was opened, with any number of
\* viewers and uploads (_refresh_gift_cards_summary_if_needed).
THEOREM ViewsFillTheirFigures == PagesSpec => []ViewFillsFigures
  <1>1. PagesInv => ViewFillsFigures
    <2> SUFFICES ASSUME PagesInv,
                        NEW v \in Viewers, NEW g \in Of(reports, "gift"), NEW s \in Of(reports, "sales"),
                        ~Due(v), g.id \in pages[v].shown, s.week = g.week, s.id \in pages[v].seen
                 PROVE  g.dpt # None
      BY DEF ViewFillsFigures
    <2>1. DOMAIN pages[v].todo = {}
      BY NoPageTyped DEF Due, NoPage
    <2> QED
      BY <2>1 DEF PagesInv, StillToRead
  <1> QED
    BY <1>1, PagesAlways, PTL

\* The performance page and the report pages give a person the same totals, for
\* any number of reports of any range (_performance_rows,
\* _aggregate_associate_report_rows, _segments_aggregate_report_rows).
THEOREM PagesGiveTheSame == PagesSpec => []PagesAgree
  <1>1. PagesInv => PagesAgree
    <2> SUFFICES ASSUME PagesInv, NEW from \in Weeks, NEW to \in Weeks, NEW p \in Options(reports)
                 PROVE  LET listed(rs) == \A r \in rs : p \in r.listed /\ \A s \in rs : s.week = r.week => s = r
                            segments == InRange(reports, "segments", from, to)
                        IN  /\ \A kind \in {"gift", "bonus"} :
                                 LET rs == InRange(reports, kind, from, to) IN
                                 rs # {} /\ listed(rs) =>
                                   PerformanceTotal(InPeriod(reports, kind, from, to), p) = AssociateTotals(rs)[p]
                            /\ p \in DOMAIN SegmentTotals(segments) =>
                                 PerformanceSegments(InPeriod(reports, "segments", from, to), p) = SegmentTotals(segments)[p]
      BY DEF PagesAgree
    <2>1. \A kind : InPeriod(reports, kind, from, to) = InRange(reports, kind, from, to)
      BY DEF InPeriod, InRange
    <2>2. \A kind : InRange(reports, kind, from, to) \subseteq reports
      BY DEF InRange, Of
    <2>3. ASSUME NEW rs \in SUBSET reports, rs # {},
                 \A r \in rs : p \in r.listed /\ \A s \in rs : s.week = r.week => s = r
          PROVE  PerformanceTotal(rs, p) = AssociateTotals(rs)[p]
      <3>1. \A r \in rs : r.id <= r.id /\ FindRow(r, p) # {}
        BY <2>3 DEF FindRow, PagesInv, PagesTypeOK, ReportRecords
      <3>2. PerformanceRows(rs, p) = rs
        BY <2>3, <3>1 DEF PerformanceRows
      <3>3. {r \in rs : p \in r.listed} = rs /\ p \in UNION {r.listed : r \in rs}
        BY <2>3
      <3> QED
        BY <3>2, <3>3 DEF PerformanceTotal, AssociateTotals
    <2>4. ASSUME NEW rs \in SUBSET reports, p \in DOMAIN SegmentTotals(rs)
          PROVE  PerformanceSegments(rs, p) = SegmentTotals(rs)[p]
      <3>1. {r \in {r \in rs : p \in r.listed} : FindRow(r, p) # {}} = {r \in rs : p \in r.listed}
        BY DEF FindRow
      <3>2. p \in UNION {r.listed : r \in rs}
        BY <2>4 DEF SegmentTotals
      <3> QED
        BY <3>1, <3>2 DEF PerformanceSegments, SegmentRangeTotal, SegmentTotals
    <2> QED
      BY <2>1, <2>2, <2>3, <2>4
  <1> QED
    BY <1>1, PagesAlways, PTL
\* The year's page is of the reports of the latest fiscal year: that of the last
\* report, as fiscal years follow each other (_report_date_state).
LEMMA YearSelected ==
  ASSUME PagesInv
  PROVE  Selected(reports, "sales", "year", None, None) = OfLatestFiscalYear
  <1>1. PICK of : of = Of(reports, "sales")
    OBVIOUS
  <1>2. PICK latest : latest = Latest(reports, "sales")
    OBVIOUS
  <1>3. Selected(reports, "sales", "year", None, None)
          = {r \in of : \A s \in ToSet(latest) : FiscalYearOf[r.week] = FiscalYearOf[s.week]}
    BY <1>1, <1>2 DEF Selected
  <1>4. OfLatestFiscalYear = {r \in of : \A s \in of : FiscalYearOf[s.week] <= FiscalYearOf[r.week]}
    BY <1>1 DEF OfLatestFiscalYear
  <1>5. of \subseteq reports /\ Distinct(of) /\ \A r \in of : r.week \in Weeks
    BY <1>1, ReportsDistinct, DistinctSubset DEF Of
  <1>6. CASE of = {}
    BY <1>3, <1>4, <1>6
  <1>7. CASE of # {}
    <2>1. latest = LastOf(Sorted(of), 1)
      BY <1>1, <1>2 DEF Latest
    <2>2. PICK t \in of : ToSet(latest) = {t} /\ \A r \in of : r = t \/ Precedes(r, t)
      BY <1>5, <1>7, <2>1, LatestIsLast
    <2>3. \A r \in of : r.week \in Int /\ FiscalYearOf[r.week] \in Int
      BY <1>5, YearsAssumption DEF Distinct
    <2>4. \A r \in of : r.week <= t.week
      BY <2>2, <2>3 DEF Precedes
    <2>5. \A r \in of : FiscalYearOf[r.week] <= FiscalYearOf[t.week]
      BY <1>5, <2>4, YearsAssumption
    <2>6. \A r \in of : FiscalYearOf[r.week] = FiscalYearOf[t.week]
                        <=> \A s \in of : FiscalYearOf[s.week] <= FiscalYearOf[r.week]
      BY <2>3, <2>5
    <2> QED
      BY <1>3, <1>4, <2>2, <2>6
  <1> QED
    BY <1>6, <1>7

\* Every report of the latest fiscal year that lies in its latest calendar year
\* counts once in each part of the year's page, nothing else does, and a month and
\* a quarter have one row, for any calendar whose months and fiscal years follow
\* each other and any number of reports (_weekly_period_report_rows).
THEOREM YearsAddUp == PagesSpec => []YearAddsUp
  <1>1. PagesInv => YearAddsUp
    <2> SUFFICES ASSUME PagesInv
                 PROVE  YearAddsUp
      OBVIOUS
    <2> DEFINE sales == Selected(reports, "sales", "year", None, None)
               S == LatestYear(sales)
               rows == PeriodRows(sales)
    <2>1. S \subseteq sales /\ S \subseteq reports
      <3>1. sales \in Selections("sales")
        BY DEF Selections
      <3>2. sales \subseteq reports
        BY <3>1, SelectedOf
      <3> QED
        BY <3>2 DEF LatestYear
    <2>2. Distinct(S)
      BY <2>1, ReportsDistinct, DistinctSubset
    <2>3. PICK entries : entries = Sorted(S)
      OBVIOUS
    <2>4. PICK n \in Nat : n = Cardinality(S)
      BY <2>2, SortedProperties
    <2>5. /\ entries \in Seq(S) /\ Len(entries) = n
          /\ \A r \in S : Position(S, r) \in 1..n /\ entries[Position(S, r)] = r
          /\ \A i \in 1..n : entries[i] \in S
          /\ \A i, j \in 1..n : i < j => Precedes(entries[i], entries[j])
      <3> HIDE DEF S
      <3> QED
        BY <2>2, <2>3, <2>4, SortedProperties
    <2>6. YearReport(reports) = rows /\ entries = YearEntries(sales)
      BY <2>3 DEF YearReport, YearEntries
    <2> HIDE DEF S
    <2>7. MonthsFollow(S)
      <3>1. \A r \in S : r.week \in Weeks /\ r.week \in Int
        BY <2>1, <2>2 DEF PagesInv, PagesTypeOK, ReportRecords, Distinct
      <3>2. \A r, s \in S : Precedes(r, s) => r.week <= s.week
        BY <3>1 DEF Precedes
      <3> QED
        BY <3>1, <3>2, MonthsAssumption DEF MonthsFollow
    <2>8. {entries[j] : j \in 1..n} = S
      BY <2>5
    <2>9. /\ \A part \in PartNames : \E period : GoesThrough(S, rows, part, <<>>, S, period)
          /\ GoesThrough(S, rows, "month", <<>>, S, Months(S))
          /\ GoesThrough(S, rows, "quarter", <<>>, S, Quarters(S))
          /\ PeriodsApart(rows, "month", <<>>, Months(S))
          /\ PeriodsApart(rows, "quarter", <<>>, Quarters(S))
      <3>1. CASE entries = <<>>
        <4>1. n = 0 /\ S = {} /\ rows = <<>>
          BY <2>5, <2>6, <3>1, EmptySeq DEF PeriodRows
        <4>2. <<>> \in Seq(RowRecords(S)) /\ <<>> \in Seq(S) /\ Len(<<>>) = 0
          BY EmptySeq
        <4>3. \A part, period : GoesThrough(S, <<>>, part, <<>>, {}, period) /\ PeriodsApart(<<>>, part, <<>>, period)
          BY <4>2 DEF GoesThrough, Covers, InOrder, OfOnePeriod, PeriodsApart
        <4> QED
          BY <4>1, <4>3
      <3>2. CASE entries # <<>>
        <4>1. /\ GoesThrough(S, rows, "week", <<>>, S, Months(S))
              /\ GoesThrough(S, rows, "month", <<>>, S, Months(S))
              /\ GoesThrough(S, rows, "quarter", <<>>, S, Quarters(S))
              /\ GoesThrough(S, rows, "year", <<>>, S, [r \in S |-> 0])
              /\ PeriodsApart(rows, "month", <<>>, Months(S))
              /\ PeriodsApart(rows, "quarter", <<>>, Quarters(S))
          <5>1. PICK seen : seen = {entries[j] : j \in 1..n}
            OBVIOUS
          <5>2. entries \in Seq(S) /\ n = Len(entries) /\ \A j, k \in 1..n : j < k => Precedes(entries[j], entries[k])
            BY <2>5
          <5> HIDE DEF rows, sales
          <5>3. /\ GoesThrough(S, PeriodRows(sales), "week", <<>>, seen, Months(S))
                /\ GoesThrough(S, PeriodRows(sales), "month", <<>>, seen, Months(S))
                /\ GoesThrough(S, PeriodRows(sales), "quarter", <<>>, seen, Quarters(S))
                /\ GoesThrough(S, PeriodRows(sales), "year", <<>>, seen, [r \in S |-> 0])
                /\ PeriodsApart(PeriodRows(sales), "month", <<>>, Months(S))
                /\ PeriodsApart(PeriodRows(sales), "quarter", <<>>, Quarters(S))
            BY <2>6, <2>7, <3>2, <5>1, <5>2, YearRows
          <5> QED
            BY <2>8, <5>1, <5>3 DEF rows
        <4> HIDE DEF rows
        <4> QED
          BY <4>1 DEF PartNames
      <3> QED
        BY <3>1, <3>2
    <2>10. rows \in Seq(RowRecords(S)) /\ DOMAIN rows = 1..Len(rows)
      BY <2>9 DEF GoesThrough
    <2>11. ASSUME NEW i \in 1..Len(rows)
           PROVE  /\ rows[i].part \in PartNames /\ rows[i].of \in Seq(S)
                  /\ DOMAIN rows[i].of = 1..Len(rows[i].of)
                  /\ ToSet(rows[i].of) = {rows[i].of[k] : k \in 1..Len(rows[i].of)}
      <3>1. rows[i] \in RowRecords(S)
        BY <2>10
      <3> QED
        BY <3>1 DEF RowRecords, ToSet
    <2> HIDE DEF rows
    <2>12. 1..Len(<<>>) = {}
      BY EmptySeq
    <2>13. ASSUME NEW part \in PartNames
           PROVE  /\ UNION {ToSet(rows[i].of) : i \in {i \in DOMAIN rows : rows[i].part = part}} = S
                  /\ RowsInOrder(rows, part)
      <3>1. PICK period : GoesThrough(S, rows, part, <<>>, S, period)
        BY <2>9
      <3>2. ASSUME NEW i \in DOMAIN rows, rows[i].part = part
            PROVE  ToSet(rows[i].of) \subseteq S
        <4>1. i \in 1..Len(rows)
          BY <2>10, <3>2
        <4>2. \A k \in 1..Len(rows[i].of) : rows[i].of[k] \in S
          BY <3>1, <3>2, <4>1 DEF GoesThrough, Covers
        <4>3. ToSet(rows[i].of) = {rows[i].of[k] : k \in 1..Len(rows[i].of)}
          BY <2>11, <4>1
        <4> QED
          BY <4>2, <4>3
      <3>3. ASSUME NEW r \in S
            PROVE  \E i \in DOMAIN rows : rows[i].part = part /\ r \in ToSet(rows[i].of)
        <4>1. PICK i \in 1..Len(rows) : rows[i].part = part /\ \E k \in 1..Len(rows[i].of) : rows[i].of[k] = r
          BY <2>12, <3>1 DEF GoesThrough, Covers
        <4> QED
          BY <2>10, <2>11, <4>1
      <3>4. UNION {ToSet(rows[i].of) : i \in {i \in DOMAIN rows : rows[i].part = part}} = S
        BY <3>2, <3>3
      <3>5. RowsInOrder(rows, part)
        BY <2>10, <2>11, <3>1 DEF GoesThrough, InOrder, RowsInOrder
      <3> QED
        BY <3>4, <3>5
    <2>14. ASSUME NEW i \in DOMAIN rows, NEW j \in DOMAIN rows, rows[i].part = rows[j].part,
                  NEW r \in ToSet(rows[i].of), NEW s \in ToSet(rows[j].of)
           PROVE  /\ rows[i].part = "month" => (i = j <=> MonthOf[r.week] = MonthOf[s.week])
                  /\ rows[i].part = "quarter" => (i = j <=> Quarter(MonthOf[r.week]) = Quarter(MonthOf[s.week]))
      <3>1. PICK k \in 1..Len(rows[i].of), l \in 1..Len(rows[j].of) : rows[i].of[k] = r /\ rows[j].of[l] = s
        <4>1. i \in 1..Len(rows) /\ j \in 1..Len(rows)
          BY <2>10
        <4>2. /\ r \in {rows[i].of[k] : k \in 1..Len(rows[i].of)}
              /\ s \in {rows[j].of[k] : k \in 1..Len(rows[j].of)}
          BY <2>11, <4>1
        <4> QED
          BY <4>2
      <3>2. i \in 1..Len(rows) /\ j \in 1..Len(rows) /\ (i < j \/ j < i \/ i = j)
        BY <2>10
      <3>3. r \in S /\ s \in S
        BY <2>11, <3>1, <3>2
      <3>4. /\ Months(S)[r] = MonthOf[r.week] /\ Months(S)[s] = MonthOf[s.week]
            /\ Quarters(S)[r] = Quarter(MonthOf[r.week]) /\ Quarters(S)[s] = Quarter(MonthOf[s.week])
        BY <3>3 DEF Months, Quarters
      <3>5. /\ MonthOf[r.week] \in Int /\ MonthOf[s.week] \in Int
            /\ Quarter(MonthOf[r.week]) \in Int /\ Quarter(MonthOf[s.week]) \in Int
        BY <2>7, <3>3 DEF MonthsFollow, Quarter
      <3>6. ASSUME rows[i].part = "month"
            PROVE  i = j <=> Months(S)[r] = Months(S)[s]
        <4>1. i = j => Months(S)[r] = Months(S)[s]
          BY <2>9, <3>1, <3>2, <3>6 DEF GoesThrough, OfOnePeriod
        <4>2. i < j => Months(S)[r] < Months(S)[s]
          BY <2>9, <2>14, <3>1, <3>2, <3>6 DEF PeriodsApart
        <4>3. j < i => Months(S)[s] < Months(S)[r]
          BY <2>9, <2>14, <3>1, <3>2, <3>6 DEF PeriodsApart
        <4> QED
          BY <3>2, <3>4, <3>5, <4>1, <4>2, <4>3
      <3>7. ASSUME rows[i].part = "quarter"
            PROVE  i = j <=> Quarters(S)[r] = Quarters(S)[s]
        <4>1. i = j => Quarters(S)[r] = Quarters(S)[s]
          BY <2>9, <3>1, <3>2, <3>7 DEF GoesThrough, OfOnePeriod
        <4>2. i < j => Quarters(S)[r] < Quarters(S)[s]
          BY <2>9, <2>14, <3>1, <3>2, <3>7 DEF PeriodsApart
        <4>3. j < i => Quarters(S)[s] < Quarters(S)[r]
          BY <2>9, <2>14, <3>1, <3>2, <3>7 DEF PeriodsApart
        <4> QED
          BY <3>2, <3>4, <3>5, <4>1, <4>2, <4>3
      <3> QED
        BY <3>4, <3>6, <3>7
    <2> QED
      <3>1. LatestYear(OfLatestFiscalYear) = S
        BY YearSelected DEF S
      <3> QED
        BY <2>6, <2>13, <2>14, <3>1 DEF YearAddsUp, PartNames
  <1> QED
    BY <1>1, PagesAlways, PTL
=============================================================================
