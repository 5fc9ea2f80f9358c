----------------------------- MODULE RulesProofs -----------------------------
(***************************************************************************)
(* What the formal rules owe to every submission, whatever is in it.       *)
(***************************************************************************)
EXTENDS Rules, FiniteSetTheorems, SequenceTheorems, WellFoundedInduction, TLAPS

-----------------------------------------------------------------------------
(* Numbers and sequences                                                   *)

\* A set of numbers that is not empty has a least one.
LEMMA LeastOfNat ==
    ASSUME NEW T \in SUBSET Nat, T # {}
    PROVE  \E m \in T : \A k \in T : m <= k
<1> DEFINE R == OpToRel(<, Nat)
<1>1. R = {ss \in Nat \X Nat : ss[1] < ss[2]}
  BY DEF OpToRel
<1>2. IsWellFoundedOn(R, Nat)
  BY NatLessThanWellFounded
<1> HIDE DEF R
<1>3. PICK m \in T : \A k \in T : ~ (<<k, m>> \in R)
  BY <1>2, WFMin
<1>4. ASSUME NEW k \in T PROVE m <= k
  <2>1. <<k, m>> \in Nat \X Nat /\ <<k, m>>[1] = k /\ <<k, m>>[2] = m
    OBVIOUS
  <2>2. ~(<<k, m>>[1] < <<k, m>>[2])
    BY <1>1, <1>3, <2>1
  <2>. QED
    BY <2>1, <2>2
<1>. QED
  BY <1>4

\* What holds of 0, and of n + 1 if of n, holds of all.
LEMMA Upwards ==
    ASSUME NEW N \in Nat, NEW T, 0 \in T, \A n \in 0 .. N - 1 : n \in T => n + 1 \in T
    PROVE  \A n \in 0 .. N : n \in T
<1> DEFINE Rest == {n \in 0 .. N : n \notin T}
<1>1. Rest \in SUBSET Nat
  OBVIOUS
<1> SUFFICES ASSUME Rest # {} PROVE FALSE
  OBVIOUS
<1>2. PICK m \in Rest : \A k \in Rest : m <= k
  <2> HIDE DEF Rest
  <2>. QED
    BY <1>1, LeastOfNat
<1>3. m - 1 \in 0 .. N - 1 /\ m - 1 \notin Rest
  BY <1>2
<1>4. m - 1 + 1 \in T
  BY <1>3
<1>. QED
  BY <1>2, <1>4

\* steps[k] leads from S[k - 1] to S[k], for each k up to N, beginning with a;
\* g holds what comes of it.
Leads(steps, N, S, a) ==
    /\ N \in Nat /\ a \in S[0]
    /\ \A k \in 1 .. N : \A x \in S[k - 1] : steps[k][x] \in S[k]

Follows(g, steps, N, S, a) ==
    /\ g \in [0 .. N -> UNION {S[k] : k \in 0 .. N}]
    /\ g[0] = a /\ \A k \in 1 .. N : g[k] = steps[k][g[k - 1]]
    /\ \A k \in 0 .. N : g[k] \in S[k]

\* A function may be defined by what it is at 0 and by what follows what.
LEMMA Recursion ==
    ASSUME NEW steps, NEW N, NEW S, NEW a, Leads(steps, N, S, a)
    PROVE  \E g : Follows(g, steps, N, S, a)
<1> USE DEF Leads
<1> DEFINE Fits(g, n) == /\ \A k \in 0 .. n : g[k] \in S[k]
                         /\ \A k \in 0 .. n : g[k] = IF k = 0 THEN a ELSE steps[k][g[k - 1]]
           T == {n \in 0 .. N : \E g : Fits(g, n)}
<1>1. 0 \in T
  <2> DEFINE h == [k \in 0 .. 0 |-> a]
  <2>1. Fits(h, 0)
    OBVIOUS
  <2> HIDE DEF h, Fits
  <2>. QED
    BY <2>1
<1>2. ASSUME NEW n \in 0 .. N - 1, n \in T
      PROVE  n + 1 \in T
  <2>1. PICK g : Fits(g, n)
    BY <1>2
  <2> DEFINE h == [k \in 0 .. n + 1 |-> IF k = n + 1 THEN steps[n + 1][g[n]] ELSE g[k]]
  <2>2. /\ \A k \in 0 .. n : h[k] = g[k]
        /\ h[n + 1] = steps[n + 1][g[n]] /\ steps[n + 1][g[n]] \in S[n + 1]
    BY <2>1
  <2>3. \A k \in 0 .. n + 1 : k \in 0 .. n \/ k = n + 1
    OBVIOUS
  <2>4. \A k \in 1 .. n + 1 : k - 1 \in 0 .. n
    OBVIOUS
  <2> HIDE DEF h
  <2>5. Fits(h, n + 1)
    BY <2>1, <2>2, <2>3, <2>4
  <2> HIDE DEF Fits
  <2>. QED
    BY <2>5
<1> HIDE DEF Fits, T
<1>3. N \in T
  BY <1>1, <1>2, Upwards
<1>4. PICK g : Fits(g, N)
  BY <1>3 DEF T
<1> DEFINE f == [k \in 0 .. N |-> g[k]]
<1>5. \A k \in 0 .. N : f[k] = g[k]
  OBVIOUS
<1>6. \A k \in 1 .. N : k \in 0 .. N /\ k - 1 \in 0 .. N
  OBVIOUS
<1>7. f \in [0 .. N -> UNION {S[k] : k \in 0 .. N}]
  BY <1>4 DEF Fits
<1> HIDE DEF f
<1>8. f[0] = a /\ \A k \in 1 .. N : f[k] = steps[k][f[k - 1]]
  BY <1>4, <1>5, <1>6 DEF Fits
<1>9. \A k \in 0 .. N : f[k] \in S[k]
  BY <1>4, <1>5 DEF Fits
<1>. QED
  BY <1>7, <1>8, <1>9 DEF Follows

\* The least and the greatest of a set of numbers.
LEMMA MinIs ==
    ASSUME NEW T \in SUBSET Nat, T # {}
    PROVE  Min(T) \in T /\ \A k \in T : Min(T) <= k
BY LeastOfNat DEF Min

LEMMA MaxIs ==
    ASSUME NEW N \in Nat, NEW T \in SUBSET (0 .. N), T # {}
    PROVE  Max(T) \in T /\ \A k \in T : k <= Max(T)
<1> DEFINE U == {n \in 0 .. N : N - n \in T}
<1>1. U \in SUBSET Nat
  OBVIOUS
<1>2. U # {}
  <2>1. PICK t \in T : t \in 0 .. N
    OBVIOUS
  <2>2. N - t \in U
    BY <2>1
  <2>. QED
    BY <2>2
<1>3. PICK u \in U : \A k \in U : u <= k
  <2> HIDE DEF U
  <2>. QED
    BY <1>1, <1>2, LeastOfNat
<1>4. ASSUME NEW k \in T PROVE k <= N - u
  <2>1. k \in 0 .. N /\ N - k \in U
    OBVIOUS
  <2>2. u <= N - k /\ u \in 0 .. N
    BY <1>3, <2>1
  <2>. QED
    BY <2>1, <2>2
<1>5. N - u \in T /\ \A k \in T : N - u >= k
  BY <1>3, <1>4
<1>6. \E x \in T : \A y \in T : x >= y
  BY <1>5
<1>. QED
  BY <1>6 DEF Max

\* What InsertAt makes of a sequence.
LEMMA InsertIs ==
    ASSUME NEW S, NEW s \in Seq(S), NEW e \in S, NEW i \in 1 .. Len(s) + 1
    PROVE  /\ InsertAt(s, i, e) \in Seq(S) /\ Len(InsertAt(s, i, e)) = Len(s) + 1
           /\ \A j \in 1 .. Len(s) + 1 :
                InsertAt(s, i, e)[j] = IF j < i THEN s[j] ELSE IF j = i THEN e ELSE s[j - 1]
<1> DEFINE n == Len(s)
           a == SubSeq(s, 1, i - 1)
           b == SubSeq(s, i, n)
           one == <<e>>
<1>1. n \in Nat /\ i \in 1 .. n + 1 /\ \A j \in 1 .. n : s[j] \in S
  BY LenProperties, ElementOfSeq
<1>2. /\ a \in Seq(S) /\ Len(a) = i - 1 /\ \A j \in 1 .. i - 1 : a[j] = s[j]
  <2>1. \A j \in 1 .. i - 1 : s[j] \in S
    BY <1>1
  <2>2. /\ a \in Seq(S) /\ Len(a) = IF 1 <= i - 1 THEN i - 1 - 1 + 1 ELSE 0
        /\ \A j \in 1 .. i - 1 - 1 + 1 : a[j] = s[1 + j - 1]
    BY <1>1, <2>1, SubSeqProperties
  <2>. QED
    BY <1>1, <2>2
<1>3. /\ b \in Seq(S) /\ Len(b) = n - i + 1 /\ \A j \in 1 .. n - i + 1 : b[j] = s[i + j - 1]
  <2>1. \A j \in i .. n : s[j] \in S
    BY <1>1
  <2>2. /\ b \in Seq(S) /\ Len(b) = IF i <= n THEN n - i + 1 ELSE 0
        /\ \A j \in 1 .. n - i + 1 : b[j] = s[i + j - 1]
    BY <1>1, <2>1, SubSeqProperties
  <2>. QED
    BY <1>1, <2>2
<1>4. one \in Seq(S) /\ Len(one) = 1 /\ one[1] = e
  OBVIOUS
<1> DEFINE c == a \o one
           whole == c \o b
<1>5. InsertAt(s, i, e) = whole
  BY DEF InsertAt
<1>6. /\ c \in Seq(S) /\ Len(c) = i - 1 + 1
      /\ \A j \in 1 .. i - 1 + 1 : c[j] = IF j <= i - 1 THEN a[j] ELSE one[j - (i - 1)]
  <2> HIDE DEF a, one
  <2>1. /\ c \in Seq(S) /\ Len(c) = Len(a) + Len(one)
        /\ \A j \in 1 .. Len(a) + Len(one) :
             c[j] = IF j <= Len(a) THEN a[j] ELSE one[j - Len(a)]
    BY <1>2, <1>4, ConcatProperties
  <2> HIDE DEF c
  <2>. QED
    BY <1>2, <1>4, <2>1
<1> HIDE DEF n, a, one, c
<1>7. Len(c) = i /\ \A j \in 1 .. i : c[j] = IF j < i THEN s[j] ELSE e
  <2>1. i - 1 + 1 = i
    BY <1>1
  <2>2. ASSUME NEW j \in 1 .. i, j < i PROVE c[j] = s[j]
    <3>1. j <= i - 1 /\ j \in 1 .. i - 1
      BY <1>1, <2>2
    <3>. QED
      BY <1>2, <1>6, <2>1, <3>1
  <2>3. c[i] = e
    <3>1. i - (i - 1) = 1 /\ ~(i <= i - 1) /\ i \in 1 .. i
      BY <1>1
    <3>. QED
      BY <1>4, <1>6, <2>1, <3>1
  <2>. QED
    BY <1>1, <1>6, <2>1, <2>2, <2>3
<1>8. /\ whole \in Seq(S) /\ Len(whole) = n + 1
      /\ \A j \in 1 .. n + 1 : whole[j] = IF j <= i THEN c[j] ELSE b[j - i]
  <2> HIDE DEF b
  <2>1. /\ whole \in Seq(S) /\ Len(whole) = Len(c) + Len(b)
        /\ \A j \in 1 .. Len(c) + Len(b) :
             whole[j] = IF j <= Len(c) THEN c[j] ELSE b[j - Len(c)]
    BY <1>3, <1>6, ConcatProperties
  <2> HIDE DEF whole
  <2>2. i + (n - i + 1) = n + 1
    BY <1>1
  <2>. QED
    BY <1>3, <1>7, <2>1, <2>2
<1> HIDE DEF b, whole
<1>9. \A j \in 1 .. n + 1 :
        whole[j] = IF j < i THEN s[j] ELSE IF j = i THEN e ELSE s[j - 1]
  <2> SUFFICES ASSUME NEW j \in 1 .. n + 1
               PROVE  whole[j] = IF j < i THEN s[j] ELSE IF j = i THEN e ELSE s[j - 1]
    OBVIOUS
  <2>1. CASE j <= i
    <3>1. j \in 1 .. i
      BY <1>1, <2>1
    <3>2. whole[j] = c[j]
      BY <1>8, <2>1
    <3>. QED
      BY <1>1, <1>7, <2>1, <3>1, <3>2
  <2>2. CASE ~(j <= i)
    <3>1. j - i \in 1 .. n - i + 1 /\ i + (j - i) - 1 = j - 1 /\ ~(j < i) /\ j # i
      BY <1>1, <2>2
    <3>2. b[j - i] = s[i + (j - i) - 1]
      BY <1>3, <3>1
    <3>3. whole[j] = b[j - i]
      BY <1>8, <2>2
    <3>. QED
      BY <3>1, <3>2, <3>3
  <2>. QED
    BY <2>1, <2>2
<1>. QED
  BY <1>5, <1>8, <1>9 DEF n

-----------------------------------------------------------------------------
(* Evidence that is taken away                                             *)

\* What is left of a submission when its class, bibliography, pages or PDF is gone.
SameText(s, t) ==
    /\ s.latex /\ t.latex /\ t.body = s.body /\ t.declared = s.declared
    /\ t.preamble = s.preamble /\ t.build = s.build
SamePages(s, t) ==
    /\ t.paged = s.paged /\ t.sections = s.sections
    /\ t.pdf = NoPdf <=> s.pdf = NoPdf
WithoutClass(s, t) ==
    /\ SameText(s, t) /\ SamePages(s, t) /\ t.pdf = s.pdf /\ t.bib = s.bib
    /\ t.class = NoClass /\ t.protected = "missing"
WithoutBib(s, t) ==
    /\ SameText(s, t) /\ SamePages(s, t) /\ t.pdf = s.pdf /\ t.bib = <<>>
    /\ t.class = s.class /\ t.protected = s.protected
WithoutPages(s, t) ==
    /\ SameText(s, t) /\ t.paged = FALSE /\ Paged(t) = {} /\ t.pdf = s.pdf /\ t.bib = s.bib
    /\ t.class = s.class /\ t.protected = s.protected
WithoutPdf(s, t) ==
    /\ SameText(s, t) /\ t.paged = FALSE /\ t.pdf = NoPdf /\ t.bib = s.bib
    /\ t.class = s.class /\ t.protected = s.protected

\* A verdict may become silent, and a failure a warning.
Quieter(new, old) == \/ new = old
                     \/ new \in Silent
                     \/ old = "fail" /\ new = "warn"

\* The rules that look at the class file, by how they join it with the rest.
ClassIds == {"FIG-04", "FIG-05", "FIG-06", "FIG-07", "TAB-01"}
JointIds == {"BIB-02", "BIB-03", "FIG-03", "TAB-02", "MTH-01"}

\* A rule that asks the class alone has nothing to say without it.
LEMMA ClassIsSilent ==
    ASSUME NEW s, NEW t, WithoutClass(s, t), NEW r \in ClassIds
    PROVE  Run(t, r) = "unverifiable"
<1>1. \A d : ClassAnswer(t, d) = "unverifiable"
  BY DEF WithoutClass, ClassAnswer, ClassSets
<1>. QED
  BY <1>1 DEF ClassIds, Run, FormatIds

\* A rule that joins the class with the pages fails for the pages alone.
LEMMA PagesWithoutClass ==
    ASSUME NEW s, NEW t, WithoutClass(s, t), NEW r \in FormatIds
    PROVE  Quieter(Run(t, r), Run(s, r))
<1>1. \A d : ClassSets(t, d) = "unknown"
  BY DEF WithoutClass, ClassSets
<1>2. ASSUME NEW c, NEW x
      PROVE  Quieter(CombineClassPdf(t, "unknown", x), CombineClassPdf(s, c, x))
  BY DEF WithoutClass, SameText, CombineClassPdf, Quieter, Silent
<1>3. /\ BodyFont(t) = BodyFont(s) /\ HeadingBold(t) = HeadingBold(s)
      /\ Spacing(t) = Spacing(s) /\ Margins(t) = Margins(s)
  BY DEF WithoutClass, SamePages, BodyFont, HeadingBold, Spacing, Margins, HasText
<1>4. /\ Quieter(Fmt01(t), Fmt01(s)) /\ Quieter(Fmt02(t), Fmt02(s))
      /\ Quieter(Fmt03(t), Fmt03(s)) /\ Quieter(Fmt05(t), Fmt05(s))
  BY <1>1, <1>2, <1>3 DEF Fmt01, Fmt02, Fmt03, Fmt05
<1>5. Quieter(Fmt04(t), Fmt04(s))
  BY <1>1 DEF Fmt04, Quieter, Silent
<1>6. \A v : Supported(t, v) = v /\ Supported(s, v) = v
  BY DEF Supported, WithoutClass, SameText
<1>7. Run(t, r) = FormatVerdicts(t)[r] /\ Run(s, r) = FormatVerdicts(s)[r]
  BY DEF Run, FormatIds
<1>8. \A u \in {s, t} :
        /\ FormatVerdicts(u)["FMT-01"] = Fmt01(u) /\ FormatVerdicts(u)["FMT-02"] = Fmt02(u)
        /\ FormatVerdicts(u)["FMT-03"] = Fmt03(u) /\ FormatVerdicts(u)["FMT-04"] = Fmt04(u)
        /\ FormatVerdicts(u)["FMT-05"] = Fmt05(u)
  <2> SUFFICES ASSUME NEW u \in {s, t}
               PROVE  \A q \in {"FMT-01", "FMT-02", "FMT-03", "FMT-04", "FMT-05"} :
                        FormatVerdicts(u)[q] =
                          CASE q = "FMT-01" -> Fmt01(u) [] q = "FMT-02" -> Fmt02(u)
                            [] q = "FMT-03" -> Fmt03(u) [] q = "FMT-04" -> Fmt04(u)
                            [] q = "FMT-05" -> Fmt05(u)
    OBVIOUS
  <2>. QED
    BY <1>6 DEF FormatVerdicts
<1>. QED
  BY <1>4, <1>5, <1>7, <1>8 DEF FormatIds

\* A rule that joins it with the source fails for the source alone.
LEMMA SourceWithoutClass ==
    ASSUME NEW s, NEW t, WithoutClass(s, t), NEW r \in JointIds
    PROVE  Quieter(Run(t, r), Run(s, r))
<1>1. \A d : ClassSets(t, d) = "unknown"
  BY DEF WithoutClass, ClassSets
<1>2. ASSUME NEW c, NEW x, NEW o, NEW w
      PROVE  Quieter(CombineClassScript("unknown", x, o, w), CombineClassScript(c, x, o, w))
  BY DEF CombineClassScript, Quieter, Silent
<1>3. t.body = s.body /\ Entries(t) = Entries(s)
  BY DEF WithoutClass, SameText, Entries
<1>4. Quieter(Bib02(t), Bib02(s))
  BY <1>1, <1>2, <1>3 DEF Bib02
<1>5. Quieter(Bib03(t), Bib03(s))
  BY <1>1, <1>2, <1>3 DEF Bib03
<1>6. Quieter(Fig03(t), Fig03(s)) /\ Quieter(Tab02(t), Tab02(s))
  BY <1>1, <1>2, <1>3 DEF Fig03, Tab02
<1>7. Quieter(Mth01(t), Mth01(s))
  <2>1. CASE SectionBody(s.body, Mathematics).found
    BY <1>1, <1>2, <1>3, <2>1 DEF Mth01
  <2>2. CASE ~SectionBody(s.body, Mathematics).found
    BY <1>3, <2>2 DEF Mth01, Quieter
  <2>. QED
    BY <2>1, <2>2
<1>. QED
  BY <1>4, <1>5, <1>6, <1>7 DEF JointIds, Run, FormatIds

\* The other rules but the check of the protected files do not read the class,
\* and few of them the bibliography or the PDF.
LEMMA RestIsSame ==
    ASSUME NEW s, NEW t, SameText(s, t),
           NEW r \in RuleIds \ (ClassIds \cup JointIds \cup FormatIds \cup {"SYS-01"}),
           r \in BibIds => t.bib = s.bib,
           r \in {"FIG-01", "ANN-03"} => t.pdf = s.pdf,
           r \in {"STR-03", "STR-04"} => SamePages(s, t)
    PROVE  Run(t, r) = Run(s, r)
<1> USE DEF SameText
<1>1. Str01(t) = Str01(s) /\ Str02(t) = Str02(s)
  BY DEF Str01, Str02
<1>13. ASSUME SamePages(s, t) PROVE Str03(t) = Str03(s) /\ Str04(t) = Str04(s)
  <2>1. Paginated(t) = Paginated(s) /\ Paged(t) = Paged(s) /\ t.paged = s.paged
    BY <1>13 DEF SamePages, Paginated, Paged
  <2>2. ShortSubsection(t) = ShortSubsection(s)
    BY <2>1 DEF ShortSubsection
  <2>3. Str03(t) = Str03(s)
    BY <2>1, <2>2, Zenon DEF Str03
  <2>4. Str04(t) = Str04(s)
    BY <2>1 DEF Str04
  <2>. QED
    BY <2>3, <2>4
<1>2. /\ Bib01(t) = Bib01(s) /\ Rev07(t) = Rev07(s)
      /\ t.bib = s.bib => Bib04(t) = Bib04(s) /\ Bib05(t) = Bib05(s)
  BY DEF Bib01, Bib04, Bib05, Rev07, OfReview, Entries
<1>3. t.bib = s.bib => Rev01(t) = Rev01(s) /\ Rev02(t) = Rev02(s)
  BY DEF Rev01, Rev02, OfReview, Cited, Known, EntryOf, Entries
<1>4. t.bib = s.bib => Rev03(t) = Rev03(s)
  BY DEF Rev03, OfReview, Cited, Known, EntryOf, Entries
<1>5. t.bib = s.bib => Rev04(t) = Rev04(s)
  BY DEF Rev04, OfReview, Cited, Known, EntryOf, Entries
<1>6. Fig02(t) = Fig02(s) /\ Tab03(t) = Tab03(s) /\ Cap01(t) = Cap01(s)
  BY DEF Fig02, Tab03, Cap01, Referenced
<1>7. t.pdf = s.pdf => Fig01(t) = Fig01(s)
  BY DEF Fig01, HasText
<1>8. Ann02(t) = Ann02(s) /\ Int02(t) = Int02(s)
  BY DEF Ann02, Int02, Monolith, FirstSection
<1>9. t.pdf = s.pdf => Ann03(t) = Ann03(s)
  BY DEF Ann03, Actual, FirstSection
<1>10. Ssa01(t) = Ssa01(s) /\ Arc01(t) = Arc01(s) /\ Res01(t) = Res01(s)
  BY DEF Ssa01, Arc01, Res01, Presence
<1>11. Tsk02(t) = Tsk02(s) /\ Alg01(t) = Alg01(s) /\ Alg03(t) = Alg03(s)
  BY DEF Tsk02, Alg01, Alg03, AlgorithmHas, FirstSection
<1>12. App01(t) = App01(s) /\ Sys02(t) = Sys02(s) /\ Sys03(t) = Sys03(s)
  BY DEF App01, Sys02, Sys03
<1>. QED
  <2>1. CASE r \in BibIds
    BY <1>2, <1>3, <1>4, <1>5, <2>1 DEF ClassIds, JointIds, FormatIds, BibIds, Run
  <2>2. CASE r \in {"STR-01", "STR-02", "STR-03", "STR-04", "BIB-01", "REV-07"}
    BY <1>1, <1>13, <1>2, <2>2 DEF FormatIds, Run
  <2>3. CASE r \in {"FIG-01", "FIG-02", "TAB-03", "CAP-01", "ANN-03"}
    BY <1>6, <1>9, <1>7, <2>3 DEF FormatIds, Run
  <2>4. CASE r \in {"ANN-02", "INT-02", "SSA-01", "ARC-01", "RES-01", "TSK-02",
                    "ALG-01", "ALG-03"}
    BY <1>8, <1>10, <1>11, <2>4 DEF FormatIds, Run
  <2>5. CASE r \in {"APP-01", "SYS-02", "SYS-03"}
    BY <1>12, <2>5 DEF FormatIds, Run
  <2>. QED
    BY <2>1, <2>2, <2>3, <2>4, <2>5 DEF RuleIds, ClassIds, JointIds, FormatIds, BibIds

\* Those that read the class do not change while it is there.
LEMMA ClassIsSame ==
    ASSUME NEW s, NEW t, SameText(s, t), t.class = s.class, t.protected = s.protected,
           NEW r \in ClassIds \cup JointIds \cup {"SYS-01"}, r \in BibIds => t.bib = s.bib
    PROVE  Run(t, r) = Run(s, r)
<1> USE DEF SameText
<1>1. \A d : ClassSets(t, d) = ClassSets(s, d) /\ ClassAnswer(t, d) = ClassAnswer(s, d)
  BY DEF ClassSets, ClassAnswer
<1>2. r \in ClassIds => Run(t, r) = Run(s, r)
  BY <1>1 DEF ClassIds, Run, FormatIds
<1>3. t.bib = s.bib => Bib02(t) = Bib02(s) /\ Bib03(t) = Bib03(s)
  BY <1>1 DEF Bib02, Bib03, Entries
<1>4. /\ Fig03(t) = Fig03(s) /\ Tab02(t) = Tab02(s) /\ Mth01(t) = Mth01(s)
      /\ Sys01(t) = Sys01(s)
  BY <1>1 DEF Fig03, Tab02, Mth01, Sys01
<1>. QED
  BY <1>2, <1>3, <1>4 DEF JointIds, BibIds, FormatIds, Run

LEMMA PagesAreSame ==
    ASSUME NEW s, NEW t, SameText(s, t), t.class = s.class, t.pdf = s.pdf, NEW r \in FormatIds
    PROVE  Run(t, r) = Run(s, r)
<1>1. \A d : ClassSets(t, d) = ClassSets(s, d)
  BY DEF SameText, ClassSets
<1>2. /\ BodyFont(t) = BodyFont(s) /\ HeadingBold(t) = HeadingBold(s)
      /\ Spacing(t) = Spacing(s) /\ Margins(t) = Margins(s)
  BY DEF BodyFont, HeadingBold, Spacing, Margins, HasText
<1>3. \A c, x : CombineClassPdf(t, c, x) = CombineClassPdf(s, c, x)
  BY DEF SameText, CombineClassPdf
<1>4. \A v : Supported(t, v) = Supported(s, v)
  BY DEF SameText, Supported
<1>5. /\ Fmt01(t) = Fmt01(s) /\ Fmt02(t) = Fmt02(s) /\ Fmt03(t) = Fmt03(s)
      /\ Fmt04(t) = Fmt04(s) /\ Fmt05(t) = Fmt05(s)
  BY <1>1, <1>2, <1>3 DEF Fmt01, Fmt02, Fmt03, Fmt04, Fmt05
<1>6. FormatVerdicts(t) = FormatVerdicts(s)
  BY <1>4, <1>5 DEF FormatVerdicts
<1>. QED
  BY <1>6 DEF Run, FormatIds

-----------------------------------------------------------------------------
(* The verdicts                                                            *)

\* Without its class file a project is judged the same, or more quietly.
LEMMA ClassWithdrawn ==
    ASSUME NEW s, NEW t, WithoutClass(s, t), NEW r \in RuleIds
    PROVE  Quieter(Judged(t, r), Judged(s, r))
<1>1. Quieter(Run(t, r), Run(s, r))
  <2>1. CASE r \in ClassIds
    BY <2>1, ClassIsSilent DEF Quieter, Silent
  <2>2. CASE r = "SYS-01"
    BY <2>2 DEF Run, FormatIds, Sys01, WithoutClass, Quieter, Silent
  <2>3. CASE r \in RuleIds \ (ClassIds \cup JointIds \cup FormatIds \cup {"SYS-01"})
    BY <2>3, RestIsSame DEF WithoutClass, SamePages, Quieter
  <2>. QED
    BY <2>1, <2>2, <2>3, PagesWithoutClass, SourceWithoutClass
<1>. QED
  BY <1>1 DEF Judged, WithoutClass, SamePages, SameText, Quieter, Silent

\* Without its bibliography files, the rules about them are silent.
LEMMA BibWithdrawn ==
    ASSUME NEW s, NEW t, WithoutBib(s, t), NEW r \in RuleIds
    PROVE  Quieter(Judged(t, r), Judged(s, r))
<1>1. CASE r \in BibIds
  BY <1>1 DEF Judged, WithoutBib, SameText, Quieter, Silent, BibIds, FormatIds
<1>2. CASE r \notin BibIds
  <2>1. Run(t, r) = Run(s, r)
    BY <1>2, RestIsSame, ClassIsSame, PagesAreSame DEF WithoutBib, SamePages
  <2>. QED
    BY <1>2, <2>1 DEF Judged, WithoutBib, SamePages, SameText, Quieter
<1>. QED
  BY <1>1, <1>2

\* Without the pages of the bundle, STR-03 is silent and STR-04 warns no more.
LEMMA PagesWithdrawn ==
    ASSUME NEW s, NEW t, WithoutPages(s, t), NEW r \in RuleIds
    PROVE  \/ Quieter(Judged(t, r), Judged(s, r))
           \/ r = "STR-04" /\ Judged(t, r) = "pass"
<1>1. CASE r = "STR-03"
  <2>1. Run(t, r) \in Silent
    BY <1>1 DEF Run, FormatIds, Str03, WithoutPages, Silent
  <2>. QED
    BY <1>1, <2>1 DEF Judged, WithoutPages, SameText, Quieter, Silent, BibIds, FormatIds
<1>2. CASE r = "STR-04"
  <2>1. Run(t, r) \in Silent \cup {"pass"}
    BY <1>2 DEF Run, FormatIds, Str04, Warn, Silent, WithoutPages
  <2>. QED
    BY <1>2, <2>1 DEF Judged, WithoutPages, SameText, Quieter, Silent, BibIds, FormatIds
<1>3. CASE r \notin {"STR-03", "STR-04"}
  <2>1. Run(t, r) = Run(s, r)
    BY <1>3, RestIsSame, ClassIsSame, PagesAreSame DEF WithoutPages
  <2>. QED
    BY <1>3, <2>1 DEF Judged, WithoutPages, SameText, Quieter
<1>. QED
  BY <1>1, <1>2, <1>3

\* Without the PDF the rules about its pages are silent.
LEMMA PdfWithdrawn ==
    ASSUME NEW s, NEW t, WithoutPdf(s, t), NEW r \in RuleIds \ FormatIds
    PROVE  Quieter(Judged(t, r), Judged(s, r))
<1>1. CASE r \in {"FIG-01", "STR-03", "STR-04"}
  <2>1. Run(t, r) = "not_applicable"
    BY <1>1 DEF Run, FormatIds, Fig01, Str03, Str04, Paginated, HasText, WithoutPdf
  <2>. QED
    BY <1>1, <2>1 DEF Judged, WithoutPdf, SameText, Quieter, Silent, BibIds, FormatIds
<1>2. CASE r = "ANN-03"
  BY <1>2 DEF Judged, WithoutPdf, SameText, Quieter, Silent, BibIds, FormatIds
<1>3. CASE r \notin {"FIG-01", "ANN-03", "STR-03", "STR-04"}
  <2>1. Run(t, r) = Run(s, r)
    BY <1>3, RestIsSame, ClassIsSame DEF WithoutPdf
  <2>. QED
    BY <1>3, <2>1 DEF Judged, WithoutPdf, SameText, Quieter
<1>. QED
  BY <1>1, <1>2, <1>3

\* Of the typography the class alone speaks then: what only the PDF had shown is
\* forgiven, and nothing else changes but into silence.
LEMMA TypographyWithoutPdf ==
    ASSUME NEW s, NEW t, WithoutPdf(s, t), NEW r \in FormatIds
    PROVE  \/ Quieter(Judged(t, r), Judged(s, r))
           \/ Judged(s, r) = "fail"
<1>1. \A d : ClassSets(t, d) = ClassSets(s, d)
  BY DEF WithoutPdf, SameText, ClassSets
<1>2. /\ BodyFont(t) = "unknown" /\ HeadingBold(t) = "unknown"
      /\ Spacing(t) = "unknown" /\ Margins(t) = "unknown"
  BY DEF WithoutPdf, BodyFont, HeadingBold, Spacing, Margins, HasText
<1> DEFINE Less(new, old) == Quieter(new, old) \/ old = "fail"
<1>3. \A c, x : Less(CombineClassPdf(t, c, "unknown"), CombineClassPdf(s, c, x))
  BY DEF WithoutPdf, SameText, CombineClassPdf, Quieter, Silent
<1>4. /\ Less(Fmt01(t), Fmt01(s)) /\ Less(Fmt02(t), Fmt02(s))
      /\ Less(Fmt03(t), Fmt03(s)) /\ Less(Fmt05(t), Fmt05(s))
  <2> HIDE DEF Less
  <2>. QED
    BY <1>1, <1>2, <1>3 DEF Fmt01, Fmt02, Fmt03, Fmt05
<1>5. Less(Fmt04(t), Fmt04(s))
  BY <1>1 DEF Fmt04, Quieter
<1>6. \A v : Supported(t, v) = v /\ Supported(s, v) = v
  BY DEF Supported, WithoutPdf, SameText
<1>7. \A u \in {s, t} : Judged(u, r) = FormatVerdicts(u)[r]
  BY DEF Judged, Run, FormatIds, BibIds
<1>8. \A u \in {s, t} :
        /\ FormatVerdicts(u)["FMT-01"] = Fmt01(u) /\ FormatVerdicts(u)["FMT-02"] = Fmt02(u)
        /\ FormatVerdicts(u)["FMT-03"] = Fmt03(u) /\ FormatVerdicts(u)["FMT-04"] = Fmt04(u)
        /\ FormatVerdicts(u)["FMT-05"] = Fmt05(u)
  BY <1>6 DEF FormatVerdicts
<1> HIDE DEF Less
<1>9. Less(Judged(t, r), Judged(s, r))
  BY <1>4, <1>5, <1>7, <1>8 DEF FormatIds
<1>. QED
  BY <1>9 DEF Less

-----------------------------------------------------------------------------
(* What a revision makes of a submission                                   *)

Verdicts(s) == [r \in RuleIds |-> Judged(s, r)]

Citation(key) == [kind |-> "cite", arg |-> {key}, literal |-> FALSE]

Cites(s, t) ==
    \E key : /\ key \notin CiteKeys(s.body)
             /\ \/ \E k \in 0 .. Len(s.body) :
                     t = [s EXCEPT !.body = InsertAt(@, k + 1, Citation(key))]
                \/ \E k \in Of(s.body, {"cite"}) :
                     t = [s EXCEPT !.body[k].arg = @ \cup {key}]
Inserts(s, t) ==
    \E x \in NewObjects, k \in DOMAIN s.body : t = [s EXCEPT !.body = InsertAt(@, k + 1, x)]
Withdraws(s, t) ==
    WithoutClass(s, t) \/ WithoutBib(s, t) \/ WithoutPages(s, t) \/ WithoutPdf(s, t)
Reorders(s, t) ==
    /\ HasText(s) /\ t.pdf # NoPdf
    /\ \E spans \in Reorderings(s.pdf.spans) : t = [s EXCEPT !.pdf.spans = spans]

\* Both submissions are well-formed, the verdicts are what the rules say of
\* them, and the second comes from the first by the revision.
IInv ==
    /\ IsSubmission(submission) /\ IsSubmission(before)
    /\ Checked => verdict = Verdicts(submission)
    /\ revision # "none" => earlier = Verdicts(before)
    /\ revision = "cited" => Cites(before, submission)
    /\ revision = "inserted" => Inserts(before, submission)
    /\ revision = "withdrawn" => Withdraws(before, submission)
    /\ revision = "reordered" => Reorders(before, submission)
    /\ revision = "none" => submission \in Submissions

LEMMA InitIInv == Init => IInv
BY SubmissionsAssumption DEF Init, IInv, Checked

LEMMA JudgeKeepsIInv == IInv /\ Judge => IInv'
BY DEF IInv, Judge, Checked, Verdicts

\* A sequence is one of its own elements.
LEMMA OwnElements ==
    ASSUME NEW S, NEW s \in Seq(S)
    PROVE  s \in Seq(ToSet(s)) /\ ToSet(s) = {s[k] : k \in 1 .. Len(s)}
<1>1. s \in [1 .. Len(s) -> S] /\ Len(s) \in Nat /\ DOMAIN s = 1 .. Len(s)
  BY LenProperties
<1>2. ToSet(s) = {s[k] : k \in 1 .. Len(s)}
  BY <1>1 DEF ToSet
<1> DEFINE T == ToSet(s)
<1>3. \A k \in 1 .. Len(s) : s[k] \in T
  BY <1>1, <1>2
<1> HIDE DEF T
<1>4. [k \in 1 .. Len(s) |-> s[k]] \in Seq(T)
  BY <1>1, <1>3
<1>. QED
  BY <1>1, <1>2, <1>4 DEF T

\* An item more leaves a text a text.
LEMMA InsertedIsText ==
    ASSUME NEW body, IsText(body), NEW x, IsItem(x), NEW k \in 1 .. Len(body) + 1
    PROVE  IsText(InsertAt(body, k, x))
<1> DEFINE U == ToSet(body) \cup {x}
           new == InsertAt(body, k, x)
<1>1. body \in Seq(U) /\ x \in U
  BY SeqMonotonic DEF IsText
<1>2. new \in Seq(U)
  <2> HIDE DEF U
  <2>. QED
    BY <1>1, InsertIs
<1>3. \A y \in U : IsItem(y)
  BY DEF IsText
<1> HIDE DEF new, U
<1>4. new \in Seq(ToSet(new)) /\ ToSet(new) = {new[i] : i \in 1 .. Len(new)}
  BY <1>2, OwnElements
<1>5. \A i \in 1 .. Len(new) : new[i] \in U
  BY <1>2, ElementOfSeq
<1>. QED
  BY <1>3, <1>4, <1>5 DEF IsText, new

\* So does a key more in a citation.
LEMMA CitedIsText ==
    ASSUME NEW body, IsText(body), NEW k \in Of(body, {"cite"}), NEW key
    PROVE  IsText([body EXCEPT ![k].arg = @ \cup {key}])
<1> DEFINE n == Len(body)
           y == [body[k] EXCEPT !.arg = @ \cup {key}]
           new == [body EXCEPT ![k] = y]
           U == ToSet(body) \cup {y}
<1>1. body \in Seq(ToSet(body)) /\ n \in Nat /\ DOMAIN body = 1 .. n /\ k \in 1 .. n
  BY LenProperties DEF IsText, Of
<1>2. IsItem(body[k]) /\ body[k].kind = "cite"
  BY <1>1, ElementOfSeq DEF IsText, Of
<1>3. IsItem(y)
  <2>1. /\ y.kind = "cite" /\ y.arg = body[k].arg \cup {key} /\ y.literal = body[k].literal
        /\ y = [kind |-> y.kind, arg |-> y.arg, literal |-> y.literal]
    BY <1>2 DEF IsItem
  <2>2. IsFiniteSet(y.arg)
    BY <1>2, <2>1, FS_AddElement DEF IsItem
  <2>. QED
    BY <2>1, <2>2 DEF IsItem, Headings
<1> HIDE DEF y
<1>4. new \in Seq(U)
  <2>1. body \in Seq(U) /\ y \in U
    BY <1>1, SeqMonotonic
  <2> HIDE DEF U
  <2>. QED
    BY <1>1, <2>1, ExceptSeq
<1>5. \A z \in U : IsItem(z)
  BY <1>3 DEF IsText
<1> HIDE DEF new, U
<1>6. new \in Seq(ToSet(new)) /\ ToSet(new) = {new[i] : i \in 1 .. Len(new)}
  BY <1>4, OwnElements
<1>7. \A i \in 1 .. Len(new) : new[i] \in U
  BY <1>4, ElementOfSeq
<1>8. IsText(new)
  BY <1>5, <1>6, <1>7 DEF IsText
<1>. QED
  BY <1>8 DEF new, y

LEMMA CiteKeepsIInv == IInv /\ Cite => IInv'
<1> SUFFICES ASSUME IInv, Cite PROVE IInv'
  OBVIOUS
<1>1. Checked /\ revision = "none" /\ revision' = "cited" /\ before' = submission
      /\ earlier' = verdict /\ verdict' = NotJudged /\ Cites(submission, submission')
  BY DEF Cite, Revise, Cites, Citation
<1>2. IsText(submission'.body) /\ IsSubmission(submission')
  <2> USE DEF IsSubmission, IInv
  <2>1. \A key : IsItem(Citation(key))
    BY FS_Singleton DEF IsItem, Citation, Headings
  <2>2. Len(submission.body) \in Nat
    BY LenProperties DEF IsText
  <2>3. ASSUME NEW key, NEW k \in 0 .. Len(submission.body),
               submission' = [submission EXCEPT !.body = InsertAt(@, k + 1, Citation(key))]
        PROVE  IsSubmission(submission')
    <3>1. IsText(InsertAt(submission.body, k + 1, Citation(key)))
      BY <2>1, <2>2, InsertedIsText
    <3>. QED
      BY <2>3, <3>1
  <2>4. ASSUME NEW key, NEW k \in Of(submission.body, {"cite"}),
               submission' = [submission EXCEPT !.body[k].arg = @ \cup {key}]
        PROVE  IsSubmission(submission')
    <3>1. IsText([submission.body EXCEPT ![k].arg = @ \cup {key}])
      BY CitedIsText
    <3>. QED
      BY <2>4, <3>1
  <2>. QED
    BY <1>1, <2>3, <2>4 DEF Cites
<1>. QED
  BY <1>1, <1>2 DEF IInv, Checked

LEMMA InsertKeepsIInv == IInv /\ Insert => IInv'
<1> SUFFICES ASSUME IInv, Insert PROVE IInv'
  OBVIOUS
<1>1. PICK x \in NewObjects, k \in DOMAIN submission.body :
        Revise("inserted", [submission EXCEPT !.body = InsertAt(@, k + 1, x)])
  BY DEF Insert
<1>2. Inserts(submission, submission')
  BY <1>1 DEF Inserts, Revise
<1>3. IsText(InsertAt(submission.body, k + 1, x))
  <2>1. k + 1 \in 1 .. Len(submission.body) + 1 /\ IsItem(x)
    BY SubmissionsAssumption, LenProperties DEF IInv, IsSubmission, IsText
  <2>. QED
    BY <2>1, InsertedIsText DEF IInv, IsSubmission
<1>4. IsSubmission(submission')
  BY <1>1, <1>3 DEF Revise, IInv, IsSubmission
<1>. QED
  BY <1>1, <1>2, <1>4 DEF IInv, Revise, Checked

LEMMA WithdrawKeepsIInv == IInv /\ Withdraw => IInv'
<1> SUFFICES ASSUME IInv, Withdraw PROVE IInv'
  OBVIOUS
<1>1. PICK t : Revise("withdrawn", t) /\ Withdraws(submission, t) /\ IsSubmission(t)
  <2>1. submission.latex /\ IsSubmission(submission)
    BY DEF Withdraw, IInv
  <2>3. \A u : u.sections = Unpaged(submission.sections) => Paged(u) = {}
    BY DEF Unpaged, Paged, ToSet
  <2>2. ASSUME NEW t, \/ t = [submission EXCEPT !.class = NoClass, !.protected = "missing"]
                      \/ t = [submission EXCEPT !.bib = <<>>]
                      \/ t = [submission EXCEPT !.paged = FALSE, !.sections = Unpaged(@)]
                      \/ t = [submission EXCEPT !.pdf = NoPdf, !.paged = FALSE,
                                                !.sections = Unpaged(@)]
        PROVE  Withdraws(submission, t) /\ IsSubmission(t)
    BY <2>1, <2>2, <2>3 DEF IsSubmission, Withdraws, WithoutClass, WithoutBib, WithoutPages,
       WithoutPdf, SameText, SamePages
  <2>. QED
    BY <2>2 DEF Withdraw
<1>. QED
  BY <1>1 DEF Revise, IInv, Checked

LEMMA ReorderKeepsIInv == IInv /\ Reorder => IInv'
<1> SUFFICES ASSUME IInv, Reorder PROVE IInv'
  OBVIOUS
<1> DEFINE spans == submission.pdf.spans
           n == Len(spans)
<1>1. /\ IsSubmission(submission) /\ IsPdf(submission.pdf) /\ spans \in Seq(ToSet(spans))
      /\ n \in Nat /\ \A k \in 1 .. n : spans[k] \in ToSet(spans)
  BY LenProperties, ElementOfSeq DEF Reorder, HasText, IInv, IsSubmission, IsPdf
<1>2. ASSUME NEW new \in Seq(ToSet(spans)), submission' = [submission EXCEPT !.pdf.spans = new]
      PROVE  IsSubmission(submission')
  <2>1. new \in Seq(ToSet(new)) /\ ToSet(new) \subseteq ToSet(spans)
    BY <1>2, OwnElements, ElementOfSeq
  <2>2. IsPdf([submission.pdf EXCEPT !.spans = new])
    BY <1>1, <2>1 DEF IsPdf
  <2>. QED
    BY <1>1, <1>2, <2>2 DEF IsSubmission
<1>3. PICK new \in Reorderings(spans) : submission' = [submission EXCEPT !.pdf.spans = new]
  BY DEF Reorder, Revise
<1>4. Reverse(spans) \in Seq(ToSet(spans))
  <2>1. \A i \in 1 .. n : n - i + 1 \in 1 .. n
    BY <1>1
  <2>. QED
    BY <1>1, <2>1 DEF Reverse
<1>5. ASSUME NEW k \in 1 .. n - 1
      PROVE  SubSeq(spans, k + 1, n) \o SubSeq(spans, 1, k) \in Seq(ToSet(spans))
  <2>1. \A i \in k + 1 .. n : i \in 1 .. n
    BY <1>1
  <2>2. \A i \in 1 .. k : i \in 1 .. n
    BY <1>1
  <2>3. SubSeq(spans, k + 1, n) \in Seq(ToSet(spans)) /\ SubSeq(spans, 1, k) \in Seq(ToSet(spans))
    BY <1>1, <2>1, <2>2, SubSeqProperties
  <2>. QED
    BY <2>3, ConcatProperties
<1>6. IsSubmission(submission')
  BY <1>2, <1>3, <1>4, <1>5 DEF Reorderings
<1>7. Reorders(submission, submission')
  <2>1. [submission.pdf EXCEPT !.spans = new] # NoPdf
    BY <1>3, SubmissionsAssumption DEF IInv, Reorder, Revise, HasText
  <2>2. submission'.pdf = [submission.pdf EXCEPT !.spans = new]
    BY <1>1, <1>3 DEF IsSubmission
  <2>. QED
    BY <1>3, <2>1, <2>2 DEF Reorders, Reorder
<1>. QED
  BY <1>6, <1>7 DEF IInv, Reorder, Revise, Checked

LEMMA NextIInv == IInv /\ [Next]_vars => IInv'
<1>1. IInv /\ UNCHANGED vars => IInv'
  BY DEF IInv, vars, Checked
<1>. QED
  BY <1>1, JudgeKeepsIInv, CiteKeepsIInv, InsertKeepsIInv, WithdrawKeepsIInv, ReorderKeepsIInv
     DEF Next

\* The invariant of a check, a revision and a second check.
THEOREM VerdictsAreOfTheirText == Spec => []IInv
<1>. QED
  BY InitIInv, NextIInv, PTL DEF Spec

\* Evidence that is taken away silences a rule or leaves its verdict alone, but for
\* the typography that only the PDF had shown and the unknown pages of STR-04.
THEOREM LessEvidenceIsQuieter == Spec => []LessEvidenceOnlySilences
<1>1. IInv => LessEvidenceOnlySilences
  <2> SUFFICES ASSUME IInv, Revised("withdrawn"), NEW r \in RuleIds
               PROVE  \/ verdict[r] = earlier[r]
                      \/ verdict[r] \in Silent
                      \/ earlier[r] = "fail" /\ verdict[r] = "warn"
                      \/ r \in FormatIds /\ submission.pdf = NoPdf /\ earlier[r] = "fail"
                      \/ r = "STR-04" /\ ~submission.paged /\ verdict[r] = "pass"
    BY DEF LessEvidenceOnlySilences
  <2>1. /\ verdict[r] = Judged(submission, r) /\ earlier[r] = Judged(before, r)
        /\ Withdraws(before, submission)
    BY DEF IInv, Revised, Verdicts
  <2>2. CASE WithoutClass(before, submission) \/ WithoutBib(before, submission)
    <3>1. Quieter(Judged(submission, r), Judged(before, r))
      BY <2>2, ClassWithdrawn, BibWithdrawn
    <3>. QED
      BY <2>1, <3>1 DEF Quieter
  <2>3. CASE WithoutPages(before, submission)
    <3>1. \/ Quieter(Judged(submission, r), Judged(before, r))
          \/ r = "STR-04" /\ Judged(submission, r) = "pass"
      BY <2>3, PagesWithdrawn
    <3>2. ~submission.paged
      BY <2>3 DEF WithoutPages
    <3>. QED
      BY <2>1, <3>1, <3>2 DEF Quieter
  <2>4. CASE WithoutPdf(before, submission)
    <3>1. \/ Quieter(Judged(submission, r), Judged(before, r))
          \/ r \in FormatIds /\ Judged(before, r) = "fail"
      BY <2>4, PdfWithdrawn, TypographyWithoutPdf
    <3>2. submission.pdf = NoPdf
      BY <2>4 DEF WithoutPdf
    <3>. QED
      BY <2>1, <3>1, <3>2 DEF Quieter
  <2>. QED
    BY <2>1, <2>2, <2>3, <2>4 DEF Withdraws
<1>. QED
  BY <1>1, VerdictsAreOfTheirText, PTL
-----------------------------------------------------------------------------
(* Characters and words, added up                                          *)

\* f adds up the numbers w[1], .., w[N].
AddsUp(f, w, N) ==
    /\ f[0] = 0 /\ \A k \in 1 .. N : f[k] = f[k - 1] + w[k]
    /\ \A k \in 0 .. N : f[k] \in Nat

\* Numbers can be added up.
LEMMA SumOf ==
    ASSUME NEW N \in Nat, NEW w, \A k \in 1 .. N : w[k] \in Nat
    PROVE  \E f : /\ f = [k \in 0 .. N |-> IF k = 0 THEN 0 ELSE f[k - 1] + w[k]]
                  /\ AddsUp(f, w, N)
<1> DEFINE S == [k \in 0 .. N |-> Nat]
           steps == [k \in 1 .. N |-> [x \in Nat |-> x + w[k]]]
<1>1. \A k \in 0 .. N : S[k] = Nat
  OBVIOUS
<1>2. \A k \in 1 .. N : k - 1 \in 0 .. N /\ k \in 0 .. N
  OBVIOUS
<1>3. \A k \in 1 .. N : \A x \in Nat : steps[k][x] = x + w[k]
  OBVIOUS
<1> HIDE DEF S, steps
<1>4. Leads(steps, N, S, 0)
  <2>1. 0 \in S[0]
    BY <1>1
  <2>2. ASSUME NEW k \in 1 .. N, NEW x \in S[k - 1] PROVE steps[k][x] \in S[k]
    <3>1. x \in Nat /\ S[k] = Nat /\ w[k] \in Nat
      BY <1>1, <1>2
    <3>. QED
      BY <1>3, <3>1
  <2>. QED
    BY <2>1, <2>2 DEF Leads
<1>5. PICK f : Follows(f, steps, N, S, 0)
  BY <1>4, Recursion
<1>6. \A k \in 0 .. N : f[k] \in Nat
  BY <1>1, <1>5 DEF Follows
<1>7. f[0] = 0 /\ \A k \in 1 .. N : f[k] = f[k - 1] + w[k]
  <2>1. f[0] = 0 /\ \A k \in 1 .. N : f[k] = steps[k][f[k - 1]]
    BY <1>5 DEF Follows
  <2>2. \A k \in 1 .. N : f[k - 1] \in Nat
    BY <1>2, <1>6
  <2>. QED
    BY <1>3, <2>1, <2>2
<1>8. f \in [0 .. N -> UNION {S[k] : k \in 0 .. N}]
  BY <1>5 DEF Follows
<1>9. f = [k \in 0 .. N |-> IF k = 0 THEN 0 ELSE f[k - 1] + w[k]]
  <2>1. \A k \in 0 .. N : k = 0 \/ k \in 1 .. N
    OBVIOUS
  <2>2. \A k \in 0 .. N : f[k] = IF k = 0 THEN 0 ELSE f[k - 1] + w[k]
    BY <1>7, <2>1
  <2>3. f = [k \in 0 .. N |-> f[k]]
    BY <1>8
  <2>. QED
    BY <2>2, <2>3
<1>10. AddsUp(f, w, N)
  BY <1>6, <1>7 DEF AddsUp
<1>. QED
  BY <1>9, <1>10

\* What adds up as well is what is added up.
LEMMA SumsAgree ==
    ASSUME NEW N \in Nat, NEW w, NEW f, AddsUp(f, w, N), NEW g, g[0] = 0,
           \A k \in 1 .. N : g[k] = g[k - 1] + w[k]
    PROVE  \A k \in 0 .. N : g[k] = f[k]
<1> DEFINE T == {k \in 0 .. N : g[k] = f[k]}
<1>1. 0 \in T
  BY DEF AddsUp
<1>2. ASSUME NEW k \in 0 .. N - 1, k \in T PROVE k + 1 \in T
  <2>1. k + 1 \in 1 .. N /\ k + 1 \in 0 .. N /\ k + 1 - 1 = k
    OBVIOUS
  <2>2. g[k + 1] = g[k] + w[k + 1] /\ f[k + 1] = f[k] + w[k + 1]
    BY <2>1 DEF AddsUp
  <2>. QED
    BY <1>2, <2>1, <2>2
<1> HIDE DEF T
<1>3. \A k \in 0 .. N : k \in T
  BY <1>1, <1>2, Upwards
<1>. QED
  BY <1>3 DEF T

\* Smaller numbers add up to less.
LEMMA SumsGrow ==
    ASSUME NEW N \in Nat, NEW v, NEW w, NEW f, NEW g, AddsUp(f, v, N), AddsUp(g, w, N),
           \A k \in 1 .. N : v[k] \in Nat /\ w[k] \in Nat /\ v[k] <= w[k]
    PROVE  f[N] <= g[N]
<1> DEFINE T == {k \in 0 .. N : f[k] <= g[k]}
<1>1. 0 \in T
  BY DEF AddsUp
<1>2. ASSUME NEW k \in 0 .. N - 1, k \in T PROVE k + 1 \in T
  <2>1. k + 1 \in 1 .. N /\ k + 1 \in 0 .. N /\ k + 1 - 1 = k /\ k \in 0 .. N
    OBVIOUS
  <2>2. g[k + 1] = g[k] + w[k + 1] /\ f[k + 1] = f[k] + v[k + 1]
    BY <2>1 DEF AddsUp
  <2>3. f[k] \in Nat /\ g[k] \in Nat /\ f[k] <= g[k]
    BY <1>2, <2>1 DEF AddsUp
  <2> DEFINE a == f[k] b == g[k] c == v[k + 1] d == w[k + 1]
  <2>4. a \in Nat /\ b \in Nat /\ c \in Nat /\ d \in Nat /\ a <= b /\ c <= d
    BY <2>1, <2>3
  <2>5. f[k + 1] = a + c /\ g[k + 1] = b + d
    BY <2>2
  <2> HIDE DEF a, b, c, d
  <2>. QED
    BY <2>1, <2>4, <2>5
<1> HIDE DEF T
<1>3. \A k \in 0 .. N : k \in T
  BY <1>1, <1>2, Upwards
<1>. QED
  BY <1>3 DEF T

\* The characters of a set of spans, each of which has some number of them.
Weights(spans, set) == [k \in 1 .. Len(spans) |-> IF k \in set THEN spans[k].chars ELSE 0]

LEMMA CharsAddUp ==
    ASSUME NEW spans, Len(spans) \in Nat, \A k \in 1 .. Len(spans) : spans[k].chars \in Nat,
           NEW set
    PROVE  \E f : AddsUp(f, Weights(spans, set), Len(spans)) /\ Chars(spans, set) = f[Len(spans)]
<1> DEFINE N == Len(spans)
           w == Weights(spans, set)
           Is(f) == f = [k \in 0 .. N |-> IF k = 0 THEN 0
                                         ELSE f[k - 1] + (IF k \in set THEN spans[k].chars ELSE 0)]
           B == CHOOSE f : Is(f)
<1>1. \A k \in 1 .. N : w[k] = (IF k \in set THEN spans[k].chars ELSE 0) /\ w[k] \in Nat
  BY DEF Weights
<1>2. Chars(spans, set) = B[N]
  BY DEF Chars
<1> HIDE DEF w
<1>3. PICK f : f = [k \in 0 .. N |-> IF k = 0 THEN 0 ELSE f[k - 1] + w[k]] /\ AddsUp(f, w, N)
  <2> HIDE DEF N
  <2>1. N \in Nat
    BY DEF N
  <2>. QED
    BY <1>1, <2>1, SumOf
<1>4. Is(f)
  <2>1. \A k \in 0 .. N : k = 0 \/ k \in 1 .. N
    BY DEF N
  <2>2. f = [k \in 0 .. N |-> f[k]] /\ \A k \in 0 .. N : f[k] = IF k = 0 THEN 0 ELSE f[k - 1] + w[k]
    BY <1>3
  <2> HIDE DEF N
  <2>3. \A k \in 0 .. N : f[k] = IF k = 0 THEN 0
                                ELSE f[k - 1] + (IF k \in set THEN spans[k].chars ELSE 0)
    BY <1>1, <2>1, <2>2
  <2>. QED
    BY <2>2, <2>3
<1>5. Is(B)
  <2> HIDE DEF Is
  <2>. QED
    BY <1>4
<1>6. B[0] = 0 /\ \A k \in 1 .. N : B[k] = B[k - 1] + w[k]
  <2>1. 0 \in 0 .. N /\ \A k \in 1 .. N : k \in 0 .. N /\ k # 0
    BY DEF N
  <2> HIDE DEF B, N
  <2>2. \A k \in 0 .. N : B[k] = IF k = 0 THEN 0
                                ELSE B[k - 1] + (IF k \in set THEN spans[k].chars ELSE 0)
    BY <1>5
  <2>. QED
    BY <1>1, <2>1, <2>2
<1> HIDE DEF B, Is
<1>7. B[N] = f[N]
  <2> HIDE DEF N
  <2>1. N \in Nat
    BY DEF N
  <2>. QED
    BY <1>3, <1>6, <2>1, SumsAgree
<1>. QED
  BY <1>2, <1>3, <1>7 DEF w

LEMMA CharsGrow ==
    ASSUME NEW spans, Len(spans) \in Nat, \A k \in 1 .. Len(spans) : spans[k].chars \in Nat,
           NEW A, NEW B, A \cap (1 .. Len(spans)) \subseteq B
    PROVE  /\ Chars(spans, A) \in Nat /\ Chars(spans, B) \in Nat
           /\ Chars(spans, A) <= Chars(spans, B)
<1> DEFINE N == Len(spans)
<1>1. PICK f : AddsUp(f, Weights(spans, A), N) /\ Chars(spans, A) = f[N]
  BY CharsAddUp
<1>2. PICK g : AddsUp(g, Weights(spans, B), N) /\ Chars(spans, B) = g[N]
  BY CharsAddUp
<1>3. \A k \in 1 .. N : /\ Weights(spans, A)[k] \in Nat /\ Weights(spans, B)[k] \in Nat
                        /\ Weights(spans, A)[k] <= Weights(spans, B)[k]
  BY DEF Weights
<1>4. N \in Nat /\ N \in 0 .. N
  OBVIOUS
<1> HIDE DEF N
<1>5. f[N] \in Nat /\ g[N] \in Nat
  BY <1>1, <1>2, <1>4 DEF AddsUp
<1>6. f[N] <= g[N]
  BY <1>1, <1>2, <1>3, <1>4, SumsGrow
<1>. QED
  BY <1>1, <1>2, <1>5, <1>6
-----------------------------------------------------------------------------
(* What passes was measured                                                *)

\* The greater of 2 and another number is at least 2.
LEMMA AtLeastTwo ==
    ASSUME NEW h \in Int
    PROVE  Max({2, h}) \in Int /\ Max({2, h}) >= 2
<1>1. \E x \in {2, h} : \A y \in {2, h} : x >= y
  <2>1. CASE h >= 2
    BY <2>1
  <2>2. CASE ~(h >= 2)
    BY <2>2
  <2>. QED
    BY <2>1, <2>2
<1>2. Max({2, h}) \in {2, h} /\ \A y \in {2, h} : Max({2, h}) >= y
  BY <1>1 DEF Max
<1>. QED
  BY <1>2

\* What is repeated in a margin stands on two pages at least.
LEMMA TwoPages ==
    ASSUME NEW pages, NEW service, IsFiniteSet(DOMAIN pages),
           NEW S, Cardinality(S) >= RequiredPages(pages, service), NEW p
    PROVE  \E q \in S : q # p
<1> DEFINE n == Cardinality(Pages(pages, service))
           h == Half(n)
<1>1. n \in Nat
  BY FS_Subset, FS_CardinalityType DEF Pages
<1>2. h \in Int
  <2> HIDE DEF n
  <2>. QED
    BY <1>1 DEF Half
<1> HIDE DEF h
<1>3. RequiredPages(pages, service) \in Int /\ RequiredPages(pages, service) >= 2
  BY <1>2, AtLeastTwo DEF RequiredPages, h
<1>4. ASSUME S \subseteq {p} PROVE FALSE
  <2>1. IsFiniteSet({p}) /\ Cardinality({p}) = 1
    BY FS_Singleton
  <2>2. IsFiniteSet(S) /\ Cardinality(S) <= 1
    BY <1>4, <2>1, FS_Subset
  <2>3. Cardinality(S) \in Nat
    BY <2>2, FS_CardinalityType
  <2>. QED
    BY <1>3, <2>2, <2>3
<1>. QED
  BY <1>4

\* A span that is left out of the measurement for standing in a margin has a
\* place; it is a page number, or its text stands on another page as well.
LEMMA MarginalIs ==
    ASSUME NEW spans, NEW pages, NEW service, IsFiniteSet(DOMAIN pages),
           NEW i \in Marginal(spans, pages, service)
    PROVE  /\ i \in DOMAIN spans /\ spans[i].page \in DOMAIN pages /\ Reliable(spans[i].box)
           /\ \/ spans[i].text = "digits"
              \/ \E j \in DOMAIN spans :
                   /\ spans[j].page \notin service /\ spans[j].chars >= 1
                   /\ spans[j].page # spans[i].page
                   /\ Normalized(spans[j]) = Normalized(spans[i])
<1> DEFINE zone == [k \in DOMAIN spans |-> SpanZone(spans[k], pages, service)]
           numbers == {k \in DOMAIN spans : IsPageNumber(spans[k], pages, service)}
           others == {k \in DOMAIN spans \ numbers :
                        zone[k] # NoZone /\ Normalized(spans[k]) # ""}
           Same(k) == {j \in others : /\ zone[j] = zone[k]
                                      /\ Normalized(spans[j]) = Normalized(spans[k])}
           repeated ==
             {k \in others :
                /\ Cardinality({spans[j].page : j \in Same(k)})
                     >= RequiredPages(pages, service)
                /\ Level({[page |-> spans[j].page, top |-> spans[j].box.y0] :
                            j \in Same(k)}, pages)}
<1>1. i \in numbers \/ i \in repeated
  <2>1. MarginalSpans(spans, pages, service) = [numbers |-> numbers, repeated |-> repeated]
    BY DEF MarginalSpans
  <2> HIDE DEF numbers, repeated
  <2>. QED
    BY <2>1 DEF Marginal, Range
<1>2. ASSUME NEW k \in DOMAIN spans, zone[k] # NoZone
      PROVE  /\ spans[k].page \in DOMAIN pages /\ spans[k].page \notin service
             /\ spans[k].chars >= 1 /\ Reliable(spans[k].box)
  BY <1>2 DEF SpanZone, Pages
<1>3. ASSUME i \in numbers PROVE zone[i] # NoZone /\ spans[i].text = "digits"
  BY <1>3 DEF IsPageNumber, NoZone
<1>4. ASSUME i \in repeated
      PROVE  \E j \in others : /\ spans[j].page # spans[i].page
                               /\ Normalized(spans[j]) = Normalized(spans[i])
  <2>1. PICK q \in {spans[j].page : j \in Same(i)} : q # spans[i].page
    <3> DEFINE S == {spans[j].page : j \in Same(i)}
    <3>1. Cardinality(S) >= RequiredPages(pages, service)
      BY <1>4
    <3>2. S = {spans[j].page : j \in Same(i)}
      OBVIOUS
    <3> HIDE DEF S
    <3>3. \E q \in S : q # spans[i].page
      <4> HIDE DEF zone, numbers, others, repeated, Same
      <4>. QED
        BY <3>1, TwoPages
    <3>. QED
      BY <3>2, <3>3
  <2>. QED
    BY <2>1
<1>5. i \in repeated => i \in others
  OBVIOUS
<1>6. \A j \in others : j \in DOMAIN spans /\ zone[j] # NoZone
  OBVIOUS
<1>7. numbers \subseteq DOMAIN spans
  OBVIOUS
<1> HIDE DEF zone, numbers, others, repeated
<1>. QED
  BY <1>1, <1>2, <1>3, <1>4, <1>5, <1>6, <1>7

\* Without a LaTeX project FMT-01 passes only what was placed and set in Times.
LEMMA FontIsMeasured ==
    ASSUME NEW s, IsSubmission(s), ~s.latex, Judged(s, "FMT-01") = "pass"
    PROVE  LET spans == s.pdf.spans
               text == {i \in DOMAIN spans : spans[i].page \notin s.pdf.service /\ spans[i].chars >= 1}
           IN /\ \A i \in text : spans[i].size > 0 => Reliable(spans[i].box)
              /\ 100 * Chars(spans, {i \in text : spans[i].font = "times"}) >= 95 * MinChars
<1> DEFINE spans == s.pdf.spans
           text == {i \in DOMAIN spans : spans[i].page \notin s.pdf.service /\ spans[i].chars >= 1}
           selection == BodySelection(spans, s.pdf.pages, s.pdf.service)
<1>1. Judged(s, "FMT-01") = Supported(s, Fmt01(s))
  <2>1. Judged(s, "FMT-01") = Run(s, "FMT-01") /\ Run(s, "FMT-01") = FormatVerdicts(s)["FMT-01"]
    BY DEF Judged, Run, FormatIds, BibIds
  <2>. QED
    BY <2>1 DEF FormatVerdicts
<1>2. Fmt01(s) = "pass" /\ s.pdf # NoPdf
  BY <1>1 DEF Supported
<1>3. HasText(s) /\ FontOf(spans, selection) \notin {"no", "unknown"}
  BY <1>2 DEF Fmt01, CombineClassPdf, BodyFont
<1> HIDE DEF selection
<1>4. /\ selection.invalid = {} /\ ~(Chars(spans, selection.body) < MinChars)
      /\ 100 * Chars(spans, {i \in selection.body : spans[i].font = "times"})
           >= 95 * Chars(spans, selection.body)
  BY <1>3 DEF FontOf, Answer
<1>5. /\ selection.invalid = {i \in text : spans[i].size > 0 /\ ~Reliable(spans[i].box)}
      /\ selection.body \subseteq text
  BY DEF selection, BodySelection, BodyOf
<1>6. /\ IsPdf(s.pdf) /\ Len(spans) \in Nat /\ DOMAIN spans = 1 .. Len(spans)
      /\ \A k \in 1 .. Len(spans) : spans[k].chars \in Nat
  BY <1>2, LenProperties, ElementOfSeq DEF IsSubmission, IsPdf
<1> DEFINE inBody == {i \in selection.body : spans[i].font = "times"}
           inText == {i \in text : spans[i].font = "times"}
           a == Chars(spans, inBody)
           b == Chars(spans, inText)
           c == Chars(spans, selection.body)
<1>7. a \in Nat /\ b \in Nat /\ a <= b
  <2>1. inBody \cap (1 .. Len(spans)) \subseteq inText
    BY <1>5
  <2> HIDE DEF inBody, inText
  <2>. QED
    BY <1>6, <2>1, CharsGrow
<1>8. c \in Nat
  BY <1>6, CharsGrow
<1>9. 100 * b >= 95 * MinChars
  <2>1. ~(c < MinChars) /\ 100 * a >= 95 * c
    BY <1>4
  <2> HIDE DEF a, b, c
  <2>. QED
    BY <1>7, <1>8, <2>1, FormatAssumption
<1>10. \A i \in text : spans[i].size > 0 => Reliable(spans[i].box)
  BY <1>4, <1>5
<1>. QED
  BY <1>9, <1>10

\* FMT-05 passes only what stands within the margins or repeats in them.
LEMMA MarginsAreMeasured ==
    ASSUME NEW s, IsSubmission(s), ~s.latex, Judged(s, "FMT-05") = "pass"
    PROVE  LET spans == s.pdf.spans
               text == {i \in DOMAIN spans : spans[i].page \notin s.pdf.service /\ spans[i].chars >= 1}
           IN \A i \in {i \in text : spans[i].chars >= 2} :
                /\ spans[i].page \in DOMAIN s.pdf.pages /\ Reliable(spans[i].box)
                /\ \/ WithinMargins(spans[i].box, s.pdf.pages[spans[i].page])
                   \/ spans[i].text = "digits"
                   \/ \E j \in text : /\ spans[j].page # spans[i].page
                                      /\ Normalized(spans[j]) = Normalized(spans[i])
<1> DEFINE spans == s.pdf.spans
           pages == s.pdf.pages
           service == s.pdf.service
           text == {i \in DOMAIN spans : spans[i].page \notin service /\ spans[i].chars >= 1}
           looked == {i \in DOMAIN spans \ Marginal(spans, pages, service) :
                        spans[i].page \notin service /\ spans[i].chars >= 2}
           content == {i \in looked : /\ spans[i].page \in DOMAIN pages
                                      /\ Reliable(spans[i].box)}
<1>1. Judged(s, "FMT-05") = Supported(s, Fmt05(s))
  <2>1. Judged(s, "FMT-05") = Run(s, "FMT-05") /\ Run(s, "FMT-05") = FormatVerdicts(s)["FMT-05"]
    BY DEF Judged, Run, FormatIds, BibIds
  <2>. QED
    BY <2>1 DEF FormatVerdicts
<1>2. Fmt05(s) = "pass" /\ s.pdf # NoPdf
  BY <1>1 DEF Supported
<1>3. Margins(s) \notin {"no", "unknown"}
  BY <1>2 DEF Fmt05, CombineClassPdf
<1>4. LET m == BodyMargins(spans, pages, service) IN m.outside = {} /\ ~(m.unmeasured > 0)
  BY <1>3 DEF Margins, MarginsOf
<1>5. /\ ~(Cardinality(looked \ content) > 0)
      /\ \A i \in content : WithinMargins(spans[i].box, pages[spans[i].page])
  BY <1>4 DEF BodyMargins, Measured
<1>6. /\ IsPdf(s.pdf) /\ Len(spans) \in Nat /\ DOMAIN spans = 1 .. Len(spans)
      /\ \A k \in 1 .. Len(spans) : spans[k].chars \in Nat
  BY <1>2, LenProperties, ElementOfSeq DEF IsSubmission, IsPdf
<1>7. looked \subseteq content
  <2> DEFINE n == Len(spans)
             rest == looked \ content
  <2>1. rest \subseteq 1 .. n /\ n \in Nat
    BY <1>6
  <2>2. ~(Cardinality(rest) > 0)
    BY <1>5
  <2>3. rest = {} => looked \subseteq content
    BY Zenon
  <2> HIDE DEF n, rest, looked, content
  <2>4. IsFiniteSet(1 .. n)
    BY <2>1, FS_Interval
  <2>5. IsFiniteSet(rest)
    BY <2>1, <2>4, FS_Subset
  <2>6. Cardinality(rest) \in Nat /\ (Cardinality(rest) = 0 => rest = {})
    BY <2>5, FS_CardinalityType, FS_EmptySet
  <2>7. rest = {}
    BY <2>2, <2>6
  <2>. QED
    BY <2>3, <2>7
<1>8. IsFiniteSet(DOMAIN pages)
  BY <1>6 DEF IsPdf
<1> SUFFICES ASSUME NEW i \in text, spans[i].chars >= 2
             PROVE  /\ spans[i].page \in DOMAIN pages /\ Reliable(spans[i].box)
                    /\ \/ WithinMargins(spans[i].box, pages[spans[i].page])
                       \/ spans[i].text = "digits"
                       \/ \E j \in text : /\ spans[j].page # spans[i].page
                                          /\ Normalized(spans[j]) = Normalized(spans[i])
  OBVIOUS
<1>9. CASE i \in Marginal(spans, pages, service)
  BY <1>8, <1>9, MarginalIs
<1>10. CASE i \notin Marginal(spans, pages, service)
  <2>1. i \in content
    BY <1>7, <1>10
  <2>. QED
    BY <1>5, <2>1
<1>. QED
  BY <1>9, <1>10

\* FMT-01 and FMT-05 pass no PDF they have not looked at: all text has a place,
\* enough of it is set in Times, and beyond the margins are only numbers and what
\* repeats.
THEOREM WhatPassesIsMeasured == Spec => []PassIsMeasured
<1>1. IInv => PassIsMeasured
  <2> SUFFICES ASSUME IInv, Checked, ~submission.latex PROVE PassIsMeasured
    BY DEF PassIsMeasured
  <2>1. /\ IsSubmission(submission)
        /\ verdict["FMT-01"] = Judged(submission, "FMT-01")
        /\ verdict["FMT-05"] = Judged(submission, "FMT-05")
    BY DEF IInv, Verdicts, RuleIds, FormatIds
  <2>. QED
    BY <2>1, FontIsMeasured, MarginsAreMeasured DEF PassIsMeasured
<1>. QED
  BY <1>1, VerdictsAreOfTheirText, PTL

-----------------------------------------------------------------------------
(* A text that gains an item, or a citation                                *)

\* The new text is the old one but for the item at `at`: it is one more, or one
\* of its kind was there.
Grown(old, new, at) ==
    /\ IsText(old) /\ IsText(new) /\ at \in 1 .. Len(new)
    /\ \/ /\ Len(new) = Len(old) + 1
          /\ \A j \in 1 .. Len(old) : new[IF j < at THEN j ELSE j + 1] = old[j]
       \/ /\ Len(new) = Len(old) /\ old[at].kind = new[at].kind
          /\ \A j \in 1 .. Len(old) : j # at => new[j] = old[j]

\* It cites a key more: in a command of its own, or in one there was.
Gains(old, new, at, key) ==
    /\ Grown(old, new, at) /\ new[at].kind = "cite"
    /\ new[at].arg = (IF Len(new) = Len(old) THEN old[at].arg ELSE {}) \cup {key}

\* Where each place of the old text, or either end of it, is in the new one.
Place(old, new, at) ==
    [i \in 0 .. Len(old) + 1 |-> IF Len(new) = Len(old) \/ i < at THEN i ELSE i + 1]

LEMMA TextIs ==
    ASSUME NEW body, IsText(body)
    PROVE  /\ Len(body) \in Nat /\ DOMAIN body = 1 .. Len(body)
           /\ \A k \in 1 .. Len(body) : IsItem(body[k])
BY LenProperties, ElementOfSeq DEF IsText

\* Places keep their order, and what stands at them.
LEMMA PlaceIs ==
    ASSUME NEW old, NEW new, NEW at, Grown(old, new, at)
    PROVE  LET n == Len(old)
               m == Len(new)
               p == Place(old, new, at)
           IN /\ n \in Nat /\ m \in Nat /\ p[0] = 0 /\ p[n + 1] = m + 1
              /\ \A i \in 0 .. n + 1 : p[i] \in 0 .. m + 1
              /\ \A i \in 0 .. n + 1 : \A j \in 0 .. n + 1 : i < j <=> p[i] < p[j]
              /\ \A i \in 1 .. n : p[i] \in 1 .. m
              /\ \A i \in 1 .. n : IF p[i] = at THEN old[i].kind = new[at].kind
                                   ELSE new[p[i]] = old[i]
              /\ \A j \in 1 .. m : j = at \/ \E i \in 1 .. n : j = p[i]
<1> DEFINE n == Len(old)
           m == Len(new)
           p == Place(old, new, at)
<1>1. n \in Nat /\ m \in Nat /\ at \in 1 .. m /\ (m = n \/ m = n + 1)
  BY TextIs DEF Grown
<1>2. \A i \in 0 .. n + 1 : p[i] = IF m = n \/ i < at THEN i ELSE i + 1
  BY DEF Place
<1>3. \/ m = n + 1 /\ \A j \in 1 .. n : new[IF j < at THEN j ELSE j + 1] = old[j]
      \/ m = n /\ old[at].kind = new[at].kind /\ \A j \in 1 .. n : j # at => new[j] = old[j]
  BY DEF Grown
<1> HIDE DEF n, m, p
<1>4. \A i \in 1 .. n : i \in 0 .. n + 1
  BY <1>1
<1>5. p[0] = 0 /\ p[n + 1] = m + 1 /\ \A i \in 0 .. n + 1 : p[i] \in 0 .. m + 1
  BY <1>1, <1>2
<1>6. \A i \in 0 .. n + 1 : \A j \in 0 .. n + 1 : i < j <=> p[i] < p[j]
  BY <1>1, <1>2
<1>7. \A i \in 1 .. n : p[i] \in 1 .. m
  BY <1>1, <1>2, <1>4
<1>8. \A i \in 1 .. n : IF p[i] = at THEN old[i].kind = new[at].kind ELSE new[p[i]] = old[i]
  <2> SUFFICES ASSUME NEW i \in 1 .. n
               PROVE  IF p[i] = at THEN old[i].kind = new[at].kind ELSE new[p[i]] = old[i]
    OBVIOUS
  <2>1. p[i] = IF m = n \/ i < at THEN i ELSE i + 1
    BY <1>2, <1>4
  <2>2. CASE m = n + 1
    <3>1. p[i] # at /\ new[p[i]] = old[i]
      BY <1>1, <1>3, <2>1, <2>2
    <3>. QED
      BY <3>1
  <2>3. CASE m = n
    BY <1>1, <1>3, <2>1, <2>3
  <2>. QED
    BY <1>1, <2>2, <2>3
<1>9. ASSUME NEW j \in 1 .. m, j # at PROVE \E i \in 1 .. n : j = p[i]
  <2>1. CASE m = n \/ j < at
    <3>1. j \in 1 .. n /\ j \in 0 .. n + 1
      BY <1>1, <2>1
    <3>. QED
      BY <1>2, <2>1, <3>1
  <2>2. CASE m = n + 1 /\ j > at
    <3>1. j - 1 \in 1 .. n /\ j - 1 \in 0 .. n + 1 /\ ~(j - 1 < at) /\ m # n /\ j - 1 + 1 = j
      BY <1>1, <2>2
    <3>. QED
      BY <1>2, <3>1
  <2>. QED
    BY <1>1, <1>9, <2>1, <2>2
<1>. QED
  BY <1>1, <1>5, <1>6, <1>7, <1>8, <1>9 DEF n, m, p

\* What is of another kind stands where it stood.
LEMMA OthersStay ==
    ASSUME NEW old, NEW new, NEW at, Grown(old, new, at),
           NEW kinds, new[at].kind \notin kinds
    PROVE  LET p == Place(old, new, at)
           IN /\ Of(old, kinds) \subseteq 1 .. Len(old)
              /\ Of(new, kinds) = {p[i] : i \in Of(old, kinds)}
              /\ \A i \in Of(old, kinds) : new[p[i]] = old[i]
<1> DEFINE p == Place(old, new, at)
           n == Len(old)
           m == Len(new)
<1>1. /\ Of(old, kinds) = {i \in 1 .. n : old[i].kind \in kinds}
      /\ Of(new, kinds) = {j \in 1 .. m : new[j].kind \in kinds}
  BY TextIs DEF Of, Grown
<1>3. /\ \A i \in 1 .. n : p[i] \in 1 .. m
      /\ \A i \in 1 .. n : IF p[i] = at THEN old[i].kind = new[at].kind ELSE new[p[i]] = old[i]
      /\ \A j \in 1 .. m : j = at \/ \E i \in 1 .. n : j = p[i]
  BY PlaceIs
<1> HIDE DEF p, n, m
<1>4. \A i \in Of(old, kinds) : i \in 1 .. n /\ new[p[i]] = old[i] /\ p[i] \in Of(new, kinds)
  BY <1>1, <1>3
<1>5. \A j \in Of(new, kinds) : \E i \in Of(old, kinds) : j = p[i]
  BY <1>1, <1>3
<1>6. Of(new, kinds) = {p[i] : i \in Of(old, kinds)}
  BY <1>4, <1>5
<1>. QED
  BY <1>1, <1>4, <1>6 DEF p, n, m

\* The least place moves with the others.
LEMMA LeastMoves ==
    ASSUME NEW N \in Nat, NEW p, \A i \in 0 .. N : p[i] \in Nat,
           \A i \in 0 .. N : \A j \in 0 .. N : i < j <=> p[i] < p[j],
           NEW T \in SUBSET (0 .. N), T # {}
    PROVE  /\ Min(T) \in T /\ (\A k \in T : Min(T) <= k)
           /\ Min({p[i] : i \in T}) = p[Min(T)]
<1>1. Min(T) \in T /\ \A k \in T : Min(T) <= k
  <2>1. T \in SUBSET Nat
    OBVIOUS
  <2>. QED
    BY <2>1, MinIs
<1> DEFINE U == {p[i] : i \in T}
           u == Min(T)
           v == Min(U)
<1>2. v \in U /\ \A k \in U : v <= k
  <2>1. U \in SUBSET Nat /\ U # {}
    OBVIOUS
  <2> HIDE DEF U
  <2>. QED
    BY <2>1, MinIs
<1>3. PICK i \in T : v = p[i]
  BY <1>2
<1>4. p[u] \in U /\ v <= p[u]
  BY <1>1, <1>2
<1> HIDE DEF u, v, U
<1>5. u \in 0 .. N /\ i \in 0 .. N /\ u <= i
  BY <1>1 DEF u
<1>6. p[u] \in Nat /\ p[i] \in Nat /\ (i < u <=> p[i] < p[u]) /\ (u < i <=> p[u] < p[i])
  BY <1>5
<1>7. v = p[u]
  BY <1>3, <1>4, <1>5, <1>6
<1>. QED
  BY <1>1, <1>7 DEF u, v, U

\* What stands between two places of a text.
Between(body, a, b) == SubSeq(body, a + 1, b - 1)

LEMMA BetweenIs ==
    ASSUME NEW body, IsText(body), NEW a \in 0 .. Len(body) + 1,
           NEW b \in 0 .. Len(body) + 1, a < b
    PROVE  /\ IsText(Between(body, a, b)) /\ Len(Between(body, a, b)) = b - a - 1
           /\ \A j \in 1 .. b - a - 1 : Between(body, a, b)[j] = body[a + j]
<1> DEFINE n == Len(body)
           part == Between(body, a, b)
           S == ToSet(body)
<1>1. n \in Nat /\ body \in Seq(S) /\ \A y \in S : IsItem(y)
  BY TextIs DEF IsText
<1>2. \A j \in a + 1 .. b - 1 : body[j] \in S
  <2>1. \A j \in 1 .. n : body[j] \in S
    BY <1>1, ElementOfSeq
  <2>2. \A j \in a + 1 .. b - 1 : j \in 1 .. n
    BY <1>1
  <2>. QED
    BY <2>1, <2>2
<1>3. /\ part \in Seq(S) /\ Len(part) = IF a + 1 <= b - 1 THEN b - 1 - (a + 1) + 1 ELSE 0
      /\ \A j \in 1 .. b - 1 - (a + 1) + 1 : part[j] = body[a + 1 + j - 1]
  <2>1. a + 1 \in Int /\ b - 1 \in Int
    BY <1>1
  <2> HIDE DEF S
  <2>. QED
    BY <1>2, <2>1, SubSeqProperties DEF Between
<1> HIDE DEF S
<1>4. part \in Seq(ToSet(part)) /\ ToSet(part) = {part[j] : j \in 1 .. Len(part)}
  <2>1. part \in Seq(S)
    BY <1>3
  <2> HIDE DEF part
  <2>. QED
    BY <2>1, OwnElements
<1>5. \A j \in 1 .. Len(part) : part[j] \in S
  BY <1>3, ElementOfSeq
<1> HIDE DEF part
<1>6. IsText(part)
  BY <1>1, <1>4, <1>5 DEF IsText
<1>7. b - 1 - (a + 1) + 1 = b - a - 1 /\ \A j \in 1 .. b - a - 1 : a + 1 + j - 1 = a + j
  BY <1>1
<1>8. Len(part) = b - a - 1
  BY <1>1, <1>3
<1>9. \A j \in 1 .. b - a - 1 : part[j] = body[a + j]
  BY <1>3, <1>7
<1>. QED
  BY <1>6, <1>8, <1>9 DEF part

\* What two places of the old text and of the new one enclose.
Parts(old, new, at, a, b) ==
    LET n == Len(old)
        m == Len(new)
        pa == Place(old, new, at)[a]
        pb == Place(old, new, at)[b]
        was == Between(old, a, b)
        is == Between(new, pa, pb)
    IN /\ n \in Nat /\ m \in Nat /\ at \in 1 .. m /\ (m = n \/ m = n + 1)
       /\ pa \in 0 .. m + 1 /\ pb \in 0 .. m + 1 /\ pa < pb
       /\ pa = (IF m = n \/ a < at THEN a ELSE a + 1)
       /\ pb = (IF m = n \/ b < at THEN b ELSE b + 1)
       /\ IsText(was) /\ Len(was) = b - a - 1
       /\ \A j \in 1 .. b - a - 1 : was[j] = old[a + j]
       /\ IsText(is) /\ Len(is) = pb - pa - 1
       /\ \A j \in 1 .. pb - pa - 1 : is[j] = new[pa + j]

LEMMA PartsAre ==
    ASSUME NEW old, NEW new, NEW at, Grown(old, new, at),
           NEW a \in 0 .. Len(old) + 1, NEW b \in 0 .. Len(old) + 1, a < b
    PROVE  Parts(old, new, at, a, b)
<1> DEFINE p == Place(old, new, at)
           pa == p[a]
           pb == p[b]
           was == Between(old, a, b)
           is == Between(new, pa, pb)
           n == Len(old)
           m == Len(new)
<1>1. n \in Nat /\ m \in Nat /\ at \in 1 .. m /\ (m = n \/ m = n + 1)
  BY TextIs DEF Grown
<1>2. /\ p[a] \in 0 .. m + 1 /\ p[b] \in 0 .. m + 1 /\ p[a] < p[b]
      /\ p[a] = (IF m = n \/ a < at THEN a ELSE a + 1)
      /\ p[b] = (IF m = n \/ b < at THEN b ELSE b + 1)
  <2>1. a \in 0 .. n + 1 /\ b \in 0 .. n + 1
    OBVIOUS
  <2>2. /\ \A i \in 0 .. n + 1 : p[i] \in 0 .. m + 1
        /\ \A i \in 0 .. n + 1 : \A j \in 0 .. n + 1 : i < j <=> p[i] < p[j]
    BY PlaceIs
  <2>3. \A i \in 0 .. n + 1 : p[i] = IF m = n \/ i < at THEN i ELSE i + 1
    BY DEF Place
  <2> HIDE DEF p, n, m
  <2>. QED
    BY <2>1, <2>2, <2>3
<1>3. /\ IsText(was) /\ Len(was) = b - a - 1
      /\ \A j \in 1 .. b - a - 1 : was[j] = old[a + j]
  BY BetweenIs DEF Grown
<1>4. /\ IsText(is) /\ Len(is) = p[b] - p[a] - 1
      /\ \A j \in 1 .. p[b] - p[a] - 1 : is[j] = new[p[a] + j]
  <2>1. IsText(new) /\ p[a] \in 0 .. Len(new) + 1 /\ p[b] \in 0 .. Len(new) + 1 /\ p[a] < p[b]
    BY <1>2 DEF Grown
  <2> HIDE DEF p, m, n
  <2>. QED
    BY <2>1, BetweenIs
<1>. QED
  BY <1>1, <1>2, <1>3, <1>4 DEF Parts

\* What stands before the item, or after it, stays as it is.
LEMMA PartStays ==
    ASSUME NEW old, NEW new, NEW at, Grown(old, new, at),
           NEW a \in 0 .. Len(old) + 1, NEW b \in 0 .. Len(old) + 1, a < b,
           ~(Place(old, new, at)[a] < at /\ at < Place(old, new, at)[b])
    PROVE  LET p == Place(old, new, at)
           IN Between(new, p[a], p[b]) = Between(old, a, b)
<1> DEFINE p == Place(old, new, at)
           pa == p[a]
           pb == p[b]
           was == Between(old, a, b)
           is == Between(new, pa, pb)
           n == Len(old)
           m == Len(new)
<1>0. Parts(old, new, at, a, b)
  BY PartsAre
<1>1. /\ n \in Nat /\ m \in Nat /\ at \in 1 .. m /\ (m = n \/ m = n + 1)
      /\ a \in 0 .. n + 1 /\ b \in 0 .. n + 1 /\ a < b
      /\ pa \in 0 .. m + 1 /\ pb \in 0 .. m + 1 /\ pa < pb
      /\ pa = (IF m = n \/ a < at THEN a ELSE a + 1)
      /\ pb = (IF m = n \/ b < at THEN b ELSE b + 1)
  BY <1>0 DEF Parts
<1>2. /\ IsText(was) /\ Len(was) = b - a - 1
      /\ \A j \in 1 .. b - a - 1 : was[j] = old[a + j]
      /\ IsText(is) /\ Len(is) = pb - pa - 1
      /\ \A j \in 1 .. pb - pa - 1 : is[j] = new[pa + j]
  BY <1>0 DEF Parts
<1>3. \/ m = n + 1 /\ \A j \in 1 .. n : new[IF j < at THEN j ELSE j + 1] = old[j]
      \/ m = n /\ \A j \in 1 .. n : j # at => new[j] = old[j]
  BY DEF Grown
<1>4. ~(pa < at /\ at < pb)
  OBVIOUS
<1> HIDE DEF p, pa, pb, was, is, n, m
<1>5. pb - pa = b - a
  BY <1>1, <1>4
<1>6. \A j \in 1 .. b - a - 1 : new[pa + j] = old[a + j]
  <2> SUFFICES ASSUME NEW j \in 1 .. b - a - 1 PROVE new[pa + j] = old[a + j]
    OBVIOUS
  <2>1. a + j \in 1 .. n
    BY <1>1
  <2>2. CASE m = n
    BY <1>1, <1>3, <1>4, <2>1, <2>2
  <2>3. CASE m = n + 1 /\ b < at
    BY <1>1, <1>3, <2>1, <2>3
  <2>4. CASE m = n + 1 /\ ~(a < at)
    <3>1. pa + j = a + j + 1 /\ ~(a + j < at)
      BY <1>1, <2>4
    <3>. QED
      BY <1>1, <1>3, <2>1, <2>4, <3>1
  <2>5. m = n + 1 => b < at \/ ~(a < at)
    BY <1>1, <1>4
  <2>. QED
    BY <1>1, <2>2, <2>3, <2>4, <2>5
<1>7. Len(is) = Len(was) /\ \A j \in 1 .. Len(was) : is[j] = was[j]
  BY <1>2, <1>5, <1>6
<1>8. is \in Seq(ToSet(is) \cup ToSet(was)) /\ was \in Seq(ToSet(is) \cup ToSet(was))
  BY <1>2, SeqMonotonic DEF IsText
<1>9. is = was
  <2> DEFINE S == ToSet(is) \cup ToSet(was)
  <2>1. is \in Seq(S) /\ was \in Seq(S)
    BY <1>8
  <2> HIDE DEF S
  <2>. QED
    BY <1>7, <2>1, SeqEqual
<1>. QED
  BY <1>9 DEF p, pa, pb, was, is

\* A part of the text gains the citation, or stays as it is.
LEMMA PartGains ==
    ASSUME NEW old, NEW new, NEW at, NEW key, Gains(old, new, at, key),
           NEW a \in 0 .. Len(old) + 1, NEW b \in 0 .. Len(old) + 1, a < b
    PROVE  LET p == Place(old, new, at)
               was == Between(old, a, b)
               is == Between(new, p[a], p[b])
           IN is = was \/ \E k : Gains(was, is, k, key)
<1> DEFINE p == Place(old, new, at)
           pa == p[a]
           pb == p[b]
           was == Between(old, a, b)
           is == Between(new, pa, pb)
           n == Len(old)
           m == Len(new)
<1>0. Grown(old, new, at) /\ new[at].kind = "cite"
      /\ new[at].arg = (IF m = n THEN old[at].arg ELSE {}) \cup {key}
  BY DEF Gains
<1>01. Parts(old, new, at, a, b)
  BY <1>0, PartsAre
<1>1. /\ n \in Nat /\ m \in Nat /\ at \in 1 .. m /\ (m = n \/ m = n + 1)
      /\ a \in 0 .. n + 1 /\ b \in 0 .. n + 1 /\ a < b
      /\ pa \in 0 .. m + 1 /\ pb \in 0 .. m + 1 /\ pa < pb
      /\ pa = (IF m = n \/ a < at THEN a ELSE a + 1)
      /\ pb = (IF m = n \/ b < at THEN b ELSE b + 1)
  BY <1>01 DEF Parts
<1>2. /\ IsText(was) /\ Len(was) = b - a - 1
      /\ \A j \in 1 .. b - a - 1 : was[j] = old[a + j]
      /\ IsText(is) /\ Len(is) = pb - pa - 1
      /\ \A j \in 1 .. pb - pa - 1 : is[j] = new[pa + j]
  BY <1>01 DEF Parts
<1>3. \/ m = n + 1 /\ \A j \in 1 .. n : new[IF j < at THEN j ELSE j + 1] = old[j]
      \/ m = n /\ old[at].kind = new[at].kind /\ \A j \in 1 .. n : j # at => new[j] = old[j]
  BY <1>0 DEF Grown
<1>4. CASE ~(pa < at /\ at < pb)
  <2>1. is = was
    BY <1>0, <1>4, PartStays
  <2>. QED
    BY <2>1
<1>5. CASE pa < at /\ at < pb
  <2> HIDE DEF p, pa, pb, was, is, n, m
  <2> DEFINE k == at - a
             d == b - a - 1
             l == Len(is)
  <2>1. pa = a /\ a < at /\ b >= at /\ pb = (IF m = n THEN b ELSE b + 1)
        /\ IF m = n THEN at < b ELSE at <= b
    BY <1>1, <1>5
  <2>2. a \in Nat /\ b \in Nat /\ at \in Nat /\ b <= n + 1
    BY <1>1
  <2>3. k \in Nat /\ at = a + k /\ d \in Nat /\ a + d + 1 = b /\ k >= 1
    BY <1>1, <2>1, <2>2
  <2>4. l = IF m = n THEN d ELSE d + 1
    BY <1>1, <1>2, <2>1, <2>2
  <2>5. /\ \A j \in 1 .. d : was[j] = old[a + j]
        /\ \A j \in 1 .. l : is[j] = new[a + j]
        /\ Len(was) = d
    BY <1>2, <2>1
  <2> HIDE DEF k, d, l
  <2>6. k \in 1 .. l
    BY <2>1, <2>2, <2>3, <2>4
  <2>7. is[k] = new[at]
    BY <2>3, <2>5, <2>6
  <2>8. CASE m = n
    <3>1. k \in 1 .. d /\ was[k] = old[at]
      BY <2>3, <2>4, <2>5, <2>6, <2>8
    <3>2. \A j \in 1 .. d : j # k => a + j \in 1 .. n /\ a + j # at
      BY <1>1, <2>2, <2>3
    <3>3. \A j \in 1 .. d : j # k => is[j] = was[j]
      BY <1>1, <1>3, <2>4, <2>5, <2>8, <3>2
    <3>4. is[k].kind = was[k].kind /\ is[k].arg = was[k].arg \cup {key} /\ is[k].kind = "cite"
      BY <1>0, <1>1, <1>3, <2>7, <2>8, <3>1
    <3>5. Grown(was, is, k)
      BY <1>2, <2>4, <2>5, <2>6, <2>8, <3>3, <3>4 DEF Grown, l
    <3>6. Gains(was, is, k, key)
      BY <2>4, <2>5, <2>8, <3>4, <3>5 DEF Gains, l
    <3>. QED
      BY <3>6 DEF p, pa, pb, was, is
  <2>9. CASE m = n + 1
    <3>1. l = d + 1 /\ l # d
      BY <1>1, <2>3, <2>4, <2>9
    <3>2. ASSUME NEW j \in 1 .. d PROVE is[IF j < k THEN j ELSE j + 1] = was[j]
      <4>1. a + j \in 1 .. n /\ (j < k <=> a + j < at) /\ a + (j + 1) = a + j + 1
            /\ j \in 1 .. d + 1 /\ j + 1 \in 1 .. d + 1
        BY <1>1, <2>2, <2>3
      <4>2. new[IF a + j < at THEN a + j ELSE a + j + 1] = old[a + j]
        BY <1>1, <1>3, <2>9, <4>1
      <4>3. is[j] = new[a + j] /\ is[j + 1] = new[a + (j + 1)]
        BY <2>5, <3>1, <4>1
      <4>. QED
        BY <2>5, <4>1, <4>2, <4>3
    <3>3. Grown(was, is, k)
      BY <1>2, <2>5, <2>6, <3>1, <3>2 DEF Grown, l
    <3>4. is[k].kind = "cite" /\ is[k].arg = {key}
      BY <1>0, <1>1, <2>7, <2>9
    <3>5. Gains(was, is, k, key)
      BY <2>5, <3>1, <3>3, <3>4 DEF Gains, l
    <3>. QED
      BY <3>5 DEF p, pa, pb, was, is
  <2>. QED
    BY <1>1, <2>8, <2>9
<1>. QED
  BY <1>4, <1>5

\* The section of a title goes from its heading to the next, before and after.
Encloses(old, new, at, title, a, b) ==
    LET p == Place(old, new, at)
        was == SectionBody(old, title)
        is == SectionBody(new, title)
    IN /\ <<title, old[a].arg>> \in Inside /\ a \in 0 .. Len(old) + 1 /\ a < b
       /\ \A k \in Of(old, {"section"}) : k <= a \/ b <= k
       /\ was.text = Between(old, a, b) /\ is.text = Between(new, p[a], p[b])
Moves(old, new, at, title) ==
    LET was == SectionBody(old, title) IN
    /\ SectionBody(new, title).found = was.found
    /\ was.found => \E a \in Of(old, {"section"}), b \in 0 .. Len(old) + 1 :
                      Encloses(old, new, at, title, a, b)

LEMMA SectionMoves ==
    ASSUME NEW old, NEW new, NEW at, Grown(old, new, at), new[at].kind # "section", NEW title
    PROVE  Moves(old, new, at, title)
<1> DEFINE p == Place(old, new, at)
           n == Len(old)
           m == Len(new)
           Heads(body) == {k \in Of(body, {"section"}) : <<title, body[k].arg>> \in Inside}
           heads == Heads(old)
           from == Min(heads)
           Ends(body, f) == {k \in Of(body, {"section"}) : k > f}
           ends == Ends(old, from)
           to == IF ends = {} THEN n + 1 ELSE Min(ends)
<1>1. /\ n \in Nat /\ m \in Nat /\ p[0] = 0 /\ p[n + 1] = m + 1
      /\ \A i \in 0 .. n + 1 : p[i] \in 0 .. m + 1
      /\ \A i \in 0 .. n + 1 : \A j \in 0 .. n + 1 : i < j <=> p[i] < p[j]
  BY PlaceIs
<1>2. /\ Of(old, {"section"}) \subseteq 1 .. n
      /\ Of(new, {"section"}) = {p[i] : i \in Of(old, {"section"})}
      /\ \A i \in Of(old, {"section"}) : new[p[i]] = old[i]
  BY OthersStay
<1>3. \A body : SectionBody(body, title) =
        IF Heads(body) = {} THEN NoBody
        ELSE [found |-> TRUE,
              text |-> SubSeq(body, Min(Heads(body)) + 1,
                              IF Ends(body, Min(Heads(body))) = {} THEN Len(body)
                              ELSE Min(Ends(body, Min(Heads(body)))) - 1)]
  BY DEF SectionBody
<1>4. Heads(new) = {p[i] : i \in heads}
  <2> DEFINE O == Of(old, {"section"})
             W == Of(new, {"section"})
  <2>1. W = {p[i] : i \in O} /\ \A i \in O : new[p[i]] = old[i]
    BY <1>2
  <2>2. Heads(new) = {k \in W : <<title, new[k].arg>> \in Inside}
        /\ heads = {k \in O : <<title, old[k].arg>> \in Inside}
    OBVIOUS
  <2> HIDE DEF O, W, p, heads, Heads
  <2>3. \A k \in Heads(new) : \E i \in heads : k = p[i]
    BY <2>1, <2>2
  <2>4. \A i \in heads : p[i] \in Heads(new)
    BY <2>1, <2>2
  <2>. QED
    BY <2>3, <2>4
<1>5. CASE heads = {}
  <2>1. Heads(new) = {} /\ Heads(old) = {}
    BY <1>4, <1>5
  <2> HIDE DEF Heads
  <2>2. SectionBody(old, title) = NoBody /\ SectionBody(new, title) = NoBody
    BY <1>3, <2>1
  <2>. QED
    BY <2>2 DEF NoBody, Moves
<1>6. CASE heads # {}
  <2>1. heads \in SUBSET (0 .. n + 1) /\ heads \in SUBSET (1 .. n)
    BY <1>2
  <2>2. /\ n + 1 \in Nat /\ \A i \in 0 .. n + 1 : p[i] \in Nat
        /\ \A i \in 0 .. n + 1 : \A j \in 0 .. n + 1 : i < j <=> p[i] < p[j]
    BY <1>1
  <2>3. from \in heads /\ Min(Heads(new)) = p[from]
    <3> HIDE DEF p, n, Heads
    <3>. QED
      BY <1>4, <1>6, <2>1, <2>2, LeastMoves
  <2>4. from \in 1 .. n /\ from \in 0 .. n + 1
    BY <2>1, <2>3
  <2> HIDE DEF heads, from
  <2>5. ends \in SUBSET (0 .. n + 1) /\ \A k \in ends : k \in 1 .. n /\ k > from
    BY <1>2, <2>4
  <2>6. Ends(new, p[from]) = {p[i] : i \in ends}
    <3>1. \A i \in Of(old, {"section"}) : i > from <=> p[i] > p[from]
      <4>1. \A i \in Of(old, {"section"}) : i \in 0 .. n + 1
        BY <1>2
      <4> HIDE DEF p, n
      <4>. QED
        BY <1>1, <2>4, <4>1
    <3> HIDE DEF p, n
    <3>. QED
      BY <1>2, <3>1
  <2>7. ends # {} => Min(ends) \in ends /\ Min(Ends(new, p[from])) = p[Min(ends)]
    <3> HIDE DEF p, n, ends, Ends
    <3>. QED
      BY <2>2, <2>5, <2>6, LeastMoves
  <2>8. /\ to \in 0 .. n + 1 /\ from < to
        /\ p[to] = IF Ends(new, p[from]) = {} THEN m + 1 ELSE Min(Ends(new, p[from]))
    <3>1. CASE ends = {}
      BY <1>1, <2>4, <2>6, <3>1
    <3>2. CASE ends # {}
      <4>1. to = Min(ends) /\ Ends(new, p[from]) # {}
        BY <2>6, <3>2
      <4> HIDE DEF p, n, m, ends, Ends, to
      <4>. QED
        BY <2>4, <2>5, <2>7, <3>2, <4>1
    <3>. QED
      BY <3>1, <3>2
  <2>9. SectionBody(old, title) = [found |-> TRUE, text |-> Between(old, from, to)]
    <3>1. to - 1 = IF ends = {} THEN n ELSE Min(ends) - 1
      BY <1>1
    <3>. QED
      BY <1>3, <1>6, <3>1 DEF Between, heads, from
  <2>10. SectionBody(new, title) = [found |-> TRUE, text |-> Between(new, p[from], p[to])]
    <3>1. Heads(new) # {}
      BY <1>4, <1>6 DEF heads
    <3>2. p[to] - 1 = IF Ends(new, p[from]) = {} THEN m ELSE Min(Ends(new, p[from])) - 1
      <4> DEFINE e == Ends(new, p[from])
                 l == Min(e)
      <4>1. p[to] = IF e = {} THEN m + 1 ELSE l
        BY <2>8
      <4> HIDE DEF e, l, p, m
      <4>2. p[to] - 1 = IF e = {} THEN m ELSE l - 1
        BY <1>1, <4>1
      <4>. QED
        BY <4>2 DEF e, l
    <3> HIDE DEF Heads, Ends, p, to
    <3>. QED
      BY <1>3, <2>3, <3>1, <3>2 DEF Between, m
  <2> HIDE DEF p, n, m, to, ends, Heads, Ends
  <2>11. from \in Of(old, {"section"}) /\ <<title, old[from].arg>> \in Inside
    BY <2>3 DEF heads, Heads
  <2>12. \A k \in Of(old, {"section"}) : k <= from \/ to <= k
    <3> SUFFICES ASSUME NEW k \in Of(old, {"section"}), ~(k <= from) PROVE to <= k
      OBVIOUS
    <3>1. k \in 1 .. n
      BY <1>2
    <3>2. k \in ends
      BY <2>4, <3>1 DEF ends, Ends
    <3>3. Min(ends) <= k /\ to = Min(ends)
      <4>1. \A i \in ends : Min(ends) <= i
        <5> HIDE DEF p, n, ends
        <5>. QED
          BY <2>2, <2>5, <3>2, LeastMoves
      <4>. QED
        BY <3>2, <4>1 DEF to
    <3>. QED
      BY <3>3
  <2> HIDE DEF p, n, m, to, ends, Heads, Ends
  <2>13. Encloses(old, new, at, title, from, to)
    BY <2>4, <2>8, <2>9, <2>10, <2>11, <2>12 DEF p, n, Encloses
  <2>. QED
    BY <2>8, <2>9, <2>10, <2>11, <2>13 DEF n, Moves
<1>. QED
  BY <1>5, <1>6

\* The section of a title gains the citation, or stays as it is.
LEMMA SectionGains ==
    ASSUME NEW old, NEW new, NEW at, NEW key, Gains(old, new, at, key), NEW title
    PROVE  LET was == SectionBody(old, title)
               is == SectionBody(new, title)
           IN /\ is.found = was.found
              /\ was.found => /\ \E a \in 0 .. Len(old) + 1, b \in 0 .. Len(old) + 1 :
                                   a < b /\ was.text = Between(old, a, b)
                              /\ \/ is.text = was.text
                                 \/ \E k : Gains(was.text, is.text, k, key)
<1> DEFINE p == Place(old, new, at)
           was == SectionBody(old, title)
           is == SectionBody(new, title)
<1>1. Grown(old, new, at) /\ new[at].kind # "section"
  BY DEF Gains
<1>2. Moves(old, new, at, title)
  BY <1>1, SectionMoves
<1> SUFFICES ASSUME was.found
             PROVE  /\ \E a \in 0 .. Len(old) + 1, b \in 0 .. Len(old) + 1 :
                         a < b /\ was.text = Between(old, a, b)
                    /\ is.text = was.text \/ \E k : Gains(was.text, is.text, k, key)
  BY <1>2 DEF Moves
<1>3. PICK a \in 0 .. Len(old) + 1, b \in 0 .. Len(old) + 1 :
        a < b /\ was.text = Between(old, a, b) /\ is.text = Between(new, p[a], p[b])
  BY <1>2 DEF Moves, Encloses
<1> HIDE DEF was, is
<1>4. is.text = was.text \/ \E k : Gains(was.text, is.text, k, key)
  BY <1>3, PartGains
<1>. QED
  BY <1>3, <1>4

-----------------------------------------------------------------------------
(* To cite one more source                                                 *)

\* The first n of finitely many finite sets are finite together.
LEMMA FinitelyMany ==
    ASSUME NEW N \in Nat, NEW S, \A k \in 1 .. N : IsFiniteSet(S[k])
    PROVE  IsFiniteSet(UNION {S[k] : k \in 1 .. N})
<1> DEFINE U(n) == UNION {S[k] : k \in 1 .. n}
           T == {n \in 0 .. N : IsFiniteSet(U(n))}
<1>1. 0 \in T
  <2>1. U(0) = {}
    OBVIOUS
  <2>. QED
    BY <2>1, FS_EmptySet
<1>2. ASSUME NEW n \in 0 .. N - 1, n \in T PROVE n + 1 \in T
  <2>1. U(n + 1) = U(n) \cup S[n + 1]
    <3>1. 1 .. n + 1 = (1 .. n) \cup {n + 1}
      OBVIOUS
    <3>. QED
      BY <3>1
  <2>2. IsFiniteSet(S[n + 1]) /\ n + 1 \in 0 .. N
    OBVIOUS
  <2>3. IsFiniteSet(U(n) \cup S[n + 1])
    <3>1. IsFiniteSet(U(n))
      BY <1>2
    <3> HIDE DEF U
    <3>. QED
      BY <2>2, <3>1, FS_Union
  <2>. QED
    BY <2>1, <2>2, <2>3
<1> HIDE DEF T
<1>3. \A n \in 0 .. N : n \in T
  BY <1>1, <1>2, Upwards
<1>4. N \in T
  <2>1. N \in 0 .. N
    OBVIOUS
  <2>. QED
    BY <1>3, <2>1
<1>. QED
  BY <1>4 DEF T

\* The keys a text cites are those of its commands; there are finitely many.
LEMMA KeysAre ==
    ASSUME NEW body, IsText(body)
    PROVE  /\ CiteKeys(body) =
                UNION {body[k].arg : k \in {k \in 1 .. Len(body) :
                                              body[k].kind \in {"cite", "footcite"}}}
           /\ IsFiniteSet(CiteKeys(body))
<1> DEFINE n == Len(body)
           cites == {k \in 1 .. n : body[k].kind \in {"cite", "footcite"}}
           S == [k \in 1 .. n |-> IF k \in cites THEN body[k].arg ELSE {}]
<1>1. /\ n \in Nat /\ Of(body, {"cite", "footcite"}) = cites
      /\ \A k \in 1 .. n : IsItem(body[k])
  BY TextIs DEF Of
<1>2. CiteKeys(body) = UNION {body[k].arg : k \in cites}
  BY <1>1 DEF CiteKeys, Items
<1>3. \A k \in 1 .. n : IsFiniteSet(S[k])
  BY <1>1, FS_EmptySet DEF IsItem
<1>4. UNION {body[k].arg : k \in cites} = UNION {S[k] : k \in 1 .. n}
  <2>1. \A k \in 1 .. n : S[k] = IF k \in cites THEN body[k].arg ELSE {}
    OBVIOUS
  <2>2. cites \subseteq 1 .. n
    OBVIOUS
  <2> HIDE DEF S, cites, n
  <2>. QED
    BY <2>1, <2>2
<1>5. IsFiniteSet(UNION {S[k] : k \in 1 .. n})
  <2> HIDE DEF S, n
  <2>. QED
    BY <1>1, <1>3, FinitelyMany
<1>. QED
  BY <1>2, <1>4, <1>5

\* The text cites what it cited and the new key.
LEMMA KeysGain ==
    ASSUME NEW old, NEW new, NEW at, NEW key, Gains(old, new, at, key)
    PROVE  CiteKeys(new) = CiteKeys(old) \cup {key}
<1> DEFINE n == Len(old)
           m == Len(new)
           p == Place(old, new, at)
           was == {k \in 1 .. n : old[k].kind \in {"cite", "footcite"}}
           is == {k \in 1 .. m : new[k].kind \in {"cite", "footcite"}}
<1>1. /\ CiteKeys(old) = UNION {old[k].arg : k \in was}
      /\ CiteKeys(new) = UNION {new[k].arg : k \in is}
  BY KeysAre DEF Gains, Grown
<1>2. /\ \A i \in 1 .. n : p[i] \in 1 .. m
      /\ \A i \in 1 .. n : p[i] # at => new[p[i]] = old[i]
      /\ \A j \in 1 .. m : j = at \/ \E i \in 1 .. n : j = p[i]
  BY PlaceIs DEF Gains
<1>3. /\ n \in Nat /\ m \in Nat /\ at \in 1 .. m /\ new[at].kind = "cite" /\ key \in new[at].arg
      /\ \/ m = n + 1 /\ new[at].arg = {key} /\ \A i \in 1 .. n : p[i] # at
         \/ /\ m = n /\ old[at].kind = "cite" /\ new[at].arg = old[at].arg \cup {key}
            /\ \A i \in 1 .. n : p[i] = at => i = at
  <2>1. n \in Nat /\ m \in Nat /\ at \in 1 .. m
    BY TextIs DEF Gains, Grown
  <2>2. \A i \in 1 .. n : p[i] = IF m = n \/ i < at THEN i ELSE i + 1
    BY <2>1 DEF Place
  <2>3. /\ new[at].kind = "cite"
        /\ \/ m = n + 1 /\ new[at].arg = {key}
           \/ m = n /\ old[at].kind = "cite" /\ new[at].arg = old[at].arg \cup {key}
    BY <2>1 DEF Gains, Grown
  <2> HIDE DEF n, m, p
  <2>4. m = n + 1 => \A i \in 1 .. n : p[i] # at
    BY <2>1, <2>2
  <2>5. m = n => \A i \in 1 .. n : p[i] = at => i = at
    BY <2>1, <2>2
  <2>. QED
    BY <2>1, <2>3, <2>4, <2>5
<1> HIDE DEF n, m, p
<1>4. ASSUME NEW k \in was PROVE old[k].arg \subseteq CiteKeys(new)
  <2>1. CASE p[k] # at
    <3>1. p[k] \in is /\ new[p[k]].arg = old[k].arg
      BY <1>2, <2>1
    <3>. QED
      BY <1>1, <3>1
  <2>2. CASE p[k] = at
    <3>1. k = at /\ old[k].arg \subseteq new[at].arg /\ at \in is
      BY <1>3, <2>2
    <3>. QED
      BY <1>1, <3>1
  <2>. QED
    BY <2>1, <2>2
<1>5. key \in CiteKeys(new)
  <2>1. at \in is
    BY <1>3
  <2>. QED
    BY <1>1, <1>3, <2>1
<1>6. ASSUME NEW k \in is PROVE new[k].arg \subseteq CiteKeys(old) \cup {key}
  <2>1. CASE k = at
    <3>1. CASE m = n + 1
      BY <1>3, <2>1, <3>1
    <3>2. CASE m = n
      <4>1. at \in was /\ new[at].arg = old[at].arg \cup {key}
        BY <1>3, <3>2
      <4>. QED
        BY <1>1, <2>1, <4>1
    <3>. QED
      BY <1>3, <3>1, <3>2
  <2>2. CASE k # at
    <3>1. PICK i \in 1 .. n : k = p[i]
      BY <1>2, <2>2
    <3>2. i \in was /\ new[k].arg = old[i].arg
      BY <1>2, <2>2, <3>1
    <3>. QED
      BY <1>1, <3>2
  <2>. QED
    BY <2>1, <2>2
<1>. QED
  BY <1>1, <1>4, <1>5, <1>6

\* A number more is added, or one of them is another.
LEMMA SumInserted ==
    ASSUME NEW n \in Nat, NEW v, NEW w, NEW f, NEW g, AddsUp(f, v, n), AddsUp(g, w, n + 1),
           NEW at \in 1 .. n + 1, w[at] \in Nat,
           \A j \in 1 .. n : v[j] \in Nat /\ w[IF j < at THEN j ELSE j + 1] = v[j]
    PROVE  g[n + 1] = f[n] + w[at]
<1> DEFINE h == [k \in 0 .. n + 1 |-> IF k < at THEN f[k] ELSE f[k - 1] + w[at]]
<1>1. \A k \in 0 .. n + 1 : h[k] = IF k < at THEN f[k] ELSE f[k - 1] + w[at]
  OBVIOUS
<1>2. f[0] = 0 /\ (\A k \in 1 .. n : f[k] = f[k - 1] + v[k]) /\ \A k \in 0 .. n : f[k] \in Nat
  BY DEF AddsUp
<1> HIDE DEF h
<1>3. h[0] = 0
  BY <1>1, <1>2
<1>4. ASSUME NEW k \in 1 .. n + 1 PROVE h[k] = h[k - 1] + w[k]
  <2>1. k \in 0 .. n + 1 /\ k - 1 \in 0 .. n + 1 /\ k - 1 \in 0 .. n
    OBVIOUS
  <2>2. CASE k < at
    <3>1. k \in 1 .. n /\ k - 1 < at
      BY <2>2
    <3>2. h[k] = f[k] /\ h[k - 1] = f[k - 1] /\ w[k] = v[k]
      BY <1>1, <2>1, <2>2, <3>1
    <3>. QED
      BY <1>2, <3>1, <3>2
  <2>3. CASE k = at
    <3>1. h[k] = f[k - 1] + w[at] /\ h[k - 1] = f[k - 1]
      BY <1>1, <2>1, <2>3
    <3>. QED
      BY <2>3, <3>1
  <2>4. CASE k > at
    <3> DEFINE i == k - 1
    <3>1. i \in 1 .. n /\ ~(i < at) /\ i + 1 = k /\ i - 1 \in 0 .. n /\ i \in 0 .. n
      BY <2>4
    <3>2. w[k] = v[i] /\ v[i] \in Nat
      BY <3>1
    <3>3. h[k] = f[i] + w[at] /\ h[i] = f[i - 1] + w[at]
      BY <1>1, <2>1, <2>4, <3>1
    <3>4. f[i] = f[i - 1] + v[i] /\ f[i - 1] \in Nat
      BY <1>2, <3>1
    <3> DEFINE a == f[i - 1] b == v[i] c == w[at]
    <3>5. h[k] = (a + b) + c /\ h[i] = a + c /\ w[k] = b /\ a \in Nat /\ b \in Nat /\ c \in Nat
      BY <3>2, <3>3, <3>4
    <3> HIDE DEF a, b, c
    <3>. QED
      BY <3>5
  <2>. QED
    BY <2>2, <2>3, <2>4
<1>5. \A k \in 0 .. n + 1 : h[k] = g[k]
  <2>1. n + 1 \in Nat
    OBVIOUS
  <2>. QED
    BY <1>3, <1>4, <2>1, SumsAgree
<1>6. n + 1 \in 0 .. n + 1 /\ ~(n + 1 < at) /\ n + 1 - 1 = n
  OBVIOUS
<1>. QED
  BY <1>1, <1>5, <1>6

LEMMA SumChanged ==
    ASSUME NEW n \in Nat, NEW v, NEW w, NEW f, NEW g, AddsUp(f, v, n), AddsUp(g, w, n),
           NEW at \in 1 .. n, w[at] <= v[at] + 1,
           \A j \in 1 .. n : v[j] \in Nat /\ w[j] \in Nat,
           \A j \in 1 .. n : j # at => w[j] = v[j]
    PROVE  g[n] <= f[n] + 1
<1> DEFINE T == {k \in 0 .. n : g[k] <= f[k] + (IF k < at THEN 0 ELSE 1)}
<1>1. 0 \in T
  BY DEF AddsUp
<1>2. ASSUME NEW k \in 0 .. n - 1, k \in T PROVE k + 1 \in T
  <2>1. k + 1 \in 1 .. n /\ k + 1 \in 0 .. n /\ k + 1 - 1 = k /\ k \in 0 .. n
    OBVIOUS
  <2>2. g[k + 1] = g[k] + w[k + 1] /\ f[k + 1] = f[k] + v[k + 1]
    BY <2>1 DEF AddsUp
  <2> DEFINE a == f[k] b == g[k] c == v[k + 1] d == w[k + 1]
  <2>3. a \in Nat /\ b \in Nat /\ c \in Nat /\ d \in Nat
    BY <2>1 DEF AddsUp
  <2>4. b <= a + (IF k < at THEN 0 ELSE 1)
    BY <1>2
  <2>5. IF k + 1 = at THEN d <= c + 1 ELSE d = c
    BY <2>1
  <2>6. g[k + 1] = b + d /\ f[k + 1] = a + c
    BY <2>2
  <2> HIDE DEF a, b, c, d, T
  <2>7. b + d <= (a + c) + (IF k + 1 < at THEN 0 ELSE 1)
    BY <2>3, <2>4, <2>5
  <2>8. g[k + 1] <= f[k + 1] + (IF k + 1 < at THEN 0 ELSE 1)
    BY <2>6, <2>7
  <2>. QED
    BY <2>1, <2>8 DEF T
<1> HIDE DEF T
<1>3. \A k \in 0 .. n : k \in T
  BY <1>1, <1>2, Upwards
<1>4. n \in T /\ ~(n < at)
  BY <1>3
<1>. QED
  BY <1>4 DEF T

\* The words of a text are those of its items.
WordsOf(body) == [k \in 1 .. Len(body) |-> Words(body[k])]

LEMMA WordsAddUp ==
    ASSUME NEW body, IsText(body)
    PROVE  /\ \A k \in 1 .. Len(body) : Words(body[k]) \in Nat
           /\ \E f : AddsUp(f, WordsOf(body), Len(body)) /\ WordCount(body) = f[Len(body)]
<1> DEFINE N == Len(body)
           w == WordsOf(body)
           Is(f) == f = [k \in 0 .. N |-> IF k = 0 THEN 0 ELSE f[k - 1] + Words(body[k])]
           B == CHOOSE f : Is(f)
<1>1. \A k \in 1 .. N : Words(body[k]) \in Nat
  <2> SUFFICES ASSUME NEW k \in 1 .. N PROVE Words(body[k]) \in Nat
    OBVIOUS
  <2>1. IsItem(body[k])
    BY TextIs
  <2>2. CASE body[k].kind \in {"cite", "footcite", "nocite"}
    <3>1. Cardinality(body[k].arg) \in Nat
      BY <2>1, <2>2, FS_CardinalityType DEF IsItem
    <3>. QED
      BY <2>2, <3>1 DEF Words
  <2>. QED
    BY <2>1, <2>2 DEF Words, IsItem
<1>2. N \in Nat /\ \A k \in 1 .. N : w[k] = Words(body[k]) /\ w[k] \in Nat
  BY <1>1, TextIs DEF WordsOf
<1>3. WordCount(body) = B[N]
  BY DEF WordCount
<1> HIDE DEF w
<1>4. PICK f : f = [k \in 0 .. N |-> IF k = 0 THEN 0 ELSE f[k - 1] + w[k]] /\ AddsUp(f, w, N)
  <2> HIDE DEF N
  <2>. QED
    BY <1>2, SumOf
<1>5. Is(f)
  BY <1>2, <1>4
<1>6. Is(B)
  <2> HIDE DEF Is
  <2>. QED
    BY <1>5
<1>7. B[0] = 0 /\ \A k \in 1 .. N : B[k] = B[k - 1] + w[k]
  <2> HIDE DEF B
  <2>. QED
    BY <1>2, <1>6
<1> HIDE DEF B, Is
<1>8. B[N] = f[N]
  <2>1. N \in 0 .. N
    BY <1>2
  <2> HIDE DEF N
  <2>. QED
    BY <1>2, <1>4, <1>7, <2>1, SumsAgree
<1>. QED
  BY <1>1, <1>3, <1>4, <1>8 DEF w

\* A citation is two words: its command and its key.
LEMMA WordsGain ==
    ASSUME NEW old, NEW new, NEW at, NEW key, Gains(old, new, at, key)
    PROVE  /\ WordCount(old) \in Nat /\ WordCount(new) \in Nat
           /\ WordCount(new) <= WordCount(old) + 2
<1> DEFINE n == Len(old)
           m == Len(new)
           v == WordsOf(old)
           w == WordsOf(new)
<1>1. /\ n \in Nat /\ m \in Nat /\ at \in 1 .. m /\ IsText(old) /\ IsText(new)
      /\ IsItem(new[at]) /\ new[at].kind = "cite"
  BY TextIs DEF Gains, Grown
<1>2. PICK f : AddsUp(f, v, n) /\ WordCount(old) = f[n]
  BY <1>1, WordsAddUp
<1>3. PICK g : AddsUp(g, w, m) /\ WordCount(new) = g[m]
  BY <1>1, WordsAddUp
<1>4. /\ \A k \in 1 .. n : v[k] = Words(old[k]) /\ v[k] \in Nat
      /\ \A k \in 1 .. m : w[k] = Words(new[k]) /\ w[k] \in Nat
  BY <1>1, WordsAddUp DEF WordsOf
<1>5. w[at] = 1 + Cardinality(new[at].arg)
  BY <1>1, <1>4 DEF Words
<1> HIDE DEF v, w
<1>6. f[n] \in Nat /\ g[m] \in Nat
  <2>1. n \in 0 .. n /\ m \in 0 .. m
    BY <1>1
  <2>. QED
    BY <1>2, <1>3, <2>1 DEF AddsUp
<1>7. CASE m = n + 1 /\ new[at].arg = {key}
           /\ \A j \in 1 .. n : new[IF j < at THEN j ELSE j + 1] = old[j]
  <2>1. w[at] = 2
    <3>1. Cardinality({key}) = 1
      BY FS_Singleton
    <3>2. new[at].arg = {key}
      BY <1>7
    <3>3. w[at] = 1 + Cardinality({key})
      BY <1>5, <3>2
    <3>. QED
      BY <3>1, <3>3
  <2> HIDE DEF m, n
  <2>2. \A j \in 1 .. n : (IF j < at THEN j ELSE j + 1) \in 1 .. m
    BY <1>1, <1>7
  <2>3. \A j \in 1 .. n : v[j] \in Nat /\ w[IF j < at THEN j ELSE j + 1] = v[j]
    <3> SUFFICES ASSUME NEW j \in 1 .. n
                 PROVE  v[j] \in Nat /\ w[IF j < at THEN j ELSE j + 1] = v[j]
      OBVIOUS
    <3> DEFINE i == IF j < at THEN j ELSE j + 1
    <3>1. i \in 1 .. m /\ new[i] = old[j]
      BY <1>7, <2>2
    <3> HIDE DEF i
    <3>2. w[i] = Words(new[i]) /\ v[j] = Words(old[j]) /\ v[j] \in Nat
      BY <1>4, <3>1
    <3>3. w[i] = v[j] /\ v[j] \in Nat
      BY <3>1, <3>2
    <3>. QED
      BY <3>3 DEF i
  <2>4. AddsUp(g, w, n + 1) /\ at \in 1 .. n + 1
    BY <1>1, <1>3, <1>7
  <2>5. g[n + 1] = f[n] + w[at]
    BY <1>1, <1>2, <2>1, <2>3, <2>4, SumInserted
  <2>6. g[m] = f[n] + 2
    BY <1>7, <2>1, <2>5
  <2>. QED
    BY <1>2, <1>3, <1>6, <2>6 DEF m, n
<1>8. CASE m = n /\ old[at].kind = "cite" /\ new[at].arg = old[at].arg \cup {key}
           /\ \A j \in 1 .. n : j # at => new[j] = old[j]
  <2>1. IsItem(old[at]) /\ IsFiniteSet(old[at].arg)
    <3>1. IsItem(old[at])
      BY <1>1, <1>8, TextIs
    <3>. QED
      BY <1>8, <3>1 DEF IsItem
  <2>2. /\ Cardinality(old[at].arg) \in Nat
        /\ Cardinality(new[at].arg) <= Cardinality(old[at].arg) + 1
        /\ Cardinality(new[at].arg) \in Nat
    <3> DEFINE A == old[at].arg
               B == new[at].arg
    <3>1. B = A \cup {key} /\ IsFiniteSet(A)
      BY <1>8, <2>1
    <3> HIDE DEF A, B
    <3>2. IsFiniteSet(B) /\ Cardinality(B) = IF key \in A THEN Cardinality(A) ELSE Cardinality(A) + 1
      BY <3>1, FS_AddElement
    <3>3. Cardinality(A) \in Nat /\ Cardinality(B) \in Nat
      BY <3>1, <3>2, FS_CardinalityType
    <3>4. Cardinality(B) <= Cardinality(A) + 1
      BY <3>2, <3>3
    <3>. QED
      BY <3>3, <3>4 DEF A, B
  <2>3. v[at] = 1 + Cardinality(old[at].arg)
    BY <1>1, <1>4, <1>8 DEF Words
  <2>4. w[at] <= v[at] + 1
    <3> DEFINE c == Cardinality(old[at].arg)
               d == Cardinality(new[at].arg)
    <3>1. v[at] = 1 + c /\ w[at] = 1 + d
      BY <1>5, <2>3
    <3>2. c \in Nat /\ d \in Nat /\ d <= c + 1
      BY <2>2
    <3> HIDE DEF c, d
    <3>. QED
      BY <3>1, <3>2
  <2> HIDE DEF m, n
  <2>5. /\ \A j \in 1 .. n : v[j] \in Nat /\ w[j] \in Nat
        /\ \A j \in 1 .. n : j # at => w[j] = v[j]
    BY <1>4, <1>8
  <2>6. AddsUp(g, w, n) /\ at \in 1 .. n
    BY <1>1, <1>3, <1>8
  <2>7. g[n] <= f[n] + 1
    BY <1>1, <1>2, <2>4, <2>5, <2>6, SumChanged
  <2>8. g[m] <= f[n] + 1
    BY <1>8, <2>7
  <2>. QED
    BY <1>2, <1>3, <1>6, <2>8 DEF m, n
<1>. QED
  BY <1>1, <1>7, <1>8 DEF Gains, Grown

\* A paragraph that has the citation is not without one; the others are as
\* they were.
LEMMA ParagraphsGain ==
    ASSUME NEW old, NEW new, NEW at, NEW key, Gains(old, new, at, key),
           ParagraphsWithoutCite(old) = {}
    PROVE  ParagraphsWithoutCite(new) = {}
<1> DEFINE p == Place(old, new, at)
           n == Len(old)
           m == Len(new)
           Cuts(body) == {0} \cup Of(body, {"par"}) \cup {Len(body) + 1}
           After(body, c) == {d \in Cuts(body) : d > c}
           cuts == Cuts(old)
<1>1. /\ n \in Nat /\ m \in Nat /\ p[0] = 0 /\ p[n + 1] = m + 1
      /\ \A i \in 0 .. n + 1 : p[i] \in 0 .. m + 1
      /\ \A i \in 0 .. n + 1 : \A j \in 0 .. n + 1 : i < j <=> p[i] < p[j]
  BY PlaceIs DEF Gains
<1>2. /\ Of(old, {"par"}) \subseteq 1 .. n
      /\ Of(new, {"par"}) = {p[i] : i \in Of(old, {"par"})}
  BY OthersStay DEF Gains
<1>3. \A body : Paragraphs(body) =
        {Between(body, c, Min(After(body, c))) : c \in Cuts(body) \ {Max(Cuts(body))}}
  BY DEF Paragraphs, Between
<1>4. cuts \subseteq 0 .. n + 1 /\ 0 \in cuts /\ n + 1 \in cuts
  BY <1>1, <1>2
<1>5. Cuts(new) = {p[i] : i \in cuts}
  <2>1. 0 = p[0] /\ Len(new) + 1 = p[n + 1]
    BY <1>1
  <2> HIDE DEF p
  <2>. QED
    BY <1>2, <2>1
<1>6. Max(cuts) = n + 1 /\ Max(Cuts(new)) = m + 1
  <2>1. ASSUME NEW N \in Nat, NEW S \in SUBSET (0 .. N), N \in S PROVE Max(S) = N
    <3> DEFINE g == Max(S)
    <3>1. g \in S /\ \A k \in S : k <= g
      BY <2>1, MaxIs
    <3> HIDE DEF g
    <3>2. g \in 0 .. N /\ N <= g
      BY <2>1, <3>1
    <3>3. g = N
      BY <3>2
    <3>. QED
      BY <3>3 DEF g
  <2>2. Cuts(new) \in SUBSET (0 .. m + 1) /\ m + 1 \in Cuts(new) /\ m + 1 \in Nat /\ n + 1 \in Nat
    <3> HIDE DEF p, cuts, n
    <3>1. \A i \in cuts : p[i] \in 0 .. m + 1
      BY <1>1, <1>4
    <3>2. n + 1 \in cuts /\ p[n + 1] = m + 1 /\ m + 1 \in Nat /\ n + 1 \in Nat
      BY <1>1, <1>4
    <3> HIDE DEF Cuts, m
    <3>. QED
      BY <1>5, <3>1, <3>2
  <2> HIDE DEF Cuts, cuts, n, m
  <2>. QED
    BY <1>4, <2>1, <2>2
<1> HIDE DEF p, Cuts, cuts
<1> SUFFICES ASSUME NEW q \in Paragraphs(new), WordCount(q) >= 150,
                    Of(q, {"cite", "footcite"}) = {}
             PROVE  FALSE
  BY DEF ParagraphsWithoutCite
<1>7. PICK x \in Cuts(new) \ {m + 1} : q = Between(new, x, Min(After(new, x)))
  BY <1>3, <1>6
<1>8. PICK c \in cuts : x = p[c]
  BY <1>5, <1>7
<1>9. c \in 0 .. n + 1 /\ c # n + 1 /\ c < n + 1
  <2>1. c \in 0 .. n + 1 /\ c # n + 1
    BY <1>1, <1>4, <1>7, <1>8
  <2>. QED
    BY <1>1, <2>1
<1> DEFINE rest == After(old, c)
           d == Min(rest)
<1>10. /\ rest \in SUBSET (0 .. n + 1) /\ rest # {}
       /\ After(new, x) = {p[i] : i \in rest}
  <2>1. n + 1 \in rest
    BY <1>4, <1>9 DEF cuts
  <2>2. \A i \in cuts : i > c <=> p[i] > p[c]
    <3>1. \A i \in cuts : i \in 0 .. n + 1
      BY <1>4
    <3> HIDE DEF n
    <3>. QED
      BY <1>1, <1>9, <3>1
  <2>3. After(new, x) = {p[i] : i \in rest}
    BY <1>5, <1>8, <2>2 DEF cuts
  <2>. QED
    BY <1>4, <2>1, <2>3 DEF cuts
<1> HIDE DEF rest
<1>11. d \in rest /\ Min(After(new, x)) = p[d]
  <2>1. /\ n + 1 \in Nat /\ \A i \in 0 .. n + 1 : p[i] \in Nat
    BY <1>1
  <2> HIDE DEF n, After
  <2>. QED
    BY <1>1, <1>10, <2>1, LeastMoves
<1>12. d \in 0 .. n + 1 /\ c < d
  BY <1>10, <1>11 DEF rest
<1>13. q = Between(new, p[c], p[d])
  BY <1>7, <1>8, <1>11
<1>14. Between(old, c, d) \in Paragraphs(old)
  BY <1>3, <1>6, <1>8, <1>9 DEF cuts, rest
<1> HIDE DEF d
<1>15. q = Between(old, c, d) \/ \E k : Gains(Between(old, c, d), q, k, key)
  BY <1>9, <1>12, <1>13, PartGains DEF p
<1>16. CASE q = Between(old, c, d)
  BY <1>14, <1>16 DEF ParagraphsWithoutCite
<1>17. ASSUME NEW k, Gains(Between(old, c, d), q, k, key) PROVE FALSE
  <2>1. k \in Of(q, {"cite", "footcite"})
    BY <1>17, TextIs DEF Gains, Grown, Of
  <2>. QED
    BY <2>1
<1>. QED
  BY <1>15, <1>16, <1>17

\* A part of a text cites nothing the text does not cite.
LEMMA KeysOfPart ==
    ASSUME NEW body, IsText(body), NEW a \in 0 .. Len(body) + 1,
           NEW b \in 0 .. Len(body) + 1, a < b
    PROVE  IsText(Between(body, a, b)) /\ CiteKeys(Between(body, a, b)) \subseteq CiteKeys(body)
<1> DEFINE part == Between(body, a, b)
           l == Len(part)
           n == Len(body)
           Citing(x) == {k \in 1 .. Len(x) : x[k].kind \in {"cite", "footcite"}}
<1>1. IsText(part) /\ l = b - a - 1 /\ \A j \in 1 .. l : part[j] = body[a + j]
  BY BetweenIs
<1>2. n \in Nat /\ a \in 0 .. n + 1 /\ b \in 0 .. n + 1
  BY TextIs
<1>3. /\ CiteKeys(part) = UNION {part[k].arg : k \in Citing(part)}
      /\ CiteKeys(body) = UNION {body[k].arg : k \in Citing(body)}
  BY <1>1, KeysAre
<1> HIDE DEF part
<1>4. \A k \in Citing(part) : a + k \in Citing(body) /\ body[a + k].arg = part[k].arg
  <2> SUFFICES ASSUME NEW k \in Citing(part)
               PROVE  a + k \in Citing(body) /\ body[a + k].arg = part[k].arg
    OBVIOUS
  <2>1. k \in 1 .. l /\ part[k] = body[a + k] /\ part[k].kind \in {"cite", "footcite"}
    BY <1>1
  <2>2. a + k \in 1 .. n
    <3> HIDE DEF l, n
    <3>. QED
      BY <1>1, <1>2, <2>1
  <2>. QED
    BY <2>1, <2>2
<1> HIDE DEF Cites
<1>5. CiteKeys(part) \subseteq CiteKeys(body)
  BY <1>3, <1>4
<1>. QED
  BY <1>1, <1>5 DEF part

\* The greater of two numbers.
LEMMA MaxOfTwo ==
    ASSUME NEW a \in Int, NEW b \in Int
    PROVE  Max({a, b}) = IF a >= b THEN a ELSE b
<1>1. \E x \in {a, b} : \A y \in {a, b} : x >= y
  <2>1. CASE a >= b
    BY <2>1
  <2>2. CASE ~(a >= b)
    BY <2>2
  <2>. QED
    BY <2>1, <2>2
<1>2. Max({a, b}) \in {a, b} /\ \A y \in {a, b} : Max({a, b}) >= y
  BY <1>1 DEF Max
<1>. QED
  BY <1>2

\* A text an item is put into has one item more.
LEMMA InsertGrows ==
    ASSUME NEW old, IsText(old), NEW x, IsItem(x), NEW k \in 1 .. Len(old) + 1
    PROVE  LET new == InsertAt(old, k, x)
           IN /\ Grown(old, new, k) /\ Len(new) = Len(old) + 1 /\ new[k] = x
<1> DEFINE new == InsertAt(old, k, x)
           U == ToSet(old) \cup {x}
<1>1. old \in Seq(U) /\ x \in U
  BY SeqMonotonic DEF IsText
<1>2. /\ Len(new) = Len(old) + 1
      /\ \A j \in 1 .. Len(old) + 1 :
           new[j] = IF j < k THEN old[j] ELSE IF j = k THEN x ELSE old[j - 1]
  <2> HIDE DEF U
  <2>. QED
    BY <1>1, InsertIs
<1>3. IsText(new)
  BY InsertedIsText
<1>4. Len(old) \in Nat
  BY TextIs
<1> HIDE DEF new
<1>5. \A j \in 1 .. Len(old) : new[IF j < k THEN j ELSE j + 1] = old[j]
  <2> SUFFICES ASSUME NEW j \in 1 .. Len(old)
               PROVE  new[IF j < k THEN j ELSE j + 1] = old[j]
    OBVIOUS
  <2>1. CASE j < k
    <3>1. j \in 1 .. Len(old) + 1
      BY <1>4
    <3>. QED
      BY <1>2, <2>1, <3>1
  <2>2. CASE ~(j < k)
    <3>1. j + 1 \in 1 .. Len(old) + 1 /\ ~(j + 1 < k) /\ j + 1 # k /\ j + 1 - 1 = j
      BY <1>4, <2>2
    <3>. QED
      BY <1>2, <2>2, <3>1
  <2>. QED
    BY <2>1, <2>2
<1>6. new[k] = x
  BY <1>2, <1>4
<1>7. k \in 1 .. Len(new)
  BY <1>2
<1>. QED
  BY <1>2, <1>3, <1>5, <1>6, <1>7 DEF Grown, new

\* What a citation makes of a submission is that its text gains a key.
Gained(s, t) ==
    /\ \E at, key : key \notin CiteKeys(s.body) /\ Gains(s.body, t.body, at, key)
    /\ t.latex = s.latex /\ t.bib = s.bib /\ t.declared = s.declared

LEMMA CitesGains ==
    ASSUME NEW s, NEW t, IsSubmission(s), IsSubmission(t), Cites(s, t)
    PROVE  Gained(s, t)
<1> DEFINE body == s.body
           n == Len(body)
<1>1. /\ IsText(body) /\ IsText(t.body)
      /\ {"latex", "body", "bib", "declared"} \subseteq DOMAIN s
  BY DEF IsSubmission
<1>2. n \in Nat /\ DOMAIN body = 1 .. n /\ body \in Seq(ToSet(body))
      /\ \A k \in 1 .. n : IsItem(body[k])
  BY <1>1, TextIs DEF IsText
<1>3. PICK key : /\ key \notin CiteKeys(body)
                 /\ \/ \E k \in 0 .. n :
                         t = [s EXCEPT !.body = InsertAt(@, k + 1, Citation(key))]
                    \/ \E k \in Of(body, {"cite"}) :
                         t = [s EXCEPT !.body[k].arg = @ \cup {key}]
  BY DEF Cites
<1>4. ASSUME NEW k \in 0 .. n, t = [s EXCEPT !.body = InsertAt(@, k + 1, Citation(key))]
      PROVE  Gains(body, t.body, k + 1, key) /\ t = [s EXCEPT !.body = t.body]
  <2> DEFINE at == k + 1
             c == Citation(key)
             new == InsertAt(body, at, c)
  <2>1. t.body = new /\ t = [s EXCEPT !.body = new]
    BY <1>1, <1>4
  <2>2. at \in 1 .. Len(body) + 1 /\ IsItem(c) /\ c.kind = "cite" /\ c.arg = {key}
    <3>1. c = [kind |-> c.kind, arg |-> c.arg, literal |-> c.literal]
          /\ c.kind = "cite" /\ c.arg = {key}
      BY DEF Citation
    <3>2. IsFiniteSet({key})
      BY FS_Singleton
    <3>3. at \in 1 .. Len(body) + 1
      BY <1>2
    <3> HIDE DEF c
    <3>. QED
      BY <3>1, <3>2, <3>3 DEF IsItem, Headings
  <2> HIDE DEF at, c, body
  <2>3. Grown(body, new, at) /\ Len(new) = Len(body) + 1 /\ new[at] = c
    BY <1>1, <2>2, InsertGrows
  <2>4. Len(new) # Len(body)
    <3>1. Len(body) \in Nat
      BY <1>1, TextIs
    <3>. QED
      BY <2>3, <3>1
  <2> HIDE DEF new
  <2>5. Gains(body, new, at, key)
    BY <2>2, <2>3, <2>4 DEF Gains
  <2>. QED
    BY <2>1, <2>5 DEF at
<1>5. ASSUME NEW k \in Of(body, {"cite"}), t = [s EXCEPT !.body[k].arg = @ \cup {key}]
      PROVE  Gains(body, t.body, k, key) /\ t = [s EXCEPT !.body = t.body]
  <2> DEFINE y == [body[k] EXCEPT !.arg = @ \cup {key}]
             new == [body EXCEPT ![k] = y]
  <2>1. t.body = new /\ t = [s EXCEPT !.body = new]
    BY <1>1, <1>5
  <2>2. k \in 1 .. n /\ body[k].kind = "cite" /\ IsItem(body[k])
    BY <1>2 DEF Of
  <2>3. y.kind = "cite" /\ y.arg = body[k].arg \cup {key}
    BY <2>2 DEF IsItem
  <2> HIDE DEF y
  <2>4. DOMAIN new = 1 .. n /\ new[k] = y /\ \A j \in 1 .. n : j # k => new[j] = body[j]
    BY <1>2, <2>2
  <2> HIDE DEF new
  <2>5. Len(new) = n
    <3>1. IsText(new)
      BY <1>1, <2>1
    <3>2. Len(new) \in Nat /\ DOMAIN new = 1 .. Len(new)
      BY <3>1, TextIs
    <3> DEFINE m == Len(new)
    <3>3. m \in Nat /\ 1 .. m = 1 .. n
      BY <2>4, <3>2
    <3> HIDE DEF m, n
    <3>4. m # 0 => m \in 1 .. m
      BY <3>3
    <3>5. n # 0 => n \in 1 .. n
      BY <1>2
    <3>6. (m # 0 => m \in 1 .. n) /\ (n # 0 => n \in 1 .. m)
      BY <3>3, <3>4, <3>5, Zenon
    <3>7. (m # 0 => m <= n) /\ (n # 0 => n <= m)
      BY <1>2, <3>3, <3>6
    <3>8. m = n
      BY <1>2, <3>3, <3>6, <3>7
    <3>. QED
      BY <3>8 DEF m
  <2>6. Gains(body, new, k, key)
    BY <1>1, <2>1, <2>2, <2>3, <2>4, <2>5 DEF Gains, Grown
  <2>. QED
    BY <2>1, <2>6
<1>6. /\ \E at : Gains(body, t.body, at, key)
      /\ t = [s EXCEPT !.body = t.body]
  BY <1>3, <1>4, <1>5
<1>7. t.latex = s.latex /\ t.bib = s.bib /\ t.declared = s.declared
  BY <1>1, <1>6
<1>. QED
  BY <1>3, <1>6, <1>7 DEF Gained

\* The section a rule is about: what was there is a part of the text, and what
\* is there now is the same, or gained the key.
LEMMA ReviewGains ==
    ASSUME NEW s, NEW t, NEW at, NEW key, key \notin CiteKeys(s.body),
           Gains(s.body, t.body, at, key), NEW title
    PROVE  LET was == SectionBody(s.body, title)
               is == SectionBody(t.body, title)
           IN /\ is.found = was.found
              /\ was.found => /\ IsText(was.text) /\ key \notin CiteKeys(was.text)
                              /\ \/ is.text = was.text
                                 \/ \E k : Gains(was.text, is.text, k, key)
<1>1. IsText(s.body)
  BY DEF Gains, Grown
<1> HIDE DEF Gains
<1>2. SectionBody(s.body, title).found =>
        \E a \in 0 .. Len(s.body) + 1, b \in 0 .. Len(s.body) + 1 :
          a < b /\ SectionBody(s.body, title).text = Between(s.body, a, b)
  BY SectionGains
<1>3. SectionBody(s.body, title).found =>
        /\ IsText(SectionBody(s.body, title).text)
        /\ CiteKeys(SectionBody(s.body, title).text) \subseteq CiteKeys(s.body)
  BY <1>1, <1>2, KeysOfPart
<1>. QED
  BY <1>3, SectionGains

\* More keys are not fewer.
LEMMA MoreKeys ==
    ASSUME NEW A, NEW key, IsFiniteSet(A), key \notin A
    PROVE  /\ Cardinality(A) \in Nat /\ Cardinality(A \cup {key}) = Cardinality(A) + 1
           /\ Cardinality(A \cup {key}) \in Nat
BY FS_AddElement, FS_CardinalityType

\* Entries of finitely many keys are finitely many.
LEMMA EntriesAreFinite ==
    ASSUME NEW sub, NEW K, IsFiniteSet(K)
    PROVE  IsFiniteSet(Known(sub, K))
<1> DEFINE D == {k \in K : \E e \in Entries(sub) : e.key = k}
           T == Known(sub, K)
           f == [k \in D |-> EntryOf(sub, k)]
<1>1. IsFiniteSet(D)
  BY FS_Subset
<1>2. T = {EntryOf(sub, k) : k \in D}
  BY DEF Known
<1>3. f \in Surjection(D, T)
  <2>1. \A k \in D : f[k] = EntryOf(sub, k)
    OBVIOUS
  <2>2. f \in [D -> T] /\ \A x \in T : \E k \in D : f[k] = x
    BY <1>2
  <2> HIDE DEF f, D, T
  <2>. QED
    BY <2>2 DEF Surjection
<1> HIDE DEF f, D, T
<1>4. IsFiniteSet(T)
  BY <1>1, <1>3, FS_Surjection
<1>. QED
  BY <1>4 DEF T

\* REV-01: the review cites no fewer sources.
LEMMA Rev01Gains ==
    ASSUME NEW s, NEW t, Gained(s, t), Rev01(t) = "warn"
    PROVE  Rev01(s) = "warn"
<1> DEFINE was == SectionBody(s.body, Review)
           is == SectionBody(t.body, Review)
<1>1. PICK at, key : key \notin CiteKeys(s.body) /\ Gains(s.body, t.body, at, key)
  BY DEF Gained
<1>2. /\ is.found = was.found
      /\ was.found => /\ IsText(was.text) /\ key \notin CiteKeys(was.text)
                      /\ is.text = was.text \/ \E k : Gains(was.text, is.text, k, key)
  BY <1>1, ReviewGains
<1>3. /\ Rev01(s) = IF was.found THEN Warn(Cardinality(CiteKeys(was.text)) < MinSources)
                    ELSE "not_applicable"
      /\ Rev01(t) = IF is.found THEN Warn(Cardinality(CiteKeys(is.text)) < MinSources)
                    ELSE "not_applicable"
  BY DEF Rev01, OfReview
<1> HIDE DEF was, is
<1>4. was.found /\ Cardinality(CiteKeys(is.text)) < MinSources
  BY <1>2, <1>3 DEF Warn
<1>5. CASE is.text = was.text
  BY <1>3, <1>4, <1>5 DEF Warn
<1>6. ASSUME NEW k, Gains(was.text, is.text, k, key)
      PROVE  Rev01(s) = "warn"
  <2> DEFINE A == CiteKeys(was.text)
             B == CiteKeys(is.text)
             a == Cardinality(A)
             b == Cardinality(B)
  <2>1. B = A \cup {key} /\ IsFiniteSet(A) /\ key \notin A
    BY <1>2, <1>4, <1>6, KeysGain, KeysAre
  <2> HIDE DEF A, B
  <2>2. a \in Nat /\ b = a + 1
    BY <2>1, MoreKeys
  <2>3. b < MinSources
    BY <1>4 DEF B
  <2> HIDE DEF a, b
  <2>4. a < MinSources
    BY <2>2, <2>3, MinimaAssumption
  <2>. QED
    BY <1>3, <1>4, <2>4 DEF a, A, Warn
<1>. QED
  BY <1>2, <1>4, <1>5, <1>6

\* REV-02: nor fewer foreign ones.
LEMMA Rev02Gains ==
    ASSUME NEW s, NEW t, Gained(s, t), Rev02(t) = "warn"
    PROVE  Rev02(s) = "warn"
<1> DEFINE was == SectionBody(s.body, Review)
           is == SectionBody(t.body, Review)
           Foreign(sub, text) == {e \in Cited(sub, text) :
                                    e.foreign /\ e.type \in {"article", "inproceedings"}}
<1>1. PICK at, key : key \notin CiteKeys(s.body) /\ Gains(s.body, t.body, at, key)
  BY DEF Gained
<1>2. /\ is.found = was.found
      /\ was.found => /\ IsText(was.text) /\ key \notin CiteKeys(was.text)
                      /\ is.text = was.text \/ \E k : Gains(was.text, is.text, k, key)
  BY <1>1, ReviewGains
<1>3. t.bib = s.bib
  BY DEF Gained
<1>4. \A K : Known(t, K) = Known(s, K)
  BY <1>3 DEF Known, Entries, EntryOf
<1>5. /\ Rev02(s) = IF was.found THEN Warn(Cardinality(Foreign(s, was.text)) < MinForeign)
                    ELSE "not_applicable"
      /\ Rev02(t) = IF is.found THEN Warn(Cardinality(Foreign(t, is.text)) < MinForeign)
                    ELSE "not_applicable"
  BY DEF Rev02, OfReview
<1>6. \A text : Foreign(t, text) = Foreign(s, text)
  BY <1>4 DEF Cited
<1> HIDE DEF was, is, Foreign
<1>7. was.found /\ Cardinality(Foreign(s, is.text)) < MinForeign
  BY <1>2, <1>5, <1>6 DEF Warn
<1>8. CASE is.text = was.text
  BY <1>5, <1>7, <1>8 DEF Warn
<1>9. ASSUME NEW k, Gains(was.text, is.text, k, key)
      PROVE  Rev02(s) = "warn"
  <2> DEFINE A == CiteKeys(was.text)
             B == CiteKeys(is.text)
             P == Foreign(s, was.text)
             Q == Foreign(s, is.text)
             a == Cardinality(P)
             b == Cardinality(Q)
  <2>1. B = A \cup {key} /\ IsFiniteSet(A) /\ IsFiniteSet(B) /\ A \subseteq B
    <3>1. B = A \cup {key} /\ IsFiniteSet(A)
      BY <1>2, <1>7, <1>9, KeysGain, KeysAre
    <3> HIDE DEF A, B
    <3>. QED
      BY <3>1, FS_AddElement
  <2>2. P \subseteq Q /\ Q \subseteq Known(s, B)
    BY <2>1 DEF Foreign, Cited, Known
  <2>3. IsFiniteSet(Known(s, B))
    <3> HIDE DEF B
    <3>. QED
      BY <2>1, EntriesAreFinite
  <2> HIDE DEF P, Q, A, B
  <2>4. IsFiniteSet(Q)
    BY <2>2, <2>3, FS_Subset
  <2>5. IsFiniteSet(P) /\ a <= b
    BY <2>2, <2>4, FS_Subset
  <2>6. a \in Nat /\ b \in Nat
    BY <2>4, <2>5, FS_CardinalityType
  <2>7. b < MinForeign
    BY <1>7 DEF Q
  <2> HIDE DEF a, b
  <2>8. a < MinForeign
    BY <2>5, <2>6, <2>7, MinimaAssumption
  <2>. QED
    BY <1>5, <1>7, <2>8 DEF a, P, Warn
<1>. QED
  BY <1>2, <1>7, <1>8, <1>9

\* REV-07: a key more is worth 300 words, and a citation has two.
LEMMA Rev07Gains ==
    ASSUME NEW s, NEW t, Gained(s, t), Rev07(t) = "warn"
    PROVE  Rev07(s) = "warn"
<1> DEFINE was == SectionBody(s.body, Review)
           is == SectionBody(t.body, Review)
           Few(text) == Cardinality(CiteKeys(text)) < Max({1, WordCount(text) \div 300})
<1>1. PICK at, key : key \notin CiteKeys(s.body) /\ Gains(s.body, t.body, at, key)
  BY DEF Gained
<1>2. /\ is.found = was.found
      /\ was.found => /\ IsText(was.text) /\ key \notin CiteKeys(was.text)
                      /\ is.text = was.text \/ \E k : Gains(was.text, is.text, k, key)
  BY <1>1, ReviewGains
<1>3. /\ Rev07(s) = IF was.found
                    THEN Warn(Few(was.text) \/ ParagraphsWithoutCite(was.text) # {})
                    ELSE "not_applicable"
      /\ Rev07(t) = IF is.found
                    THEN Warn(Few(is.text) \/ ParagraphsWithoutCite(is.text) # {})
                    ELSE "not_applicable"
  BY DEF Rev07, OfReview
<1> HIDE DEF was, is, Few
<1>4. was.found /\ (Few(is.text) \/ ParagraphsWithoutCite(is.text) # {})
  BY <1>2, <1>3 DEF Warn
<1>5. CASE is.text = was.text
  BY <1>3, <1>4, <1>5 DEF Warn
<1>6. ASSUME NEW k, Gains(was.text, is.text, k, key), Few(is.text)
      PROVE  Few(was.text)
  <2> DEFINE A == CiteKeys(was.text)
             B == CiteKeys(is.text)
             a == Cardinality(A)
             b == Cardinality(B)
             v == WordCount(was.text)
             w == WordCount(is.text)
             x == v \div 300
             y == w \div 300
  <2>1. B = A \cup {key} /\ IsFiniteSet(A) /\ key \notin A
    BY <1>2, <1>4, <1>6, KeysGain, KeysAre
  <2>2. v \in Nat /\ w \in Nat /\ w <= v + 2
    BY <1>6, WordsGain
  <2>3. b < Max({1, y})
    BY <1>6 DEF Few
  <2>4. Few(was.text) = (a < Max({1, x}))
    BY DEF Few
  <2> HIDE DEF A, B, v, w
  <2>5. a \in Nat /\ b = a + 1
    BY <2>1, MoreKeys
  <2>6. x \in Int /\ y \in Int /\ y <= x + 1
    BY <2>2
  <2> HIDE DEF a, b, x, y
  <2>7. Max({1, x}) = (IF 1 >= x THEN 1 ELSE x) /\ Max({1, y}) = IF 1 >= y THEN 1 ELSE y
    BY <2>6, MaxOfTwo
  <2>8. a < Max({1, x})
    BY <2>3, <2>5, <2>6, <2>7
  <2>. QED
    BY <2>4, <2>8
<1>7. ASSUME NEW k, Gains(was.text, is.text, k, key)
      PROVE  Rev07(s) = "warn"
  <2>1. Few(was.text) \/ ParagraphsWithoutCite(was.text) # {}
    BY <1>4, <1>6, <1>7, ParagraphsGain
  <2>. QED
    BY <1>3, <1>4, <2>1 DEF Warn
<1>. QED
  BY <1>2, <1>4, <1>5, <1>7

\* BIB-05: more is cited of what is declared, and of what is hidden.
LEMMA Bib05Gains ==
    ASSUME NEW s, NEW t, Gained(s, t), Bib05(t) = "warn"
    PROVE  Bib05(s) = "warn"
<1>1. PICK at, key : Gains(s.body, t.body, at, key)
  BY DEF Gained
<1>2. t.bib = s.bib
  BY DEF Gained
<1>3. Entries(t) = Entries(s)
  BY <1>2 DEF Entries
<1>4. CiteKeys(s.body) \subseteq CiteKeys(t.body)
  BY <1>1, KeysGain
<1>5. NociteKeys(t.body) = NociteKeys(s.body)
  <2> DEFINE p == Place(s.body, t.body, at)
             old == Of(s.body, {"nocite"})
             new == Of(t.body, {"nocite"})
  <2>1. new = {p[i] : i \in old} /\ \A i \in old : t.body[p[i]] = s.body[i]
    BY <1>1, OthersStay DEF Gains
  <2>2. Items(t.body, {"nocite"}) = {t.body[i] : i \in new}
        /\ Items(s.body, {"nocite"}) = {s.body[i] : i \in old}
    BY DEF Items
  <2> HIDE DEF p, old, new
  <2>3. Items(t.body, {"nocite"}) = Items(s.body, {"nocite"})
    <3>1. \A x : x \in Items(t.body, {"nocite"}) <=> \E i \in old : x = s.body[i]
      BY <2>1, <2>2
    <3>2. \A x : x \in Items(s.body, {"nocite"}) <=> \E i \in old : x = s.body[i]
      BY <2>2
    <3>. QED
      BY <3>1, <3>2
  <2>. QED
    BY <2>3 DEF NociteKeys
<1>. QED
  BY <1>3, <1>4, <1>5 DEF Bib05, Warn

\* To cite one more source never costs a verdict of the rules that ask for
\* citations: they count what the review cites, and its words and paragraphs.
THEOREM CitingIsFree == Spec => []CitationNeverCosts
<1>1. IInv => CitationNeverCosts
  <2> SUFFICES ASSUME IInv, Revised("cited"), NEW r \in {"REV-01", "REV-02", "REV-07", "BIB-05"},
                      verdict[r] = "warn"
               PROVE  earlier[r] = "warn"
    BY DEF CitationNeverCosts
  <2>1. /\ IsSubmission(before) /\ IsSubmission(submission) /\ Cites(before, submission)
        /\ verdict[r] = Judged(submission, r) /\ earlier[r] = Judged(before, r)
    BY DEF IInv, Revised, Verdicts, RuleIds, BibIds
  <2>2. Gained(before, submission)
    BY <2>1, CitesGains
  <2>3. /\ submission.latex = before.latex /\ submission.bib = before.bib
        /\ submission.declared = before.declared
    BY <2>2 DEF Gained
  <2>4. Run(submission, r) = "warn" => Run(before, r) = "warn"
    BY <2>2, Rev01Gains, Rev02Gains, Rev07Gains, Bib05Gains DEF Run, FormatIds
  <2>. QED
    BY <2>1, <2>3, <2>4 DEF Judged, FormatIds
<1>. QED
  BY <1>1, VerdictsAreOfTheirText, PTL

-----------------------------------------------------------------------------
(* To put an object into a section                                         *)

\* One step through a text in search of headings, and what one has found.
Heading(x) == ~x.literal /\ x.kind \in Headings
Entry(x) == [title |-> x.arg, level |-> HeadingLevel(x.kind)]
Found(x, done) == IF Heading(x) THEN Append(done, Entry(x)) ELSE done
Titled == [title : DOMAIN KindOf, level : 1 .. 4]

FindsHeadings(f, body) ==
    /\ f[0] = <<>> /\ \A k \in 1 .. Len(body) : f[k] = Found(body[k], f[k - 1])
    /\ \A k \in 0 .. Len(body) : f[k] \in Seq(Titled)

LEMMA NothingFound == <<>> \in Seq(Titled)
<1> DEFINE T == Titled
<1> HIDE DEF T
<1>1. <<>> \in Seq(T)
  BY EmptySeq
<1>. QED
  BY <1>1 DEF T

LEMMA FoundIsTitled ==
    ASSUME NEW x, IsItem(x), NEW done \in Seq(Titled)
    PROVE  Found(x, done) \in Seq(Titled)
<1>1. HeadingLevel(x.kind) \in 1 .. 4
  BY DEF HeadingLevel
<1>2. CASE Heading(x)
  <2>1. Entry(x) \in Titled
    BY <1>1, <1>2 DEF Entry, Titled, Heading, IsItem
  <2>2. Append(done, Entry(x)) \in Seq(Titled)
    BY <2>1, AppendProperties
  <2>. QED
    BY <1>2, <2>2 DEF Found
<1>3. CASE ~Heading(x)
  BY <1>3 DEF Found
<1>. QED
  BY <1>2, <1>3

\* The headings of a text are found one by one; each has a kind.
LEMMA SectionsAre ==
    ASSUME NEW body, IsText(body)
    PROVE  \E f : FindsHeadings(f, body) /\ Sections(body) = f[Len(body)]
<1> DEFINE N == Len(body)
           Is(f) == f = [k \in 0 .. N |->
                           IF k = 0 THEN <<>>
                           ELSE IF body[k].literal \/ body[k].kind \notin Headings THEN f[k - 1]
                           ELSE Append(f[k - 1], [title |-> body[k].arg,
                                                  level |-> HeadingLevel(body[k].kind)])]
           B == CHOOSE f : Is(f)
           S == [k \in 0 .. N |-> Seq(Titled)]
           steps == [k \in 1 .. N |-> [x \in Seq(Titled) |-> Found(body[k], x)]]
<1>1. N \in Nat /\ \A k \in 1 .. N : IsItem(body[k])
  BY TextIs
<1>2. Sections(body) = B[N]
  BY DEF Sections
<1>3. /\ \A k \in 0 .. N : S[k] = Seq(Titled)
      /\ \A k \in 1 .. N : \A x \in Seq(Titled) : steps[k][x] = Found(body[k], x)
      /\ \A k \in 1 .. N : k - 1 \in 0 .. N /\ k \in 0 .. N
  BY <1>1
<1> HIDE DEF S, steps
<1>4. Leads(steps, N, S, <<>>)
  <2>1. <<>> \in S[0] /\ N \in Nat
    <3>1. 0 \in 0 .. N
      BY <1>1
    <3>2. S[0] = Seq(Titled)
      BY <1>3, <3>1
    <3>. QED
      BY <1>1, <3>2, NothingFound
  <2>2. ASSUME NEW k \in 1 .. N, NEW x \in S[k - 1] PROVE steps[k][x] \in S[k]
    <3>1. x \in Seq(Titled) /\ S[k] = Seq(Titled) /\ IsItem(body[k])
      BY <1>1, <1>3
    <3> HIDE DEF N
    <3>2. steps[k][x] = Found(body[k], x)
      BY <1>3, <3>1
    <3>. QED
      BY <3>1, <3>2, FoundIsTitled
  <2> HIDE DEF N
  <2>. QED
    BY <2>1, <2>2 DEF Leads
<1>5. PICK f : Follows(f, steps, N, S, <<>>)
  <2> HIDE DEF N
  <2>. QED
    BY <1>4, Recursion
<1>6. /\ f \in [0 .. N -> UNION {S[k] : k \in 0 .. N}]
      /\ f[0] = <<>> /\ \A k \in 1 .. N : f[k] = steps[k][f[k - 1]]
      /\ \A k \in 0 .. N : f[k] \in S[k]
  BY <1>5 DEF Follows
<1>7. \A k \in 0 .. N : f[k] \in Seq(Titled)
  BY <1>3, <1>6
<1>8. \A k \in 1 .. N : f[k] = Found(body[k], f[k - 1])
  <2> HIDE DEF N
  <2>. QED
    BY <1>3, <1>6, <1>7
<1>9. Is(f)
  <2>1. \A k \in 0 .. N : k = 0 \/ k \in 1 .. N
    BY <1>1
  <2>2. \A k \in 0 .. N : f[k] =
          IF k = 0 THEN <<>>
          ELSE IF body[k].literal \/ body[k].kind \notin Headings THEN f[k - 1]
          ELSE Append(f[k - 1], [title |-> body[k].arg, level |-> HeadingLevel(body[k].kind)])
    <3> HIDE DEF N
    <3>. QED
      BY <1>6, <1>8, <2>1 DEF Found, Heading, Entry
  <2>3. f = [k \in 0 .. N |-> f[k]]
    BY <1>6
  <2> HIDE DEF N
  <2>. QED
    BY <2>2, <2>3
<1>10. Is(B)
  <2> HIDE DEF Is
  <2>. QED
    BY <1>9
<1>11. B[0] = <<>> /\ \A k \in 1 .. N : B[k] = Found(body[k], B[k - 1])
  <2> HIDE DEF B
  <2>1. \A k \in 1 .. N : k # 0 /\ k \in 0 .. N
    BY <1>1
  <2>2. 0 \in 0 .. N
    BY <1>1
  <2> HIDE DEF N
  <2>. QED
    BY <1>10, <2>1, <2>2 DEF Found, Heading, Entry
<1> HIDE DEF B, Is
<1>12. \A k \in 0 .. N : B[k] \in Seq(Titled)
  <2> DEFINE T == {k \in 0 .. N : B[k] \in Seq(Titled)}
  <2>1. 0 \in T
    <3>1. 0 \in 0 .. N
      BY <1>1
    <3>. QED
      BY <1>11, <3>1, NothingFound
  <2>2. ASSUME NEW k \in 0 .. N - 1, k \in T PROVE k + 1 \in T
    <3>1. k + 1 \in 1 .. N /\ k + 1 \in 0 .. N /\ k + 1 - 1 = k
      BY <1>1
    <3>2. B[k + 1] = Found(body[k + 1], B[k]) /\ IsItem(body[k + 1]) /\ B[k] \in Seq(Titled)
      BY <1>1, <1>11, <2>2, <3>1
    <3>3. B[k + 1] \in Seq(Titled)
      BY <3>2, FoundIsTitled
    <3>. QED
      BY <3>1, <3>3
  <2> HIDE DEF T
  <2>3. \A k \in 0 .. N : k \in T
    <3> HIDE DEF N
    <3>. QED
      BY <1>1, <2>1, <2>2, Upwards
  <2>. QED
    BY <2>3 DEF T
<1>13. FindsHeadings(B, body)
  BY <1>11, <1>12 DEF FindsHeadings
<1>. QED
  BY <1>2, <1>13

\* An item that is no heading adds none.
LEMMA SectionsStay ==
    ASSUME NEW old, NEW new, NEW at, Grown(old, new, at), Len(new) = Len(old) + 1,
           new[at].kind \notin Headings
    PROVE  Sections(new) = Sections(old)
<1> DEFINE n == Len(old)
<1>1. /\ n \in Nat /\ at \in 1 .. n + 1
      /\ \A j \in 1 .. n : new[IF j < at THEN j ELSE j + 1] = old[j]
  BY TextIs DEF Grown
<1>2. PICK f : FindsHeadings(f, old) /\ Sections(old) = f[n]
  BY SectionsAre DEF Grown
<1>3. PICK g : FindsHeadings(g, new) /\ Sections(new) = g[n + 1]
  <2>1. \E g : FindsHeadings(g, new) /\ Sections(new) = g[Len(new)]
    BY SectionsAre DEF Grown
  <2>. QED
    BY <2>1
<1>4. f[0] = <<>> /\ \A k \in 1 .. n : f[k] = Found(old[k], f[k - 1])
  BY <1>2 DEF FindsHeadings
<1>5. g[0] = <<>> /\ \A k \in 1 .. n + 1 : g[k] = Found(new[k], g[k - 1])
  BY <1>3 DEF FindsHeadings
<1> HIDE DEF n
<1>6. g[at] = g[at - 1]
  BY <1>1, <1>5 DEF Found, Heading
<1> DEFINE T == {k \in 0 .. n : g[IF k < at THEN k ELSE k + 1] = f[k]}
<1>7. 0 \in T
  BY <1>1, <1>4, <1>5
<1>8. ASSUME NEW k \in 0 .. n - 1, k \in T PROVE k + 1 \in T
  <2>1. k + 1 \in 1 .. n /\ k + 1 \in 0 .. n /\ k + 1 - 1 = k /\ k \in Nat /\ at \in Nat
    BY <1>1
  <2>2. f[k + 1] = Found(old[k + 1], f[k])
    BY <1>4, <2>1
  <2>3. new[IF k + 1 < at THEN k + 1 ELSE k + 1 + 1] = old[k + 1]
    BY <1>1, <2>1
  <2>4. g[IF k < at THEN k ELSE k + 1] = f[k]
    BY <1>8
  <2>5. CASE k + 1 < at
    <3>1. k + 1 \in 1 .. n + 1 /\ k < at
      BY <1>1, <2>1, <2>5
    <3>2. g[k + 1] = Found(new[k + 1], g[k])
      BY <1>5, <2>1, <3>1
    <3>3. g[k + 1] = f[k + 1]
      BY <2>2, <2>3, <2>4, <2>5, <3>1, <3>2
    <3>. QED
      BY <2>1, <2>5, <3>3
  <2>6. CASE ~(k + 1 < at)
    <3>1. k + 1 + 1 \in 1 .. n + 1 /\ k + 1 + 1 - 1 = k + 1
      BY <1>1, <2>1
    <3>2. g[k + 1 + 1] = Found(new[k + 1 + 1], g[k + 1])
      BY <1>5, <3>1
    <3>3. g[k + 1] = f[k]
      <4>1. CASE k < at
        <5>1. k + 1 = at /\ at - 1 = k
          BY <2>1, <2>6, <4>1
        <5>. QED
          BY <1>6, <2>4, <4>1, <5>1
      <4>2. CASE ~(k < at)
        BY <2>4, <4>2
      <4>. QED
        BY <4>1, <4>2
    <3>4. g[k + 1 + 1] = f[k + 1]
      BY <2>2, <2>3, <2>6, <3>2, <3>3
    <3>. QED
      BY <2>1, <2>6, <3>4
  <2>. QED
    BY <2>5, <2>6
<1> HIDE DEF T
<1>9. n \in T
  <2>1. n \in 0 .. n
    BY <1>1
  <2>. QED
    BY <1>1, <1>7, <1>8, <2>1, Upwards
<1>10. g[n + 1] = f[n]
  <2>1. g[IF n < at THEN n ELSE n + 1] = f[n]
    BY <1>9 DEF T
  <2>2. CASE n < at
    <3>1. at = n + 1 /\ at - 1 = n
      BY <1>1, <2>2
    <3>. QED
      BY <1>6, <2>1, <2>2, <3>1
  <2>. QED
    BY <2>1, <2>2
<1>. QED
  BY <1>2, <1>3, <1>10

\* What is inserted does not depend on the place it is said to be inserted at.
Around(n, old, new, at) == \A k \in 1 .. n : new[IF k < at THEN k ELSE k + 1] = old[k]

LEMMA SameInserted ==
    ASSUME NEW n \in Nat, NEW old, NEW new, NEW i \in 1 .. n + 1, NEW j \in 1 .. n + 1, i <= j,
           Around(n, old, new, i), Around(n, old, new, j)
    PROVE  new[i] = new[j]
<1> USE DEF Around
<1> DEFINE m == j - i
           T == {d \in 0 .. m : new[i + d] = new[i]}
<1>1. m \in Nat /\ i + m = j
  OBVIOUS
<1>2. 0 \in T
  <2>1. 0 \in 0 .. m /\ i + 0 = i
    BY <1>1
  <2>. QED
    BY <2>1
<1>3. ASSUME NEW d \in 0 .. m - 1, d \in T PROVE d + 1 \in T
  <2>1. i + d \in 1 .. n /\ ~(i + d < i) /\ i + d < j /\ d + 1 \in 0 .. m /\ i + (d + 1) = i + d + 1
    BY <1>1
  <2>2. new[i + d + 1] = old[i + d] /\ new[i + d] = old[i + d]
    BY <2>1
  <2>3. new[i + d] = new[i]
    BY <1>3
  <2>. QED
    BY <2>1, <2>2, <2>3
<1> HIDE DEF T
<1>4. m \in T
  <2>1. m \in 0 .. m
    BY <1>1
  <2> HIDE DEF m
  <2>. QED
    BY <1>1, <1>2, <1>3, <2>1, Upwards
<1>. QED
  BY <1>1, <1>4 DEF T

\* A text that has one item more.
LEMMA OneMore ==
    ASSUME NEW old, NEW new, NEW at, Grown(old, new, at), Len(new) = Len(old) + 1
    PROVE  /\ Len(old) \in Nat /\ at \in 1 .. Len(old) + 1
           /\ \A j \in 1 .. Len(old) : new[IF j < at THEN j ELSE j + 1] = old[j]
BY TextIs DEF Grown

\* What was inserted is an object wherever it is said to stand.
LEMMA InsertedAt ==
    ASSUME NEW s, NEW t, IsSubmission(s), IsSubmission(t), Inserts(s, t)
    PROVE  LET new == t.body
               at == CHOOSE k \in DOMAIN new : new = InsertAt(s.body, k, new[k])
           IN /\ Grown(s.body, new, at) /\ Len(new) = Len(s.body) + 1
              /\ new[at].kind \notin Headings
              /\ t.latex = s.latex
<1> DEFINE old == s.body
           new == t.body
           n == Len(old)
           at == CHOOSE k \in DOMAIN new : new = InsertAt(old, k, new[k])
<1>1. PICK x \in NewObjects, k \in DOMAIN old :
        t = [s EXCEPT !.body = InsertAt(@, k + 1, x)]
  BY DEF Inserts
<1>2. IsText(old) /\ IsText(new) /\ IsItem(x) /\ x.kind \notin Headings
  BY SubmissionsAssumption DEF IsSubmission
<1>3. n \in Nat /\ DOMAIN old = 1 .. n /\ DOMAIN new = 1 .. Len(new) /\ k + 1 \in 1 .. n + 1
  BY <1>2, TextIs
<1>4. new = InsertAt(old, k + 1, x) /\ t.latex = s.latex
  BY <1>1 DEF IsSubmission
<1> HIDE DEF old, new, n
<1>5. Grown(old, new, k + 1) /\ Len(new) = n + 1 /\ new[k + 1] = x
  BY <1>2, <1>3, <1>4, InsertGrows DEF n
<1>6. at \in DOMAIN new /\ new = InsertAt(old, at, new[at])
  BY <1>3, <1>4, <1>5
<1> HIDE DEF at
<1>7. at \in 1 .. n + 1 /\ IsItem(new[at])
  BY <1>2, <1>3, <1>5, <1>6, TextIs
<1>8. Grown(old, new, at)
  BY <1>2, <1>6, <1>7, InsertGrows DEF n
<1> DEFINE l == k + 1
<1>9. Around(n, old, new, at) /\ Around(n, old, new, l)
  BY <1>5, <1>8, OneMore DEF n, Around
<1>10. l \in 1 .. n + 1 /\ new[l] = x
  BY <1>3, <1>5
<1> HIDE DEF l
<1>11. new[at] = x
  <2>1. CASE at <= l
    <3>1. new[at] = new[l]
      BY <1>3, <1>7, <1>9, <1>10, <2>1, SameInserted
    <3>. QED
      BY <1>10, <3>1
  <2>2. CASE l <= at
    <3>1. new[l] = new[at]
      BY <1>3, <1>7, <1>9, <1>10, <2>2, SameInserted
    <3>. QED
      BY <1>10, <3>1
  <2>. QED
    BY <1>3, <1>7, <1>10, <2>1, <2>2
<1>. QED
  BY <1>2, <1>4, <1>5, <1>8, <1>11 DEF at, new, old, n

\* The place is outside the sections of the title: none of them holds it.
Apart(old, new, at, titles) ==
    /\ Grown(old, new, at) /\ Len(new) = Len(old) + 1 /\ new[at].kind \notin Headings
    /\ SectionOf(new, at) \notin titles
    /\ \A title \in titles, other \in SectionsOf(new) :
         title # other => <<title, other>> \notin Inside

\* An item that is put elsewhere does not change the text of a section.
LEMMA SectionStays ==
    ASSUME NEW old, NEW new, NEW at, NEW titles, Apart(old, new, at, titles), NEW title \in titles
    PROVE  SectionBody(new, title) = SectionBody(old, title)
<1> DEFINE p == Place(old, new, at)
           was == SectionBody(old, title)
           is == SectionBody(new, title)
           n == Len(old)
           m == Len(new)
<1>1. Grown(old, new, at) /\ new[at].kind # "section"
  BY DEF Apart, Headings
<1>2. Moves(old, new, at, title)
  BY <1>1, SectionMoves
<1>3. is.found = was.found
  BY <1>2 DEF Moves
<1>4. /\ was = IF was.found THEN [found |-> TRUE, text |-> was.text] ELSE NoBody
      /\ is = IF is.found THEN [found |-> TRUE, text |-> is.text] ELSE NoBody
  BY DEF SectionBody, NoBody
<1>5. ASSUME was.found PROVE is.text = was.text
  <2>1. PICK a \in Of(old, {"section"}), b \in 0 .. n + 1 : Encloses(old, new, at, title, a, b)
    BY <1>2, <1>5 DEF Moves
  <2>2. /\ <<title, old[a].arg>> \in Inside /\ a \in 0 .. n + 1 /\ a < b
        /\ \A k \in Of(old, {"section"}) : k <= a \/ b <= k
        /\ was.text = Between(old, a, b) /\ is.text = Between(new, p[a], p[b])
    BY <2>1 DEF Encloses
  <2>3. ~(p[a] < at /\ at < p[b])
    <3> SUFFICES ASSUME p[a] < at, at < p[b] PROVE FALSE
      OBVIOUS
    <3> DEFINE heads == {h \in Of(new, {"section"}) : h < at}
               other == old[a].arg
    <3>1. /\ Of(old, {"section"}) \subseteq 1 .. n
          /\ Of(new, {"section"}) = {p[i] : i \in Of(old, {"section"})}
          /\ \A i \in Of(old, {"section"}) : new[p[i]] = old[i]
      BY <1>1, OthersStay
    <3>2. /\ n \in Nat /\ m \in Nat /\ at \in 1 .. m
          /\ \A i \in 0 .. n + 1 : p[i] \in 0 .. m + 1
          /\ \A i \in 0 .. n + 1 : \A j \in 0 .. n + 1 : i < j <=> p[i] < p[j]
      BY <1>1, PlaceIs DEF Grown
    <3> HIDE DEF p, n, m
    <3>3. \A i \in Of(old, {"section"}) : i \in 0 .. n + 1
      BY <3>1, <3>2
    <3>4. p[a] \in heads /\ new[p[a]].arg = other
      BY <2>1, <3>1
    <3>5. \A h \in heads : h \in 0 .. m + 1 /\ h <= p[a]
      <4> SUFFICES ASSUME NEW i \in Of(old, {"section"}), p[i] < at
                   PROVE  p[i] \in 0 .. m + 1 /\ p[i] <= p[a]
        BY <3>1
      <4>1. i \in 0 .. n + 1 /\ p[i] \in 0 .. m + 1 /\ p[a] \in 0 .. m + 1 /\ p[b] \in 0 .. m + 1
        BY <2>1, <2>2, <3>2, <3>3
      <4>2. CASE i <= a
        <5>1. ~(a < i)
          BY <2>2, <3>2, <4>1, <4>2
        <5>2. ~(p[a] < p[i])
          BY <2>2, <3>2, <4>1, <5>1
        <5>. QED
          BY <4>1, <5>2
      <4>3. CASE b <= i
        <5>1. ~(i < b)
          BY <2>1, <3>2, <4>1, <4>3
        <5>2. ~(p[i] < p[b])
          BY <2>1, <3>2, <4>1, <5>1
        <5>. QED
          BY <3>2, <4>1, <5>2
      <4>. QED
        BY <2>2, <4>2, <4>3
    <3> HIDE DEF heads
    <3>6. Max(heads) = p[a]
      <4>1. heads \in SUBSET (0 .. m + 1) /\ heads # {} /\ m + 1 \in Nat
        BY <3>2, <3>4, <3>5
      <4>2. Max(heads) \in heads /\ \A k \in heads : k <= Max(heads)
        BY <4>1, MaxIs
      <4> DEFINE u == Max(heads)
                 v == p[a]
      <4>3. u \in Int /\ v \in Int /\ u <= v /\ v <= u
        BY <3>2, <3>4, <3>5, <4>2
      <4> HIDE DEF u, v
      <4>4. u = v
        BY <4>3
      <4>. QED
        BY <4>4 DEF u, v
    <3>7. SectionOf(new, at) = other
      BY <3>4, <3>6 DEF SectionOf, heads
    <3>8. other \in SectionsOf(new)
      BY <3>4 DEF SectionsOf, heads
    <3>. QED
      BY <2>2, <3>7, <3>8 DEF Apart
  <2>4. Between(new, p[a], p[b]) = Between(old, a, b)
    BY <1>1, <2>1, <2>2, <2>3, PartStays
  <2>. QED
    BY <2>2, <2>4
<1>. QED
  BY <1>3, <1>4, <1>5

\* A heading has a kind.
LEMMA TitlesAreKnown ==
    ASSUME NEW body, IsText(body)
    PROVE  /\ Sections(body) \in Seq(Titled)
           /\ \A s \in ToSet(Sections(body)) : s.title \in DOMAIN KindOf
<1>1. PICK f : FindsHeadings(f, body) /\ Sections(body) = f[Len(body)]
  BY SectionsAre
<1>2. Len(body) \in 0 .. Len(body)
  BY TextIs
<1>3. Sections(body) \in Seq(Titled)
  BY <1>1, <1>2 DEF FindsHeadings
<1>4. \A s \in ToSet(Sections(body)) : s \in Titled
  BY <1>3, ElementOfSeq, LenProperties DEF ToSet
<1>. QED
  BY <1>3, <1>4 DEF Titled

\* The sections are the same, and so is the text of those a rule is about.
Untouched(s, t, titles) ==
    /\ IsText(s.body) /\ Sections(t.body) = Sections(s.body)
    /\ \A title \in titles : SectionBody(t.body, title) = SectionBody(s.body, title)

\* The sections a text has are those of its headings.
LEMMA OneOfThem ==
    ASSUME NEW body, IsText(body)
    PROVE  \A k \in DOMAIN Sections(body) :
             /\ Sections(body)[k] \in ToSet(Sections(body))
             /\ Sections(body)[k].title \in DOMAIN KindOf
<1>1. \A k \in DOMAIN Sections(body) : Sections(body)[k] \in ToSet(Sections(body))
  BY DEF ToSet
<1>. QED
  BY <1>1, TitlesAreKnown

\* The least of some places is one of them.
LEMMA FirstIsOne ==
    ASSUME NEW n \in Nat, NEW T \in SUBSET (1 .. n), T # {}
    PROVE  Min(T) \in T
<1>1. T \in SUBSET Nat
  OBVIOUS
<1>. QED
  BY <1>1, MinIs

\* The rules that read every section of their titles.
LEMMA PresenceStays ==
    ASSUME NEW s, NEW t, NEW titles, Untouched(s, t, titles), NEW environments
    PROVE  Presence(t, titles, environments) = Presence(s, titles, environments)
<1> DEFINE Chosen(sub) == {x \in ToSet(Sections(sub.body)) : x.level <= 2 /\ x.title \in titles}
           Bodies(sub) == {b \in {SectionBody(sub.body, x.title) : x \in Chosen(sub)} : b.found}
<1>1. Chosen(t) = Chosen(s) /\ \A x \in Chosen(s) : x.title \in titles
  BY DEF Untouched
<1> HIDE DEF Chosen
<1>2. Bodies(t) = Bodies(s)
  BY <1>1 DEF Untouched
<1>. QED
  BY <1>2 DEF Presence, Chosen

\* Those that read the first.
FirstOf(sub, titles) ==
    LET sections == Sections(sub.body)
        good == {k \in DOMAIN sections : sections[k].level <= 2 /\ sections[k].title \in titles}
    IN IF good = {} THEN NoBody ELSE SectionBody(sub.body, sections[Min(good)].title)

LEMMA FirstStays ==
    ASSUME NEW s, NEW t, NEW titles, Untouched(s, t, titles)
    PROVE  FirstOf(t, titles) = FirstOf(s, titles)
<1> DEFINE heads == Sections(s.body)
           good == {k \in DOMAIN heads : heads[k].level <= 2 /\ heads[k].title \in titles}
<1>1. Sections(t.body) = heads
  BY DEF Untouched
<1>2. ASSUME good # {} PROVE heads[Min(good)].title \in titles
  <2>1. heads \in Seq(Titled)
    BY TitlesAreKnown DEF Untouched
  <2>2. Len(heads) \in Nat /\ DOMAIN heads = 1 .. Len(heads)
    BY <2>1, LenProperties
  <2>3. Min(good) \in good
    BY <1>2, <2>2, FirstIsOne
  <2>. QED
    BY <2>3
<1>3. FirstOf(s, titles) =
        IF good = {} THEN NoBody ELSE SectionBody(s.body, heads[Min(good)].title)
  BY DEF FirstOf
<1>4. FirstOf(t, titles) =
        IF good = {} THEN NoBody ELSE SectionBody(t.body, heads[Min(good)].title)
  BY <1>1 DEF FirstOf
<1>. QED
  BY <1>2, <1>3, <1>4 DEF Untouched

LEMMA FirstVerdictsStay ==
    ASSUME NEW s, NEW t
    PROVE  /\ Untouched(s, t, TaskTitles) => Tsk02(t) = Tsk02(s)
           /\ Untouched(s, t, AlgorithmTitles) => Alg01(t) = Alg01(s) /\ Alg03(t) = Alg03(s)
<1> DEFINE Lengths(section) == UNION {ToSet(x.arg) : x \in Items(Written(section.text), {"list"})}
           Short(section) == IF ~section.found \/ Lengths(section) = {} THEN "unverifiable"
                             ELSE Warn(\E n \in Lengths(section) : n < 30)
           Has(section, kinds) == IF ~section.found THEN "unverifiable"
                                  ELSE Warn(Of(Written(section.text), kinds) = {})
<1>1. ASSUME NEW sub PROVE Tsk02(sub) = Short(FirstOf(sub, TaskTitles))
  BY DEF Tsk02, FirstSection, FirstOf
<1>2. ASSUME NEW sub, NEW kinds
      PROVE  AlgorithmHas(sub, kinds) = Has(FirstOf(sub, AlgorithmTitles), kinds)
  BY DEF AlgorithmHas, FirstSection, FirstOf
<1> HIDE DEF Short, Has
<1>3. Untouched(s, t, TaskTitles) => Tsk02(t) = Tsk02(s)
  <2> SUFFICES ASSUME Untouched(s, t, TaskTitles) PROVE Tsk02(t) = Tsk02(s)
    OBVIOUS
  <2>1. FirstOf(t, TaskTitles) = FirstOf(s, TaskTitles)
    BY FirstStays
  <2>. QED
    BY <1>1, <2>1
<1>4. ASSUME Untouched(s, t, AlgorithmTitles), NEW kinds
      PROVE  AlgorithmHas(t, kinds) = AlgorithmHas(s, kinds)
  <2>1. FirstOf(t, AlgorithmTitles) = FirstOf(s, AlgorithmTitles)
    BY <1>4, FirstStays
  <2>. QED
    BY <1>2, <2>1
<1>. QED
  BY <1>3, <1>4 DEF Alg01, Alg03

\* And those that read the first of a kind, or the one of a title.
LEMMA MonolithStays ==
    ASSUME NEW s, NEW t, NEW kind, NEW fallback,
           Untouched(s, t, {fallback} \cup TitlesOf(kind))
    PROVE  Monolith(t, kind, fallback) = Monolith(s, kind, fallback)
<1> DEFINE heads == Sections(s.body)
           good == {k \in DOMAIN heads : KindOf[heads[k].title] = kind}
           kinds == {x \in ToSet(heads) : KindOf[x.title] = kind}
           Section(sub) == IF kinds = {} THEN SectionBody(sub.body, fallback)
                           ELSE IF good = {} THEN NoBody
                           ELSE SectionBody(sub.body, heads[Min(good)].title)
<1>1. Sections(t.body) = heads
  BY DEF Untouched
<1>2. ASSUME good # {} PROVE heads[Min(good)].title \in TitlesOf(kind)
  <2>1. heads \in Seq(Titled)
    BY TitlesAreKnown DEF Untouched
  <2>2. Len(heads) \in Nat /\ DOMAIN heads = 1 .. Len(heads)
    BY <2>1, LenProperties
  <2>3. Min(good) \in good
    BY <1>2, <2>2, FirstIsOne
  <2>4. heads[Min(good)].title \in DOMAIN KindOf
    BY <2>3, OneOfThem DEF Untouched
  <2>. QED
    BY <2>3, <2>4 DEF TitlesOf
<1>3. /\ SectionBody(t.body, fallback) = SectionBody(s.body, fallback)
      /\ \A title \in TitlesOf(kind) : SectionBody(t.body, title) = SectionBody(s.body, title)
  BY DEF Untouched
<1>4. Section(t) = Section(s)
  <2> HIDE DEF good, heads, kinds
  <2>. QED
    BY <1>2, <1>3
<1>5. Monolith(s, kind, fallback) =
        IF ~Section(s).found THEN "unverifiable" ELSE Fail(ContainsList(Section(s).text))
  BY DEF Monolith, FirstSection
<1>6. Monolith(t, kind, fallback) =
        IF ~Section(t).found THEN "unverifiable" ELSE Fail(ContainsList(Section(t).text))
  BY <1>1 DEF Monolith, FirstSection
<1> HIDE DEF Section
<1>. QED
  BY <1>4, <1>5, <1>6

\* What is put into one section changes no verdict about another, when no
\* heading contains the title the rule looks for: section_body ends a section
\* where the next begins, and the headings are the same.
THEOREM SectionsAreApart == Spec => []SectionsKeepApart
<1>1. IInv => SectionsKeepApart
  <2> SUFFICES ASSUME IInv, Revised("inserted"), NEW r \in DOMAIN About,
                      Elsewhere(r), ~Overlapping(r)
               PROVE  verdict[r] = earlier[r]
    BY DEF SectionsKeepApart
  <2> DEFINE old == before.body
             new == submission.body
             at == CHOOSE k \in DOMAIN new : new = InsertAt(old, k, new[k])
             titles == About[r]
  <2>1. /\ IsSubmission(before) /\ IsSubmission(submission) /\ Inserts(before, submission)
        /\ verdict = Verdicts(submission) /\ earlier = Verdicts(before)
    BY DEF IInv, Revised
  <2>2. r \in {"SSA-01", "ARC-01", "RES-01", "TSK-02", "ALG-01", "ALG-03", "ANN-02", "INT-02"}
    BY DEF About
  <2>3. /\ Grown(old, new, at) /\ Len(new) = Len(old) + 1 /\ new[at].kind \notin Headings
        /\ submission.latex = before.latex
    BY <2>1, InsertedAt
  <2>4. Apart(old, new, at, titles)
    BY <2>3 DEF Apart, Elsewhere, Overlapping
  <2>5. Sections(new) = Sections(old)
    BY <2>3, SectionsStay
  <2>6. Untouched(before, submission, titles)
    BY <2>1, <2>4, <2>5, SectionStays DEF Untouched, IsSubmission
  <2> HIDE DEF at, titles, old, new
  <2>7. Run(submission, r) = Run(before, r)
    <3>1. CASE r = "SSA-01"
      <4>1. titles = AsIsTitles
        BY <3>1 DEF titles, About
      <4>. QED
        BY <2>6, <3>1, <4>1, PresenceStays DEF Run, Ssa01, FormatIds
    <3>2. CASE r = "ARC-01"
      <4>1. titles = ToBeTitles
        BY <3>2 DEF titles, About
      <4>. QED
        BY <2>6, <3>2, <4>1, PresenceStays DEF Run, Arc01, FormatIds
    <3>3. CASE r = "RES-01"
      <4>1. titles = ResultTitles
        BY <3>3 DEF titles, About
      <4>. QED
        BY <2>6, <3>3, <4>1, PresenceStays DEF Run, Res01, FormatIds
    <3>4. CASE r = "TSK-02"
      <4>1. titles = TaskTitles
        BY <3>4 DEF titles, About
      <4>. QED
        BY <2>6, <3>4, <4>1, FirstVerdictsStay DEF Run, FormatIds
    <3>5. CASE r \in {"ALG-01", "ALG-03"}
      <4>1. titles = AlgorithmTitles
        BY <3>5 DEF titles, About
      <4>. QED
        BY <2>6, <3>5, <4>1, FirstVerdictsStay DEF Run, FormatIds
    <3>6. CASE r = "ANN-02"
      <4>1. titles = {Annotation} \cup TitlesOf("annotation")
        BY <3>6 DEF titles, About
      <4>. QED
        BY <2>6, <3>6, <4>1, MonolithStays DEF Run, Ann02, FormatIds
    <3>7. CASE r = "INT-02"
      <4>1. titles = {Introduction} \cup TitlesOf("introduction")
        BY <3>7 DEF titles, About
      <4>. QED
        BY <2>6, <3>7, <4>1, MonolithStays DEF Run, Int02, FormatIds
    <3>. QED
      BY <2>2, <3>1, <3>2, <3>3, <3>4, <3>5, <3>6, <3>7
  <2>8. r \in RuleIds /\ r \notin FormatIds \cup {"APP-01", "ANN-03"} \cup BibIds
    BY <2>2 DEF RuleIds, FormatIds, BibIds
  <2>. QED
    BY <2>1, <2>3, <2>7, <2>8 DEF Verdicts, Judged
<1>. QED
  BY <1>1, VerdictsAreOfTheirText, PTL
-----------------------------------------------------------------------------
(* The same spans in another order                                         *)

\* Spans as the extractor hands them over.
AreSpans(spans) ==
    /\ Len(spans) \in Nat /\ DOMAIN spans = 1 .. Len(spans)
    /\ \A k \in 1 .. Len(spans) :
         /\ {spans[k].page, spans[k].chars, spans[k].size, spans[k].rank} \subseteq Nat
         /\ {spans[k].box.x0, spans[k].box.y0, spans[k].box.x1, spans[k].box.y1} \subseteq Int
    /\ \A k, l \in 1 .. Len(spans) :
         spans[k].rank = spans[l].rank =>
           spans[k].size = spans[l].size /\ spans[k].text = spans[l].text

\* The span at place j of the second is the one at place p[j] of the first.
Shuffled(spans, other, p) ==
    LET N == Len(spans) IN
    /\ AreSpans(spans) /\ AreSpans(other) /\ Len(other) = N
    /\ p \in [1 .. N -> 1 .. N]
    /\ \A j \in 1 .. N : other[j] = spans[p[j]]
    /\ \A i, j \in 1 .. N : p[i] = p[j] => i = j
    /\ \A i \in 1 .. N : \E j \in 1 .. N : p[j] = i

\* Where the spans of a set are in the other order.
Back(p, set) == {j \in DOMAIN p : p[j] \in set}

LEMMA BackCount ==
    ASSUME NEW spans, NEW other, NEW p, Shuffled(spans, other, p),
           NEW X \in SUBSET (1 .. Len(spans))
    PROVE  /\ IsFiniteSet(X) /\ IsFiniteSet(Back(p, X)) /\ Cardinality(Back(p, X)) = Cardinality(X)
           /\ Back(p, X) \in SUBSET (1 .. Len(spans))
<1> DEFINE N == Len(spans)
           Y == Back(p, X)
           q == [j \in Y |-> p[j]]
<1>1. N \in Nat /\ p \in [1 .. N -> 1 .. N] /\ DOMAIN p = 1 .. N
  BY DEF Shuffled, AreSpans
<1>2. Y \subseteq 1 .. N /\ \A j \in Y : p[j] \in X
  BY <1>1 DEF Back
<1>3. q \in Bijection(Y, X)
  <2>1. q \in [Y -> X]
    BY <1>2
  <2>2. \A i, j \in Y : q[i] = q[j] => i = j
    BY <1>2 DEF Shuffled
  <2>3. \A i \in X : \E j \in Y : q[j] = i
    <3> SUFFICES ASSUME NEW i \in X PROVE \E j \in Y : q[j] = i
      OBVIOUS
    <3>1. PICK j \in 1 .. N : p[j] = i
      BY DEF Shuffled
    <3>2. j \in Y
      BY <1>1, <3>1 DEF Back
    <3>. QED
      BY <3>1, <3>2
  <2> HIDE DEF q
  <2>. QED
    BY <2>1, <2>2, <2>3 DEF Bijection, Injection, Surjection, IsInjective
<1>4. IsFiniteSet(X) /\ IsFiniteSet(Y)
  <2>1. IsFiniteSet(1 .. N)
    BY <1>1, FS_Interval
  <2> HIDE DEF Y, N
  <2>. QED
    BY <1>2, <2>1, FS_Subset DEF N
<1>5. Cardinality(X) = Cardinality(Y)
  <2> HIDE DEF Y, q
  <2>. QED
    BY <1>3, <1>4, FS_Bijection DEF ExistsBijection
<1>. QED
  BY <1>2, <1>4, <1>5

LEMMA BackIs ==
    ASSUME NEW spans, NEW other, NEW p, Shuffled(spans, other, p)
    PROVE  /\ DOMAIN p = 1 .. Len(spans) /\ DOMAIN spans = 1 .. Len(spans)
           /\ DOMAIN other = 1 .. Len(spans) /\ Len(spans) \in Nat
           /\ Back(p, 1 .. Len(spans)) = 1 .. Len(spans)
           /\ \A j \in 1 .. Len(spans) : p[j] \in 1 .. Len(spans) /\ other[j] = spans[p[j]]
           /\ \A i \in 1 .. Len(spans) : \E j \in 1 .. Len(spans) : p[j] = i
BY DEF Shuffled, AreSpans, Back

\* A span more is so many characters more.
LEMMA CharsAdd ==
    ASSUME NEW spans, AreSpans(spans), NEW X \in SUBSET (1 .. Len(spans)),
           NEW x \in 1 .. Len(spans), x \notin X
    PROVE  Chars(spans, X \cup {x}) = Chars(spans, X) + spans[x].chars
<1> DEFINE N == Len(spans)
           v == Weights(spans, X)
           w == Weights(spans, X \cup {x})
<1>1. N \in Nat /\ \A k \in 1 .. N : spans[k].chars \in Nat
  BY DEF AreSpans
<1>2. PICK f : AddsUp(f, v, N) /\ Chars(spans, X) = f[N]
  BY <1>1, CharsAddUp
<1>3. PICK g : AddsUp(g, w, N) /\ Chars(spans, X \cup {x}) = g[N]
  BY <1>1, CharsAddUp
<1> DEFINE c == spans[x].chars
           T == {k \in 0 .. N : g[k] = f[k] + (IF k < x THEN 0 ELSE c)}
<1>4. c \in Nat /\ v[x] = 0 /\ w[x] = c /\ \A k \in 1 .. N : k # x => v[k] = w[k]
  BY <1>1 DEF Weights
<1>5. \A k \in 1 .. N : v[k] \in Nat /\ w[k] \in Nat
  BY <1>1 DEF Weights
<1> HIDE DEF v, w, c, N
<1>6. x \in 1 .. N
  BY DEF N
<1>7. 0 \in T
  BY <1>1, <1>2, <1>3, <1>6 DEF AddsUp
<1>8. ASSUME NEW k \in 0 .. N - 1, k \in T PROVE k + 1 \in T
  <2>1. k + 1 \in 1 .. N /\ k + 1 \in 0 .. N /\ k + 1 - 1 = k /\ k \in 0 .. N
    BY <1>1
  <2>2. g[k + 1] = g[k] + w[k + 1] /\ f[k + 1] = f[k] + v[k + 1]
    BY <1>2, <1>3, <2>1 DEF AddsUp
  <2>3. f[k] \in Nat /\ g[k] = f[k] + (IF k < x THEN 0 ELSE c)
    BY <1>2, <1>8, <2>1 DEF AddsUp
  <2>4. CASE k + 1 = x
    <3>1. k < x /\ ~(k + 1 < x) /\ v[k + 1] = 0 /\ w[k + 1] = c
      BY <1>4, <2>4
    <3>. QED
      BY <1>4, <2>1, <2>2, <2>3, <3>1
  <2>5. CASE k + 1 # x
    <3>1. (k < x) = (k + 1 < x) /\ v[k + 1] = w[k + 1] /\ v[k + 1] \in Nat
      BY <1>4, <1>5, <1>6, <2>1, <2>5
    <3>. QED
      BY <1>4, <2>1, <2>2, <2>3, <3>1
  <2>. QED
    BY <2>4, <2>5
<1> HIDE DEF T
<1>9. \A k \in 0 .. N : k \in T
  BY <1>1, <1>7, <1>8, Upwards
<1>10. N \in T /\ ~(N < x)
  BY <1>1, <1>6, <1>9
<1>. QED
  BY <1>2, <1>3, <1>10 DEF T, c

\* The characters of no span are none.
LEMMA CharsOfNone ==
    ASSUME NEW spans, AreSpans(spans)
    PROVE  Chars(spans, {}) = 0
<1> DEFINE N == Len(spans)
<1>1. N \in Nat /\ \A k \in 1 .. N : spans[k].chars \in Nat
  BY DEF AreSpans
<1>2. PICK f : AddsUp(f, Weights(spans, {}), N) /\ Chars(spans, {}) = f[N]
  BY <1>1, CharsAddUp
<1> DEFINE T == {k \in 0 .. N : f[k] = 0}
<1>3. \A k \in 1 .. N : Weights(spans, {})[k] = 0
  BY DEF Weights
<1> HIDE DEF N
<1>4. 0 \in T
  BY <1>1, <1>2 DEF AddsUp
<1>5. ASSUME NEW k \in 0 .. N - 1, k \in T PROVE k + 1 \in T
  <2>1. k + 1 \in 1 .. N /\ k + 1 \in 0 .. N /\ k + 1 - 1 = k
    BY <1>1
  <2>. QED
    BY <1>2, <1>3, <1>5, <2>1 DEF AddsUp
<1> HIDE DEF T
<1>6. \A k \in 0 .. N : k \in T
  BY <1>1, <1>4, <1>5, Upwards
<1>7. N \in T
  BY <1>1, <1>6
<1>. QED
  BY <1>2, <1>7 DEF T

\* A set of spans has as many characters in whatever order they come.
LEMMA CharsBack ==
    ASSUME NEW spans, NEW other, NEW p, Shuffled(spans, other, p),
           NEW X \in SUBSET (1 .. Len(spans))
    PROVE  Chars(other, Back(p, X)) = Chars(spans, X)
<1> DEFINE N == Len(spans)
           T == {n \in Nat : \A Y \in SUBSET (1 .. N) :
                   Cardinality(Y) = n => Chars(other, Back(p, Y)) = Chars(spans, Y)}
<1>1. AreSpans(spans) /\ AreSpans(other) /\ Len(other) = N /\ N \in Nat
  BY DEF Shuffled, AreSpans
<1>2. ASSUME NEW Y \in SUBSET (1 .. N)
      PROVE  IsFiniteSet(Y) /\ Cardinality(Y) \in Nat /\ Back(p, Y) \in SUBSET (1 .. N)
  BY BackCount, FS_CardinalityType
<1>3. 0 \in T
  <2> SUFFICES ASSUME NEW Y \in SUBSET (1 .. N), Cardinality(Y) = 0
               PROVE  Chars(other, Back(p, Y)) = Chars(spans, Y)
    OBVIOUS
  <2>1. Y = {} /\ Back(p, Y) = {}
    BY <1>2, FS_EmptySet DEF Back
  <2>. QED
    BY <1>1, <2>1, CharsOfNone
<1>4. ASSUME NEW n \in 0 .. Cardinality(X) - 1, n \in T PROVE n + 1 \in T
  <2> SUFFICES ASSUME NEW Y \in SUBSET (1 .. N), Cardinality(Y) = n + 1
               PROVE  Chars(other, Back(p, Y)) = Chars(spans, Y)
    OBVIOUS
  <2>1. PICK y \in Y : TRUE
    <3>1. Y # {}
      BY FS_EmptySet
    <3>. QED
      BY <3>1
  <2> DEFINE Z == Y \ {y}
  <2>2. IsFiniteSet(Y) /\ Cardinality(Z) = n
    BY <1>2, <2>1, FS_RemoveElement
  <2>3. Z \in SUBSET (1 .. N) /\ y \in 1 .. N /\ y \notin Z /\ Y = Z \cup {y}
    BY <2>1
  <2> HIDE DEF Z
  <2>4. Chars(other, Back(p, Z)) = Chars(spans, Z)
    BY <1>4, <2>2, <2>3
  <2>5. PICK j \in 1 .. N : p[j] = y
    BY <2>3 DEF Shuffled
  <2>6. Back(p, Y) = Back(p, Z) \cup {j} /\ j \notin Back(p, Z)
    <3>1. DOMAIN p = 1 .. N /\ \A i \in 1 .. N : p[i] = y => i = j
      BY <2>5 DEF Shuffled
    <3>. QED
      BY <2>3, <2>5, <3>1 DEF Back
  <2>7. Chars(spans, Y) = Chars(spans, Z) + spans[y].chars
    BY <1>1, <2>3, CharsAdd
  <2>8. Chars(other, Back(p, Y)) = Chars(other, Back(p, Z)) + other[j].chars
    <3>1. Back(p, Z) \in SUBSET (1 .. N)
      BY <1>2, <2>3
    <3>. QED
      BY <1>1, <2>6, <3>1, CharsAdd
  <2>9. other[j] = spans[y]
    BY <2>5 DEF Shuffled
  <2>. QED
    BY <2>4, <2>7, <2>8, <2>9
<1> HIDE DEF T
<1>5. \A n \in 0 .. Cardinality(X) : n \in T
  BY <1>2, <1>3, <1>4, Upwards
<1>6. Cardinality(X) \in T
  BY <1>2, <1>5
<1>. QED
  BY <1>6 DEF T

-----------------------------------------------------------------------------
(* Spans in their canonical order                                          *)

\* Before, of the keys of two spans.
Lex(a, b) == \E k \in 1 .. 6 : a[k] < b[k] /\ \A l \in 1 .. k - 1 : a[l] = b[l]

LEMMA LexIsOrder ==
    ASSUME NEW a \in [1 .. 6 -> Int], NEW b \in [1 .. 6 -> Int], NEW c \in [1 .. 6 -> Int]
    PROVE  /\ ~Lex(a, a)
           /\ Lex(a, b) /\ Lex(b, c) => Lex(a, c)
           /\ a = b \/ Lex(a, b) \/ Lex(b, a)
<1>1. ~Lex(a, a)
  BY DEF Lex
<1>2. ASSUME Lex(a, b), Lex(b, c) PROVE Lex(a, c)
  <2>1. PICK k \in 1 .. 6 : a[k] < b[k] /\ \A l \in 1 .. k - 1 : a[l] = b[l]
    BY <1>2 DEF Lex
  <2>2. PICK m \in 1 .. 6 : b[m] < c[m] /\ \A l \in 1 .. m - 1 : b[l] = c[l]
    BY <1>2 DEF Lex
  <2>3. \A l \in 1 .. 6 : a[l] \in Int /\ b[l] \in Int /\ c[l] \in Int
    OBVIOUS
  <2>4. CASE k < m
    <3>1. a[k] < c[k] /\ \A l \in 1 .. k - 1 : a[l] = c[l]
      <4>1. k \in 1 .. m - 1 /\ \A l \in 1 .. k - 1 : l \in 1 .. m - 1
        BY <2>4
      <4>. QED
        BY <2>1, <2>2, <4>1
    <3>. QED
      BY <3>1 DEF Lex
  <2>5. CASE k = m
    <3>1. a[k] < c[k] /\ \A l \in 1 .. k - 1 : a[l] = c[l]
      BY <2>1, <2>2, <2>3, <2>5
    <3>. QED
      BY <3>1 DEF Lex
  <2>6. CASE m < k
    <3>1. a[m] < c[m] /\ \A l \in 1 .. m - 1 : a[l] = c[l]
      <4>1. m \in 1 .. k - 1 /\ \A l \in 1 .. m - 1 : l \in 1 .. k - 1
        BY <2>6
      <4>. QED
        BY <2>1, <2>2, <4>1
    <3>. QED
      BY <3>1 DEF Lex
  <2>. QED
    BY <2>4, <2>5, <2>6
<1>3. ASSUME a # b PROVE Lex(a, b) \/ Lex(b, a)
  <2> DEFINE T == {k \in 1 .. 6 : a[k] # b[k]}
  <2>1. T \in SUBSET Nat /\ T # {}
    <3>1. \E k \in 1 .. 6 : a[k] # b[k]
      BY <1>3
    <3>. QED
      BY <3>1
  <2>2. PICK m \in T : \A k \in T : m <= k
    <3> HIDE DEF T
    <3>. QED
      BY <2>1, LeastOfNat
  <2>3. m \in 1 .. 6 /\ \A l \in 1 .. m - 1 : a[l] = b[l] /\ b[l] = a[l]
    BY <2>2
  <2>4. a[m] < b[m] \/ b[m] < a[m]
    <3>1. a[m] # b[m] /\ a[m] \in Int /\ b[m] \in Int
      BY <2>2
    <3>. QED
      BY <3>1
  <2>. QED
    BY <2>3, <2>4 DEF Lex
<1>. QED
  BY <1>1, <1>2, <1>3

LEMMA KeyIsTyped ==
    ASSUME NEW spans, AreSpans(spans), NEW k \in 1 .. Len(spans)
    PROVE  SpanKey(spans[k]) \in [1 .. 6 -> Int]
<1>1. /\ spans[k].page \in Int /\ spans[k].box.y0 \in Int /\ spans[k].box.x0 \in Int
      /\ spans[k].box.y1 \in Int /\ spans[k].box.x1 \in Int /\ spans[k].rank \in Int
  BY DEF AreSpans
<1>2. \A a, b, c, d, e, f \in Int : <<a, b, c, d, e, f>> \in [1 .. 6 -> Int]
  OBVIOUS
<1>. QED
  BY <1>1, <1>2 DEF SpanKey

LEMMA BeforeIsLex == \A s, t : Before(s, t) = Lex(SpanKey(s), SpanKey(t))
BY DEF Before, Lex

\* A strict order of a finite set: each member comes after another number of
\* others, and there is a member for each number.
IsStrictOrder(R, X) ==
    /\ \A i \in X : <<i, i>> \notin R
    /\ \A i, j, k \in X : <<i, j>> \in R /\ <<j, k>> \in R => <<i, k>> \in R
    /\ \A i, j \in X : i = j \/ <<i, j>> \in R \/ <<j, i>> \in R
Ahead(R, X, i) == {j \in X : <<j, i>> \in R}

\* A member for each number up to that of the members.
EachRankTaken(R, X) ==
    \A n \in Nat : n < Cardinality(X) => \E i \in X : Cardinality(Ahead(R, X, i)) = n

LEMMA RankGrows ==
    ASSUME NEW X, IsFiniteSet(X), NEW R, IsStrictOrder(R, X), NEW i \in X
    PROVE  /\ IsFiniteSet(Ahead(R, X, i)) /\ Cardinality(Ahead(R, X, i)) \in 0 .. Cardinality(X) - 1
           /\ \A j \in X : <<i, j>> \in R =>
                Cardinality(Ahead(R, X, i)) < Cardinality(Ahead(R, X, j))
<1>1. \A k \in X : IsFiniteSet(Ahead(R, X, k)) /\ Cardinality(Ahead(R, X, k)) \in Nat
  <2> SUFFICES ASSUME NEW k \in X
               PROVE  IsFiniteSet(Ahead(R, X, k)) /\ Cardinality(Ahead(R, X, k)) \in Nat
    OBVIOUS
  <2>1. Ahead(R, X, k) \in SUBSET X
    BY DEF Ahead
  <2>. QED
    BY <2>1, FS_Subset, FS_CardinalityType
<1>2. Cardinality(Ahead(R, X, i)) <= Cardinality(X) - 1
  <2>1. Ahead(R, X, i) \in SUBSET (X \ {i})
    BY DEF Ahead, IsStrictOrder
  <2>2. IsFiniteSet(X \ {i}) /\ Cardinality(X \ {i}) = Cardinality(X) - 1
    BY FS_RemoveElement
  <2>. QED
    BY <2>1, <2>2, FS_Subset
<1>3. ASSUME NEW j \in X, <<i, j>> \in R
      PROVE  Cardinality(Ahead(R, X, i)) < Cardinality(Ahead(R, X, j))
  <2>1. Ahead(R, X, i) \in SUBSET Ahead(R, X, j)
    BY <1>3 DEF Ahead, IsStrictOrder
  <2>2. i \in Ahead(R, X, j) /\ i \notin Ahead(R, X, i)
    BY <1>3 DEF Ahead, IsStrictOrder
  <2>3. /\ Cardinality(Ahead(R, X, i)) <= Cardinality(Ahead(R, X, j))
        /\ Cardinality(Ahead(R, X, j)) = Cardinality(Ahead(R, X, i))
             => Ahead(R, X, j) = Ahead(R, X, i)
    BY <1>1, <2>1, FS_Subset
  <2>. QED
    BY <1>1, <2>2, <2>3
<1>4. Cardinality(X) \in Nat
  BY FS_CardinalityType
<1>. QED
  BY <1>1, <1>2, <1>3, <1>4

LEMMA RankIsTaken ==
    ASSUME NEW X, IsFiniteSet(X), NEW R, IsStrictOrder(R, X)
    PROVE  EachRankTaken(R, X)
<1> SUFFICES ASSUME NEW n \in Nat, n < Cardinality(X)
             PROVE  \E i \in X : Cardinality(Ahead(R, X, i)) = n
  BY DEF EachRankTaken
<1> DEFINE r == [i \in X |-> Cardinality(Ahead(R, X, i))]
           c == Cardinality(X)
           W == 0 .. c - 1
<1>1. c \in Nat
  BY FS_CardinalityType
<1>2. IsFiniteSet(W) /\ Cardinality(W) = c
  <2> HIDE DEF c
  <2>. QED
    BY <1>1, FS_Interval
<1>3. r \in [X -> W]
  BY RankGrows
<1>4. \A i, j \in X : r[i] = r[j] => i = j
  <2> SUFFICES ASSUME NEW i \in X, NEW j \in X, r[i] = r[j], i # j PROVE FALSE
    OBVIOUS
  <2>1. Cardinality(Ahead(R, X, i)) \in Int /\ Cardinality(Ahead(R, X, j)) \in Int
    BY RankGrows, <1>1
  <2>2. CASE <<i, j>> \in R
    BY <2>1, <2>2, RankGrows
  <2>3. CASE <<j, i>> \in R
    BY <2>1, <2>3, RankGrows
  <2>. QED
    BY <2>2, <2>3 DEF IsStrictOrder
<1> HIDE DEF r, W
<1>5. r \in Injection(X, W)
  BY <1>3, <1>4 DEF Injection, IsInjective
<1>6. r \in Surjection(X, W)
  BY <1>2, <1>5, FS_Injection
<1>7. PICK i \in X : r[i] = n
  BY <1>1, <1>6 DEF Surjection, W
<1>. QED
  BY <1>7 DEF r

\* The order of InOrder: by key, then by place.
Firsts(spans, X) ==
    {q \in X \X X : \/ Before(spans[q[1]], spans[q[2]])
                    \/ ~Before(spans[q[2]], spans[q[1]]) /\ q[1] < q[2]}

LEMMA FirstsAre ==
    ASSUME NEW spans, AreSpans(spans), NEW X \in SUBSET (1 .. Len(spans))
    PROVE  /\ IsStrictOrder(Firsts(spans, X), X)
           /\ \A i, j \in X : <<i, j>> \in Firsts(spans, X) <=>
                 \/ Before(spans[i], spans[j])
                 \/ ~Before(spans[j], spans[i]) /\ i < j
<1> DEFINE R == Firsts(spans, X)
           K(i) == SpanKey(spans[i])
<1>1. \A i, j \in X : <<i, j>> \in R <=> \/ Lex(K(i), K(j))
                                         \/ ~Lex(K(j), K(i)) /\ i < j
  BY BeforeIsLex DEF Firsts
<1>2. \A i \in X : K(i) \in [1 .. 6 -> Int] /\ i \in Nat
  <2>1. \A i \in X : i \in 1 .. Len(spans) /\ i \in Nat
    OBVIOUS
  <2>. QED
    BY <2>1, KeyIsTyped
<1>3. \A i, j \in X : K(i) = K(j) \/ Lex(K(i), K(j)) \/ Lex(K(j), K(i))
  BY <1>2, LexIsOrder
<1>4. \A i \in X : ~Lex(K(i), K(i))
  BY <1>2, LexIsOrder
<1>5. \A i, j, k \in X : Lex(K(i), K(j)) /\ Lex(K(j), K(k)) => Lex(K(i), K(k))
  BY <1>2, LexIsOrder
<1>6. \A i, j \in X : <<i, j>> \in R <=> \/ Lex(K(i), K(j))
                                         \/ K(i) = K(j) /\ i < j
  BY <1>1, <1>3, <1>4, <1>5
<1>7. \A i, j \in X : <<i, j>> \in R <=> \/ Before(spans[i], spans[j])
                                         \/ ~Before(spans[j], spans[i]) /\ i < j
  BY DEF Firsts
<1> HIDE DEF R, K
<1>8. \A i \in X : <<i, i>> \notin R
  BY <1>2, <1>4, <1>6
<1>9. \A i, j, k \in X : <<i, j>> \in R /\ <<j, k>> \in R => <<i, k>> \in R
  <2> SUFFICES ASSUME NEW i \in X, NEW j \in X, NEW k \in X, <<i, j>> \in R, <<j, k>> \in R
               PROVE  <<i, k>> \in R
    OBVIOUS
  <2>1. i \in Nat /\ j \in Nat /\ k \in Nat
    BY <1>2
  <2>2. CASE K(i) = K(j) /\ K(j) = K(k)
    BY <1>4, <1>6, <2>1, <2>2
  <2>3. CASE ~(K(i) = K(j) /\ K(j) = K(k))
    BY <1>5, <1>6, <2>3
  <2>. QED
    BY <2>2, <2>3
<1>10. ASSUME NEW i \in X, NEW j \in X PROVE i = j \/ <<i, j>> \in R \/ <<j, i>> \in R
  <2>1. i \in Nat /\ j \in Nat
    BY <1>2
  <2>2. i = j \/ i < j \/ j < i
    BY <2>1
  <2>. QED
    BY <1>3, <1>6, <2>2
<1>. QED
  BY <1>7, <1>8, <1>9, <1>10 DEF IsStrictOrder, R

\* InOrder names every span of the set once, those before others first.
LEMMA OrderIs ==
    ASSUME NEW spans, AreSpans(spans), NEW X \in SUBSET (1 .. Len(spans))
    PROVE  LET order == InOrder(spans, X)
               n == Cardinality(X)
           IN /\ n \in Nat /\ order \in Seq(X) /\ Len(order) = n /\ DOMAIN order = 1 .. n
              /\ \A k \in 1 .. n : /\ order[k] \in X
                                   /\ Cardinality(Ahead(Firsts(spans, X), X, order[k])) = k - 1
              /\ \A i \in X : \E k \in 1 .. n : order[k] = i
              /\ \A k, l \in 1 .. n : k < l => /\ order[k] # order[l]
                                               /\ ~Before(spans[order[l]], spans[order[k]])
<1> DEFINE order == InOrder(spans, X)
           n == Cardinality(X)
           R == Firsts(spans, X)
           First(i, j) == \/ Before(spans[i], spans[j])
                          \/ ~Before(spans[j], spans[i]) /\ i < j
           Ranked(i, k) == Cardinality({j \in X : First(j, i)}) = k - 1
<1>1. IsFiniteSet(X) /\ n \in Nat
  <2>1. IsFiniteSet(1 .. Len(spans))
    BY FS_Interval DEF AreSpans
  <2>. QED
    BY <2>1, FS_Subset, FS_CardinalityType
<1>2. order = [k \in 1 .. n |-> CHOOSE i \in X : Ranked(i, k)]
  BY DEF InOrder
<1>3. \A i \in X : {j \in X : First(j, i)} = Ahead(R, X, i)
  <2> SUFFICES ASSUME NEW i \in X PROVE {j \in X : First(j, i)} = Ahead(R, X, i)
    OBVIOUS
  <2>1. \A j \in X : <<j, i>> \in R <=> First(j, i)
    BY FirstsAre
  <2> HIDE DEF First, R
  <2>. QED
    BY <2>1 DEF Ahead
<1>4. IsStrictOrder(R, X)
  BY FirstsAre
<1>41. EachRankTaken(R, X)
  <2> HIDE DEF R, order, n, First, Ranked
  <2>. QED
    BY <1>1, <1>4, RankIsTaken
<1>5. ASSUME NEW k \in 1 .. n PROVE order[k] \in X /\ Cardinality(Ahead(R, X, order[k])) = k - 1
  <2>1. k - 1 \in 0 .. n - 1
    BY <1>1
  <2>2. PICK i \in X : Cardinality(Ahead(R, X, i)) = k - 1
    <3> DEFINE m == k - 1
    <3>1. m \in Nat /\ m < n
      <4> HIDE DEF n
      <4>. QED
        BY <1>1
    <3> HIDE DEF R, m
    <3>2. \E i \in X : Cardinality(Ahead(R, X, i)) = m
      BY <3>1, <1>41 DEF EachRankTaken
    <3>. QED
      BY <3>2 DEF m
  <2>3. Ranked(i, k)
    BY <1>3, <2>2
  <2>4. order[k] = CHOOSE j \in X : Ranked(j, k)
    BY <1>2
  <2>5. order[k] \in X /\ Ranked(order[k], k)
    <3> HIDE DEF Ranked, order
    <3>. QED
      BY <2>3, <2>4
  <2>. QED
    BY <1>3, <2>5
<1>6. order \in [1 .. n -> X]
  <2>1. order = [k \in 1 .. n |-> order[k]]
    BY <1>2
  <2> HIDE DEF order, n
  <2>. QED
    BY <1>5, <2>1
<1>7. order \in Seq(X) /\ Len(order) = n /\ DOMAIN order = 1 .. n
  <2> HIDE DEF order, n
  <2>. QED
    BY <1>1, <1>6, LenProperties
<1> HIDE DEF order, n, R, Ranked, First
<1>8. \A i, j \in X : Cardinality(Ahead(R, X, i)) = Cardinality(Ahead(R, X, j)) => i = j
  <2> SUFFICES ASSUME NEW i \in X, NEW j \in X, i # j,
                      Cardinality(Ahead(R, X, i)) = Cardinality(Ahead(R, X, j))
               PROVE  FALSE
    OBVIOUS
  <2>1. /\ Cardinality(Ahead(R, X, i)) \in Int /\ Cardinality(Ahead(R, X, j)) \in Int
        /\ <<i, j>> \in R => Cardinality(Ahead(R, X, i)) < Cardinality(Ahead(R, X, j))
        /\ <<j, i>> \in R => Cardinality(Ahead(R, X, j)) < Cardinality(Ahead(R, X, i))
    BY <1>1, <1>4, RankGrows DEF n
  <2>2. <<i, j>> \in R \/ <<j, i>> \in R
    BY <1>4 DEF IsStrictOrder
  <2>. QED
    BY <2>1, <2>2
<1>9. ASSUME NEW i \in X PROVE \E k \in 1 .. n : order[k] = i
  <2> DEFINE r == Cardinality(Ahead(R, X, i))
         m == r + 1
  <2>1. r \in 0 .. n - 1
    BY <1>1, <1>4, RankGrows DEF n
  <2>2. m \in 1 .. n /\ m - 1 = r
    BY <1>1, <2>1
  <2> HIDE DEF r, m
  <2>3. order[m] \in X /\ Cardinality(Ahead(R, X, order[m])) = r
    BY <1>5, <2>2
  <2> USE DEF r
  <2>. QED
    BY <1>8, <2>2, <2>3
<1>10. ASSUME NEW k \in 1 .. n, NEW l \in 1 .. n, k < l
       PROVE  order[k] # order[l] /\ ~Before(spans[order[l]], spans[order[k]])
  <2> DEFINE i == order[k]
             j == order[l]
  <2>1. /\ i \in X /\ j \in X /\ Cardinality(Ahead(R, X, i)) = k - 1
        /\ Cardinality(Ahead(R, X, j)) = l - 1
    BY <1>5
  <2> HIDE DEF i, j
  <2>2. i # j
    BY <1>1, <1>10, <2>1
  <2>3. <<j, i>> \notin R
    <3>1. <<j, i>> \in R => l - 1 < k - 1
      BY <1>1, <1>4, <2>1, RankGrows
    <3>. QED
      BY <1>1, <1>10, <3>1
  <2>4. ~Before(spans[j], spans[i])
    BY <2>1, <2>3, FirstsAre DEF R
  <2>. QED
    BY <2>2, <2>4 DEF i, j
<1>. QED
  BY <1>1, <1>5, <1>7, <1>9, <1>10 DEF order, n, R

\* The key of the k-th span of a set; the spans of the set with a lesser key,
\* and those with no greater one.
KthKey(spans, X, k) == SpanKey(spans[InOrder(spans, X)[k]])
Less(spans, X, key) == {i \in X : Lex(SpanKey(spans[i]), key)}
UpTo(spans, X, key) == {i \in X : ~Lex(key, SpanKey(spans[i]))}

\* At most k - 1 spans of the set have a key less than the k-th, at least k
\* have none that is greater.
LEMMA KeysAround ==
    ASSUME NEW spans, AreSpans(spans), NEW X \in SUBSET (1 .. Len(spans)),
           NEW k \in 1 .. Cardinality(X)
    PROVE  /\ KthKey(spans, X, k) \in [1 .. 6 -> Int]
           /\ Cardinality(Less(spans, X, KthKey(spans, X, k))) \in Nat
           /\ Cardinality(Less(spans, X, KthKey(spans, X, k))) <= k - 1
           /\ Cardinality(UpTo(spans, X, KthKey(spans, X, k))) \in Nat
           /\ k <= Cardinality(UpTo(spans, X, KthKey(spans, X, k)))
<1> DEFINE at == InOrder(spans, X)[k]
           a == SpanKey(spans[at])
           less == {i \in X : Lex(SpanKey(spans[i]), a)}
           upto == {i \in X : ~Lex(a, SpanKey(spans[i]))}
           R == Firsts(spans, X)
           A == Ahead(R, X, at)
<1>1. at \in X /\ Cardinality(A) = k - 1 /\ Cardinality(X) \in Nat
  BY OrderIs
<1>2. \A i \in X : SpanKey(spans[i]) \in [1 .. 6 -> Int]
  <2>1. \A i \in X : i \in 1 .. Len(spans)
    OBVIOUS
  <2>. QED
    BY <2>1, KeyIsTyped
<1>3. \A i \in X : <<i, at>> \in R <=> \/ Lex(SpanKey(spans[i]), a)
                                       \/ ~Lex(a, SpanKey(spans[i])) /\ i < at
  BY <1>1, FirstsAre, BeforeIsLex
<1>4. IsFiniteSet(X)
  <2>1. IsFiniteSet(1 .. Len(spans))
    BY FS_Interval DEF AreSpans
  <2>. QED
    BY <2>1, FS_Subset
<1>5. \A i \in X : Lex(SpanKey(spans[i]), a) => ~Lex(a, SpanKey(spans[i]))
  BY <1>1, <1>2, LexIsOrder
<1>6. ~Lex(a, a)
  BY <1>1, <1>2, LexIsOrder
<1>7. less \subseteq A /\ A \cup {at} \subseteq upto /\ at \notin A
  <2>1. \A i \in X : i \in A <=> <<i, at>> \in R
    BY DEF Ahead
  <2>2. A \subseteq X
    BY DEF Ahead
  <2>3. <<at, at>> \notin R
    BY <1>1, FirstsAre DEF IsStrictOrder
  <2> HIDE DEF A, R, at
  <2>. QED
    BY <1>1, <1>3, <1>5, <1>6, <2>1, <2>2, <2>3
<1>8. A \subseteq X /\ upto \subseteq X
  BY DEF Ahead
<1> HIDE DEF A, less, upto, R
<1>9. IsFiniteSet(A) /\ IsFiniteSet(upto)
  BY <1>4, <1>8, FS_Subset
<1>10. IsFiniteSet(less) /\ Cardinality(less) <= Cardinality(A)
  BY <1>7, <1>9, FS_Subset
<1>11. IsFiniteSet(A \cup {at}) /\ Cardinality(A \cup {at}) = k
  <2>1. Cardinality(A \cup {at}) = Cardinality(A) + 1
    BY <1>7, <1>9, FS_AddElement
  <2>. QED
    BY <1>1, <1>9, <2>1, FS_AddElement
<1>12. Cardinality(A \cup {at}) <= Cardinality(upto)
  BY <1>7, <1>9, FS_Subset
<1>13. Cardinality(less) \in Nat /\ Cardinality(upto) \in Nat
  BY <1>9, <1>10, FS_CardinalityType
<1>. QED
  BY <1>1, <1>2, <1>10, <1>11, <1>12, <1>13 DEF less, upto, KthKey, Less, UpTo

\* In whatever order they come, the k-th span of a set has the same key.
SameKeys(spans, other, X, Y) ==
    /\ Cardinality(Y) = Cardinality(X) /\ Cardinality(X) \in Nat
    /\ DOMAIN InOrder(spans, X) = 1 .. Cardinality(X)
    /\ DOMAIN InOrder(other, Y) = 1 .. Cardinality(X)
    /\ \A k \in 1 .. Cardinality(X) :
         /\ InOrder(spans, X)[k] \in X /\ InOrder(other, Y)[k] \in Y
         /\ SpanKey(spans[InOrder(spans, X)[k]]) = SpanKey(other[InOrder(other, Y)[k]])

LEMMA KeysInOrder ==
    ASSUME NEW spans, NEW other, NEW p, Shuffled(spans, other, p),
           NEW X \in SUBSET (1 .. Len(spans))
    PROVE  SameKeys(spans, other, X, Back(p, X))
<1> DEFINE N == Len(spans)
           Y == Back(p, X)
           n == Cardinality(X)
<1>1. AreSpans(spans) /\ AreSpans(other) /\ Len(other) = N
  BY DEF Shuffled
<1>2. IsFiniteSet(X) /\ IsFiniteSet(Y) /\ Cardinality(Y) = n /\ Y \in SUBSET (1 .. N)
  BY BackCount
<1>3. n \in Nat
  BY <1>1, OrderIs
<1>4. ASSUME NEW k \in 1 .. n
      PROVE  SpanKey(spans[InOrder(spans, X)[k]]) = SpanKey(other[InOrder(other, Y)[k]])
  <2> DEFINE a == KthKey(spans, X, k)
             b == KthKey(other, Y, k)
             lessX == Less(spans, X, a)
             uptoX == UpTo(spans, X, a)
             lessY == Less(other, Y, b)
             uptoY == UpTo(other, Y, b)
  <2> k \in Nat /\ k - 1 < k
    BY <1>3
  <2>1. /\ a \in [1 .. 6 -> Int] /\ Cardinality(lessX) \in Nat /\ Cardinality(lessX) <= k - 1
        /\ Cardinality(uptoX) \in Nat /\ k <= Cardinality(uptoX)
    BY <1>1, KeysAround
  <2>2. /\ b \in [1 .. 6 -> Int] /\ Cardinality(lessY) \in Nat /\ Cardinality(lessY) <= k - 1
        /\ Cardinality(uptoY) \in Nat /\ k <= Cardinality(uptoY)
    <3>1. Y \in SUBSET (1 .. Len(other)) /\ k \in 1 .. Cardinality(Y)
      BY <1>1, <1>2
    <3> HIDE DEF Y
    <3>. QED
      BY <1>1, <3>1, KeysAround
  <2> USE DEF Less, UpTo
  <2>3. \A j \in Y : /\ other[j] = spans[p[j]] /\ p[j] \in X
                     /\ SpanKey(spans[p[j]]) \in [1 .. 6 -> Int]
    <3>1. \A j \in Y : j \in 1 .. N /\ p[j] \in X
      BY <1>2 DEF Back
    <3>2. \A i \in X : SpanKey(spans[i]) \in [1 .. 6 -> Int]
      <4>1. \A i \in X : i \in 1 .. Len(spans)
        OBVIOUS
      <4>. QED
        BY <1>1, <4>1, KeyIsTyped
    <3>. QED
      BY <3>1, <3>2 DEF Shuffled
  <2>4. Y = {j \in DOMAIN p : p[j] \in X}
    BY DEF Back
  <2>5. IsFiniteSet(lessX) /\ IsFiniteSet(uptoX) /\ IsFiniteSet(lessY) /\ IsFiniteSet(uptoY)
    <3>1. lessX \in SUBSET X /\ uptoX \in SUBSET X /\ lessY \in SUBSET Y /\ uptoY \in SUBSET Y
      OBVIOUS
    <3> HIDE DEF lessX, uptoX, lessY, uptoY, Y
    <3>. QED
      BY <1>2, <3>1, FS_Subset
  <2>6. /\ Cardinality(Back(p, lessX)) = Cardinality(lessX) /\ IsFiniteSet(Back(p, lessX))
        /\ Cardinality(Back(p, uptoX)) = Cardinality(uptoX)
    <3>1. lessX \in SUBSET (1 .. N) /\ uptoX \in SUBSET (1 .. N)
      OBVIOUS
    <3> HIDE DEF lessX, uptoX
    <3>. QED
      BY <3>1, BackCount
  <2>7. ASSUME Lex(a, b) PROVE FALSE
    <3>1. Back(p, uptoX) \subseteq lessY
      <4> SUFFICES ASSUME NEW j \in Back(p, uptoX) PROVE j \in lessY
        OBVIOUS
      <4>1. j \in Y /\ ~Lex(a, SpanKey(spans[p[j]]))
        BY <2>4 DEF Back
      <4>2. a = SpanKey(spans[p[j]]) \/ Lex(SpanKey(spans[p[j]]), a)
        <5> HIDE DEF a, Y
        <5>. QED
          BY <2>1, <2>3, <4>1, LexIsOrder
      <4>3. Lex(SpanKey(spans[p[j]]), b)
        <5> HIDE DEF a, b, Y
        <5>. QED
          BY <2>1, <2>2, <2>3, <2>7, <4>1, <4>2, LexIsOrder
      <4>. QED
        BY <2>3, <4>1, <4>3
    <3>2. Cardinality(Back(p, uptoX)) <= Cardinality(lessY)
      <4> HIDE DEF uptoX, lessY
      <4>. QED
        BY <2>5, <3>1, FS_Subset
    <3> HIDE DEF uptoX, uptoY, lessX, lessY
    <3> DEFINE u == Cardinality(uptoX)
               l == Cardinality(lessY)
    <3>3. u \in Nat /\ l \in Nat /\ k <= u /\ l <= k - 1 /\ u <= l
      BY <2>1, <2>2, <2>6, <3>2
    <3> HIDE DEF u, l
    <3>. QED
      BY <3>3
  <2>8. ASSUME Lex(b, a) PROVE FALSE
    <3>1. uptoY \subseteq Back(p, lessX)
      <4> SUFFICES ASSUME NEW j \in uptoY PROVE j \in Back(p, lessX)
        OBVIOUS
      <4>1. j \in Y /\ ~Lex(b, SpanKey(spans[p[j]]))
        BY <2>3
      <4>2. b = SpanKey(spans[p[j]]) \/ Lex(SpanKey(spans[p[j]]), b)
        <5> HIDE DEF b, Y
        <5>. QED
          BY <2>2, <2>3, <4>1, LexIsOrder
      <4>3. Lex(SpanKey(spans[p[j]]), a)
        <5> HIDE DEF a, b, Y
        <5>. QED
          BY <2>1, <2>2, <2>3, <2>8, <4>1, <4>2, LexIsOrder
      <4>4. p[j] \in lessX /\ j \in DOMAIN p
        BY <2>3, <2>4, <4>1, <4>3
      <4>. QED
        BY <4>4 DEF Back
    <3>2. Cardinality(uptoY) <= Cardinality(Back(p, lessX))
      <4> HIDE DEF lessX, uptoY
      <4>. QED
        BY <2>6, <3>1, FS_Subset
    <3> HIDE DEF uptoX, uptoY, lessX, lessY
    <3> DEFINE u == Cardinality(uptoY)
               l == Cardinality(lessX)
    <3>3. u \in Nat /\ l \in Nat /\ k <= u /\ l <= k - 1 /\ u <= l
      BY <2>1, <2>2, <2>6, <3>2
    <3> HIDE DEF u, l
    <3>. QED
      BY <3>3
  <2>9. a = b \/ Lex(a, b) \/ Lex(b, a)
    <3> HIDE DEF a, b
    <3>. QED
      BY <2>1, <2>2, LexIsOrder
  <2>. QED
    BY <2>7, <2>8, <2>9 DEF KthKey
<1>5. /\ n \in Nat /\ Len(InOrder(spans, X)) = n /\ DOMAIN InOrder(spans, X) = 1 .. n
      /\ \A k \in 1 .. n : InOrder(spans, X)[k] \in X
  BY <1>1, OrderIs
<1>6. /\ Len(InOrder(other, Y)) = n /\ DOMAIN InOrder(other, Y) = 1 .. n
      /\ \A k \in 1 .. n : InOrder(other, Y)[k] \in Y
  <2>1. Y \in SUBSET (1 .. Len(other))
    BY <1>1, <1>2
  <2> HIDE DEF Y
  <2>. QED
    BY <1>1, <1>2, <2>1, OrderIs
<1>. QED
  BY <1>2, <1>4, <1>5, <1>6 DEF SameKeys

-----------------------------------------------------------------------------
(* The lines a page is read in                                             *)

\* A span joins the last line that holds a span beside it.
Beside(spans, i, j) == spans[j].page = spans[i].page /\ SameVisualLine(spans[i], spans[j])
FittingLines(spans, done, i) == {k \in DOMAIN done : \E j \in done[k] : Beside(spans, i, j)}
Joined(spans, done, i) ==
    IF FittingLines(spans, done, i) = {} THEN Append(done, {i})
    ELSE [done EXCEPT ![Max(FittingLines(spans, done, i))] = @ \cup {i}]

\* What that makes of lines of spans of a set.
Joins(S, spans, done, i) ==
    LET F == FittingLines(spans, done, i)
        J == Joined(spans, done, i)
        n == Len(done)
    IN /\ J \in Seq(SUBSET S) /\ n \in Nat /\ F \in SUBSET (1 .. n)
       /\ F = {} => /\ Len(J) = n + 1 /\ J[n + 1] = {i}
                    /\ \A k \in 1 .. n : J[k] = done[k]
       /\ F # {} => /\ Max(F) \in F /\ Len(J) = n
                    /\ \A k \in 1 .. n : J[k] = IF k = Max(F) THEN done[k] \cup {i} ELSE done[k]

LEMMA JoinedIs ==
    ASSUME NEW S, NEW spans, NEW done \in Seq(SUBSET S), NEW i \in S
    PROVE  Joins(S, spans, done, i)
<1> USE DEF Joins
<1> DEFINE F == FittingLines(spans, done, i)
           J == Joined(spans, done, i)
           n == Len(done)
           one == {i}
           more == done[Max(F)] \cup {i}
<1>1. n \in Nat /\ DOMAIN done = 1 .. n /\ \A k \in 1 .. n : done[k] \in SUBSET S
  BY LenProperties, ElementOfSeq
<1>2. F \in SUBSET (1 .. n)
  BY <1>1 DEF FittingLines
<1>3. one \in SUBSET S
  OBVIOUS
<1>4. CASE F = {}
  <2>1. J = Append(done, one)
    BY <1>4 DEF Joined
  <2> HIDE DEF J, F, one
  <2>2. /\ J \in Seq(SUBSET S) /\ Len(J) = Len(done) + 1
        /\ \A k \in 1 .. Len(done) : J[k] = done[k]
        /\ J[Len(done) + 1] = one
    BY <1>3, <2>1, AppendProperties
  <2>. QED
    BY <1>1, <1>2, <1>4, <2>2 DEF one, F, J
<1>5. CASE F # {}
  <2>1. Max(F) \in F
    <3>1. F \in SUBSET (0 .. n)
      BY <1>1, <1>2
    <3> HIDE DEF F, n
    <3>. QED
      BY <1>1, <1>5, <3>1, MaxIs
  <2>2. J = [done EXCEPT ![Max(F)] = more]
    BY <1>5 DEF Joined
  <2>3. Max(F) \in 1 .. Len(done) /\ more \in SUBSET S
    BY <1>1, <1>2, <2>1
  <2> DEFINE m == Max(F)
  <2> HIDE DEF J, F, more
  <2>4. /\ J \in Seq(SUBSET S) /\ Len(J) = Len(done)
        /\ \A k \in 1 .. Len(done) : J[k] = IF k = m THEN more ELSE done[k]
    <3> HIDE DEF m
    <3>1. m \in 1 .. Len(done) /\ J = [done EXCEPT ![m] = more]
      BY <2>2, <2>3 DEF m
    <3>. QED
      BY <2>3, <3>1, ExceptSeq
  <2>. QED
    BY <1>1, <1>2, <1>5, <2>1, <2>4 DEF more, F, J
<1>. QED
  BY <1>4, <1>5

\* The lines after each span of the order.
Lines(f, spans, X) ==
    LET order == InOrder(spans, X)
        N == Cardinality(X)
    IN /\ f[0] = <<>> /\ \A k \in 0 .. N : f[k] \in Seq(SUBSET X)
       /\ \A k \in 1 .. N : f[k] = Joined(spans, f[k - 1], order[k])
       /\ VisualLines(spans, X) = f[N]

LEMMA LinesAre ==
    ASSUME NEW spans, AreSpans(spans), NEW X \in SUBSET (1 .. Len(spans))
    PROVE  \E f : Lines(f, spans, X)
<1> DEFINE order == InOrder(spans, X)
           N == Cardinality(X)
           L == Len(order)
           Step(done, i) ==
             LET fits == {k \in DOMAIN done :
                            \E j \in done[k] : /\ spans[j].page = spans[i].page
                                               /\ SameVisualLine(spans[i], spans[j])}
             IN IF fits = {} THEN Append(done, {i})
                ELSE [done EXCEPT ![Max(fits)] = @ \cup {i}]
           Is(f) == f = [n \in 0 .. L |-> IF n = 0 THEN <<>> ELSE Step(f[n - 1], order[n])]
           B == CHOOSE f : Is(f)
           S == [k \in 0 .. N |-> Seq(SUBSET X)]
           steps == [k \in 1 .. N |-> [x \in Seq(SUBSET X) |-> Joined(spans, x, order[k])]]
<1>1. N \in Nat /\ L = N /\ \A k \in 1 .. N : order[k] \in X
  BY OrderIs
<1>2. VisualLines(spans, X) = B[L]
  BY DEF VisualLines
<1>3. \A x, i : Step(x, i) = Joined(spans, x, i)
  BY DEF Joined, FittingLines, Beside
<1>4. /\ \A k \in 0 .. N : S[k] = Seq(SUBSET X)
      /\ \A k \in 1 .. N : \A x \in Seq(SUBSET X) : steps[k][x] = Joined(spans, x, order[k])
  OBVIOUS
<1>5. \A k \in 1 .. N : k - 1 \in 0 .. N /\ k \in 0 .. N
  BY <1>1
<1> HIDE DEF S, steps, order, Step, N, L
<1>0. <<>> \in Seq(SUBSET X)
  <2> DEFINE P == SUBSET X
  <2> HIDE DEF P
  <2>1. <<>> \in Seq(P)
    BY EmptySeq
  <2>. QED
    BY <2>1 DEF P
<1>6. Leads(steps, N, S, <<>>)
  <2>1. <<>> \in S[0]
    <3>1. 0 \in 0 .. N
      BY <1>1
    <3>2. S[0] = Seq(SUBSET X)
      BY <1>4, <3>1
    <3>. QED
      BY <1>0, <3>2, Zenon
  <2>2. ASSUME NEW k \in 1 .. N, NEW x \in S[k - 1] PROVE steps[k][x] \in S[k]
    <3>1. x \in Seq(SUBSET X) /\ S[k] = Seq(SUBSET X) /\ order[k] \in X
      BY <1>1, <1>4, <1>5
    <3>2. Joined(spans, x, order[k]) \in Seq(SUBSET X)
      BY <3>1, JoinedIs DEF Joins
    <3>. QED
      BY <1>4, <3>1, <3>2
  <2>. QED
    BY <1>1, <2>1, <2>2 DEF Leads
<1>7. PICK f : Follows(f, steps, N, S, <<>>)
  BY <1>6, Recursion
<1>8. \A k \in 0 .. N : f[k] \in Seq(SUBSET X)
  BY <1>4, <1>7 DEF Follows
<1>9. f[0] = <<>> /\ \A k \in 1 .. N : f[k] = Step(f[k - 1], order[k])
  <2>1. f[0] = <<>> /\ \A k \in 1 .. N : f[k] = steps[k][f[k - 1]]
    BY <1>7 DEF Follows
  <2>2. \A k \in 1 .. N : f[k - 1] \in Seq(SUBSET X)
    BY <1>5, <1>8
  <2>. QED
    BY <1>3, <1>4, <2>1, <2>2
<1>10. Is(f)
  <2>1. f \in [0 .. N -> UNION {S[k] : k \in 0 .. N}]
    BY <1>7 DEF Follows
  <2>2. f = [k \in 0 .. N |-> f[k]]
    BY <2>1
  <2>3. \A k \in 0 .. N : k = 0 \/ k \in 1 .. N
    BY <1>1
  <2>4. \A k \in 0 .. N : f[k] = IF k = 0 THEN <<>> ELSE Step(f[k - 1], order[k])
    BY <1>9, <2>3
  <2>. QED
    BY <1>1, <2>2, <2>4
<1>11. Is(B)
  <2> HIDE DEF Is
  <2>. QED
    BY <1>10
<1>12. B[0] = <<>> /\ \A k \in 1 .. N : B[k] = Step(B[k - 1], order[k])
  <2> HIDE DEF B
  <2>1. 0 \in 0 .. N /\ \A k \in 1 .. N : k \in 0 .. N /\ k # 0
    BY <1>1
  <2>. QED
    BY <1>1, <1>11, <2>1
<1> HIDE DEF B, Is
<1>13. B[0] = <<>> /\ \A k \in 1 .. N : B[k] = Joined(spans, B[k - 1], order[k])
  BY <1>3, <1>12
<1>14. \A k \in 0 .. N : B[k] \in Seq(SUBSET X)
  <2> DEFINE T == {k \in 0 .. N : B[k] \in Seq(SUBSET X)}
  <2>1. 0 \in T
    <3>1. 0 \in 0 .. N
      BY <1>1
    <3>. QED
      BY <1>0, <1>13, <3>1, Zenon
  <2>2. ASSUME NEW k \in 0 .. N - 1, k \in T PROVE k + 1 \in T
    <3>1. k + 1 \in 1 .. N /\ k + 1 \in 0 .. N /\ k + 1 - 1 = k
      BY <1>1
    <3>2. B[k] \in Seq(SUBSET X) /\ order[k + 1] \in X /\ B[k + 1] = Joined(spans, B[k], order[k + 1])
      BY <1>1, <1>13, <2>2, <3>1
    <3>3. Joined(spans, B[k], order[k + 1]) \in Seq(SUBSET X)
      BY <3>2, JoinedIs DEF Joins
    <3>. QED
      BY <3>1, <3>2, <3>3
  <2> HIDE DEF T
  <2>3. \A k \in 0 .. N : k \in T
    BY <1>1, <2>1, <2>2, Upwards
  <2>. QED
    BY <2>3 DEF T
<1>. QED
  BY <1>1, <1>2, <1>13, <1>14 DEF Lines, order, N

\* f[m] is the line the m-th in order is put in, w[m] the number of lines then;
\* R holds what stands beside what.
Placed(f, w, R, N) ==
    /\ w[0] = 0
    /\ \A m \in 1 .. N :
         LET fits == {f[j] : j \in {j \in 1 .. m - 1 : <<j, m>> \in R}} IN
         /\ fits = {} => f[m] = w[m - 1] + 1 /\ w[m] = w[m - 1] + 1
         /\ fits # {} => f[m] = Max(fits) /\ w[m] = w[m - 1]

\* What stands beside what tells the lines.
LEMMA PlacesAgree ==
    ASSUME NEW N \in Nat, NEW R, NEW f, NEW g, NEW v, NEW w, Placed(f, v, R, N), Placed(g, w, R, N)
    PROVE  v[N] = w[N] /\ \A m \in 1 .. N : f[m] = g[m]
<1> DEFINE T == {m \in 0 .. N : v[m] = w[m] /\ \A j \in 1 .. m : f[j] = g[j]}
<1>1. 0 \in T
  BY DEF Placed
<1>2. ASSUME NEW k \in 0 .. N - 1, k \in T PROVE k + 1 \in T
  <2> DEFINE m == k + 1
             early == {j \in 1 .. m - 1 : <<j, m>> \in R}
             fitsF == {f[j] : j \in early}
             fitsG == {g[j] : j \in early}
  <2>1. m \in 1 .. N /\ m \in 0 .. N /\ m - 1 = k /\ k \in Nat
    OBVIOUS
  <2>2. v[k] = w[k] /\ \A j \in 1 .. k : f[j] = g[j]
    BY <1>2
  <2>3. \A j \in early : f[j] = g[j]
    BY <2>1, <2>2
  <2>4. fitsF = fitsG
    <3> HIDE DEF early
    <3>. QED
      BY <2>3
  <2>5. /\ fitsF = {} => f[m] = v[m - 1] + 1 /\ v[m] = v[m - 1] + 1
        /\ fitsF # {} => f[m] = Max(fitsF) /\ v[m] = v[m - 1]
    BY <2>1 DEF Placed
  <2>6. /\ fitsG = {} => g[m] = w[m - 1] + 1 /\ w[m] = w[m - 1] + 1
        /\ fitsG # {} => g[m] = Max(fitsG) /\ w[m] = w[m - 1]
    BY <2>1 DEF Placed
  <2>7. f[m] = g[m] /\ v[m] = w[m]
    <3> HIDE DEF m, fitsF, fitsG
    <3>. QED
      BY <2>1, <2>2, <2>4, <2>5, <2>6
  <2>8. \A j \in 1 .. m : j \in 1 .. k \/ j = m
    BY <2>1
  <2> HIDE DEF m
  <2>9. m \in T
    BY <2>1, <2>2, <2>7, <2>8
  <2>. QED
    BY <2>9 DEF m
<1> HIDE DEF T
<1>3. \A k \in 0 .. N : k \in T
  BY <1>1, <1>2, Upwards
<1>4. N \in T
  BY <1>3
<1>. QED
  BY <1>4 DEF T

\* The places of the order that stand beside each other, the earlier first.
BesideInOrder(spans, X) ==
    {r \in (1 .. Cardinality(X)) \X (1 .. Cardinality(X)) :
       Beside(spans, InOrder(spans, X)[r[2]], InOrder(spans, X)[r[1]])}

\* A line as the places of the order that are put in it.
InLine(f, N, k) == {m \in 1 .. N : f[m] = k}
LinePlaces(spans, X, f, N, count) ==
    /\ count \in Nat /\ \A m \in 1 .. N : f[m] \in 1 .. count
    /\ VisualLines(spans, X) \in Seq(SUBSET X) /\ Len(VisualLines(spans, X)) = count
    /\ \A k \in 1 .. count :
         /\ VisualLines(spans, X)[k] = {InOrder(spans, X)[m] : m \in InLine(f, N, k)}
         /\ \E m \in 1 .. N : f[m] = k

LEMMA PlacesOf ==
    ASSUME NEW spans, AreSpans(spans), NEW X \in SUBSET (1 .. Len(spans))
    PROVE  \E f, w : /\ Placed(f, w, BesideInOrder(spans, X), Cardinality(X))
                     /\ LinePlaces(spans, X, f, Cardinality(X), w[Cardinality(X)])
<1> DEFINE o == InOrder(spans, X)
           N == Cardinality(X)
           R == BesideInOrder(spans, X)
<1>1. N \in Nat /\ \A k \in 1 .. N : o[k] \in X
  BY OrderIs
<1>2. PICK L : Lines(L, spans, X)
  BY LinesAre
<1> DEFINE F(m) == FittingLines(spans, L[m - 1], o[m])
           w == [m \in 0 .. N |-> Len(L[m])]
           f == [m \in 1 .. N |-> IF F(m) = {} THEN Len(L[m - 1]) + 1 ELSE Max(F(m))]
           Put(m, k) == {o[j] : j \in {j \in 1 .. m : f[j] = k}}
           T == {m \in 0 .. N : /\ w[m] \in Nat /\ \A j \in 1 .. m : f[j] \in 1 .. w[m]
                                /\ \A k \in 1 .. w[m] : /\ L[m][k] = Put(m, k)
                                                         /\ \E j \in 1 .. m : f[j] = k}
<1>3. /\ L[0] = <<>> /\ \A m \in 1 .. N : L[m] = Joined(spans, L[m - 1], o[m])
      /\ \A m \in 0 .. N : L[m] \in Seq(SUBSET X)
      /\ VisualLines(spans, X) = L[N]
  BY <1>2 DEF Lines
<1>4. \A m \in 1 .. N : m - 1 \in 0 .. N /\ m \in 0 .. N
  BY <1>1
<1> HIDE DEF o, N, R
<1>5. \A m \in 0 .. N : w[m] = Len(L[m])
  OBVIOUS
<1>6. \A m \in 1 .. N : f[m] = IF F(m) = {} THEN Len(L[m - 1]) + 1 ELSE Max(F(m))
  OBVIOUS
<1> HIDE DEF w, f, F
<1>7. ASSUME NEW m \in 1 .. N
      PROVE  /\ w[m - 1] \in Nat /\ F(m) \in SUBSET (1 .. w[m - 1])
             /\ F(m) = {} => /\ f[m] = w[m - 1] + 1 /\ w[m] = w[m - 1] + 1 /\ L[m][f[m]] = {o[m]}
                             /\ \A k \in 1 .. w[m - 1] : L[m][k] = L[m - 1][k]
             /\ F(m) # {} => /\ f[m] = Max(F(m)) /\ f[m] \in F(m) /\ w[m] = w[m - 1]
                             /\ \A k \in 1 .. w[m] : L[m][k] = IF k = f[m] THEN L[m - 1][k] \cup {o[m]}
                                                              ELSE L[m - 1][k]
  <2> DEFINE done == L[m - 1]
             i == o[m]
  <2>1. done \in Seq(SUBSET X) /\ i \in X
    BY <1>1, <1>3, <1>4
  <2>2. L[m] = Joined(spans, done, i) /\ F(m) = FittingLines(spans, done, i)
    BY <1>3 DEF F
  <2>3. w[m - 1] = Len(done) /\ w[m] = Len(L[m])
    BY <1>4, <1>5
  <2> HIDE DEF done, i
  <2>4. LET J == Joined(spans, done, i)
            G == FittingLines(spans, done, i)
            n == Len(done)
        IN /\ n \in Nat /\ G \in SUBSET (1 .. n)
           /\ G = {} => /\ Len(J) = n + 1 /\ J[n + 1] = {i}
                        /\ \A k \in 1 .. n : J[k] = done[k]
           /\ G # {} => /\ Max(G) \in G /\ Len(J) = n
                        /\ \A k \in 1 .. n : J[k] = IF k = Max(G) THEN done[k] \cup {i}
                                                   ELSE done[k]
    <3>1. Joins(X, spans, done, i)
      BY <2>1, JoinedIs
    <3>. QED
      BY <3>1 DEF Joins
  <2>5. f[m] = IF F(m) = {} THEN Len(done) + 1 ELSE Max(F(m))
    BY <1>6 DEF done
  <2>. QED
    BY <2>2, <2>3, <2>4, <2>5 DEF done, i
<1>8. 0 \in T
  <2>1. w[0] = 0
    BY <1>1, <1>3, <1>5, EmptySeq
  <2>. QED
    BY <1>1, <2>1
<1>9. ASSUME NEW n \in 0 .. N - 1, n \in T PROVE n + 1 \in T
  <2> DEFINE m == n + 1
  <2>1. m \in 1 .. N /\ m \in 0 .. N /\ m - 1 = n /\ n \in 0 .. N
    BY <1>1
  <2>2. /\ w[n] \in Nat /\ \A j \in 1 .. n : f[j] \in 1 .. w[n]
        /\ \A k \in 1 .. w[n] : L[n][k] = Put(n, k) /\ \E j \in 1 .. n : f[j] = k
    BY <1>9
  <2>3. \A j : j \in 1 .. m <=> j \in 1 .. n \/ j = m
    BY <2>1
  <2>4. \A k : Put(m, k) = IF f[m] = k THEN Put(n, k) \cup {o[m]} ELSE Put(n, k)
    <3> HIDE DEF m
    <3>. QED
      BY <2>3
  <2> HIDE DEF m
  <2>5. CASE F(m) = {}
    <3>1. /\ f[m] = w[n] + 1 /\ w[m] = w[n] + 1 /\ L[m][f[m]] = {o[m]}
          /\ \A k \in 1 .. w[n] : L[m][k] = L[n][k]
      BY <1>7, <2>1, <2>5
    <3>2. \A j \in 1 .. m : f[j] \in 1 .. w[m]
      BY <2>2, <2>3, <3>1
    <3>3. Put(n, f[m]) = {}
      <4>1. f[m] \notin 1 .. w[n]
        BY <2>2, <3>1
      <4>. QED
        BY <2>2, <4>1
    <3>4. ASSUME NEW k \in 1 .. w[m] PROVE L[m][k] = Put(m, k) /\ \E j \in 1 .. m : f[j] = k
      <4>5. \E j \in 1 .. m : f[j] = k
        BY <2>2, <2>3, <3>1
      <4>1. k = f[m] \/ (k \in 1 .. w[n] /\ k # f[m])
        BY <2>2, <3>1
      <4>2. Put(m, k) = IF f[m] = k THEN Put(n, k) \cup {o[m]} ELSE Put(n, k)
        BY <2>4
      <4>3. CASE k = f[m]
        <5> HIDE DEF Put
        <5>. QED
          BY <3>1, <3>3, <4>2, <4>3, <4>5
      <4>4. CASE k \in 1 .. w[n] /\ k # f[m]
        <5>1. L[n][k] = Put(n, k) /\ L[m][k] = L[n][k]
          BY <2>2, <3>1, <4>4
        <5> HIDE DEF Put
        <5>. QED
          BY <4>2, <4>4, <4>5, <5>1
      <4>. QED
        BY <4>1, <4>3, <4>4, <4>5
    <3>5. w[m] \in Nat
      BY <2>2, <3>1
    <3>. QED
      BY <2>1, <3>2, <3>4, <3>5 DEF m
  <2>6. CASE F(m) # {}
    <3>1. /\ f[m] \in 1 .. w[n] /\ w[m] = w[n]
          /\ \A k \in 1 .. w[m] : L[m][k] = IF k = f[m] THEN L[n][k] \cup {o[m]} ELSE L[n][k]
      BY <1>7, <2>1, <2>6
    <3>2. \A j \in 1 .. m : f[j] \in 1 .. w[m]
      BY <2>2, <2>3, <3>1
    <3>4. ASSUME NEW k \in 1 .. w[m] PROVE L[m][k] = Put(m, k) /\ \E j \in 1 .. m : f[j] = k
      <4>5. \E j \in 1 .. m : f[j] = k
        BY <2>2, <2>3, <3>1
      <4>1. L[n][k] = Put(n, k) /\ L[m][k] = IF k = f[m] THEN L[n][k] \cup {o[m]} ELSE L[n][k]
        BY <2>2, <3>1
      <4>2. Put(m, k) = IF f[m] = k THEN Put(n, k) \cup {o[m]} ELSE Put(n, k)
        BY <2>4
      <4> HIDE DEF Put
      <4>. QED
        BY <4>1, <4>2, <4>5
    <3>. QED
      BY <2>1, <2>2, <3>1, <3>2, <3>4 DEF m
  <2>. QED
    BY <2>5, <2>6
<1> HIDE DEF T
<1>10. \A m \in 0 .. N : m \in T
  BY <1>1, <1>8, <1>9, Upwards
<1>11. \A m \in 0 .. N : /\ w[m] \in Nat /\ \A j \in 1 .. m : f[j] \in 1 .. w[m]
                         /\ \A k \in 1 .. w[m] : /\ L[m][k] = Put(m, k)
                                                  /\ \E j \in 1 .. m : f[j] = k
  BY <1>10 DEF T
<1>12. ASSUME NEW m \in 1 .. N
       PROVE  F(m) = {f[j] : j \in {j \in 1 .. m - 1 : <<j, m>> \in R}}
  <2> DEFINE fits == {f[j] : j \in {j \in 1 .. m - 1 : <<j, m>> \in R}}
             n == m - 1
  <2>1. n \in 0 .. N /\ n \in Nat /\ \A j \in 1 .. n : j \in 1 .. N
    BY <1>1
  <2>2. DOMAIN L[n] = 1 .. w[n]
    <3>1. L[n] \in Seq(SUBSET X)
      BY <1>3, <2>1
    <3>. QED
      BY <1>5, <2>1, <3>1, LenProperties
  <2>3. F(m) = {k \in 1 .. w[n] : \E i \in L[n][k] : Beside(spans, o[m], i)}
    BY <2>2 DEF F, FittingLines
  <2>4. /\ \A j \in 1 .. n : f[j] \in 1 .. w[n]
        /\ \A k \in 1 .. w[n] : L[n][k] = Put(n, k)
    BY <1>11, <2>1
  <2>5. \A j \in 1 .. n : <<j, m>> \in R <=> Beside(spans, o[m], o[j])
    BY <2>1 DEF R, BesideInOrder, o, N
  <2>6. fits = {f[j] : j \in {j \in 1 .. n : <<j, m>> \in R}}
    OBVIOUS
  <2> HIDE DEF fits, n
  <2>7. ASSUME NEW k \in F(m) PROVE k \in fits
    <3>1. PICK i \in Put(n, k) : Beside(spans, o[m], i)
      BY <2>3, <2>4
    <3>2. PICK j \in 1 .. n : f[j] = k /\ o[j] = i
      BY <3>1
    <3>. QED
      BY <2>5, <2>6, <3>1, <3>2
  <2>8. ASSUME NEW k \in fits PROVE k \in F(m)
    <3>1. PICK j \in 1 .. n : <<j, m>> \in R /\ f[j] = k
      BY <2>6
    <3>2. k \in 1 .. w[n] /\ o[j] \in Put(n, k) /\ Beside(spans, o[m], o[j])
      BY <2>4, <2>5, <3>1
    <3>. QED
      BY <2>3, <2>4, <3>2
  <2>9. F(m) = fits
    BY <2>7, <2>8
  <2>. QED
    BY <2>9 DEF fits
<1>13. w[0] = 0
  BY <1>1, <1>3, <1>5, EmptySeq
<1>14. Placed(f, w, R, N)
  BY <1>7, <1>12, <1>13 DEF Placed
<1>15. LinePlaces(spans, X, f, N, w[N])
  <2>1. N \in 0 .. N
    BY <1>1
  <2>2. /\ w[N] \in Nat /\ \A j \in 1 .. N : f[j] \in 1 .. w[N]
        /\ \A k \in 1 .. w[N] : L[N][k] = Put(N, k) /\ \E j \in 1 .. N : f[j] = k
    BY <1>11, <2>1
  <2>. QED
    BY <1>3, <1>5, <2>1, <2>2 DEF LinePlaces, InLine, o
<1>. QED
  BY <1>14, <1>15 DEF R, N

\* Spans of one key are alike in all that an arrangement in lines looks at.
LEMMA KeyTells ==
    ASSUME NEW spans, AreSpans(spans), NEW i \in 1 .. Len(spans), NEW j \in 1 .. Len(spans),
           SpanKey(spans[i]) = SpanKey(spans[j])
    PROVE  /\ spans[i].page = spans[j].page /\ spans[i].size = spans[j].size
           /\ spans[i].text = spans[j].text
           /\ spans[i].box.x0 = spans[j].box.x0 /\ spans[i].box.x1 = spans[j].box.x1
           /\ spans[i].box.y0 = spans[j].box.y0 /\ spans[i].box.y1 = spans[j].box.y1
<1>1. /\ spans[i].page = spans[j].page /\ spans[i].rank = spans[j].rank
      /\ spans[i].box.x0 = spans[j].box.x0 /\ spans[i].box.x1 = spans[j].box.x1
      /\ spans[i].box.y0 = spans[j].box.y0 /\ spans[i].box.y1 = spans[j].box.y1
  BY DEF SpanKey
<1>2. spans[i].size = spans[j].size /\ spans[i].text = spans[j].text
  BY <1>1 DEF AreSpans
<1>. QED
  BY <1>1, <1>2

LEMMA BesideByKey ==
    ASSUME NEW spans, AreSpans(spans),
           NEW h \in 1 .. Len(spans), NEW i \in 1 .. Len(spans),
           NEW k \in 1 .. Len(spans), NEW l \in 1 .. Len(spans),
           SpanKey(spans[h]) = SpanKey(spans[k]), SpanKey(spans[i]) = SpanKey(spans[l])
    PROVE  Beside(spans, h, i) = Beside(spans, k, l)
<1>1. /\ spans[h].page = spans[k].page /\ spans[h].size = spans[k].size
      /\ spans[h].box.y0 = spans[k].box.y0 /\ spans[h].box.y1 = spans[k].box.y1
  BY KeyTells
<1>2. /\ spans[i].page = spans[l].page /\ spans[i].size = spans[l].size
      /\ spans[i].box.y0 = spans[l].box.y0 /\ spans[i].box.y1 = spans[l].box.y1
  BY KeyTells
<1>. QED
  BY <1>1, <1>2, Zenon DEF Beside, SameVisualLine

LEMMA BesideOneself ==
    ASSUME NEW spans, AreSpans(spans), NEW i \in 1 .. Len(spans)
    PROVE  Beside(spans, i, i)
<1> DEFINE s == spans[i]
           z == s.size
           T == {z, z, 16}
           a == s.box.y0
           b == s.box.y1
<1>1. z \in Nat /\ a \in Int /\ b \in Int
  BY DEF AreSpans
<1>2. Max(T) \in Nat
  <2>1. z + 16 \in Nat /\ T \in SUBSET (0 .. z + 16) /\ T # {}
    BY <1>1
  <2>2. Max(T) \in T
    <3> HIDE DEF T
    <3>. QED
      BY <2>1, MaxIs
  <2>. QED
    BY <1>1, <2>2
<1>3. 10 * (IF a + b - a - b < 0 THEN -(a + b - a - b) ELSE a + b - a - b) <= 9 * Max(T)
  <2> DEFINE m == Max(T)
  <2> HIDE DEF T, a, b, m
  <2>1. m \in Nat
    BY <1>2 DEF m
  <2>2. a + b - a - b = 0
    BY <1>1
  <2>3. 9 * m \in Nat
    BY <2>1
  <2>. QED
    BY <2>2, <2>3 DEF m
<1>. QED
  BY <1>3 DEF Beside, SameVisualLine

\* What has the key of its neighbour in the order is put in the same line.
LEMMA NeighboursTogether ==
    ASSUME NEW spans, AreSpans(spans), NEW X \in SUBSET (1 .. Len(spans)), NEW f, NEW w,
           Placed(f, w, BesideInOrder(spans, X), Cardinality(X)),
           NEW count \in Nat, \A m \in 1 .. Cardinality(X) : f[m] \in 1 .. count,
           NEW m \in 1 .. Cardinality(X) - 1,
           KthKey(spans, X, m) = KthKey(spans, X, m + 1)
    PROVE  f[m + 1] = f[m]
<1> DEFINE o == InOrder(spans, X)
           N == Cardinality(X)
           R == BesideInOrder(spans, X)
           l == m + 1
           E(k) == {f[j] : j \in {j \in 1 .. k - 1 : <<j, k>> \in R}}
<1>1. N \in Nat /\ \A k \in 1 .. N : o[k] \in X /\ o[k] \in 1 .. Len(spans)
  <2>1. N \in Nat /\ \A k \in 1 .. N : o[k] \in X
    BY OrderIs
  <2>. QED
    BY <2>1
<1>2. m \in 1 .. N /\ l \in 1 .. N /\ \A j : j \in 1 .. l - 1 <=> j \in 1 .. m - 1 \/ j = m
  BY <1>1
<1>3. SpanKey(spans[o[m]]) = SpanKey(spans[o[l]])
  BY DEF KthKey
<1>4. \A j, k \in 1 .. N : <<j, k>> \in R <=> Beside(spans, o[k], o[j])
  BY DEF BesideInOrder
<1> HIDE DEF o, N, R, l
<1>5. \A j \in 1 .. N : <<j, l>> \in R <=> <<j, m>> \in R
  <2> SUFFICES ASSUME NEW j \in 1 .. N PROVE Beside(spans, o[l], o[j]) = Beside(spans, o[m], o[j])
    BY <1>2, <1>4
  <2>. QED
    BY <1>1, <1>2, <1>3, BesideByKey
<1>6. <<m, l>> \in R
  <2>1. Beside(spans, o[l], o[m]) = Beside(spans, o[m], o[m])
    BY <1>1, <1>2, <1>3, BesideByKey
  <2>2. Beside(spans, o[m], o[m])
    BY <1>1, <1>2, BesideOneself
  <2>. QED
    BY <1>2, <1>4, <2>1, <2>2
<1>7. E(l) = E(m) \cup {f[m]}
  <2>1. \A j \in 1 .. l - 1 : j \in 1 .. N
    BY <1>1, <1>2
  <2>2. {j \in 1 .. l - 1 : <<j, l>> \in R} = {j \in 1 .. m - 1 : <<j, m>> \in R} \cup {m}
    BY <1>2, <1>5, <1>6, <2>1
  <2>. QED
    BY <2>2
<1>8. /\ E(l) # {} => f[l] = Max(E(l))
      /\ E(m) # {} => f[m] = Max(E(m))
  BY <1>2 DEF Placed, R, N
<1>9. /\ E(l) \in SUBSET (0 .. count) /\ f[m] \in 0 .. count /\ E(m) \in SUBSET (0 .. count)
  <2>1. \A j : j \in 1 .. l - 1 \/ j \in 1 .. m - 1 => j \in 1 .. N
    BY <1>1, <1>2
  <2>2. \A j \in 1 .. N : f[j] \in 0 .. count
    BY DEF N
  <2>. QED
    BY <1>2, <2>1, <2>2
<1> HIDE DEF E
<1>10. CASE E(m) = {}
  <2> DEFINE one == {f[m]}
  <2>1. E(l) = one /\ one \in SUBSET (0 .. count) /\ one # {}
    BY <1>7, <1>9, <1>10
  <2>2. Max(one) \in one
    <3> HIDE DEF one
    <3>. QED
      BY <2>1, MaxIs
  <2>. QED
    BY <1>7, <1>8, <2>1, <2>2 DEF l
<1>11. CASE E(m) # {}
  <2>1. Max(E(m)) \in E(m)
    BY <1>9, <1>11, MaxIs
  <2>2. E(l) = E(m)
    BY <1>7, <1>8, <1>11, <2>1
  <2>. QED
    BY <1>8, <1>11, <2>2 DEF l
<1>. QED
  BY <1>10, <1>11

\* So is all that has one key: it stands together in the order.
LEMMA TiesTogether ==
    ASSUME NEW spans, AreSpans(spans), NEW X \in SUBSET (1 .. Len(spans)), NEW f, NEW w,
           Placed(f, w, BesideInOrder(spans, X), Cardinality(X)),
           NEW count \in Nat, \A m \in 1 .. Cardinality(X) : f[m] \in 1 .. count,
           NEW k \in 1 .. Cardinality(X), NEW l \in 1 .. Cardinality(X), k < l,
           KthKey(spans, X, k) = KthKey(spans, X, l)
    PROVE  f[k] = f[l]
<1> DEFINE N == Cardinality(X)
           K(m) == KthKey(spans, X, m)
           D == l - k
           T == {d \in 0 .. D : f[k + d] = f[k]}
<1>1. /\ N \in Nat
      /\ \A m \in 1 .. N : InOrder(spans, X)[m] \in X
      /\ \A a, b \in 1 .. N : a < b => ~Before(spans[InOrder(spans, X)[b]], spans[InOrder(spans, X)[a]])
  BY OrderIs
<1>2. \A m \in 1 .. N : K(m) \in [1 .. 6 -> Int]
  <2> SUFFICES ASSUME NEW m \in 1 .. N PROVE K(m) \in [1 .. 6 -> Int]
    OBVIOUS
  <2>1. InOrder(spans, X)[m] \in 1 .. Len(spans)
    BY <1>1
  <2>. QED
    BY <2>1, KeyIsTyped DEF KthKey
<1>3. \A a, b \in 1 .. N : a < b => ~Lex(K(b), K(a))
  BY <1>1, BeforeIsLex DEF KthKey
<1> HIDE DEF K, N
<1>4. \A m \in k .. l : m \in 1 .. N /\ K(m) = K(k)
  <2> SUFFICES ASSUME NEW m \in k .. l PROVE m \in 1 .. N /\ K(m) = K(k)
    OBVIOUS
  <2>1. m \in 1 .. N /\ k \in 1 .. N /\ l \in 1 .. N
    BY <1>1 DEF N
  <2>2. K(k) = K(l)
    BY DEF K
  <2>3. CASE m = k
    BY <2>1, <2>3
  <2>4. CASE m = l
    BY <2>1, <2>2, <2>4
  <2>5. CASE k < m /\ m < l
    <3>1. ~Lex(K(m), K(k)) /\ ~Lex(K(k), K(m))
      BY <1>3, <2>1, <2>2, <2>5
    <3>. QED
      BY <1>2, <2>1, <3>1, LexIsOrder
  <2>6. m = k \/ m = l \/ (k < m /\ m < l)
    BY <1>1 DEF N
  <2>. QED
    BY <2>3, <2>4, <2>5, <2>6
<1>5. D \in Nat /\ k + D = l /\ k \in Nat /\ l \in Nat /\ k + 0 = k /\ l \in 1 .. N
  BY <1>1 DEF N
<1> HIDE DEF D
<1>6. 0 \in T
  BY <1>5
<1>7. ASSUME NEW d \in 0 .. D - 1, d \in T PROVE d + 1 \in T
  <2> DEFINE m == k + d
  <2>1. m \in k .. l /\ m + 1 \in k .. l /\ m \in 1 .. N - 1 /\ k + (d + 1) = m + 1 /\ d + 1 \in 0 .. D
    BY <1>1, <1>5
  <2>2. f[m] = f[k]
    BY <1>7
  <2> HIDE DEF m
  <2>3. K(m) = K(m + 1)
    BY <1>4, <2>1
  <2>4. f[m + 1] = f[m]
    BY <2>1, <2>3, NeighboursTogether DEF N, K
  <2>. QED
    BY <2>1, <2>2, <2>4
<1> HIDE DEF T
<1>8. \A d \in 0 .. D : d \in T
  BY <1>5, <1>6, <1>7, Upwards
<1>9. D \in T
  BY <1>5, <1>8
<1>. QED
  BY <1>5, <1>9 DEF T

\* What stands beside what does not depend on the order the spans came in.
LEMMA BesideInAnyOrder ==
    ASSUME NEW spans, NEW other, NEW p, Shuffled(spans, other, p),
           NEW X \in SUBSET (1 .. Len(spans))
    PROVE  BesideInOrder(other, Back(p, X)) = BesideInOrder(spans, X)
<1> DEFINE Y == Back(p, X)
           N == Cardinality(X)
           o == InOrder(spans, X)
           q == InOrder(other, Y)
<1>0. AreSpans(spans)
  BY DEF Shuffled
<1>1. Cardinality(Y) = N /\ AreSpans(spans)
  BY <1>0, BackCount
<1>2. \A m \in 1 .. N : /\ o[m] \in X /\ q[m] \in Y
                        /\ SpanKey(spans[o[m]]) = SpanKey(other[q[m]])
  BY KeysInOrder DEF SameKeys
<1>3. \A j \in Y : p[j] \in 1 .. Len(spans) /\ other[j] = spans[p[j]]
  BY BackIs DEF Back
<1> HIDE DEF Y, N, o, q
<1>4. ASSUME NEW a \in 1 .. N, NEW b \in 1 .. N
      PROVE  Beside(other, q[b], q[a]) = Beside(spans, o[b], o[a])
  <2>1. /\ other[q[a]] = spans[p[q[a]]] /\ other[q[b]] = spans[p[q[b]]]
        /\ p[q[a]] \in 1 .. Len(spans) /\ p[q[b]] \in 1 .. Len(spans)
        /\ o[a] \in 1 .. Len(spans) /\ o[b] \in 1 .. Len(spans)
        /\ SpanKey(spans[o[a]]) = SpanKey(spans[p[q[a]]])
        /\ SpanKey(spans[o[b]]) = SpanKey(spans[p[q[b]]])
    BY <1>2, <1>3
  <2>2. Beside(other, q[b], q[a]) = Beside(spans, p[q[b]], p[q[a]])
    BY <2>1, Zenon DEF Beside
  <2>3. Beside(spans, o[b], o[a]) = Beside(spans, p[q[b]], p[q[a]])
    <3> DEFINE h == o[b] i == o[a] k == p[q[b]] l == p[q[a]]
    <3>1. /\ h \in 1 .. Len(spans) /\ i \in 1 .. Len(spans)
          /\ k \in 1 .. Len(spans) /\ l \in 1 .. Len(spans)
          /\ SpanKey(spans[h]) = SpanKey(spans[k]) /\ SpanKey(spans[i]) = SpanKey(spans[l])
      BY <2>1
    <3> HIDE DEF h, i, k, l
    <3>2. Beside(spans, h, i) = Beside(spans, k, l)
      BY <1>1, <3>1, BesideByKey
    <3>. QED
      BY <3>2 DEF h, i, k, l
  <2>. QED
    BY <2>2, <2>3
<1>. QED
  BY <1>1, <1>4, Zenon DEF BesideInOrder, Y, N, o, q

\* The same lines of the spans in another order.
SameLines(spans, p, lines, mirror) ==
    /\ DOMAIN mirror = DOMAIN lines
    /\ \A k \in DOMAIN lines : /\ lines[k] \in SUBSET (1 .. Len(spans)) /\ lines[k] # {}
                               /\ mirror[k] = Back(p, lines[k])

\* The lines are the same, and none is empty.
LEMMA LinesBack ==
    ASSUME NEW spans, NEW other, NEW p, Shuffled(spans, other, p),
           NEW X \in SUBSET (1 .. Len(spans))
    PROVE  SameLines(spans, p, VisualLines(spans, X), VisualLines(other, Back(p, X)))
<1> DEFINE Y == Back(p, X)
           N == Cardinality(X)
           R == BesideInOrder(spans, X)
           o == InOrder(spans, X)
           q == InOrder(other, Y)
           K(m) == KthKey(spans, X, m)
<1>0. AreSpans(spans) /\ AreSpans(other) /\ Len(other) = Len(spans)
  BY DEF Shuffled
<1>1. /\ AreSpans(spans) /\ AreSpans(other) /\ Cardinality(Y) = N
      /\ Y \in SUBSET (1 .. Len(other)) /\ BesideInOrder(other, Y) = R
  BY <1>0, BackCount, BesideInAnyOrder
<1>2. PICK f, v : Placed(f, v, R, N) /\ LinePlaces(spans, X, f, N, v[N])
  BY <1>1, PlacesOf
<1>3. PICK g, w : Placed(g, w, R, N) /\ LinePlaces(other, Y, g, N, w[N])
  <2> HIDE DEF Y, N, R
  <2>1. \E g, w : /\ Placed(g, w, BesideInOrder(other, Y), Cardinality(Y))
                  /\ LinePlaces(other, Y, g, Cardinality(Y), w[Cardinality(Y)])
    BY <1>1, PlacesOf
  <2>. QED
    BY <1>1, <2>1
<1>4. /\ N \in Nat
      /\ \A m \in 1 .. N : /\ o[m] \in X /\ q[m] \in Y
                           /\ SpanKey(spans[o[m]]) = SpanKey(other[q[m]])
  BY KeysInOrder DEF SameKeys
<1>5. /\ \A i \in X : \E m \in 1 .. N : o[m] = i
      /\ \A j \in Y : \E m \in 1 .. N : q[m] = j
  <2>1. \A i \in X : \E m \in 1 .. N : o[m] = i
    BY <1>1, OrderIs
  <2>2. \A j \in Y : \E m \in 1 .. N : q[m] = j
    <3> HIDE DEF Y, N
    <3>. QED
      BY <1>1, OrderIs DEF q
  <2>. QED
    BY <2>1, <2>2
<1>6. v[N] = w[N] /\ \A m \in 1 .. N : f[m] = g[m]
  BY <1>2, <1>3, <1>4, PlacesAgree
<1> DEFINE count == v[N]
           A == VisualLines(spans, X)
           B == VisualLines(other, Y)
<1>7. /\ count \in Nat /\ \A m \in 1 .. N : f[m] \in 1 .. count
      /\ A \in Seq(SUBSET X) /\ Len(A) = count /\ B \in Seq(SUBSET Y) /\ Len(B) = count
      /\ \A k \in 1 .. count : /\ A[k] = {o[m] : m \in InLine(f, N, k)}
                               /\ B[k] = {q[m] : m \in InLine(g, N, k)}
                               /\ \E m \in 1 .. N : f[m] = k
  BY <1>2, <1>3, <1>6 DEF LinePlaces
<1>8. ASSUME NEW k \in 1 .. N, NEW l \in 1 .. N, SpanKey(spans[o[k]]) = SpanKey(spans[o[l]])
      PROVE  f[k] = f[l]
  <2>1. KthKey(spans, X, k) = KthKey(spans, X, l)
    BY <1>8 DEF KthKey
  <2>2. k < l \/ l < k \/ k = l
    BY <1>4
  <2>3. /\ Placed(f, v, BesideInOrder(spans, X), Cardinality(X)) /\ count \in Nat
        /\ \A m \in 1 .. Cardinality(X) : f[m] \in 1 .. count
        /\ k \in 1 .. Cardinality(X) /\ l \in 1 .. Cardinality(X)
    BY <1>2, <1>7
  <2> HIDE DEF count, N
  <2>4. ASSUME k < l PROVE f[k] = f[l]
    BY <1>1, <2>1, <2>3, <2>4, TiesTogether
  <2>5. ASSUME l < k PROVE f[l] = f[k]
    BY <1>1, <2>1, <2>3, <2>5, TiesTogether
  <2>. QED
    BY <2>2, <2>4, <2>5
<1>9. /\ \A j \in Y : p[j] \in X /\ other[j] = spans[p[j]] /\ j \in DOMAIN p
      /\ \A j \in DOMAIN p : p[j] \in X => j \in Y
  BY BackIs DEF Back
<1>10. DOMAIN A = 1 .. count /\ DOMAIN B = 1 .. count
  <2> HIDE DEF A, B, count, Y
  <2>. QED
    BY <1>7, LenProperties
<1> HIDE DEF Y, N, R, o, q, A, B, count
<1>11. ASSUME NEW k \in 1 .. count PROVE B[k] = Back(p, A[k])
  <2>1. ASSUME NEW j \in B[k] PROVE j \in Back(p, A[k])
    <3>1. PICK m \in 1 .. N : g[m] = k /\ q[m] = j
      BY <1>7 DEF InLine
    <3>2. j \in Y /\ p[j] \in X /\ j \in DOMAIN p
      BY <1>4, <1>9, <3>1
    <3>3. PICK l \in 1 .. N : o[l] = p[j]
      BY <1>5, <3>2
    <3>4. f[l] = f[m] /\ f[m] = k
      BY <1>4, <1>6, <1>8, <1>9, <3>1, <3>2, <3>3
    <3>5. p[j] \in A[k]
      BY <1>7, <3>3, <3>4 DEF InLine
    <3>. QED
      BY <3>2, <3>5 DEF Back
  <2>2. ASSUME NEW j \in Back(p, A[k]) PROVE j \in B[k]
    <3>1. j \in DOMAIN p /\ p[j] \in A[k]
      BY DEF Back
    <3>2. PICK m \in 1 .. N : f[m] = k /\ o[m] = p[j]
      BY <1>7, <3>1 DEF InLine
    <3>3. j \in Y
      BY <1>4, <1>9, <3>1, <3>2
    <3>4. PICK l \in 1 .. N : q[l] = j
      BY <1>5, <3>3
    <3>5. g[l] = k
      BY <1>4, <1>6, <1>8, <1>9, <3>2, <3>3, <3>4
    <3>. QED
      BY <1>7, <3>4, <3>5 DEF InLine
  <2>. QED
    BY <2>1, <2>2
<1>12. ASSUME NEW k \in 1 .. count PROVE A[k] # {} /\ A[k] \in SUBSET X
  <2>1. PICK m \in 1 .. N : f[m] = k
    BY <1>7
  <2>2. o[m] \in A[k]
    BY <1>7, <2>1 DEF InLine
  <2>3. A[k] \in SUBSET X
    BY <1>7, ElementOfSeq
  <2>. QED
    BY <2>2, <2>3
<1>13. /\ DOMAIN B = DOMAIN A
       /\ \A k \in DOMAIN A : /\ A[k] \in SUBSET (1 .. Len(spans)) /\ A[k] # {}
                              /\ B[k] = Back(p, A[k])
  BY <1>10, <1>11, <1>12
<1>14. SameLines(spans, p, A, B)
  BY <1>13 DEF SameLines
<1>. QED
  BY <1>14 DEF A, B, Y

-----------------------------------------------------------------------------
(* What a line is does not depend on the order of the spans                *)

\* Back tells which spans of the other order are of the set, and they are
\* the same spans.
Mirrors(spans, other, p, X, Y) ==
    /\ \A j \in Y : p[j] \in X /\ other[j] = spans[p[j]]
    /\ \A i \in X : \E j \in Y : p[j] = i /\ other[j] = spans[i]

LEMMA BackMirrors ==
    ASSUME NEW spans, NEW other, NEW p, Shuffled(spans, other, p),
           NEW X \in SUBSET (1 .. Len(spans))
    PROVE  Mirrors(spans, other, p, X, Back(p, X))
<1>1. /\ DOMAIN p = 1 .. Len(spans)
      /\ \A j \in 1 .. Len(spans) : p[j] \in 1 .. Len(spans) /\ other[j] = spans[p[j]]
      /\ \A i \in 1 .. Len(spans) : \E j \in 1 .. Len(spans) : p[j] = i
  BY BackIs
<1>2. ASSUME NEW j \in Back(p, X) PROVE p[j] \in X /\ other[j] = spans[p[j]]
  BY <1>1 DEF Back
<1>3. ASSUME NEW i \in X PROVE \E j \in Back(p, X) : p[j] = i /\ other[j] = spans[i]
  <2>1. i \in 1 .. Len(spans)
    OBVIOUS
  <2>2. PICK j \in 1 .. Len(spans) : p[j] = i
    BY <1>1, <2>1
  <2>3. j \in Back(p, X) /\ other[j] = spans[i]
    BY <1>1, <2>2 DEF Back
  <2>. QED
    BY <2>2, <2>3
<1>. QED
  BY <1>2, <1>3 DEF Mirrors

\* Spans that are so in both orders.
LEMMA BackOf ==
    ASSUME NEW spans, NEW other, NEW p, Shuffled(spans, other, p),
           NEW X \in SUBSET (1 .. Len(spans)), NEW Y \in SUBSET (1 .. Len(spans))
    PROVE  /\ Back(p, X \cup Y) = Back(p, X) \cup Back(p, Y)
           /\ Back(p, X \ Y) = Back(p, X) \ Back(p, Y)
           /\ Back(p, X) = {} <=> X = {}
<1>1. Back(p, X) = {} <=> X = {}
  <2>1. X # {} => Back(p, X) # {}
    BY BackMirrors DEF Mirrors
  <2>. QED
    BY <2>1 DEF Back
<1>. QED
  BY <1>1 DEF Back

\* The values the spans of a set have.
SameValues(spans, other, X, Y) ==
    /\ {other[j].page : j \in Y} = {spans[i].page : i \in X}
    /\ {other[j].size : j \in Y} = {spans[i].size : i \in X}
    /\ {other[j].box.y0 : j \in Y} = {spans[i].box.y0 : i \in X}
    /\ {other[j].box.y1 : j \in Y} = {spans[i].box.y1 : i \in X}
    /\ {other[j].box.x0 : j \in Y} = {spans[i].box.x0 : i \in X}
    /\ {[page |-> other[j].page, top |-> other[j].box.y0] : j \in Y}
         = {[page |-> spans[i].page, top |-> spans[i].box.y0] : i \in X}

LEMMA ValuesAgree ==
    ASSUME NEW spans, NEW other, NEW p, NEW X, NEW Y, Mirrors(spans, other, p, X, Y)
    PROVE  SameValues(spans, other, X, Y)
<1>1. {other[j] : j \in Y} = {spans[i] : i \in X}
  BY DEF Mirrors
<1> DEFINE A == {other[j] : j \in Y}
           B == {spans[i] : i \in X}
<1>2. {other[j].page : j \in Y} = {s.page : s \in A} /\ {spans[i].page : i \in X} = {s.page : s \in B}
  OBVIOUS
<1>3. {other[j].size : j \in Y} = {s.size : s \in A} /\ {spans[i].size : i \in X} = {s.size : s \in B}
  OBVIOUS
<1>4. /\ {other[j].box.y0 : j \in Y} = {s.box.y0 : s \in A}
      /\ {spans[i].box.y0 : i \in X} = {s.box.y0 : s \in B}
  OBVIOUS
<1>5. /\ {other[j].box.y1 : j \in Y} = {s.box.y1 : s \in A}
      /\ {spans[i].box.y1 : i \in X} = {s.box.y1 : s \in B}
  OBVIOUS
<1>6. /\ {other[j].box.x0 : j \in Y} = {s.box.x0 : s \in A}
      /\ {spans[i].box.x0 : i \in X} = {s.box.x0 : s \in B}
  OBVIOUS
<1>7. /\ {[page |-> other[j].page, top |-> other[j].box.y0] : j \in Y}
           = {[page |-> s.page, top |-> s.box.y0] : s \in A}
      /\ {[page |-> spans[i].page, top |-> spans[i].box.y0] : i \in X}
           = {[page |-> s.page, top |-> s.box.y0] : s \in B}
  OBVIOUS
<1> HIDE DEF A, B
<1>8. A = B
  BY <1>1 DEF A, B
<1>. QED
  BY <1>2, <1>3, <1>4, <1>5, <1>6, <1>7, <1>8, Zenon DEF SameValues

LEMMA LineBack ==
    ASSUME NEW spans, NEW other, NEW p, NEW X, NEW Y, Mirrors(spans, other, p, X, Y)
    PROVE  /\ LineTop(other, Y) = LineTop(spans, X)
           /\ LineBottom(other, Y) = LineBottom(spans, X)
           /\ LineLeft(other, Y) = LineLeft(spans, X)
           /\ LinePage(other, Y) = LinePage(spans, X)
<1>1. SameValues(spans, other, X, Y)
  BY ValuesAgree
<1>. QED
  BY <1>1, Zenon DEF SameValues, LineTop, LineBottom, LineLeft, LinePage

LEMMA MostlyBack ==
    ASSUME NEW spans, NEW other, NEW p, Shuffled(spans, other, p), NEW percent,
           NEW X \in SUBSET (1 .. Len(spans)), NEW Y \in SUBSET (1 .. Len(spans))
    PROVE  Mostly(other, Back(p, X), Back(p, Y), percent) = Mostly(spans, X, Y, percent)
<1>1. Chars(other, Back(p, X)) = Chars(spans, X) /\ Chars(other, Back(p, Y)) = Chars(spans, Y)
  BY CharsBack
<1>. QED
  BY <1>1, Zenon DEF Mostly

LEMMA MonoBack ==
    ASSUME NEW spans, NEW other, NEW p, Shuffled(spans, other, p),
           NEW X \in SUBSET (1 .. Len(spans))
    PROVE  MostlyMono(other, Back(p, X)) = MostlyMono(spans, X)
<1> DEFINE some == {i \in X : spans[i].font = "mono"}
<1>1. {j \in Back(p, X) : other[j].font = "mono"} = Back(p, some)
  BY BackMirrors DEF Back, Mirrors
<1>2. some \in SUBSET (1 .. Len(spans))
  OBVIOUS
<1>3. MostlyMono(spans, X) = Mostly(spans, some, X, 80)
  BY DEF MostlyMono
<1>4. MostlyMono(other, Back(p, X)) = Mostly(other, Back(p, some), Back(p, X), 80)
  BY <1>1 DEF MostlyMono
<1> HIDE DEF some
<1>. QED
  BY <1>2, <1>3, <1>4, MostlyBack

LEMMA AdjacentBack ==
    ASSUME NEW spans, NEW other, NEW p, Shuffled(spans, other, p),
           NEW X \in SUBSET (1 .. Len(spans)), NEW Y \in SUBSET (1 .. Len(spans))
    PROVE  Adjacent(other, Back(p, X), Back(p, Y)) = Adjacent(spans, X, Y)
<1>1. /\ LineTop(other, Back(p, X)) = LineTop(spans, X)
      /\ LineBottom(other, Back(p, X)) = LineBottom(spans, X)
      /\ LinePage(other, Back(p, X)) = LinePage(spans, X)
  BY BackMirrors, LineBack
<1>2. /\ LineTop(other, Back(p, Y)) = LineTop(spans, Y)
      /\ LineBottom(other, Back(p, Y)) = LineBottom(spans, Y)
      /\ LinePage(other, Back(p, Y)) = LinePage(spans, Y)
  BY BackMirrors, LineBack
<1>. QED
  BY <1>1, <1>2, Zenon DEF Adjacent

\* The median is that of the same values.
LEMMA MedianBack ==
    ASSUME NEW spans, NEW other, NEW p, Shuffled(spans, other, p),
           NEW X \in SUBSET (1 .. Len(spans)), NEW f, NEW g, DOMAIN f = X,
           DOMAIN g = Back(p, X), \A j \in Back(p, X) : g[j] = f[p[j]]
    PROVE  MedianTwice(g) = MedianTwice(f)
<1> DEFINE n == Cardinality(DOMAIN f)
           m == Cardinality(DOMAIN g)
           Few(v) == {x \in DOMAIN f : f[x] <= v}
           FewG(v) == {x \in DOMAIN g : g[x] <= v}
<1>1. m = n
  BY BackCount
<1>2. Range(g) = Range(f)
  <2>1. \A i \in X : \E j \in Back(p, X) : p[j] = i
    BY BackMirrors DEF Mirrors
  <2>2. \A j \in Back(p, X) : p[j] \in X
    BY DEF Back
  <2>. QED
    BY <2>1, <2>2 DEF Range
<1>3. ASSUME NEW v PROVE Cardinality(FewG(v)) = Cardinality(Few(v))
  <2>1. FewG(v) = Back(p, Few(v))
    BY DEF Back
  <2>2. Few(v) \in SUBSET (1 .. Len(spans))
    OBVIOUS
  <2> HIDE DEF Few, FewG
  <2>. QED
    BY <2>1, <2>2, BackCount
<1> DEFINE Nth(k) == Min({v \in Range(f) : Cardinality(Few(v)) >= k})
           NthG(k) == Min({v \in Range(g) : Cardinality(FewG(v)) >= k})
<1>4. \A k : NthG(k) = Nth(k)
  <2> SUFFICES ASSUME NEW k PROVE NthG(k) = Nth(k)
    OBVIOUS
  <2>1. {v \in Range(g) : Cardinality(FewG(v)) >= k} = {v \in Range(f) : Cardinality(Few(v)) >= k}
    <3> HIDE DEF Few, FewG
    <3>. QED
      BY <1>2, <1>3
  <2>. QED
    BY <2>1
<1>5. MedianTwice(f) = Nth((n + 1) \div 2) + Nth((n + 2) \div 2)
  BY DEF MedianTwice
<1>6. MedianTwice(g) = NthG((m + 1) \div 2) + NthG((m + 2) \div 2)
  BY DEF MedianTwice
<1> HIDE DEF Nth, NthG, n, m
<1>. QED
  BY <1>1, <1>4, <1>5, <1>6

\* The size most characters have.
LEMMA DominantBack ==
    ASSUME NEW spans, NEW other, NEW p, Shuffled(spans, other, p),
           NEW X \in SUBSET (1 .. Len(spans))
    PROVE  DominantSize(other, Back(p, X)) = DominantSize(spans, X)
<1> DEFINE sizes == {spans[i].size : i \in X}
           Of2(z) == {i \in X : spans[i].size = z}
           Weight(z) == Chars(spans, Of2(z))
           WeightO(z) == Chars(other, {j \in Back(p, X) : other[j].size = z})
<1>1. {other[j].size : j \in Back(p, X)} = sizes
  <2>1. Mirrors(spans, other, p, X, Back(p, X))
    BY BackMirrors
  <2>2. SameValues(spans, other, X, Back(p, X))
    BY <2>1, ValuesAgree
  <2>. QED
    BY <2>2 DEF SameValues
<1>2. ASSUME NEW z PROVE WeightO(z) = Weight(z)
  <2>1. {j \in Back(p, X) : other[j].size = z} = Back(p, Of2(z))
    BY BackMirrors DEF Back, Mirrors
  <2>2. Of2(z) \in SUBSET (1 .. Len(spans))
    OBVIOUS
  <2> HIDE DEF Of2
  <2>. QED
    BY <2>1, <2>2, CharsBack
<1>3. DominantSize(spans, X) = Min({z \in sizes : \A y \in sizes : Weight(y) <= Weight(z)})
  BY DEF DominantSize
<1>4. DominantSize(other, Back(p, X)) = Min({z \in sizes : \A y \in sizes : WeightO(y) <= WeightO(z)})
  BY <1>1 DEF DominantSize
<1> HIDE DEF Weight, WeightO, sizes
<1>5. {z \in sizes : \A y \in sizes : WeightO(y) <= WeightO(z)}
        = {z \in sizes : \A y \in sizes : Weight(y) <= Weight(z)}
  BY <1>2
<1>. QED
  BY <1>3, <1>4, <1>5

-----------------------------------------------------------------------------
(* What is set apart does not depend on the order of the spans             *)

LEMMA SpansBack ==
    ASSUME NEW spans, NEW p, NEW lines, NEW mirror, SameLines(spans, p, lines, mirror),
           NEW run \in SUBSET (DOMAIN lines)
    PROVE  /\ Spans(mirror, run) = Back(p, Spans(lines, run))
           /\ Spans(lines, run) \in SUBSET (1 .. Len(spans))
<1>1. \A k \in run : mirror[k] = Back(p, lines[k]) /\ lines[k] \in SUBSET (1 .. Len(spans))
  BY DEF SameLines
<1>2. Spans(lines, run) \in SUBSET (1 .. Len(spans))
  <2> SUFFICES ASSUME NEW i \in Spans(lines, run) PROVE i \in 1 .. Len(spans)
    OBVIOUS
  <2>. QED
    BY <1>1 DEF Spans
<1>3. ASSUME NEW j PROVE j \in Spans(mirror, run) <=> j \in Back(p, Spans(lines, run))
  BY <1>1 DEF Spans, Back
<1>. QED
  BY <1>2, <1>3

LEMMA RunsAre ==
    ASSUME NEW named, NEW follows, NEW begins, NEW run \in Runs(named, follows, begins)
    PROVE  run \in SUBSET named
BY DEF Runs

\* What the rules look at in a line, and in two.
LEMMA LinesTell ==
    ASSUME NEW spans, NEW other, NEW p, Shuffled(spans, other, p),
           NEW lines, NEW mirror, SameLines(spans, p, lines, mirror),
           NEW k \in DOMAIN lines
    PROVE  /\ MostlyMono(other, mirror[k]) = MostlyMono(spans, lines[k])
           /\ LineLeft(other, mirror[k]) = LineLeft(spans, lines[k])
           /\ LineTop(other, mirror[k]) = LineTop(spans, lines[k])
           /\ LinePage(other, mirror[k]) = LinePage(spans, lines[k])
           /\ Chars(other, mirror[k]) = Chars(spans, lines[k])
<1> DEFINE X == lines[k]
<1>1. X \in SUBSET (1 .. Len(spans)) /\ mirror[k] = Back(p, X)
  BY DEF SameLines
<1> HIDE DEF X
<1>2. MostlyMono(other, Back(p, X)) = MostlyMono(spans, X)
  BY <1>1, MonoBack
<1>3. Chars(other, Back(p, X)) = Chars(spans, X)
  BY <1>1, CharsBack
<1>4. Mirrors(spans, other, p, X, Back(p, X))
  BY <1>1, BackMirrors
<1>5. /\ LineTop(other, Back(p, X)) = LineTop(spans, X)
      /\ LineLeft(other, Back(p, X)) = LineLeft(spans, X)
      /\ LinePage(other, Back(p, X)) = LinePage(spans, X)
  BY <1>4, LineBack
<1>. QED
  BY <1>1, <1>2, <1>3, <1>5 DEF X

LEMMA AdjacentTell ==
    ASSUME NEW spans, NEW other, NEW p, Shuffled(spans, other, p),
           NEW lines, NEW mirror, SameLines(spans, p, lines, mirror),
           NEW k \in DOMAIN lines, NEW l \in DOMAIN lines
    PROVE  Adjacent(other, mirror[k], mirror[l]) = Adjacent(spans, lines[k], lines[l])
<1> DEFINE X == lines[k]
           Y == lines[l]
<1>1. /\ X \in SUBSET (1 .. Len(spans)) /\ mirror[k] = Back(p, X)
      /\ Y \in SUBSET (1 .. Len(spans)) /\ mirror[l] = Back(p, Y)
  BY DEF SameLines
<1> HIDE DEF X, Y
<1>2. Adjacent(other, Back(p, X), Back(p, Y)) = Adjacent(spans, X, Y)
  BY <1>1, AdjacentBack
<1>. QED
  BY <1>1, <1>2 DEF X, Y

LEMMA CodeBack ==
    ASSUME NEW spans, NEW other, NEW p, Shuffled(spans, other, p),
           NEW X \in SUBSET (1 .. Len(spans))
    PROVE  CodeScore(other, Back(p, X)) = CodeScore(spans, X)
<1> DEFINE code == {i \in X : spans[i].text = "code"}
<1>1. {j \in Back(p, X) : other[j].text = "code"} = Back(p, code)
  BY BackMirrors DEF Back, Mirrors
<1>2. code \in SUBSET (1 .. Len(spans))
  OBVIOUS
<1>3. CodeScore(spans, X) = 2 * Cardinality(code)
  BY DEF CodeScore
<1>4. CodeScore(other, Back(p, X)) = 2 * Cardinality(Back(p, code))
  BY <1>1 DEF CodeScore
<1> HIDE DEF code
<1>. QED
  BY <1>2, <1>3, <1>4, BackCount

LEMMA ListingBack ==
    ASSUME NEW spans, NEW other, NEW p, Shuffled(spans, other, p),
           NEW lines, NEW mirror, SameLines(spans, p, lines, mirror)
    PROVE  /\ ListingSpans(other, mirror) = Back(p, ListingSpans(spans, lines))
           /\ ListingSpans(spans, lines) \in SUBSET (1 .. Len(spans))
<1> DEFINE D == DOMAIN lines
           mono == {k \in D : MostlyMono(spans, lines[k])}
           follows == {r \in mono \X mono : Adjacent(spans, lines[r[1]], lines[r[2]])}
           begins == {r \in mono \X mono :
                        Distance(LineLeft(spans, lines[r[1]]), LineLeft(spans, lines[r[2]])) <= 72}
           runs == Runs(mono, follows, begins)
           Listing(run) == /\ Cardinality(run) >= 3
                           /\ CodeScore(spans, Spans(lines, run)) >= 2
                           /\ Chars(spans, Spans(lines, run)) >= 12
           ListingO(run) == /\ Cardinality(run) >= 3
                            /\ CodeScore(other, Spans(mirror, run)) >= 2
                            /\ Chars(other, Spans(mirror, run)) >= 12
           all == UNION {run \in runs : Listing(run)}
<1>1. {k \in DOMAIN mirror : MostlyMono(other, mirror[k])} = mono
  <2>1. \A k \in D : MostlyMono(other, mirror[k]) = MostlyMono(spans, lines[k])
    BY LinesTell
  <2>. QED
    BY <2>1 DEF SameLines
<1>2. mono \in SUBSET D
  OBVIOUS
<1>3. {r \in mono \X mono : Adjacent(other, mirror[r[1]], mirror[r[2]])} = follows
  <2> SUFFICES ASSUME NEW k \in mono, NEW l \in mono
               PROVE  Adjacent(other, mirror[k], mirror[l]) = Adjacent(spans, lines[k], lines[l])
    OBVIOUS
  <2>1. k \in DOMAIN lines /\ l \in DOMAIN lines
    OBVIOUS
  <2>. QED
    BY <2>1, AdjacentTell
<1>4. {r \in mono \X mono :
         Distance(LineLeft(other, mirror[r[1]]), LineLeft(other, mirror[r[2]])) <= 72} = begins
  <2> SUFFICES ASSUME NEW k \in mono
               PROVE  LineLeft(other, mirror[k]) = LineLeft(spans, lines[k])
    OBVIOUS
  <2>1. k \in DOMAIN lines
    OBVIOUS
  <2>. QED
    BY <2>1, LinesTell
<1>5. ListingSpans(spans, lines) = Spans(lines, all)
  BY DEF ListingSpans
<1>6. ListingSpans(other, mirror) = Spans(mirror, UNION {run \in runs : ListingO(run)})
  <2> HIDE DEF mono, follows, begins
  <2>. QED
    BY <1>1, <1>3, <1>4, Zenon DEF ListingSpans
<1>7. ASSUME NEW run \in runs PROVE run \in SUBSET D /\ ListingO(run) = Listing(run)
  <2>1. run \in SUBSET D
    <3>1. run \in SUBSET mono
      BY RunsAre
    <3>. QED
      BY <1>2, <3>1
  <2> DEFINE S == Spans(lines, run)
  <2>2. Spans(mirror, run) = Back(p, S) /\ S \in SUBSET (1 .. Len(spans))
    BY <2>1, SpansBack
  <2> HIDE DEF S
  <2>3. CodeScore(other, Back(p, S)) = CodeScore(spans, S) /\ Chars(other, Back(p, S)) = Chars(spans, S)
    BY <2>2, CodeBack, CharsBack
  <2>. QED
    BY <2>1, <2>2, <2>3 DEF S
<1> HIDE DEF runs, Listing, ListingO
<1>8. UNION {run \in runs : ListingO(run)} = all /\ all \in SUBSET D
  BY <1>7
<1> HIDE DEF all
<1>9. Spans(mirror, all) = Back(p, Spans(lines, all)) /\ Spans(lines, all) \in SUBSET (1 .. Len(spans))
  BY <1>8, SpansBack
<1>. QED
  BY <1>5, <1>6, <1>8, <1>9

LEMMA CellsBack ==
    ASSUME NEW spans, NEW other, NEW p, Shuffled(spans, other, p),
           NEW X \in SUBSET (1 .. Len(spans))
    PROVE  CellStarts(other, Back(p, X)) = CellStarts(spans, X)
<1> DEFINE shown == {i \in X : spans[i].chars >= 1}
           o == InOrder(spans, shown)
           q == InOrder(other, Back(p, shown))
           n == Cardinality(shown)
           Starts(k) == \/ k = 1
                        \/ 2 * (spans[o[k]].box.x0 - spans[o[k - 1]].box.x1)
                             > 3 * Max({spans[o[k]].size, spans[o[k - 1]].size, 16})
           StartsO(k) == \/ k = 1
                         \/ 2 * (other[q[k]].box.x0 - other[q[k - 1]].box.x1)
                              > 3 * Max({other[q[k]].size, other[q[k - 1]].size, 16})
<1>1. {j \in Back(p, X) : other[j].chars >= 1} = Back(p, shown)
  BY BackMirrors DEF Back, Mirrors
<1>2. CellStarts(spans, X) = [k \in {k \in DOMAIN o : Starts(k)} |-> spans[o[k]].box.x0]
  BY DEF CellStarts
<1>3. CellStarts(other, Back(p, X)) = [k \in {k \in DOMAIN q : StartsO(k)} |-> other[q[k]].box.x0]
  BY <1>1 DEF CellStarts
<1>4. shown \in SUBSET (1 .. Len(spans))
  OBVIOUS
<1> HIDE DEF shown
<1>5. /\ n \in Nat /\ DOMAIN o = 1 .. n /\ DOMAIN q = 1 .. n
      /\ \A k \in 1 .. n : /\ o[k] \in shown /\ q[k] \in Back(p, shown)
                           /\ SpanKey(spans[o[k]]) = SpanKey(other[q[k]])
  BY <1>4, KeysInOrder DEF SameKeys
<1> HIDE DEF o, q, n
<1>6. ASSUME NEW k \in 1 .. n
      PROVE  /\ other[q[k]].box.x0 = spans[o[k]].box.x0 /\ other[q[k]].box.x1 = spans[o[k]].box.x1
             /\ other[q[k]].size = spans[o[k]].size
  <2> DEFINE i == o[k] j == p[q[k]]
  <2>1. Mirrors(spans, other, p, shown, Back(p, shown))
    BY <1>4, BackMirrors
  <2>2. i \in 1 .. Len(spans) /\ j \in 1 .. Len(spans) /\ other[q[k]] = spans[j]
    BY <1>4, <1>5, <2>1 DEF Mirrors
  <2>3. SpanKey(spans[i]) = SpanKey(spans[j])
    BY <1>5, <2>2
  <2>4. AreSpans(spans)
    BY DEF Shuffled
  <2> HIDE DEF i, j
  <2>5. /\ spans[i].size = spans[j].size
        /\ spans[i].box.x0 = spans[j].box.x0 /\ spans[i].box.x1 = spans[j].box.x1
    BY <2>2, <2>3, <2>4, KeyTells
  <2>. QED
    BY <2>2, <2>5 DEF i
<1>7. ASSUME NEW k \in 1 .. n PROVE StartsO(k) = Starts(k)
  <2>1. k = 1 \/ k - 1 \in 1 .. n
    BY <1>5
  <2>2. CASE k = 1
    BY <2>2
  <2>3. CASE k - 1 \in 1 .. n
    <3>1. /\ other[q[k]].box.x0 = spans[o[k]].box.x0 /\ other[q[k]].size = spans[o[k]].size
          /\ other[q[k - 1]].box.x1 = spans[o[k - 1]].box.x1
          /\ other[q[k - 1]].size = spans[o[k - 1]].size
      BY <1>6, <2>3
    <3>. QED
      BY <3>1
  <2>. QED
    BY <2>1, <2>2, <2>3
<1> HIDE DEF Starts, StartsO
<1>8. {k \in DOMAIN q : StartsO(k)} = {k \in DOMAIN o : Starts(k)}
  BY <1>5, <1>7
<1> DEFINE S == {k \in DOMAIN o : Starts(k)}
<1>9. \A k \in S : other[q[k]].box.x0 = spans[o[k]].box.x0
  BY <1>5, <1>6
<1> HIDE DEF S
<1>. QED
  BY <1>2, <1>3, <1>8, <1>9 DEF S

LEMMA TableBack ==
    ASSUME NEW spans, NEW other, NEW p, Shuffled(spans, other, p),
           NEW lines, NEW mirror, SameLines(spans, p, lines, mirror)
    PROVE  /\ TableSpans(other, mirror) = Back(p, TableSpans(spans, lines))
           /\ TableSpans(spans, lines) \in SUBSET (1 .. Len(spans))
<1> DEFINE D == DOMAIN lines
           cells == [k \in D |-> CellStarts(spans, lines[k])]
           rows == {k \in D : Cardinality(DOMAIN cells[k]) >= 2}
           follows == {r \in rows \X rows : /\ Adjacent(spans, lines[r[1]], lines[r[2]])
                                            /\ Aligned(cells[r[1]], cells[r[2]])}
           numeric == {k \in rows : \E i \in lines[k] : spans[i].text = "digits"}
           mono == {k \in rows : MostlyMono(spans, lines[k])}
           runs == Runs(rows, follows, rows \X rows)
           Table(run) == /\ Cardinality(run) >= 3
                         /\ Cardinality(run \cap numeric) >= 2
                         /\ 2 * Cardinality(run \cap mono) < Cardinality(run)
           all == UNION {run \in runs : Table(run)}
<1> DEFINE cellsO == [k \in DOMAIN mirror |-> CellStarts(other, mirror[k])]
           rowsO == {k \in DOMAIN mirror : Cardinality(DOMAIN cellsO[k]) >= 2}
           followsO == {r \in rowsO \X rowsO : /\ Adjacent(other, mirror[r[1]], mirror[r[2]])
                                               /\ Aligned(cellsO[r[1]], cellsO[r[2]])}
           numericO == {k \in rowsO : \E j \in mirror[k] : other[j].text = "digits"}
           monoO == {k \in rowsO : MostlyMono(other, mirror[k])}
           TableO(run) == /\ Cardinality(run) >= 3
                          /\ Cardinality(run \cap numericO) >= 2
                          /\ 2 * Cardinality(run \cap monoO) < Cardinality(run)
<1>0. DOMAIN mirror = D
  BY DEF SameLines
<1>6. TableSpans(spans, lines) = Spans(lines, all)
  BY DEF TableSpans
<1>10. TableSpans(other, mirror)
         = Spans(mirror, UNION {run \in Runs(rowsO, followsO, rowsO \X rowsO) : TableO(run)})
  BY DEF TableSpans
<1>1. cellsO = cells
  <2>1. ASSUME NEW k \in D PROVE CellStarts(other, mirror[k]) = CellStarts(spans, lines[k])
    <3> DEFINE X == lines[k]
    <3>1. X \in SUBSET (1 .. Len(spans)) /\ mirror[k] = Back(p, X)
      BY DEF SameLines
    <3> HIDE DEF X
    <3>2. CellStarts(other, Back(p, X)) = CellStarts(spans, X)
      BY <3>1, CellsBack
    <3>. QED
      BY <3>1, <3>2 DEF X
  <2>. QED
    BY <1>0, <2>1
<1> HIDE DEF cells, cellsO
<1>2. rowsO = rows /\ rows \in SUBSET D
  BY <1>0, <1>1
<1> HIDE DEF rowsO
<1>3. followsO = follows
  <2>1. ASSUME NEW k \in rows, NEW l \in rows
        PROVE  Adjacent(other, mirror[k], mirror[l]) = Adjacent(spans, lines[k], lines[l])
    <3>1. k \in DOMAIN lines /\ l \in DOMAIN lines
      OBVIOUS
    <3>. QED
      BY <3>1, AdjacentTell
  <2> HIDE DEF rows
  <2>. QED
    BY <1>1, <1>2, <2>1
<1>4. numericO = numeric
  <2>1. ASSUME NEW k \in rows
        PROVE  (\E j \in mirror[k] : other[j].text = "digits")
                 <=> \E i \in lines[k] : spans[i].text = "digits"
    <3>1. lines[k] \in SUBSET (1 .. Len(spans)) /\ mirror[k] = Back(p, lines[k])
      BY DEF SameLines
    <3>2. Mirrors(spans, other, p, lines[k], mirror[k])
      BY <3>1, BackMirrors
    <3>. QED
      BY <3>2 DEF Mirrors
  <2> HIDE DEF rows
  <2>. QED
    BY <1>2, <2>1
<1>5. monoO = mono
  <2>1. \A k \in D : MostlyMono(other, mirror[k]) = MostlyMono(spans, lines[k])
    BY LinesTell
  <2>. QED
    BY <1>2, <2>1
<1> HIDE DEF followsO, numericO, monoO, follows, numeric, mono
<1>7. TableSpans(other, mirror) = Spans(mirror, all)
  <2> HIDE DEF rows
  <2>. QED
    BY <1>2, <1>3, <1>4, <1>5, <1>10
<1>8. all \in SUBSET D
  <2>1. \A run \in runs : run \in SUBSET rows
    BY RunsAre
  <2> HIDE DEF runs, Table, rows
  <2>. QED
    BY <1>2, <2>1
<1> HIDE DEF all
<1>9. Spans(mirror, all) = Back(p, Spans(lines, all)) /\ Spans(lines, all) \in SUBSET (1 .. Len(spans))
  BY <1>8, SpansBack
<1>. QED
  BY <1>6, <1>7, <1>9

\* Of a line, the mathematics.
LEMMA SymbolsBack ==
    ASSUME NEW spans, NEW other, NEW p, Shuffled(spans, other, p),
           NEW X \in SUBSET (1 .. Len(spans))
    PROVE  /\ {j \in Back(p, X) : other[j].font = "math"} = Back(p, {i \in X : spans[i].font = "math"})
           /\ {j \in Back(p, X) : other[j].font = "cm"} = Back(p, {i \in X : spans[i].font = "cm"})
           /\ {j \in Back(p, X) : MathToken(other[j])} = Back(p, {i \in X : MathToken(spans[i])})
           /\ {j \in Back(p, X) : other[j].text = "operator"}
                = Back(p, {i \in X : spans[i].text = "operator"})
           /\ {j \in Back(p, X) : other[j].bold} = Back(p, {i \in X : spans[i].bold})
<1>1. \A j \in Back(p, X) : other[j] = spans[p[j]] /\ p[j] \in X
  BY BackMirrors DEF Mirrors
<1>. QED
  BY <1>1 DEF Back

LEMMA FormulaBack ==
    ASSUME NEW spans, NEW other, NEW p, Shuffled(spans, other, p),
           NEW lines, NEW mirror, SameLines(spans, p, lines, mirror)
    PROVE  /\ FormulaSpans(other, mirror) = Back(p, FormulaSpans(spans, lines))
           /\ FormulaSpans(spans, lines) \in SUBSET (1 .. Len(spans))
<1> DEFINE Specific(l) == {i \in l : spans[i].font = "math"}
           Roman(l) == {i \in l : spans[i].font = "cm"}
           Tokens(l) == {i \in l : MathToken(spans[i])}
           Operators(l) == {i \in l : spans[i].text = "operator"}
           Formula(l) == \/ /\ Specific(l) # {}
                            /\ Cardinality(Specific(l)) >= 2 \/ Operators(l) # {}
                         \/ /\ Specific(l) = {}
                            /\ Cardinality(Roman(l)) >= 2 /\ Operators(l) # {}
                            /\ Mostly(spans, Tokens(l), l, 60)
           Symbols(l) == Specific(l) \cup Roman(l) \cup Tokens(l)
           SpecificO(l) == {i \in l : other[i].font = "math"}
           RomanO(l) == {i \in l : other[i].font = "cm"}
           TokensO(l) == {i \in l : MathToken(other[i])}
           OperatorsO(l) == {i \in l : other[i].text = "operator"}
           FormulaO(l) == \/ /\ SpecificO(l) # {}
                             /\ Cardinality(SpecificO(l)) >= 2 \/ OperatorsO(l) # {}
                          \/ /\ SpecificO(l) = {}
                             /\ Cardinality(RomanO(l)) >= 2 /\ OperatorsO(l) # {}
                             /\ Mostly(other, TokensO(l), l, 60)
           SymbolsO(l) == SpecificO(l) \cup RomanO(l) \cup TokensO(l)
           D == DOMAIN lines
<1>1. FormulaSpans(spans, lines) = UNION {Symbols(lines[k]) : k \in {k \in D : Formula(lines[k])}}
  BY DEF FormulaSpans
<1>2. FormulaSpans(other, mirror)
        = UNION {SymbolsO(mirror[k]) : k \in {k \in DOMAIN mirror : FormulaO(mirror[k])}}
  BY DEF FormulaSpans
<1>3. ASSUME NEW k \in D
      PROVE  /\ FormulaO(mirror[k]) = Formula(lines[k])
             /\ SymbolsO(mirror[k]) = Back(p, Symbols(lines[k]))
             /\ Symbols(lines[k]) \in SUBSET (1 .. Len(spans))
  <2> DEFINE X == lines[k]
             A == Specific(X)
             B == Roman(X)
             C == Tokens(X)
             E == Operators(X)
  <2>1. X \in SUBSET (1 .. Len(spans)) /\ mirror[k] = Back(p, X)
    BY DEF SameLines
  <2>2. /\ A \in SUBSET (1 .. Len(spans)) /\ B \in SUBSET (1 .. Len(spans))
        /\ C \in SUBSET (1 .. Len(spans)) /\ E \in SUBSET (1 .. Len(spans))
    BY <2>1
  <2>3. /\ SpecificO(Back(p, X)) = Back(p, A) /\ RomanO(Back(p, X)) = Back(p, B)
        /\ TokensO(Back(p, X)) = Back(p, C) /\ OperatorsO(Back(p, X)) = Back(p, E)
    <3> HIDE DEF X
    <3>. QED
      BY <2>1, SymbolsBack
  <2> HIDE DEF Specific, Roman, Tokens, Operators, SpecificO, RomanO, TokensO, OperatorsO
  <2> HIDE DEF A, B, C, E, X
  <2>4. /\ Back(p, A) = {} <=> A = {}
        /\ Back(p, E) = {} <=> E = {}
        /\ Cardinality(Back(p, A)) = Cardinality(A) /\ Cardinality(Back(p, B)) = Cardinality(B)
    <3>1. Back(p, A) = {} <=> A = {}
      BY <2>2, BackOf
    <3>4. Cardinality(Back(p, A)) = Cardinality(A)
      BY <2>2, BackCount
    <3>2. Back(p, E) = {} <=> E = {}
      BY <2>2, BackOf
    <3>3. Cardinality(Back(p, B)) = Cardinality(B)
      BY <2>2, BackCount
    <3>. QED
      BY <3>1, <3>2, <3>3, <3>4
  <2>5. Mostly(other, Back(p, C), Back(p, X), 60) = Mostly(spans, C, X, 60)
    BY <2>1, <2>2, MostlyBack
  <2>6. FormulaO(Back(p, X)) = Formula(X)
    BY <2>3, <2>4, <2>5 DEF A, B, C, E
  <2>7. SymbolsO(Back(p, X)) = Back(p, A \cup B \cup C)
    <3>1. SymbolsO(Back(p, X)) = Back(p, A) \cup Back(p, B) \cup Back(p, C)
      BY <2>3
    <3>. QED
      BY <3>1 DEF Back
  <2>8. Symbols(X) = A \cup B \cup C
    BY DEF A, B, C
  <2>9. Symbols(X) \in SUBSET (1 .. Len(spans))
    BY <2>2, <2>8
  <2> HIDE DEF Symbols, SymbolsO, Formula, FormulaO
  <2>. QED
    BY <2>1, <2>6, <2>7, <2>8, <2>9 DEF X
<1>4. DOMAIN mirror = D
  BY DEF SameLines
<1> HIDE DEF Symbols, SymbolsO, Formula, FormulaO, D
<1>5. \A j : j \in FormulaSpans(other, mirror) <=> j \in Back(p, FormulaSpans(spans, lines))
  BY <1>1, <1>2, <1>3, <1>4 DEF Back
<1>6. \A i \in FormulaSpans(spans, lines) : i \in 1 .. Len(spans)
  <2> SUFFICES ASSUME NEW i \in FormulaSpans(spans, lines) PROVE i \in 1 .. Len(spans)
    OBVIOUS
  <2>1. PICK k \in D : i \in Symbols(lines[k])
    BY <1>1
  <2>. QED
    BY <1>3, <2>1
<1>. QED
  BY <1>5, <1>6

LEMMA HeadingBack ==
    ASSUME NEW spans, NEW other, NEW p, Shuffled(spans, other, p), NEW size,
           NEW lines, NEW mirror, SameLines(spans, p, lines, mirror)
    PROVE  /\ HeadingSpans(other, mirror, size) = Back(p, HeadingSpans(spans, lines, size))
           /\ HeadingSpans(spans, lines, size) \in SUBSET (1 .. Len(spans))
<1> DEFINE D == DOMAIN lines
           Large(l) == MedianTwice([i \in l |-> spans[i].size]) > 2 * size + 3
           LargeO(l) == MedianTwice([i \in l |-> other[i].size]) > 2 * size + 3
           Away(k, m) == /\ m \in DOMAIN lines
                          /\ LinePage(spans, lines[k]) = LinePage(spans, lines[m])
                          /\ Distance(LineTop(spans, lines[k]), LineTop(spans, lines[m]))
                               > 2 * size
           AwayO(k, m) == /\ m \in DOMAIN mirror
                           /\ LinePage(other, mirror[k]) = LinePage(other, mirror[m])
                           /\ Distance(LineTop(other, mirror[k]), LineTop(other, mirror[m]))
                                > 2 * size
           Bold(k) == Mostly(spans, {i \in lines[k] : spans[i].bold}, lines[k], 80)
           BoldO(k) == Mostly(other, {i \in mirror[k] : other[i].bold}, mirror[k], 80)
           Isolated(k) == Bold(k) /\ (Away(k, k - 1) \/ Away(k, k + 1))
           IsolatedO(k) == BoldO(k) /\ (AwayO(k, k - 1) \/ AwayO(k, k + 1))
           all == {k \in D : /\ Chars(spans, lines[k]) <= 160
                             /\ Large(lines[k]) \/ Isolated(k)}
<1>1. HeadingSpans(spans, lines, size) = Spans(lines, all)
  BY DEF HeadingSpans
<1>2. HeadingSpans(other, mirror, size)
        = Spans(mirror, {k \in DOMAIN mirror : /\ Chars(other, mirror[k]) <= 160
                                               /\ LargeO(mirror[k]) \/ IsolatedO(k)})
  BY DEF HeadingSpans
<1>3. DOMAIN mirror = D
  BY DEF SameLines
<1>4. \A k \in D : /\ LineTop(other, mirror[k]) = LineTop(spans, lines[k])
                   /\ LinePage(other, mirror[k]) = LinePage(spans, lines[k])
                   /\ Chars(other, mirror[k]) = Chars(spans, lines[k])
  BY LinesTell
<1>5. \A k \in D : \A m : AwayO(k, m) = Away(k, m)
  BY <1>3, <1>4
<1>6. ASSUME NEW k \in D PROVE BoldO(k) = Bold(k) /\ LargeO(mirror[k]) = Large(lines[k])
  <2> DEFINE X == lines[k]
             bold == {i \in X : spans[i].bold}
             f == [i \in X |-> spans[i].size]
             g == [j \in Back(p, X) |-> other[j].size]
  <2>1. X \in SUBSET (1 .. Len(spans)) /\ mirror[k] = Back(p, X)
    BY DEF SameLines
  <2>2. bold \in SUBSET (1 .. Len(spans))
    BY <2>1
  <2>3. {j \in Back(p, X) : other[j].bold} = Back(p, bold)
    <3> HIDE DEF X
    <3>. QED
      BY <2>1, SymbolsBack
  <2>4. Mostly(other, Back(p, bold), Back(p, X), 80) = Mostly(spans, bold, X, 80)
    <3> DEFINE Z == X
    <3>1. Z \in SUBSET (1 .. Len(spans)) /\ bold \in SUBSET (1 .. Len(spans))
      BY <2>1, <2>2
    <3> HIDE DEF X, Z, bold
    <3>2. Mostly(other, Back(p, bold), Back(p, Z), 80) = Mostly(spans, bold, Z, 80)
      BY <3>1, MostlyBack
    <3>. QED
      BY <3>2 DEF Z
  <2>5. BoldO(k) = Bold(k)
    BY <2>1, <2>3, <2>4
  <2>6. MedianTwice(g) = MedianTwice(f)
    <3> HIDE DEF X
    <3>1. Mirrors(spans, other, p, X, Back(p, X))
      BY <2>1, BackMirrors
    <3>2. DOMAIN f = X /\ DOMAIN g = Back(p, X) /\ \A j \in Back(p, X) : g[j] = f[p[j]]
      BY <3>1 DEF Mirrors
    <3> HIDE DEF f, g
    <3>. QED
      BY <2>1, <3>2, MedianBack
  <2>. QED
    BY <2>1, <2>5, <2>6
<1> HIDE DEF Large, LargeO, Away, AwayO, Bold, BoldO
<1>7. {k \in DOMAIN mirror : /\ Chars(other, mirror[k]) <= 160
                             /\ LargeO(mirror[k]) \/ IsolatedO(k)} = all /\ all \in SUBSET D
  BY <1>3, <1>4, <1>5, <1>6
<1> HIDE DEF all
<1>8. Spans(mirror, all) = Back(p, Spans(lines, all)) /\ Spans(lines, all) \in SUBSET (1 .. Len(spans))
  BY <1>7, SpansBack
<1>. QED
  BY <1>1, <1>2, <1>7, <1>8

LEMMA CaptionBack ==
    ASSUME NEW spans, NEW other, NEW p, Shuffled(spans, other, p),
           NEW lines, NEW mirror, SameLines(spans, p, lines, mirror)
    PROVE  /\ CaptionSpans(other, mirror) = Back(p, CaptionSpans(spans, lines))
           /\ CaptionSpans(spans, lines) \in SUBSET (1 .. Len(spans))
<1> DEFINE D == DOMAIN lines
           all == {k \in D : /\ spans[InOrder(spans, lines[k])[1]].text = "caption"
                             /\ Chars(spans, lines[k]) <= 240}
<1>1. DOMAIN mirror = D
  BY DEF SameLines
<1>2. \A k \in D : Chars(other, mirror[k]) = Chars(spans, lines[k])
  BY LinesTell
<1>3. ASSUME NEW k \in D
      PROVE  other[InOrder(other, mirror[k])[1]].text = spans[InOrder(spans, lines[k])[1]].text
  <2> DEFINE X == lines[k]
             n == Cardinality(X)
             o == InOrder(spans, X)
             q == InOrder(other, Back(p, X))
  <2>1. X \in SUBSET (1 .. Len(spans)) /\ X # {} /\ mirror[k] = Back(p, X)
    BY DEF SameLines
  <2> HIDE DEF X
  <2>2. IsFiniteSet(X) /\ n \in Nat /\ n # 0
    BY <2>1, BackCount, FS_CardinalityType, FS_EmptySet
  <2>3. \A m \in 1 .. n : /\ o[m] \in X /\ q[m] \in Back(p, X)
                          /\ SpanKey(spans[o[m]]) = SpanKey(other[q[m]])
    BY <2>1, KeysInOrder DEF SameKeys
  <2> HIDE DEF n, o, q
  <2>4. 1 \in 1 .. n
    BY <2>2
  <2> DEFINE i == o[1] j == p[q[1]]
  <2>5. Mirrors(spans, other, p, X, Back(p, X))
    BY <2>1, BackMirrors
  <2>6. /\ i \in 1 .. Len(spans) /\ j \in 1 .. Len(spans) /\ other[q[1]] = spans[j]
        /\ SpanKey(spans[i]) = SpanKey(spans[j])
    BY <2>1, <2>3, <2>4, <2>5 DEF Mirrors
  <2>7. AreSpans(spans)
    BY DEF Shuffled
  <2> HIDE DEF i, j
  <2>8. spans[i].text = spans[j].text
    BY <2>6, <2>7, KeyTells
  <2>. QED
    BY <2>1, <2>6, <2>8 DEF i, o, q, X
<1>4. CaptionSpans(spans, lines) = Spans(lines, all)
  BY DEF CaptionSpans
<1>5. CaptionSpans(other, mirror)
        = Spans(mirror, {k \in DOMAIN mirror :
                           /\ other[InOrder(other, mirror[k])[1]].text = "caption"
                           /\ Chars(other, mirror[k]) <= 240})
  BY DEF CaptionSpans
<1>6. {k \in DOMAIN mirror : /\ other[InOrder(other, mirror[k])[1]].text = "caption"
                             /\ Chars(other, mirror[k]) <= 240} = all /\ all \in SUBSET D
  BY <1>1, <1>2, <1>3
<1> HIDE DEF all
<1>7. Spans(mirror, all) = Back(p, Spans(lines, all)) /\ Spans(lines, all) \in SUBSET (1 .. Len(spans))
  BY <1>6, SpansBack
<1>. QED
  BY <1>4, <1>5, <1>6, <1>7

LEMMA SetApartBack ==
    ASSUME NEW spans, NEW other, NEW p, Shuffled(spans, other, p), NEW size,
           NEW lines, NEW mirror, SameLines(spans, p, lines, mirror)
    PROVE  /\ SetApart(other, mirror, size) = Back(p, SetApart(spans, lines, size))
           /\ SetApart(spans, lines, size) \in SUBSET (1 .. Len(spans))
<1> DEFINE A == CaptionSpans(spans, lines)
           B == TableSpans(spans, lines)
           C == ListingSpans(spans, lines)
           E == FormulaSpans(spans, lines)
           H == HeadingSpans(spans, lines, size)
<1>1. CaptionSpans(other, mirror) = Back(p, A) /\ A \in SUBSET (1 .. Len(spans))
  BY CaptionBack
<1>2. TableSpans(other, mirror) = Back(p, B) /\ B \in SUBSET (1 .. Len(spans))
  BY TableBack
<1>3. ListingSpans(other, mirror) = Back(p, C) /\ C \in SUBSET (1 .. Len(spans))
  BY ListingBack
<1>4. FormulaSpans(other, mirror) = Back(p, E) /\ E \in SUBSET (1 .. Len(spans))
  BY FormulaBack
<1>5. HeadingSpans(other, mirror, size) = Back(p, H) /\ H \in SUBSET (1 .. Len(spans))
  BY HeadingBack
<1>6. SetApart(spans, lines, size) = A \cup B \cup C \cup E \cup H
  BY DEF SetApart
<1>7. SetApart(other, mirror, size)
        = Back(p, A) \cup Back(p, B) \cup Back(p, C) \cup Back(p, E) \cup Back(p, H)
  BY <1>1, <1>2, <1>3, <1>4, <1>5 DEF SetApart
<1> HIDE DEF A, B, C, E, H
<1>8. Back(p, A) \cup Back(p, B) \cup Back(p, C) \cup Back(p, E) \cup Back(p, H)
        = Back(p, A \cup B \cup C \cup E \cup H)
  BY DEF Back
<1>9. A \cup B \cup C \cup E \cup H \in SUBSET (1 .. Len(spans))
  BY <1>1, <1>2, <1>3, <1>4, <1>5
<1>. QED
  BY <1>6, <1>7, <1>8, <1>9

LEMMA BodyBack ==
    ASSUME NEW spans, NEW other, NEW p, Shuffled(spans, other, p),
           NEW X \in SUBSET (1 .. Len(spans))
    PROVE  /\ BodyOf(other, Back(p, X)) = Back(p, BodyOf(spans, X))
           /\ BodyOf(spans, X) \in SUBSET X
<1> DEFINE lines == VisualLines(spans, X)
           mirror == VisualLines(other, Back(p, X))
           size == DominantSize(spans, X)
           S == SetApart(spans, lines, size)
<1>1. SameLines(spans, p, lines, mirror)
  BY LinesBack
<1>2. DominantSize(other, Back(p, X)) = size
  BY DominantBack
<1>3. SetApart(other, mirror, size) = Back(p, S) /\ S \in SUBSET (1 .. Len(spans))
  <2> HIDE DEF lines, mirror, size
  <2>. QED
    BY <1>1, SetApartBack DEF S
<1>4. BodyOf(spans, X) = IF X = {} THEN {} ELSE X \ S
  BY DEF BodyOf
<1>5. BodyOf(other, Back(p, X)) = IF Back(p, X) = {} THEN {} ELSE Back(p, X) \ Back(p, S)
  BY <1>2, <1>3 DEF BodyOf
<1> HIDE DEF S
<1>6. (Back(p, X) = {} <=> X = {}) /\ Back(p, X \ S) = Back(p, X) \ Back(p, S)
  <2>1. Back(p, X) = {} <=> X = {}
    <3>1. Mirrors(spans, other, p, X, Back(p, X))
      BY BackMirrors
    <3>. QED
      BY <3>1 DEF Mirrors
  <2>2. Back(p, X \ S) = Back(p, X) \ Back(p, S)
    BY DEF Back
  <2>. QED
    BY <2>1, <2>2
<1>7. Back(p, {}) = {}
  BY DEF Back
<1>. QED
  BY <1>4, <1>5, <1>6, <1>7

-----------------------------------------------------------------------------
(* What the rules measure does not depend on the order of the spans        *)

LEMMA NoneAlike ==
    ASSUME NEW spans, NEW other, NEW p, NEW X, NEW Y, Mirrors(spans, other, p, X, Y)
    PROVE  Y = {} <=> X = {}
BY DEF Mirrors

LEMMA MarginalBack ==
    ASSUME NEW spans, NEW other, NEW p, Shuffled(spans, other, p), NEW pages, NEW service
    PROVE  /\ Marginal(other, pages, service) = Back(p, Marginal(spans, pages, service))
           /\ Marginal(spans, pages, service) \in SUBSET (1 .. Len(spans))
<1> DEFINE N == Len(spans)
           zone == [i \in DOMAIN spans |-> SpanZone(spans[i], pages, service)]
           numbers == {i \in DOMAIN spans : IsPageNumber(spans[i], pages, service)}
           others == {i \in DOMAIN spans \ numbers :
                        zone[i] # NoZone /\ Normalized(spans[i]) # ""}
           Same(i) == {j \in others : /\ zone[j] = zone[i]
                                      /\ Normalized(spans[j]) = Normalized(spans[i])}
           Often(i) == /\ Cardinality({spans[j].page : j \in Same(i)})
                            >= RequiredPages(pages, service)
                       /\ Level({[page |-> spans[j].page, top |-> spans[j].box.y0] :
                                   j \in Same(i)}, pages)
           zoneO == [i \in DOMAIN other |-> SpanZone(other[i], pages, service)]
           numbersO == {i \in DOMAIN other : IsPageNumber(other[i], pages, service)}
           othersO == {i \in DOMAIN other \ numbersO :
                         zoneO[i] # NoZone /\ Normalized(other[i]) # ""}
           SameO(i) == {j \in othersO : /\ zoneO[j] = zoneO[i]
                                        /\ Normalized(other[j]) = Normalized(other[i])}
           OftenO(i) == /\ Cardinality({other[j].page : j \in SameO(i)})
                             >= RequiredPages(pages, service)
                        /\ Level({[page |-> other[j].page, top |-> other[j].box.y0] :
                                    j \in SameO(i)}, pages)
<1>1. /\ DOMAIN p = 1 .. N /\ DOMAIN spans = 1 .. N /\ DOMAIN other = 1 .. N
      /\ \A j \in 1 .. N : p[j] \in 1 .. N /\ other[j] = spans[p[j]]
  BY DEF Shuffled, AreSpans
<1>2. Marginal(spans, pages, service) = numbers \cup {i \in others : Often(i)}
  <2>1. MarginalSpans(spans, pages, service)
          = [numbers |-> numbers, repeated |-> {i \in others : Often(i)}]
    BY DEF MarginalSpans
  <2> DEFINE repeated == {i \in others : Often(i)}
  <2>2. MarginalSpans(spans, pages, service) = [numbers |-> numbers, repeated |-> repeated]
    BY <2>1
  <2> HIDE DEF numbers, repeated
  <2>3. Marginal(spans, pages, service) = numbers \cup repeated
    BY <2>2 DEF Marginal, Range
  <2>. QED
    BY <2>3 DEF repeated
<1>3. Marginal(other, pages, service) = numbersO \cup {i \in othersO : OftenO(i)}
  <2>1. MarginalSpans(other, pages, service)
          = [numbers |-> numbersO, repeated |-> {i \in othersO : OftenO(i)}]
    BY DEF MarginalSpans
  <2> DEFINE repeated == {i \in othersO : OftenO(i)}
  <2>2. MarginalSpans(other, pages, service) = [numbers |-> numbersO, repeated |-> repeated]
    BY <2>1
  <2> HIDE DEF numbersO, repeated
  <2>3. Marginal(other, pages, service) = numbersO \cup repeated
    BY <2>2 DEF Marginal, Range
  <2>. QED
    BY <2>3 DEF repeated
<1>4. \A j \in 1 .. N : zoneO[j] = zone[p[j]] /\ (j \in numbersO <=> p[j] \in numbers)
  BY <1>1
<1>5. \A j \in 1 .. N : j \in othersO <=> p[j] \in others
  <2> HIDE DEF zone, zoneO, numbers, numbersO
  <2>. QED
    BY <1>1, <1>4
<1>6. others \in SUBSET (1 .. N) /\ numbers \in SUBSET (1 .. N) /\ othersO \in SUBSET (1 .. N)
  BY <1>1
<1> HIDE DEF zone, zoneO, numbers, numbersO, others, othersO
<1>7. ASSUME NEW j \in 1 .. N PROVE OftenO(j) = Often(p[j])
  <2> DEFINE X == Same(p[j])
             Y == SameO(j)
  <2>1. X \in SUBSET (1 .. N)
    BY <1>6
  <2>2. Y = Back(p, X)
    <3> SUFFICES ASSUME NEW k PROVE k \in Y <=> k \in DOMAIN p /\ p[k] \in X
      BY DEF Back
    <3>1. k \in Y => k \in 1 .. N
      BY <1>6
    <3>. QED
      BY <1>1, <1>4, <1>5, <3>1
  <2> HIDE DEF X, Y
  <2>3. SameValues(spans, other, X, Y)
    <3>1. Mirrors(spans, other, p, X, Y)
      BY <2>1, <2>2, BackMirrors
    <3>. QED
      BY <3>1, ValuesAgree
  <2>. QED
    BY <2>3, Zenon DEF SameValues, X, Y
<1> HIDE DEF Often, OftenO
<1>8. numbersO \in SUBSET (1 .. N)
  BY <1>1 DEF numbersO
<1>. QED
  BY <1>1, <1>2, <1>3, <1>4, <1>5, <1>6, <1>7, <1>8 DEF Back

\* What FMT-01 reads as the body.
LEMMA SelectionBack ==
    ASSUME NEW spans, NEW other, NEW p, Shuffled(spans, other, p), NEW pages, NEW service
    PROVE  LET selection == BodySelection(spans, pages, service) IN
           /\ BodySelection(other, pages, service).body = Back(p, selection.body)
           /\ BodySelection(other, pages, service).invalid = Back(p, selection.invalid)
           /\ selection.body \in SUBSET (1 .. Len(spans))
           /\ selection.invalid \in SUBSET (1 .. Len(spans))
<1> DEFINE N == Len(spans)
           shown == {i \in DOMAIN spans : spans[i].page \notin service}
           sized == {i \in shown : spans[i].chars >= 1 /\ spans[i].size > 0}
           placed == {i \in sized : Reliable(spans[i].box)}
           shownO == {i \in DOMAIN other : other[i].page \notin service}
           sizedO == {i \in shownO : other[i].chars >= 1 /\ other[i].size > 0}
           placedO == {i \in sizedO : Reliable(other[i].box)}
           M == Marginal(spans, pages, service)
           X == placed \ M
<1>1. /\ DOMAIN p = 1 .. N /\ DOMAIN spans = 1 .. N /\ DOMAIN other = 1 .. N
      /\ \A j \in 1 .. N : p[j] \in 1 .. N /\ other[j] = spans[p[j]]
  BY DEF Shuffled, AreSpans
<1>2. /\ sizedO = Back(p, sized) /\ sized \in SUBSET (1 .. N)
      /\ placedO = Back(p, placed) /\ placed \in SUBSET (1 .. N)
  BY <1>1 DEF Back
<1>3. Marginal(other, pages, service) = Back(p, M)
  BY MarginalBack
<1>4. BodySelection(spans, pages, service) = [body |-> BodyOf(spans, X), invalid |-> sized \ placed]
  BY DEF BodySelection
<1>5. BodySelection(other, pages, service)
        = [body |-> BodyOf(other, placedO \ Marginal(other, pages, service)),
           invalid |-> sizedO \ placedO]
  BY DEF BodySelection
<1> HIDE DEF sized, placed, sizedO, placedO, M
<1>6. placedO \ Marginal(other, pages, service) = Back(p, X) /\ X \in SUBSET (1 .. N)
  BY <1>2, <1>3 DEF Back
<1>7. sizedO \ placedO = Back(p, sized \ placed) /\ sized \ placed \in SUBSET (1 .. N)
  BY <1>2 DEF Back
<1> HIDE DEF X
<1>8. BodyOf(other, Back(p, X)) = Back(p, BodyOf(spans, X)) /\ BodyOf(spans, X) \in SUBSET X
  BY <1>6, BodyBack
<1>9. BodySelection(other, pages, service)
        = [body |-> Back(p, BodyOf(spans, X)), invalid |-> Back(p, sized \ placed)]
  BY <1>5, <1>6, <1>7, <1>8
<1>10. BodyOf(spans, X) \in SUBSET (1 .. N)
  BY <1>6, <1>8
<1>. QED
  BY <1>4, <1>7, <1>9, <1>10

LEMMA FontBack ==
    ASSUME NEW spans, NEW other, NEW p, Shuffled(spans, other, p), NEW pages, NEW service
    PROVE  FontOf(other, BodySelection(other, pages, service))
             = FontOf(spans, BodySelection(spans, pages, service))
<1> DEFINE a == BodySelection(spans, pages, service)
           b == BodySelection(other, pages, service)
           times == {i \in a.body : spans[i].font = "times"}
           sized == {i \in a.body : Distance(spans[i].size, FontSize) <= 1}
<1>1. /\ b.body = Back(p, a.body) /\ a.body \in SUBSET (1 .. Len(spans))
      /\ b.invalid = Back(p, a.invalid) /\ a.invalid \in SUBSET (1 .. Len(spans))
  BY SelectionBack
<1> HIDE DEF a, b
<1>2. \A j \in Back(p, a.body) : other[j] = spans[p[j]] /\ p[j] \in a.body
  BY <1>1, BackMirrors DEF Mirrors
<1>3. /\ {j \in b.body : other[j].font = "times"} = Back(p, times)
      /\ {j \in b.body : Distance(other[j].size, FontSize) <= 1} = Back(p, sized)
  BY <1>1, <1>2 DEF Back
<1>4. times \in SUBSET (1 .. Len(spans)) /\ sized \in SUBSET (1 .. Len(spans))
  BY <1>1
<1> HIDE DEF times, sized
<1>5. /\ Chars(other, b.body) = Chars(spans, a.body)
      /\ Chars(other, b.invalid) = Chars(spans, a.invalid)
      /\ Chars(other, Back(p, times)) = Chars(spans, times)
      /\ Chars(other, Back(p, sized)) = Chars(spans, sized)
  BY <1>1, <1>4, CharsBack
<1>6. (b.invalid = {}) = (a.invalid = {})
  <2> DEFINE X == a.invalid
  <2>1. X \in SUBSET (1 .. Len(spans)) /\ b.invalid = Back(p, X)
    BY <1>1
  <2> HIDE DEF X
  <2>2. Mirrors(spans, other, p, X, b.invalid)
    BY <2>1, BackMirrors
  <2>3. b.invalid = {} <=> X = {}
    BY <2>2, NoneAlike
  <2>. QED
    BY <2>3 DEF X
<1>7. /\ Chars(other, {j \in b.body : other[j].font = "times"})
           = Chars(spans, {i \in a.body : spans[i].font = "times"})
      /\ Chars(other, {j \in b.body : Distance(other[j].size, FontSize) <= 1})
           = Chars(spans, {i \in a.body : Distance(spans[i].size, FontSize) <= 1})
  BY <1>3, <1>5 DEF times, sized
<1>8. FontOf(other, b) = FontOf(spans, a)
  BY <1>5, <1>6, <1>7, Zenon DEF FontOf
<1>. QED
  BY <1>8 DEF a, b

\* What FMT-05 finds in the margins.
LEMMA MarginsBack ==
    ASSUME NEW spans, NEW other, NEW p, Shuffled(spans, other, p), NEW pages, NEW service,
           NEW outside
    PROVE  MarginsOf(BodyMargins(other, pages, service), outside)
             = MarginsOf(BodyMargins(spans, pages, service), outside)
<1> DEFINE N == Len(spans)
           M == Marginal(spans, pages, service)
           looked == {i \in DOMAIN spans \ M : spans[i].page \notin service /\ spans[i].chars >= 2}
           lookedO == {i \in DOMAIN other \ Marginal(other, pages, service) :
                         other[i].page \notin service /\ other[i].chars >= 2}
           content == {i \in looked : spans[i].page \in DOMAIN pages /\ Reliable(spans[i].box)}
           contentO == {i \in lookedO : other[i].page \in DOMAIN pages /\ Reliable(other[i].box)}
           out == {i \in content : ~WithinMargins(spans[i].box, pages[spans[i].page])}
           outO == {i \in contentO : ~WithinMargins(other[i].box, pages[other[i].page])}
<1>1. /\ DOMAIN p = 1 .. N /\ DOMAIN spans = 1 .. N /\ DOMAIN other = 1 .. N
      /\ \A j \in 1 .. N : p[j] \in 1 .. N /\ other[j] = spans[p[j]]
  BY DEF Shuffled, AreSpans
<1>2. Marginal(other, pages, service) = Back(p, M)
  BY MarginalBack
<1>3. BodyMargins(spans, pages, service)
        = [content |-> content, outside |-> out, unmeasured |-> Cardinality(looked \ content)]
  BY DEF BodyMargins, Measured
<1>4. BodyMargins(other, pages, service)
        = [content |-> contentO, outside |-> outO, unmeasured |-> Cardinality(lookedO \ contentO)]
  BY DEF BodyMargins, Measured
<1> HIDE DEF M
<1>5. lookedO = Back(p, looked) /\ looked \in SUBSET (1 .. N)
  BY <1>1, <1>2 DEF Back
<1> HIDE DEF looked, lookedO
<1>6. contentO = Back(p, content) /\ content \in SUBSET (1 .. N)
  <2>1. content \in SUBSET (1 .. N)
    BY <1>5
  <2>2. \A j \in 1 .. N : j \in lookedO <=> p[j] \in looked
    BY <1>1, <1>5 DEF Back
  <2>3. \A j \in 1 .. N : j \in contentO <=> p[j] \in content
    BY <1>1, <2>2
  <2>4. \A j \in contentO : j \in 1 .. N
    BY <1>1, <1>5 DEF Back
  <2> HIDE DEF content, contentO
  <2>. QED
    BY <1>1, <2>1, <2>3, <2>4 DEF Back
<1> HIDE DEF content, contentO
<1>7. outO = Back(p, out) /\ out \in SUBSET (1 .. N)
  BY <1>1, <1>6 DEF Back
<1>8. lookedO \ contentO = Back(p, looked \ content) /\ looked \ content \in SUBSET (1 .. N)
  BY <1>5, <1>6 DEF Back
<1> DEFINE rest == looked \ content
<1> HIDE DEF out, outO, rest
<1>9. /\ (outO = {}) = (out = {}) /\ (contentO = {}) = (content = {})
      /\ Cardinality(Back(p, rest)) = Cardinality(rest)
  <2>1. (outO = {}) = (out = {})
    <3>1. Mirrors(spans, other, p, out, outO)
      BY <1>7, BackMirrors
    <3>2. outO = {} <=> out = {}
      BY <3>1, NoneAlike
    <3>. QED
      BY <3>2
  <2>2. (contentO = {}) = (content = {})
    <3>1. Mirrors(spans, other, p, content, contentO)
      BY <1>6, BackMirrors
    <3>2. contentO = {} <=> content = {}
      BY <3>1, NoneAlike
    <3>. QED
      BY <3>2
  <2>3. Cardinality(Back(p, rest)) = Cardinality(rest)
    BY <1>8, BackCount DEF rest
  <2>. QED
    BY <2>1, <2>2, <2>3
<1>10. Cardinality(lookedO \ contentO) = Cardinality(looked \ content)
  BY <1>8, <1>9 DEF rest
<1>. QED
  BY <1>3, <1>4, <1>9, <1>10 DEF MarginsOf

-----------------------------------------------------------------------------
(* Headings and lines do not depend on the order of the spans              *)

LEMMA TextBack ==
    ASSUME NEW spans, NEW other, NEW p, Shuffled(spans, other, p), NEW service
    PROVE  /\ TextSpans(other, service) = Back(p, TextSpans(spans, service))
           /\ TextSpans(spans, service) \in SUBSET (1 .. Len(spans))
<1>1. /\ DOMAIN p = 1 .. Len(spans) /\ DOMAIN spans = 1 .. Len(spans)
      /\ DOMAIN other = 1 .. Len(spans)
      /\ \A j \in 1 .. Len(spans) : p[j] \in 1 .. Len(spans) /\ other[j] = spans[p[j]]
  BY DEF Shuffled, AreSpans
<1>. QED
  BY <1>1 DEF TextSpans, Back

LEMMA SizesBack ==
    ASSUME NEW spans, NEW other, NEW p, Shuffled(spans, other, p),
           NEW X \in SUBSET (1 .. Len(spans))
    PROVE  MedianTwice([j \in Back(p, X) |-> other[j].size])
             = MedianTwice([i \in X |-> spans[i].size])
<1> DEFINE f == [i \in X |-> spans[i].size]
           g == [j \in Back(p, X) |-> other[j].size]
<1>1. \A j \in Back(p, X) : p[j] \in X /\ other[j] = spans[p[j]]
  BY BackMirrors DEF Mirrors
<1>2. DOMAIN f = X /\ DOMAIN g = Back(p, X) /\ \A j \in Back(p, X) : g[j] = f[p[j]]
  BY <1>1
<1> HIDE DEF f, g
<1>3. MedianTwice(g) = MedianTwice(f)
  BY <1>2, MedianBack
<1>. QED
  BY <1>3 DEF f, g

\* What FMT-02 takes for headings, and which of them are bold.
LEMMA HeadingsBack ==
    ASSUME NEW spans, NEW other, NEW p, Shuffled(spans, other, p), NEW service
    PROVE  LET X == HeadingLike(spans, service)
               Y == HeadingLike(other, service)
           IN /\ Y = {} <=> X = {}
              /\ Cardinality(Y) = Cardinality(X)
              /\ Cardinality({j \in Y : other[j].bold}) = Cardinality({i \in X : spans[i].bold})
<1> DEFINE T == TextSpans(spans, service)
           X == HeadingLike(spans, service)
           Y == HeadingLike(other, service)
           B == {i \in X : spans[i].bold}
           C == {j \in Y : other[j].bold}
           m == MedianTwice([i \in T |-> spans[i].size])
<1>1. TextSpans(other, service) = Back(p, T) /\ T \in SUBSET (1 .. Len(spans))
  BY TextBack
<1> HIDE DEF T
<1>2. MedianTwice([j \in Back(p, T) |-> other[j].size]) = m
  BY <1>1, SizesBack
<1>3. X = {i \in T : spans[i].bold \/ 40 * spans[i].size >= 21 * m}
  BY DEF HeadingLike, T
<1>4. Y = {j \in Back(p, T) : other[j].bold \/ 40 * other[j].size >= 21 * m}
  <2>1. Y = {j \in Back(p, T) : other[j].bold
              \/ 40 * other[j].size >= 21 * MedianTwice([k \in Back(p, T) |-> other[k].size])}
    BY <1>1, Zenon DEF HeadingLike
  <2>. QED
    BY <1>2, <2>1
<1> HIDE DEF X, Y, m
<1>5. \A j \in Back(p, T) : p[j] \in T /\ other[j] = spans[p[j]]
  BY <1>1, BackMirrors DEF Mirrors
<1>6. Y = Back(p, X) /\ X \in SUBSET (1 .. Len(spans))
  <2>1. X \in SUBSET (1 .. Len(spans))
    BY <1>1, <1>3
  <2>2. ASSUME NEW j \in Y PROVE j \in DOMAIN p /\ p[j] \in X
    <3>1. j \in Back(p, T) /\ (other[j].bold \/ 40 * other[j].size >= 21 * m)
      BY <1>4
    <3>. QED
      BY <1>3, <1>5, <3>1 DEF Back
  <2>3. ASSUME NEW j \in DOMAIN p, p[j] \in X PROVE j \in Y
    <3>1. p[j] \in T /\ (spans[p[j]].bold \/ 40 * spans[p[j]].size >= 21 * m)
      BY <1>3, <2>3
    <3>2. j \in Back(p, T)
      BY <3>1 DEF Back
    <3>. QED
      BY <1>4, <1>5, <3>1, <3>2
  <2>. QED
    BY <2>1, <2>2, <2>3 DEF Back
<1>7. \A j \in Y : p[j] \in X /\ other[j] = spans[p[j]]
  BY <1>6, BackMirrors DEF Mirrors
<1>8. C = Back(p, B) /\ B \in SUBSET (1 .. Len(spans))
  BY <1>6, <1>7 DEF Back
<1> HIDE DEF B, C
<1>9. Cardinality(Y) = Cardinality(X) /\ Cardinality(C) = Cardinality(B)
  BY <1>6, <1>8, BackCount
<1>10. Y = {} <=> X = {}
  <2>1. Mirrors(spans, other, p, X, Y)
    BY <1>6, BackMirrors
  <2>. QED
    BY <2>1, NoneAlike
<1>. QED
  BY <1>9, <1>10 DEF X, Y, B, C

LEMMA PageSpacingBack ==
    ASSUME NEW spans, NEW other, NEW p, Shuffled(spans, other, p),
           NEW X \in SUBSET (1 .. Len(spans))
    PROVE  PageSpacing(other, Back(p, X)) = PageSpacing(spans, X)
<1> DEFINE S(tops) == MedianTwice([y \in tops \ {Max(tops)} |-> Min({z \in tops : z > y}) - y])
<1>1. {other[j].box.y0 : j \in Back(p, X)} = {spans[i].box.y0 : i \in X}
  <2>1. SameValues(spans, other, X, Back(p, X))
    BY BackMirrors, ValuesAgree
  <2>. QED
    BY <2>1 DEF SameValues
<1>2. MedianTwice([j \in Back(p, X) |-> other[j].size]) = MedianTwice([i \in X |-> spans[i].size])
  BY SizesBack
<1>3. PageSpacing(spans, X) = (1000 * S({spans[i].box.y0 : i \in X}))
                                \div MedianTwice([i \in X |-> spans[i].size])
  BY Zenon DEF PageSpacing
<1>4. PageSpacing(other, Back(p, X))
        = (1000 * S({other[j].box.y0 : j \in Back(p, X)}))
            \div MedianTwice([j \in Back(p, X) |-> other[j].size])
  BY Zenon DEF PageSpacing
<1>5. S({other[j].box.y0 : j \in Back(p, X)}) = S({spans[i].box.y0 : i \in X})
  BY <1>1, Zenon
<1> DEFINE a == S({spans[i].box.y0 : i \in X})
           b == S({other[j].box.y0 : j \in Back(p, X)})
           m == MedianTwice([i \in X |-> spans[i].size])
           n == MedianTwice([j \in Back(p, X) |-> other[j].size])
<1>6. b = a /\ n = m /\ PageSpacing(spans, X) = (1000 * a) \div m
      /\ PageSpacing(other, Back(p, X)) = (1000 * b) \div n
  BY <1>2, <1>3, <1>4, <1>5, Zenon
<1> HIDE DEF a, b, m, n
<1>. QED
  BY <1>6

\* How far apart FMT-03 finds the lines.
LEMMA SpacingBack ==
    ASSUME NEW spans, NEW other, NEW p, Shuffled(spans, other, p), NEW service
    PROVE  LineSpacing(other, service) = LineSpacing(spans, service)
<1> DEFINE T == TextSpans(spans, service)
           U == TextSpans(other, service)
           On(q) == {i \in T : spans[i].page = q}
           OnO(q) == {i \in U : other[i].page = q}
           Many(q) == Cardinality({spans[i].box.y0 : i \in On(q)}) >= 2
           ManyO(q) == Cardinality({other[i].box.y0 : i \in OnO(q)}) >= 2
           pages == {q \in {spans[i].page : i \in T} : Many(q)}
           pagesO == {q \in {other[i].page : i \in U} : ManyO(q)}
<1>1. U = Back(p, T) /\ T \in SUBSET (1 .. Len(spans))
  BY TextBack
<1> HIDE DEF T, U
<1>2. {other[i].page : i \in U} = {spans[i].page : i \in T}
  <2>1. SameValues(spans, other, T, U)
    BY <1>1, BackMirrors, ValuesAgree
  <2>. QED
    BY <2>1 DEF SameValues
<1>3. \A q : OnO(q) = Back(p, On(q)) /\ On(q) \in SUBSET (1 .. Len(spans))
  <2>1. \A j \in Back(p, T) : p[j] \in T /\ other[j] = spans[p[j]]
    BY <1>1, BackMirrors DEF Mirrors
  <2>. QED
    BY <1>1, <2>1 DEF Back
<1> HIDE DEF On, OnO
<1>4. \A q : ManyO(q) = Many(q)
  <2> SUFFICES ASSUME NEW q PROVE ManyO(q) = Many(q)
    OBVIOUS
  <2> DEFINE X == On(q)
             Y == OnO(q)
  <2>1. Y = Back(p, X) /\ X \in SUBSET (1 .. Len(spans))
    BY <1>3
  <2> HIDE DEF X, Y
  <2>2. SameValues(spans, other, X, Y)
    BY <2>1, BackMirrors, ValuesAgree
  <2>3. {other[i].box.y0 : i \in Y} = {spans[i].box.y0 : i \in X}
    BY <2>2 DEF SameValues
  <2>. QED
    BY <2>3 DEF X, Y
<1>5. \A q : PageSpacing(other, OnO(q)) = PageSpacing(spans, On(q))
  <2> SUFFICES ASSUME NEW q PROVE PageSpacing(other, OnO(q)) = PageSpacing(spans, On(q))
    OBVIOUS
  <2> DEFINE X == On(q)
  <2>1. OnO(q) = Back(p, X) /\ X \in SUBSET (1 .. Len(spans))
    BY <1>3
  <2> HIDE DEF X
  <2>2. PageSpacing(other, Back(p, X)) = PageSpacing(spans, X)
    BY <2>1, PageSpacingBack
  <2>. QED
    BY <2>1, <2>2 DEF X
<1> HIDE DEF Many, ManyO
<1>6. pagesO = pages
  BY <1>2, <1>4
<1> HIDE DEF pages, pagesO
<1>7. LineSpacing(spans, service)
        = [measured |-> pages # {},
           twice |-> IF pages = {} THEN 0
                     ELSE MedianTwice([q \in pages |-> PageSpacing(spans, On(q))])]
  BY Zenon DEF LineSpacing, pages, Many, On, T
<1>8. LineSpacing(other, service)
        = [measured |-> pagesO # {},
           twice |-> IF pagesO = {} THEN 0
                     ELSE MedianTwice([q \in pagesO |-> PageSpacing(other, OnO(q))])]
  BY Zenon DEF LineSpacing, pagesO, ManyO, OnO, U
<1>9. [q \in pages |-> PageSpacing(other, OnO(q))] = [q \in pages |-> PageSpacing(spans, On(q))]
  BY <1>5
<1>. QED
  BY <1>6, <1>7, <1>8, <1>9

-----------------------------------------------------------------------------
(* No verdict depends on the order of the spans                            *)

\* The same submission, with the spans of its PDF in another order.
Reshuffles(s, t) ==
    /\ t.latex = s.latex /\ t.body = s.body /\ t.declared = s.declared
    /\ t.paged = s.paged /\ t.sections = s.sections
    /\ t.preamble = s.preamble /\ t.build = s.build
    /\ t.class = s.class /\ t.protected = s.protected /\ t.bib = s.bib
    /\ s.pdf # NoPdf /\ t.pdf # NoPdf
    /\ t.pdf.pages = s.pdf.pages /\ t.pdf.service = s.pdf.service
    /\ t.pdf.readable = s.pdf.readable /\ t.pdf.objects = s.pdf.objects
    /\ t.pdf.spans = <<>> <=> s.pdf.spans = <<>>
    /\ \E p : Shuffled(s.pdf.spans, t.pdf.spans, p)

LEMMA SameSpans ==
    ASSUME NEW spans, NEW other, NEW p, Shuffled(spans, other, p)
    PROVE  ToSet(other) = ToSet(spans)
<1>1. /\ DOMAIN spans = 1 .. Len(spans) /\ DOMAIN other = 1 .. Len(spans)
      /\ \A j \in 1 .. Len(spans) : p[j] \in 1 .. Len(spans) /\ other[j] = spans[p[j]]
      /\ \A i \in 1 .. Len(spans) : \E j \in 1 .. Len(spans) : p[j] = i
  BY BackIs
<1>2. ToSet(other) = {other[j] : j \in 1 .. Len(spans)}
  BY <1>1 DEF ToSet
<1>3. ToSet(spans) = {spans[i] : i \in 1 .. Len(spans)}
  BY <1>1 DEF ToSet
<1>4. \A i \in 1 .. Len(spans) : \E j \in 1 .. Len(spans) : other[j] = spans[i]
  BY <1>1
<1>5. \A j \in 1 .. Len(spans) : \E i \in 1 .. Len(spans) : other[j] = spans[i]
  BY <1>1
<1>6. {other[j] : j \in 1 .. Len(spans)} = {spans[i] : i \in 1 .. Len(spans)}
  <2> DEFINE D == 1 .. Len(spans)
  <2>1. /\ \A i \in D : \E j \in D : other[j] = spans[i]
        /\ \A j \in D : \E i \in D : other[j] = spans[i]
    BY <1>4, <1>5
  <2> HIDE DEF D
  <2>2. {other[j] : j \in D} = {spans[i] : i \in D}
    BY <2>1
  <2>. QED
    BY <2>2 DEF D
<1>. QED
  BY <1>2, <1>3, <1>6

\* What the rules measure on the pages.
LEMMA PagesInAnyOrder ==
    ASSUME NEW s, NEW t, Reshuffles(s, t), NEW r \in FormatIds
    PROVE  Run(t, r) = Run(s, r)
<1>1. PICK p : Shuffled(s.pdf.spans, t.pdf.spans, p)
  BY DEF Reshuffles
<1>2. /\ t.pdf.pages = s.pdf.pages /\ t.pdf.service = s.pdf.service
      /\ t.pdf.readable = s.pdf.readable /\ t.pdf.objects = s.pdf.objects
      /\ s.pdf # NoPdf /\ t.pdf # NoPdf /\ HasText(t) = HasText(s)
  BY DEF Reshuffles, HasText
<1>3. BodyFont(t) = BodyFont(s)
  <2>1. FontOf(t.pdf.spans, BodySelection(t.pdf.spans, s.pdf.pages, s.pdf.service))
          = FontOf(s.pdf.spans, BodySelection(s.pdf.spans, s.pdf.pages, s.pdf.service))
    BY <1>1, FontBack
  <2>2. BodySelection(t.pdf.spans, t.pdf.pages, t.pdf.service)
          = BodySelection(t.pdf.spans, s.pdf.pages, s.pdf.service)
    BY <1>2
  <2>3. CASE HasText(s)
    BY <1>2, <2>1, <2>2, <2>3 DEF BodyFont
  <2>4. CASE ~HasText(s)
    BY <1>2, <2>4 DEF BodyFont
  <2>. QED
    BY <2>3, <2>4
<1>4. HeadingBold(t) = HeadingBold(s)
  <2> DEFINE X == HeadingLike(s.pdf.spans, s.pdf.service)
             Y == HeadingLike(t.pdf.spans, s.pdf.service)
             x == Cardinality({i \in X : s.pdf.spans[i].bold})
             y == Cardinality({i \in Y : t.pdf.spans[i].bold})
  <2>1. (Y = {} <=> X = {}) /\ Cardinality(Y) = Cardinality(X) /\ y = x
    BY <1>1, HeadingsBack
  <2>2. HeadingBold(s) = IF ~HasText(s) THEN "unknown" ELSE IF X = {} THEN "unknown"
                         ELSE Answer(100 * x >= 95 * Cardinality(X))
    BY DEF HeadingBold
  <2>3. HeadingBold(t) = IF ~HasText(t) THEN "unknown" ELSE IF Y = {} THEN "unknown"
                         ELSE Answer(100 * y >= 95 * Cardinality(Y))
    <3>1. HeadingLike(t.pdf.spans, t.pdf.service) = Y
      BY <1>2
    <3> HIDE DEF Y
    <3>. QED
      BY <3>1, Zenon DEF HeadingBold
  <2> HIDE DEF X, Y, x, y
  <2>. QED
    BY <1>2, <2>1, <2>2, <2>3
<1>5. Spacing(t) = Spacing(s)
  <2>1. LineSpacing(t.pdf.spans, s.pdf.service) = LineSpacing(s.pdf.spans, s.pdf.service)
    BY <1>1, SpacingBack
  <2>2. LineSpacing(t.pdf.spans, t.pdf.service) = LineSpacing(t.pdf.spans, s.pdf.service)
    BY <1>2
  <2>3. CASE HasText(s)
    BY <1>2, <2>1, <2>2, <2>3 DEF Spacing
  <2>4. CASE ~HasText(s)
    BY <1>2, <2>4 DEF Spacing
  <2>. QED
    BY <2>3, <2>4
<1>6. Margins(t) = Margins(s)
  <2>1. LayoutObjects(t.pdf) = LayoutObjects(s.pdf)
    BY <1>2 DEF LayoutObjects
  <2> DEFINE outside == LayoutOutside(LayoutObjects(s.pdf), s.pdf.pages, s.pdf.service)
  <2>2. MarginsOf(BodyMargins(t.pdf.spans, s.pdf.pages, s.pdf.service), outside)
          = MarginsOf(BodyMargins(s.pdf.spans, s.pdf.pages, s.pdf.service), outside)
    BY <1>1, MarginsBack
  <2>. QED
    <3>1. BodyMargins(t.pdf.spans, t.pdf.pages, t.pdf.service)
            = BodyMargins(t.pdf.spans, s.pdf.pages, s.pdf.service)
      BY <1>2
    <3>2. LayoutOutside(LayoutObjects(t.pdf), t.pdf.pages, t.pdf.service) = outside
      BY <1>2, <2>1
    <3> HIDE DEF outside
    <3>3. CASE s.pdf.pages = <<>>
      BY <1>2, <3>3 DEF Margins
    <3>4. CASE s.pdf.pages # <<>>
      BY <1>2, <2>2, <3>1, <3>2, <3>4 DEF Margins, outside
    <3>. QED
      BY <3>3, <3>4
<1>7. \A d : ClassSets(t, d) = ClassSets(s, d)
  BY DEF Reshuffles, ClassSets
<1>8. /\ \A c, x : CombineClassPdf(t, c, x) = CombineClassPdf(s, c, x)
      /\ \A v : Supported(t, v) = Supported(s, v)
  BY <1>2 DEF Reshuffles, CombineClassPdf, Supported
<1>9. /\ Fmt01(t) = Fmt01(s) /\ Fmt02(t) = Fmt02(s) /\ Fmt03(t) = Fmt03(s)
      /\ Fmt04(t) = Fmt04(s) /\ Fmt05(t) = Fmt05(s)
  BY <1>3, <1>4, <1>5, <1>6, <1>7, <1>8 DEF Fmt01, Fmt02, Fmt03, Fmt04, Fmt05
<1>10. FormatVerdicts(t) = FormatVerdicts(s)
  BY <1>8, <1>9 DEF FormatVerdicts
<1>. QED
  BY <1>10 DEF Run, FormatIds

\* The captions FIG-01 looks for.
LEMMA CaptionsInAnyOrder ==
    ASSUME NEW s, NEW t, Reshuffles(s, t)
    PROVE  Fig01(t) = Fig01(s)
<1> DEFINE Late(all, body) ==
             \E f \in FigureBlocks(body) :
               LET On(kind, n) == {x.page : x \in {x \in all : x.text = kind /\ x.number = n}}
                   captions == On("caption", f.arg.number)
                   mentions == {q \in On("mention", f.arg.number) : q <= Min(captions)}
               IN /\ f.arg.number # 0 /\ f.arg.label # NoLabel
                  /\ captions # {}
                  /\ mentions \cup captions # {}
                  /\ Min(captions) > Min(mentions \cup captions) + 1
<1>1. ToSet(t.pdf.spans) = ToSet(s.pdf.spans)
  BY SameSpans DEF Reshuffles
<1>2. HasText(t) = HasText(s) /\ t.body = s.body
  BY DEF Reshuffles, HasText
<1>3. Fig01(s) = IF ~HasText(s) THEN "not_applicable"
                 ELSE Warn(Late(ToSet(s.pdf.spans), s.body))
  BY Zenon DEF Fig01
<1>4. Fig01(t) = IF ~HasText(t) THEN "not_applicable"
                 ELSE Warn(Late(ToSet(t.pdf.spans), t.body))
  BY Zenon DEF Fig01
<1>5. Late(ToSet(t.pdf.spans), t.body) = Late(ToSet(s.pdf.spans), s.body)
  BY <1>1, <1>2, Zenon
<1> HIDE DEF Late
<1>. QED
  BY <1>2, <1>3, <1>4, <1>5

\* However the extractor orders the spans of the PDF, each rule says the same.
THEOREM SpansInAnyOrder ==
    ASSUME NEW s, NEW t, Reshuffles(s, t)
    PROVE  Verdicts(t) = Verdicts(s)
<1> SUFFICES ASSUME NEW r \in RuleIds PROVE Judged(t, r) = Judged(s, r)
  BY DEF Verdicts
<1>1. CASE r \in FormatIds
  BY <1>1, PagesInAnyOrder DEF Judged, Reshuffles, BibIds, FormatIds
<1>2. CASE r = "APP-01"
  BY <1>2 DEF Judged, Reshuffles, BibIds, FormatIds, Run, App01
<1>3. CASE ~s.latex /\ r \notin FormatIds \cup {"APP-01"}
  BY <1>3 DEF Judged, Reshuffles
<1>4. CASE s.latex /\ r \notin FormatIds
  <2>1. /\ SameText(s, t) /\ SamePages(s, t) /\ t.bib = s.bib
        /\ t.class = s.class /\ t.protected = s.protected
    BY <1>4 DEF Reshuffles, SameText, SamePages
  <2>2. Ann03(t) = Ann03(s)
    <3>1. t.body = s.body /\ t.pdf.pages = s.pdf.pages /\ t.pdf # NoPdf /\ s.pdf # NoPdf
      BY DEF Reshuffles
    <3>2. \A m : Actual(t, m) = Actual(s, m)
      BY <3>1 DEF Actual
    <3> DEFINE section == FirstSection(s, LAMBDA x : KindOf[x.title] = "annotation")
               Values(m) == {x.arg.number : x \in {x \in Items(Written(section.text), {"declared"}) :
                                                     x.arg.metric = m}}
               None == ~section.found \/ \E m \in Metrics : Cardinality(Values(m)) # 1
    <3>3. FirstSection(t, LAMBDA x : KindOf[x.title] = "annotation") = section
      BY <3>1 DEF FirstSection
    <3>4. Ann03(s) = IF None THEN "unverifiable"
                     ELSE IF s.pdf.pages = <<>> THEN "unverifiable"
                     ELSE Fail(\E m \in Metrics : Values(m) # {Actual(s, m)})
      BY <3>1 DEF Ann03
    <3>5. Ann03(t) = IF None THEN "unverifiable"
                     ELSE IF t.pdf.pages = <<>> THEN "unverifiable"
                     ELSE Fail(\E m \in Metrics : Values(m) # {Actual(t, m)})
      <4> HIDE DEF section
      <4>. QED
        BY <3>1, <3>3 DEF Ann03
    <3> HIDE DEF None, Values
    <3>6. (\E m \in Metrics : Values(m) # {Actual(t, m)})
            <=> (\E m \in Metrics : Values(m) # {Actual(s, m)})
      BY <3>2
    <3>. QED
      BY <3>1, <3>4, <3>5, <3>6 DEF Fail
  <2>3. Run(t, r) = Run(s, r)
    <3>1. CASE r = "FIG-01"
      BY <3>1, CaptionsInAnyOrder DEF Run, FormatIds
    <3>2. CASE r = "ANN-03"
      BY <2>2, <3>2 DEF Run, FormatIds
    <3>. QED
      BY <1>4, <2>1, <3>1, <3>2, RestIsSame, ClassIsSame
  <2>. QED
    BY <1>4, <2>3 DEF Judged, Reshuffles
<1>. QED
  BY <1>1, <1>2, <1>3, <1>4

-----------------------------------------------------------------------------
(* Orders the extractor may hand over the spans in                         *)

LEMMA PdfHasSpans ==
    ASSUME NEW pdf, IsPdf(pdf)
    PROVE  AreSpans(pdf.spans)
<1> DEFINE spans == pdf.spans
           S == ToSet(spans)
<1>1. spans \in Seq(S)
  BY DEF IsPdf
<1>2. /\ \A s \in S : /\ {s.page, s.chars, s.size, s.rank} \subseteq Nat
                      /\ {s.box.x0, s.box.y0, s.box.x1, s.box.y1} \subseteq Int
      /\ \A s, t \in S : s.rank = t.rank => s.font = t.font /\ s.size = t.size /\ s.text = t.text
  BY DEF IsPdf
<1> HIDE DEF spans, S
<1>3. Len(spans) \in Nat /\ DOMAIN spans = 1 .. Len(spans)
  BY <1>1, LenProperties
<1>4. \A k \in 1 .. Len(spans) : spans[k] \in S
  BY <1>1, ElementOfSeq
<1>5. AreSpans(spans)
  BY <1>2, <1>3, <1>4 DEF AreSpans
<1>. QED
  BY <1>5 DEF spans

\* From last to first.
LEMMA ReverseShuffles ==
    ASSUME NEW spans, AreSpans(spans), AreSpans(Reverse(spans))
    PROVE  \E p : Shuffled(spans, Reverse(spans), p)
<1> DEFINE n == Len(spans)
           other == Reverse(spans)
           p == [j \in 1 .. n |-> n - j + 1]
<1>1. n \in Nat
  BY DEF AreSpans
<1>2. other = [j \in 1 .. n |-> spans[n - j + 1]]
  BY DEF Reverse
<1>3. DOMAIN other = 1 .. n /\ DOMAIN other = 1 .. Len(other) /\ Len(other) \in Nat
  BY <1>2 DEF AreSpans
<1>4. Len(other) = n
  BY <1>1, <1>3
<1>5. p \in [1 .. n -> 1 .. n] /\ \A j \in 1 .. n : p[j] = n - j + 1
  BY <1>1
<1>6. \A j \in 1 .. n : other[j] = spans[p[j]]
  BY <1>2, <1>5
<1> HIDE DEF p
<1>7. /\ \A i, j \in 1 .. n : p[i] = p[j] => i = j
      /\ \A i \in 1 .. n : \E j \in 1 .. n : p[j] = i
  <2>1. \A i, j \in 1 .. n : p[i] = p[j] => i = j
    BY <1>1, <1>5
  <2>2. ASSUME NEW i \in 1 .. n PROVE \E j \in 1 .. n : p[j] = i
    <3>1. n - i + 1 \in 1 .. n /\ n - (n - i + 1) + 1 = i
      BY <1>1
    <3>. QED
      BY <1>5, <3>1
  <2>. QED
    BY <2>1, <2>2
<1> HIDE DEF other, n
<1>8. Shuffled(spans, other, p)
  BY <1>4, <1>5, <1>6, <1>7 DEF Shuffled, other, n
<1>. QED
  BY <1>8 DEF other

\* From another page on.
LEMMA RotationShuffles ==
    ASSUME NEW S, NEW spans \in Seq(S), AreSpans(spans), NEW k \in 1 .. Len(spans) - 1,
           AreSpans(SubSeq(spans, k + 1, Len(spans)) \o SubSeq(spans, 1, k))
    PROVE  \E p : Shuffled(spans, SubSeq(spans, k + 1, Len(spans)) \o SubSeq(spans, 1, k), p)
<1> DEFINE n == Len(spans)
           a == SubSeq(spans, k + 1, n)
           b == SubSeq(spans, 1, k)
           other == a \o b
           p == [j \in 1 .. n |-> IF j <= n - k THEN j + k ELSE j - (n - k)]
<1>1. n \in Nat /\ k \in Nat /\ k < n
  BY LenProperties
<1>2. a \in Seq(S) /\ Len(a) = n - k /\ \A j \in 1 .. n - k : a[j] = spans[j + k]
  <2>1. \A j \in k + 1 .. n : j \in 1 .. n
    BY <1>1
  <2>2. /\ a \in Seq(S) /\ Len(a) = n - (k + 1) + 1
        /\ \A j \in 1 .. n - (k + 1) + 1 : a[j] = spans[(k + 1) + j - 1]
    BY <1>1, <2>1, SubSeqProperties
  <2> HIDE DEF a
  <2>3. n - (k + 1) + 1 = n - k /\ \A j \in 1 .. n - k : (k + 1) + j - 1 = j + k
    BY <1>1
  <2>. QED
    BY <2>2, <2>3
<1>3. b \in Seq(S) /\ Len(b) = k /\ \A j \in 1 .. k : b[j] = spans[j]
  <2>1. \A j \in 1 .. k : j \in 1 .. n
    BY <1>1
  <2>2. /\ b \in Seq(S) /\ Len(b) = k - 1 + 1
        /\ \A j \in 1 .. k - 1 + 1 : b[j] = spans[1 + j - 1]
    BY <1>1, <2>1, SubSeqProperties
  <2> HIDE DEF b
  <2>3. k - 1 + 1 = k /\ \A j \in 1 .. k : 1 + j - 1 = j
    BY <1>1
  <2>. QED
    BY <2>2, <2>3
<1> HIDE DEF a, b
<1>4. /\ Len(other) = Len(a) + Len(b)
      /\ \A j \in 1 .. Len(a) + Len(b) :
           other[j] = IF j <= Len(a) THEN a[j] ELSE b[j - Len(a)]
  <2>1. a \in Seq(S) /\ b \in Seq(S)
    BY <1>2, <1>3
  <2>. QED
    BY <2>1, ConcatProperties
<1> HIDE DEF other
<1>5. Len(other) = n /\ Len(a) + Len(b) = n
  BY <1>1, <1>2, <1>3, <1>4
<1>6. p \in [1 .. n -> 1 .. n]
      /\ \A j \in 1 .. n : p[j] = IF j <= n - k THEN j + k ELSE j - (n - k)
  BY <1>1
<1> HIDE DEF p
<1>7. ASSUME NEW j \in 1 .. n PROVE other[j] = spans[p[j]]
  <2>1. other[j] = IF j <= Len(a) THEN a[j] ELSE b[j - Len(a)]
    BY <1>4, <1>5
  <2>2. CASE j <= n - k
    BY <1>1, <1>2, <1>6, <2>1, <2>2
  <2>3. CASE ~(j <= n - k)
    <3>1. j - (n - k) \in 1 .. k
      BY <1>1, <2>3
    <3>. QED
      BY <1>2, <1>3, <1>6, <2>1, <2>3, <3>1
  <2>. QED
    BY <2>2, <2>3
<1>8. \A i, j \in 1 .. n : p[i] = p[j] => i = j
  BY <1>1, <1>6
<1>9. ASSUME NEW i \in 1 .. n PROVE \E j \in 1 .. n : p[j] = i
  <2>1. CASE i > k
    <3>1. i - k \in 1 .. n /\ i - k <= n - k /\ i - k + k = i
      BY <1>1, <2>1
    <3>. QED
      BY <1>6, <3>1
  <2>2. CASE i <= k
    <3> DEFINE j == i + (n - k)
    <3>1. j \in 1 .. n /\ ~(j <= n - k) /\ j - (n - k) = i
      BY <1>1, <2>2
    <3>2. p[j] = i
      <4> HIDE DEF j
      <4>. QED
        BY <1>6, <3>1
    <3>. QED
      BY <3>1, <3>2
  <2>. QED
    BY <1>1, <2>1, <2>2
<1>10. AreSpans(other)
  BY DEF other, a, b
<1> HIDE DEF n
<1>11. Shuffled(spans, other, p)
  BY <1>6, <1>7, <1>8, <1>9, <1>10, <1>5 DEF Shuffled, n
<1>. QED
  BY <1>11 DEF other, a, b, n

\* A revision that hands over the spans in another order does nothing else.
LEMMA ReordersReshuffles ==
    ASSUME NEW s, NEW t, IsSubmission(s), IsSubmission(t), Reorders(s, t)
    PROVE  Reshuffles(s, t)
<1>1. PICK new \in Reorderings(s.pdf.spans) : t = [s EXCEPT !.pdf.spans = new]
  BY DEF Reorders
<1>2. /\ IsPdf(s.pdf) /\ IsPdf(t.pdf) /\ s.pdf # NoPdf /\ t.pdf # NoPdf /\ s.pdf.spans # <<>>
  BY DEF IsSubmission, Reorders, HasText
<1>3. t.pdf = [s.pdf EXCEPT !.spans = new]
  BY <1>1 DEF IsSubmission
<1>4. t.pdf.spans = new
  BY <1>2, <1>3 DEF IsPdf
<1>5. /\ t.latex = s.latex /\ t.body = s.body /\ t.declared = s.declared
      /\ t.paged = s.paged /\ t.sections = s.sections
      /\ t.preamble = s.preamble /\ t.build = s.build
      /\ t.class = s.class /\ t.protected = s.protected /\ t.bib = s.bib
  BY <1>1 DEF IsSubmission
<1>6. /\ t.pdf.pages = s.pdf.pages /\ t.pdf.service = s.pdf.service
      /\ t.pdf.readable = s.pdf.readable /\ t.pdf.objects = s.pdf.objects
  BY <1>2, <1>3 DEF IsPdf
<1>7. AreSpans(s.pdf.spans) /\ AreSpans(new)
  BY <1>2, <1>4, PdfHasSpans
<1>8. \E p : Shuffled(s.pdf.spans, new, p)
  <2>1. s.pdf.spans \in Seq(ToSet(s.pdf.spans))
    BY <1>2 DEF IsPdf
  <2>2. CASE new = Reverse(s.pdf.spans)
    BY <1>7, <2>2, ReverseShuffles
  <2>3. ASSUME NEW k \in 1 .. Len(s.pdf.spans) - 1,
               new = SubSeq(s.pdf.spans, k + 1, Len(s.pdf.spans)) \o SubSeq(s.pdf.spans, 1, k)
        PROVE  \E p : Shuffled(s.pdf.spans, new, p)
    BY <1>7, <2>1, <2>3, RotationShuffles
  <2>. QED
    BY <1>1, <2>2, <2>3 DEF Reorderings
<1>9. t.pdf.spans = <<>> <=> s.pdf.spans = <<>>
  <2>1. new # <<>>
    <3>1. s.pdf.spans \in Seq(ToSet(s.pdf.spans))
      BY <1>2 DEF IsPdf
    <3>2. Len(s.pdf.spans) # 0
      BY <1>2, <3>1, EmptySeq
    <3>3. Len(new) = Len(s.pdf.spans)
      BY <1>8 DEF Shuffled
    <3>. QED
      BY <3>2, <3>3
  <2>. QED
    BY <1>2, <1>4, <2>1
<1>. QED
  BY <1>2, <1>4, <1>5, <1>6, <1>8, <1>9 DEF Reshuffles

\* The verdicts do not depend on the order in which the extractor hands over
\* the spans of a page, or the pages.
THEOREM OrderIsNoEvidence == Spec => []OrderDoesNotMatter
<1>1. IInv => OrderDoesNotMatter
  <2> SUFFICES ASSUME IInv, Revised("reordered") PROVE verdict = earlier
    BY DEF OrderDoesNotMatter
  <2>1. /\ verdict = Verdicts(submission) /\ earlier = Verdicts(before)
        /\ IsSubmission(before) /\ IsSubmission(submission) /\ Reorders(before, submission)
    BY DEF IInv, Revised
  <2>2. Reshuffles(before, submission)
    BY <2>1, ReordersReshuffles
  <2>. QED
    BY <2>1, <2>2, SpansInAnyOrder
<1>. QED
  BY <1>1, VerdictsAreOfTheirText, PTL
=============================================================================
