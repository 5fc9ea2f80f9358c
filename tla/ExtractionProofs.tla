--------------------------- MODULE ExtractionProofs ---------------------------
(***************************************************************************)
(* The expansion of a LaTeX project, file by file, succeeds exactly on the *)
(* projects whose \input graph is sound, and reads what it reaches.  The   *)
(* text is read, divided into sections and cut into chunks without loss or *)
(* repetition, and every step is forward in the document.  The other two   *)
(* walks of the project read the text of the first.                        *)
(***************************************************************************)
EXTENDS Extraction, SequenceTheorems, FiniteSetTheorems, WellFoundedInduction, TLAPS

-----------------------------------------------------------------------------
(* What the \input graph reaches.                                          *)

\* The files reached from f hold f and everything their own \inputs lead to.
LEMMA ReachClosed ==
    ASSUME NEW q, NEW f \in File
    PROVE  /\ f \in Reach(q, f) /\ Reach(q, f) \subseteq File
           /\ \A g \in Reach(q, f) : InputsOf(q, g) \cap File \subseteq Reach(q, f)
BY DEF Reach

\* They are the least such set.
LEMMA ReachLeast ==
    ASSUME NEW q, NEW f, NEW S \in SUBSET File, f \in S,
           \A g \in S : InputsOf(q, g) \cap File \subseteq S
    PROVE  Reach(q, f) \subseteq S
BY DEF Reach

\* What is reached from a reached file is reached.
LEMMA ReachTransitive ==
    ASSUME NEW q, NEW f \in File, NEW g \in Reach(q, f)
    PROVE  Reach(q, g) \subseteq Reach(q, f)
<1>1. /\ Reach(q, f) \in SUBSET File
      /\ \A h \in Reach(q, f) : InputsOf(q, h) \cap File \subseteq Reach(q, f)
  BY ReachClosed
<1>. QED
  BY <1>1, ReachLeast

\* A file reaches itself and what its inputs reach.
LEMMA ReachByInputs ==
    ASSUME NEW q, NEW f \in File
    PROVE  Reach(q, f) \subseteq
             {f} \cup UNION {Reach(q, g) : g \in InputsOf(q, f) \cap File}
<1> DEFINE S == {f} \cup UNION {Reach(q, g) : g \in InputsOf(q, f) \cap File}
<1>1. S \in SUBSET File
  BY ReachClosed
<1>2. \A h \in S : InputsOf(q, h) \cap File \subseteq S
  <2> SUFFICES ASSUME NEW h \in S, NEW g \in InputsOf(q, h) \cap File
               PROVE  g \in S
    OBVIOUS
  <2>1. CASE h = f
    BY <2>1, ReachClosed
  <2>2. CASE h # f
    <3>1. PICK k \in InputsOf(q, f) \cap File : h \in Reach(q, k)
      BY <2>2
    <3>2. g \in Reach(q, k)
      BY <3>1, ReachClosed
    <3>. QED
      BY <3>1, <3>2
  <2>. QED
    BY <2>1, <2>2
<1> HIDE DEF S
<1>3. f \in S
  BY DEF S
<1>4. Reach(q, f) \subseteq S
  BY <1>1, <1>2, <1>3, ReachLeast
<1>. QED
  BY <1>4 DEF S

\* A readable file all of whose inputs are sound is sound: it cannot be reached
\* from one of them, which would then be reached from itself.
LEMMA SoundByInputs ==
    ASSUME NEW q, NEW f \in File, f \in q.utf8, InputsOf(q, f) \subseteq File,
           \A g \in InputsOf(q, f) : IsSound(q, g)
    PROVE  IsSound(q, f)
<1>1. ASSUME NEW g \in InputsOf(q, f), NEW h \in Reach(q, g)
      PROVE  /\ h \in q.utf8 /\ InputsOf(q, h) \subseteq File
             /\ \A k \in InputsOf(q, h) : h \notin Reach(q, k)
  BY <1>1 DEF IsSound
<1>2. \A g \in InputsOf(q, f) : f \notin Reach(q, g)
  BY <1>1
<1>3. ASSUME NEW h \in Reach(q, f)
      PROVE  /\ h \in q.utf8 /\ InputsOf(q, h) \subseteq File
             /\ \A k \in InputsOf(q, h) : h \notin Reach(q, k)
  <2>1. h = f \/ \E g \in InputsOf(q, f) : h \in Reach(q, g)
    BY ReachByInputs
  <2>. QED
    BY <1>1, <1>2, <2>1
<1>. QED
  BY <1>3 DEF IsSound

-----------------------------------------------------------------------------
(* The calls of _expand_file                                               *)

Call == [file : File, line : Nat \ {0}]

\* What is below f is sound, and among the files read.
Read(q, files, f) == f \in File /\ IsSound(q, f) /\ Reach(q, f) \subseteq files

\* A call of the stack: what it has passed is read, but for the call it waits
\* for, and it is reached from every call before it.
CallFits(q, calls, files, i) ==
    LET f == calls[i].file
        here == Directives(q, f)
    IN /\ i = 1 => f = q.main
       /\ f \in q.utf8 \cap files
       /\ calls[i].line <= Len(here) + 1
       /\ \A k \in 1 .. calls[i].line - 1 : here[k].kind = "input" =>
             LET child == Resolve(q, f, here[k].arg) IN
             \/ Read(q, files, child)
             \/ i < Len(calls) /\ child = calls[i + 1].file
       /\ i < Len(calls) => calls[i + 1].file \in InputsOf(q, f)
       /\ \A j \in 1 .. i : f \in Reach(q, calls[j].file)

StackFits(q, calls, files) ==
    calls \in Seq(Call) /\ \A i \in 1 .. Len(calls) : CallFits(q, calls, files, i)

\* The traversal: its calls fit, it fails on unsound projects only, and when it
\* is over all that is reached has been read.
Traversal ==
    /\ stack # <<>> => pc \in {"open", "failed"}
    /\ IsInjective(sourceFiles) /\ ToSet(sourceFiles) \subseteq Reach(p, p.main)
    /\ pc = "open" => StackFits(p, stack, ToSet(sourceFiles))
    /\ pc = "failed" => ~IsSound(p, p.main)
    /\ pc \notin {"open", "failed"} => Read(p, ToSet(sourceFiles), p.main)

IInv ==
    /\ source \in Sources /\ TypeOK
    /\ source.kind = "latex" => Traversal
    /\ source.kind # "latex" => stack = <<>>

\* What has been read stays read as more is.
LEMMA ReadStays ==
    ASSUME NEW q, NEW files, NEW more, files \subseteq more, NEW f, Read(q, files, f)
    PROVE  Read(q, more, f)
BY DEF Read

\* All but the last one.
LEMMA FrontIs ==
    ASSUME NEW S, NEW s \in Seq(S), Len(s) \in Nat \ {0}
    PROVE  /\ Front(s) \in Seq(S) /\ Len(Front(s)) = Len(s) - 1
           /\ \A i \in 1 .. Len(s) - 1 : Front(s)[i] = s[i]
<1> DEFINE m == Len(s) - 1
<1>1. m \in Nat /\ \A i \in 1 .. m : s[i] \in S
  OBVIOUS
<1> HIDE DEF m
<1>2. /\ SubSeq(s, 1, m) \in Seq(S)
      /\ Len(SubSeq(s, 1, m)) = IF 1 <= m THEN m - 1 + 1 ELSE 0
      /\ \A i \in 1 .. m - 1 + 1 : SubSeq(s, 1, m)[i] = s[1 + i - 1]
  BY <1>1, SubSeqProperties
<1>3. Len(SubSeq(s, 1, m)) = m /\ \A i \in 1 .. m : SubSeq(s, 1, m)[i] = s[i]
  BY <1>1, <1>2
<1>. QED
  BY <1>2, <1>3 DEF Front, m

\* A call goes on behind its line.
LEMMA AdvancedIs ==
    ASSUME stack \in Seq(Call), stack # <<>>
    PROVE  /\ Len(stack) \in Nat \ {0} /\ Top = stack[Len(stack)] /\ Top \in Call
           /\ Advanced \in Seq(Call) /\ Len(Advanced) = Len(stack)
           /\ \A i \in 1 .. Len(stack) - 1 : Advanced[i] = stack[i]
           /\ Advanced[Len(stack)].file = Top.file
           /\ Advanced[Len(stack)].line = Top.line + 1
<1>1. Len(stack) \in Nat \ {0} /\ Top = stack[Len(stack)] /\ Top \in Call
  BY DEF Top, Last
<1>2. /\ Front(stack) \in Seq(Call) /\ Len(Front(stack)) = Len(stack) - 1
      /\ \A i \in 1 .. Len(stack) - 1 : Front(stack)[i] = stack[i]
  BY <1>1, FrontIs
<1>3. /\ [Top EXCEPT !.line = @ + 1] \in Call
      /\ [Top EXCEPT !.line = @ + 1].file = Top.file
      /\ [Top EXCEPT !.line = @ + 1].line = Top.line + 1
  BY <1>1 DEF Call
<1> DEFINE next == [Top EXCEPT !.line = @ + 1]
<1> HIDE DEF next
<1>4. next \in Call /\ next.file = Top.file /\ next.line = Top.line + 1
  BY <1>3 DEF next
<1>5. Advanced = Append(Front(stack), next)
  BY DEF Advanced, next
<1>6. /\ Append(Front(stack), next) \in Seq(Call)
      /\ Len(Append(Front(stack), next)) = Len(stack)
      /\ \A i \in 1 .. Len(stack) - 1 : Append(Front(stack), next)[i] = Front(stack)[i]
      /\ Append(Front(stack), next)[Len(stack)] = next
  BY <1>1, <1>2, <1>4, AppendProperties
<1>. QED
  BY <1>1, <1>2, <1>4, <1>5, <1>6

\* The calls below the last one fit whatever the last one does, as long as its
\* file stays.
LEMMA LowerCallsFit ==
    ASSUME NEW q, NEW files, NEW more, files \subseteq more,
           NEW calls \in Seq(Call), NEW others \in Seq(Call),
           Len(calls) \in Nat \ {0}, Len(others) >= Len(calls),
           \A i \in 1 .. Len(calls) - 1 : others[i] = calls[i],
           others[Len(calls)].file = calls[Len(calls)].file,
           NEW i \in 1 .. Len(calls) - 1, CallFits(q, calls, files, i)
    PROVE  CallFits(q, others, more, i)
<1>1. others[i] = calls[i] /\ i + 1 \in 1 .. Len(calls) /\ i < Len(calls) /\ i < Len(others)
      /\ Len(others) \in Nat
  OBVIOUS
<1>2. others[i + 1].file = calls[i + 1].file
  BY <1>1
<1>3. \A j \in 1 .. i : others[j] = calls[j]
  OBVIOUS
<1> DEFINE f == calls[i].file
           here == Directives(q, f)
<1>4. \A k \in 1 .. calls[i].line - 1 : here[k].kind = "input" =>
         LET child == Resolve(q, f, here[k].arg) IN
         \/ Read(q, more, child)
         \/ i < Len(others) /\ child = others[i + 1].file
  BY <1>1, <1>2, ReadStays DEF CallFits
<1>. QED
  BY <1>1, <1>2, <1>3, <1>4 DEF CallFits

\* A line that is no \input is passed, or one whose file is called below.
LEMMA PassLine ==
    ASSUME NEW q, NEW files, NEW more, files \subseteq more,
           NEW calls, StackFits(q, calls, files), Len(calls) \in Nat \ {0},
           NEW others \in Seq(Call), Len(others) >= Len(calls),
           \A i \in 1 .. Len(calls) - 1 : others[i] = calls[i],
           others[Len(calls)].file = calls[Len(calls)].file,
           others[Len(calls)].line = calls[Len(calls)].line + 1,
           LET f == calls[Len(calls)].file
               here == Directives(q, f)
               line == calls[Len(calls)].line
               child == Resolve(q, f, here[line].arg)
           IN /\ Len(here) \in Nat /\ line <= Len(here)
              /\ IF Len(others) = Len(calls) THEN here[line].kind # "input"
                 ELSE others[Len(calls) + 1].file = child /\ child \in InputsOf(q, f)
    PROVE  \A i \in 1 .. Len(calls) : CallFits(q, others, more, i)
<1> DEFINE n == Len(calls)
           f == calls[n].file
           here == Directives(q, f)
           line == calls[n].line
<1>1. calls \in Seq(Call) /\ n \in 1 .. Len(calls) /\ \A i \in 1 .. n : CallFits(q, calls, files, i)
  BY DEF StackFits
<1>2. ASSUME NEW i \in 1 .. n - 1
      PROVE  CallFits(q, others, more, i)
  BY <1>1, LowerCallsFit
<1>3. CallFits(q, others, more, n)
  <2>1. CallFits(q, calls, files, n) /\ line \in Nat \ {0} /\ Len(here) \in Nat
        /\ Len(others) \in Nat
    <3>1. calls[n] \in Call
      BY <1>1
    <3>2. line \in Nat \ {0}
      BY <3>1 DEF Call
    <3>. QED
      BY <1>1, <3>2
  <2>2. ASSUME NEW k \in 1 .. others[n].line - 1, here[k].kind = "input"
        PROVE  LET child == Resolve(q, f, here[k].arg) IN
               \/ Read(q, more, child)
               \/ n < Len(others) /\ child = others[n + 1].file
    <3>1. CASE k \in 1 .. line - 1
      BY <2>1, <2>2, <3>1, ReadStays DEF CallFits
    <3>2. CASE k = line
      BY <2>1, <2>2, <3>2
    <3>3. k \in 1 .. line - 1 \/ k = line
      BY <2>1
    <3>. QED
      BY <3>1, <3>2, <3>3
  <2>3. \A j \in 1 .. n : others[j].file = calls[j].file
    BY <1>1
  <2>4. n < Len(others) => others[n + 1].file \in InputsOf(q, f)
    OBVIOUS
  <2>5. others[n].line <= Len(here) + 1
    BY <2>1
  <2>6. (n = 1 => f = q.main) /\ f \in q.utf8 \cap more /\ \A j \in 1 .. n : f \in Reach(q, calls[j].file)
    BY <2>1 DEF CallFits
  <2>7. others[n].file = f
    OBVIOUS
  <2> HIDE DEF f, n
  <2>. QED
    BY <1>1, <2>2, <2>3, <2>4, <2>5, <2>6, <2>7 DEF CallFits, here
<1>. QED
  BY <1>1, <1>2, <1>3

\* A call is for a file.
LEMMA FilesOfCalls ==
    ASSUME NEW calls \in Seq(Call), NEW j \in 1 .. Len(calls)
    PROVE  calls[j].file \in File /\ calls[j].line \in Nat \ {0}
<1>1. calls[j] \in Call
  OBVIOUS
<1>. QED
  BY <1>1 DEF Call

\* A call that begins fits, whatever waits for it.
LEMMA NewCallFits ==
    ASSUME NEW q, NEW files, NEW calls, StackFits(q, calls, files), NEW more,
           NEW child \in File, child \in q.utf8 \cap more, Len(Directives(q, child)) \in Nat,
           Len(calls) = 0 => child = q.main,
           Len(calls) > 0 => child \in InputsOf(q, calls[Len(calls)].file),
           NEW others \in Seq(Call), Len(others) = Len(calls) + 1,
           \A j \in 1 .. Len(calls) : others[j].file = calls[j].file,
           others[Len(calls) + 1] = [file |-> child, line |-> 1]
    PROVE  CallFits(q, others, more, Len(calls) + 1)
<1> DEFINE n == Len(calls)
<1>1. calls \in Seq(Call) /\ n \in Nat /\ \A i \in 1 .. n : CallFits(q, calls, files, i)
  BY DEF StackFits
<1>2. \A j \in 1 .. n : calls[j].file \in File
  BY <1>1, FilesOfCalls
<1>3. ASSUME NEW j \in 1 .. n
      PROVE  child \in Reach(q, others[j].file)
  <2>1. n > 0 /\ CallFits(q, calls, files, n) /\ j \in 1 .. n
    BY <1>1
  <2>2. calls[n].file \in Reach(q, calls[j].file)
    BY <2>1 DEF CallFits
  <2>3. InputsOf(q, calls[n].file) \cap File \subseteq Reach(q, calls[j].file)
    BY <1>2, <2>2, ReachClosed
  <2>4. child \in Reach(q, calls[j].file)
    BY <2>1, <2>3
  <2>. QED
    BY <2>4
<1>4. child \in Reach(q, child)
  BY ReachClosed
<1> HIDE DEF n
<1>5. others[n + 1].file = child /\ others[n + 1].line = 1 /\ Len(others) = n + 1
      /\ (n = 0 => child = q.main)
  BY DEF n
<1>6. \A j \in 1 .. n + 1 : child \in Reach(q, others[j].file)
  BY <1>1, <1>3, <1>4, <1>5
<1>7. CallFits(q, others, more, n + 1)
  BY <1>1, <1>5, <1>6 DEF CallFits
<1>. QED
  BY <1>7 DEF n

\* A call that has passed all its lines has read what its file reaches.
LEMMA FinishedCall ==
    ASSUME NEW q, NEW files, NEW calls, StackFits(q, calls, files), Len(calls) > 0,
           LET f == calls[Len(calls)].file IN
           /\ Directives(q, f) \in Seq(FileLine)
           /\ calls[Len(calls)].line > Len(Directives(q, f))
    PROVE  Read(q, files, calls[Len(calls)].file)
<1> DEFINE n == Len(calls)
           f == calls[n].file
           here == Directives(q, f)
<1>1. n \in Nat \ {0} /\ calls[n] \in Call /\ CallFits(q, calls, files, n)
  BY DEF StackFits
<1>2. f \in File /\ f \in q.utf8 \cap files /\ calls[n].line - 1 = Len(here)
      /\ Len(here) \in Nat /\ DOMAIN here = 1 .. Len(here)
  BY <1>1 DEF CallFits, Call
<1>3. ASSUME NEW g \in InputsOf(q, f)
      PROVE  Read(q, files, g)
  <2>1. PICK k \in DOMAIN here : here[k].kind = "input" /\ g = Resolve(q, f, here[k].arg)
    BY DEF InputsOf, ToSet
  <2>2. k \in 1 .. calls[n].line - 1
    BY <1>2, <2>1
  <2>3. Read(q, files, g) \/ n < Len(calls)
    BY <1>1, <2>1, <2>2 DEF CallFits
  <2>. QED
    BY <1>1, <2>3
<1>4. IsSound(q, f)
  BY <1>2, <1>3, SoundByInputs DEF Read
<1>5. Reach(q, f) \subseteq files
  BY <1>2, <1>3, ReachByInputs DEF Read
<1>. QED
  BY <1>2, <1>4, <1>5 DEF Read

\* The calls below a finished one fit without it.
LEMMA CallsBelowFit ==
    ASSUME NEW q, NEW files, NEW calls, StackFits(q, calls, files), Len(calls) \in Nat \ {0},
           Read(q, files, calls[Len(calls)].file),
           NEW others \in Seq(Call), Len(others) = Len(calls) - 1,
           \A j \in 1 .. Len(calls) - 1 : others[j] = calls[j]
    PROVE  StackFits(q, others, files)
<1> DEFINE n == Len(calls)
<1>1. calls \in Seq(Call) /\ \A i \in 1 .. n : CallFits(q, calls, files, i)
  BY DEF StackFits
<1>2. ASSUME NEW i \in 1 .. n - 1
      PROVE  CallFits(q, others, files, i)
  <2> DEFINE f == calls[i].file
             here == Directives(q, f)
  <2>1. CallFits(q, calls, files, i) /\ others[i] = calls[i] /\ i < n /\ i + 1 \in 1 .. n
    BY <1>1
  <2>2. ASSUME NEW k \in 1 .. calls[i].line - 1, here[k].kind = "input"
        PROVE  LET child == Resolve(q, f, here[k].arg) IN
               \/ Read(q, files, child)
               \/ i < Len(others) /\ child = others[i + 1].file
    <3>1. \/ Read(q, files, Resolve(q, f, here[k].arg))
          \/ Resolve(q, f, here[k].arg) = calls[i + 1].file
      BY <2>1, <2>2 DEF CallFits
    <3>2. CASE i + 1 = n
      BY <3>1, <3>2
    <3>3. CASE i + 1 # n
      <4>1. i + 1 \in 1 .. n - 1 /\ i < Len(others)
        BY <3>3
      <4>. QED
        BY <3>1, <4>1
    <3>. QED
      BY <3>2, <3>3
  <2>3. i < Len(others) => others[i + 1].file \in InputsOf(q, f)
    <3>1. calls[i + 1].file \in InputsOf(q, f)
      BY <2>1 DEF CallFits
    <3>. QED
      BY <3>1
  <2>4. \A j \in 1 .. i : others[j].file = calls[j].file
    OBVIOUS
  <2>. QED
    BY <2>1, <2>2, <2>3, <2>4 DEF CallFits
<1>3. \A i \in 1 .. Len(others) : CallFits(q, others, files, i)
  BY <1>2
<1>. QED
  BY <1>3 DEF StackFits

\* A call for a file that is being expanded: the file is reached from itself.
LEMMA CalledTwice ==
    ASSUME NEW q, NEW files, NEW calls, StackFits(q, calls, files), q.main \in File,
           NEW i \in 1 .. Len(calls), calls[i].file \in InputsOf(q, calls[Len(calls)].file)
    PROVE  ~IsSound(q, q.main)
<1> DEFINE n == Len(calls)
           f == calls[i].file
           top == calls[n].file
<1>1. /\ calls \in Seq(Call) /\ n \in Nat /\ n >= 1
      /\ \A k \in 1 .. n : CallFits(q, calls, files, k) /\ calls[k].file \in File
  BY FilesOfCalls DEF StackFits
<1>2. calls[1].file = q.main /\ 1 \in 1 .. i
  BY <1>1 DEF CallFits
<1>3. f \in Reach(q, q.main)
  BY <1>1, <1>2 DEF CallFits
<1>4. \E g \in InputsOf(q, f) : f \in Reach(q, g)
  <2>1. CASE i = n
    BY <1>1, <2>1, ReachClosed
  <2>2. CASE i # n
    <3> DEFINE g == calls[i + 1].file
    <3>1. i + 1 \in 1 .. n /\ n \in 1 .. n
      BY <1>1, <2>2
    <3>2. g \in InputsOf(q, f) /\ g \in File
      BY <1>1, <2>2, <3>1 DEF CallFits
    <3>3. top \in Reach(q, g)
      BY <1>1, <3>1 DEF CallFits
    <3>4. f \in Reach(q, g)
      BY <1>1, <3>2, <3>3, ReachClosed
    <3>. QED
      BY <3>2, <3>4
  <2>. QED
    BY <2>1, <2>2
<1>. QED
  BY <1>3, <1>4 DEF IsSound

-----------------------------------------------------------------------------
(* The steps                                                               *)

\* What a source of LaTeX is.
LEMMA ProjectOfSource ==
    ASSUME source \in Sources, source.kind = "latex"
    PROVE  /\ p.main \in File
           /\ \A f \in File : Directives(p, f) \in Seq(FileLine) /\ Len(Directives(p, f)) \in Nat
           /\ \A f \in File : \A k \in 1 .. Len(Directives(p, f)) :
                Directives(p, f)[k].kind = "input" =>
                  /\ Resolve(p, f, Directives(p, f)[k].arg) \in InputsOf(p, f)
                  /\ Resolve(p, f, Directives(p, f)[k].arg) \in Targets
<1>1. IsProject(p)
  BY SourcesAssumption DEF p
<1>2. \A f \in File : Directives(p, f) \in Seq(FileLine) /\ Len(Directives(p, f)) \in Nat
  BY <1>1 DEF IsProject
<1>3. ASSUME NEW f \in File, NEW k \in 1 .. Len(Directives(p, f)),
             Directives(p, f)[k].kind = "input"
      PROVE  /\ Resolve(p, f, Directives(p, f)[k].arg) \in InputsOf(p, f)
             /\ Resolve(p, f, Directives(p, f)[k].arg) \in Targets
  <2>1. Directives(p, f)[k] \in ToSet(Directives(p, f))
    BY <1>2 DEF ToSet
  <2>2. Directives(p, f)[k].arg \in Name
    BY <1>1, <1>3, <2>1 DEF IsProject
  <2>. QED
    BY <1>1, <1>3, <2>1, <2>2 DEF InputsOf, Resolve, IsProject
<1>. QED
  BY <1>1, <1>2, <1>3 DEF IsProject

\* A sequence without repetitions, and one more element.
LEMMA AppendFresh ==
    ASSUME NEW S, NEW s \in Seq(S), IsInjective(s), NEW x \in S, x \notin ToSet(s)
    PROVE  /\ Append(s, x) \in Seq(S) /\ IsInjective(Append(s, x))
           /\ ToSet(Append(s, x)) = ToSet(s) \cup {x}
<1> DEFINE more == Append(s, x)
<1>1. /\ more \in Seq(S) /\ Len(s) \in Nat /\ DOMAIN s = 1 .. Len(s)
      /\ DOMAIN more = 1 .. Len(s) + 1
      /\ \A i \in 1 .. Len(s) : more[i] = s[i]
      /\ more[Len(s) + 1] = x
  BY AppendProperties
<1> HIDE DEF more
<1>2. \A i \in DOMAIN more : i \in DOMAIN s \/ i = Len(s) + 1
  BY <1>1
<1>3. \A i \in DOMAIN s : s[i] # x
  BY DEF ToSet
<1>4. IsInjective(more)
  BY <1>1, <1>2, <1>3 DEF IsInjective
<1>5. ToSet(more) = ToSet(s) \cup {x}
  <2>1. DOMAIN s \subseteq DOMAIN more /\ Len(s) + 1 \in DOMAIN more
    BY <1>1
  <2>. QED
    BY <1>1, <1>2, <2>1 DEF ToSet
<1>. QED
  BY <1>1, <1>4, <1>5 DEF more

\* A call begins: for a file that is being expanded or cannot be read the
\* project is unsound, and else one more file has been read.
LEMMA VisitKeepsIInv ==
    ASSUME IInv, source.kind = "latex", pc = "open", source' = source,
           NEW f \in File, NEW callers \in Seq(Call), Visit(f, callers),
           Len(callers) = Len(stack), \A j \in 1 .. Len(stack) : callers[j].file = stack[j].file,
           Len(stack) = 0 => f = p.main,
           Len(stack) > 0 => f \in InputsOf(p, stack[Len(stack)].file),
           \A more : ToSet(sourceFiles) \subseteq more =>
             \A i \in 1 .. Len(stack) :
               CallFits(p, Append(callers, [file |-> f, line |-> 1]), more, i)
    PROVE  IInv'
<1> DEFINE files == ToSet(sourceFiles)
           new == [file |-> f, line |-> 1]
           others == Append(callers, new)
<1>1. /\ StackFits(p, stack, files) /\ stack \in Seq(Call) /\ Len(stack) \in Nat
      /\ error = "none" /\ sourceFiles \in Seq(File) /\ IsInjective(sourceFiles)
      /\ files \subseteq Reach(p, p.main) /\ p' = p /\ p.main \in File
  BY ProjectOfSource DEF IInv, Traversal, TypeOK, StackFits, p
<1>2. f \in Reach(p, p.main)
  <2>1. CASE Len(stack) = 0
    BY <1>1, <2>1, ReachClosed
  <2>2. CASE Len(stack) > 0
    <3>1. /\ 1 \in 1 .. Len(stack) /\ Len(stack) \in 1 .. Len(stack)
          /\ \A i \in 1 .. Len(stack) : CallFits(p, stack, files, i)
      BY <1>1, <2>2 DEF StackFits
    <3>2. stack[1].file = p.main /\ stack[Len(stack)].file \in Reach(p, stack[1].file)
      BY <3>1 DEF CallFits
    <3>. QED
      BY <1>1, <2>2, <3>2, ReachClosed
  <2>. QED
    BY <1>1, <2>1, <2>2
<1>3. CASE pc' = "failed" /\ error' # "none" /\ UNCHANGED <<stack, sourceFiles>> /\ ~IsSound(p, p.main)
  BY <1>1, <1>3 DEF IInv, TypeOK, Traversal
<1>4. CASE \E i \in 1 .. Len(callers) : callers[i].file = f
  <2>1. PICK i \in 1 .. Len(stack) : stack[i].file = f
    BY <1>4
  <2>2. stack[i].file \in InputsOf(p, stack[Len(stack)].file)
    BY <1>1, <2>1
  <2> HIDE DEF files
  <2>3. ~IsSound(p, p.main)
    BY <1>1, <2>2, CalledTwice
  <2>. QED
    BY <1>3, <1>4, <2>3 DEF Visit, Fail
<1>5. CASE f \notin p.utf8
  <2>1. ~IsSound(p, p.main)
    BY <1>2, <1>5 DEF IsSound
  <2>. QED
    BY <1>3, <1>5, <2>1 DEF Visit, Fail
<1>6. CASE f \in p.utf8 /\ ~\E i \in 1 .. Len(callers) : callers[i].file = f
  <2>1. /\ stack' = others /\ pc' = pc /\ error' = error
        /\ sourceFiles' = IF f \in files THEN sourceFiles ELSE Append(sourceFiles, f)
    BY <1>6 DEF Visit
  <2>2. /\ sourceFiles' \in Seq(File) /\ IsInjective(sourceFiles')
        /\ ToSet(sourceFiles') = files \cup {f}
    <3>1. CASE f \in files
      BY <1>1, <2>1, <3>1
    <3>2. CASE f \notin files
      BY <1>1, <2>1, <3>2, AppendFresh
    <3>. QED
      BY <3>1, <3>2
  <2>3. new \in Call /\ new.file = f
    BY DEF Call
  <2> HIDE DEF new
  <2>4. /\ others \in Seq(Call) /\ Len(others) = Len(stack) + 1
        /\ \A j \in 1 .. Len(stack) : others[j].file = stack[j].file
        /\ others[Len(stack) + 1] = new
    BY <1>1, <2>3
  <2>5. CallFits(p, others, files \cup {f}, Len(stack) + 1)
    BY <1>1, <1>6, <2>4, NewCallFits, ProjectOfSource DEF new, IInv
  <2>6. \A i \in 1 .. Len(stack) : CallFits(p, others, files \cup {f}, i)
    BY DEF new
  <2>7. StackFits(p, others, files \cup {f})
    <3> HIDE DEF others, files
    <3>1. \A i \in 1 .. Len(others) : i \in 1 .. Len(stack) \/ i = Len(stack) + 1
      BY <1>1, <2>4
    <3>. QED
      BY <2>4, <2>5, <2>6, <3>1 DEF StackFits
  <2>8. Traversal'
    BY <1>1, <1>2, <2>1, <2>2, <2>7 DEF Traversal
  <2>9. TypeOK'
    <3>1. \A i \in 1 .. Len(others) : others[i].file \in File
      BY <2>4, FilesOfCalls
    <3>. QED
      BY <1>1, <2>1, <2>2, <3>1 DEF TypeOK, IInv
  <2>. QED
    BY <2>8, <2>9 DEF IInv
<1>. QED
  BY <1>4, <1>5, <1>6

\* The first call.
LEMMA OpenKeepsIInv ==
    ASSUME IInv, OpenLatex
    PROVE  IInv'
<1>1. /\ source.kind = "latex" /\ pc = "open" /\ source' = source /\ stack = <<>>
      /\ Visit(p.main, <<>>) /\ Len(stack) = 0 /\ p.main \in File /\ <<>> \in Seq(Call)
      /\ Len(<<>>) = 0
  BY ProjectOfSource DEF OpenLatex, IInv
<1>2. PICK callers : callers = <<>>
  OBVIOUS
<1>3. /\ callers \in Seq(Call) /\ Visit(p.main, callers) /\ Len(callers) = Len(stack)
      /\ ~(Len(stack) > 0) /\ \A i \in 1 .. Len(stack) : FALSE
  BY <1>1, <1>2
<1>. QED
  BY <1>1, <1>3, VisitKeepsIInv

\* The call on top of the stack, at one of its lines.
LEMMA AtTheTop ==
    ASSUME IInv, Expanding
    PROVE  /\ source.kind = "latex" /\ pc = "open" /\ error = "none"
           /\ StackFits(p, stack, ToSet(sourceFiles)) /\ stack \in Seq(Call)
           /\ Len(stack) \in Nat \ {0} /\ Top = stack[Len(stack)]
           /\ Top.file \in File /\ Top.line \in Nat \ {0}
           /\ Here \in Seq(FileLine) /\ Len(Here) \in Nat
           /\ Here = Directives(p, Top.file) /\ Top.file \in Reach(p, p.main)
<1>1. source.kind = "latex" /\ pc = "open" /\ error = "none" /\ stack # <<>>
  BY DEF IInv, Expanding
<1>2. StackFits(p, stack, ToSet(sourceFiles)) /\ stack \in Seq(Call)
  BY <1>1 DEF IInv, Traversal, StackFits
<1>3. Len(stack) \in Nat \ {0} /\ Top = stack[Len(stack)]
  BY <1>1, <1>2, AdvancedIs
<1>4. Top.file \in File /\ Top.line \in Nat \ {0}
  BY <1>2, <1>3, FilesOfCalls
<1>5. CallFits(p, stack, ToSet(sourceFiles), 1) /\ CallFits(p, stack, ToSet(sourceFiles), Len(stack))
  BY <1>2, <1>3 DEF StackFits
<1>6. Top.file \in Reach(p, p.main)
  BY <1>3, <1>5 DEF CallFits
<1>7. Here \in Seq(FileLine) /\ Len(Here) \in Nat
  BY <1>1, <1>4, ProjectOfSource DEF IInv, Here
<1>. QED
  BY <1>1, <1>2, <1>3, <1>4, <1>6, <1>7 DEF Here

\* A line that is kept.
LEMMA KeepKeepsIInv ==
    ASSUME IInv, Keep
    PROVE  IInv'
<1>1. /\ Expanding /\ Top.line <= Len(Here) /\ Here[Top.line].kind # "input"
      /\ stack' = Advanced /\ UNCHANGED <<source, pc, error, sourceFiles>>
  BY DEF Keep
<1>2. /\ Advanced \in Seq(Call) /\ Len(Advanced) = Len(stack)
      /\ \A i \in 1 .. Len(stack) - 1 : Advanced[i] = stack[i]
      /\ Advanced[Len(stack)].file = Top.file
      /\ Advanced[Len(stack)].line = Top.line + 1
  BY <1>1, AtTheTop, AdvancedIs DEF Expanding
<1>3. \A i \in 1 .. Len(stack) : CallFits(p, Advanced, ToSet(sourceFiles), i)
  <2>1. Len(stack) \in Nat \ {0} /\ Top = stack[Len(stack)] /\ Len(Here) \in Nat
        /\ Here = Directives(p, Top.file) /\ StackFits(p, stack, ToSet(sourceFiles))
    BY <1>1, AtTheTop
  <2> HIDE DEF Advanced
  <2>. QED
    BY <1>1, <1>2, <2>1, PassLine
<1>4. StackFits(p, Advanced, ToSet(sourceFiles)) /\ p' = p
  BY <1>1, <1>2, <1>3 DEF StackFits, p
<1>5. Traversal'
  BY <1>1, <1>4, AtTheTop DEF Traversal, IInv
<1>6. TypeOK'
  <2>1. \A i \in 1 .. Len(Advanced) : Advanced[i].file \in File
    BY <1>2, FilesOfCalls
  <2>. QED
    BY <1>1, <2>1 DEF TypeOK, IInv
<1>. QED
  BY <1>1, <1>5, <1>6, AtTheTop DEF IInv

\* An \input: its file is called, or cannot be found.
LEMMA IncludeKeepsIInv ==
    ASSUME IInv, Include
    PROVE  IInv'
<1> DEFINE child == Resolve(p, Top.file, Here[Top.line].arg)
           n == Len(stack)
<1>1. /\ Expanding /\ Top.line <= Len(Here) /\ Here[Top.line].kind = "input"
      /\ source' = source
      /\ IF child \in File THEN Visit(child, Advanced)
         ELSE Fail(ErrorOf(child)) /\ UNCHANGED <<stack, sourceFiles>>
  BY DEF Include
<1>2. /\ source.kind = "latex" /\ pc = "open" /\ error = "none" /\ n \in Nat \ {0}
      /\ Top = stack[n] /\ Top.file \in File /\ Top.line \in 1 .. Len(Here)
      /\ Len(Here) \in Nat /\ Here = Directives(p, Top.file) /\ Top.file \in Reach(p, p.main)
      /\ StackFits(p, stack, ToSet(sourceFiles)) /\ stack \in Seq(Call)
  BY <1>1, AtTheTop
<1>3. child \in InputsOf(p, Top.file) /\ child \in Targets /\ p.main \in File
  BY <1>1, <1>2, ProjectOfSource DEF IInv
<1>4. CASE child \notin File
  <2>1. ~IsSound(p, p.main)
    BY <1>2, <1>3, <1>4 DEF IsSound
  <2>2. ErrorOf(child) # "none"
    BY <1>3, <1>4 DEF ErrorOf, Targets, NoFile, Outside, Directory
  <2>3. pc' = "failed" /\ error' # "none" /\ UNCHANGED <<stack, sourceFiles>> /\ p' = p
    BY <1>1, <1>4, <2>2 DEF Fail, p
  <2>. QED
    BY <1>1, <1>2, <2>1, <2>3 DEF IInv, TypeOK, Traversal
<1>5. CASE child \in File
  <2> DEFINE new == [file |-> child, line |-> 1]
             others == Append(Advanced, new)
  <2> HIDE DEF child
  <2>1. /\ Advanced \in Seq(Call) /\ Len(Advanced) = n
        /\ \A i \in 1 .. n - 1 : Advanced[i] = stack[i]
        /\ Advanced[n].file = Top.file /\ Advanced[n].line = Top.line + 1
    BY <1>1, <1>2, AdvancedIs DEF Expanding
  <2>2. \A j \in 1 .. n : Advanced[j].file = stack[j].file
    BY <1>2, <2>1
  <2>3. new \in Call /\ new.file = child
    BY <1>5 DEF Call
  <2> HIDE DEF new, n, Advanced
  <2>4. /\ others \in Seq(Call) /\ Len(others) = n + 1
        /\ \A j \in 1 .. n : others[j] = Advanced[j]
        /\ others[n + 1] = new
    BY <1>2, <2>1, <2>3, AppendProperties
  <2> HIDE DEF others
  <2>5. ASSUME NEW more, ToSet(sourceFiles) \subseteq more
        PROVE  \A i \in 1 .. n : CallFits(p, others, more, i)
    <3>1. \A i \in 1 .. n - 1 : others[i] = stack[i]
      BY <1>2, <2>1, <2>4
    <3>2. others[n].file = stack[n].file /\ others[n].line = stack[n].line + 1
      BY <1>2, <2>1, <2>4
    <3>3. others[n + 1].file = child /\ Len(others) # n /\ Len(others) >= n
      BY <1>2, <2>3, <2>4
    <3>4. child = Resolve(p, stack[n].file, Directives(p, stack[n].file)[stack[n].line].arg)
      BY <1>2 DEF child
    <3>. QED
      BY <1>2, <1>3, <2>4, <2>5, <3>1, <3>2, <3>3, <3>4, PassLine DEF n
  <2>6. Visit(child, Advanced)
    BY <1>1, <1>5 DEF child
  <2>. QED
    BY <1>1, <1>2, <1>3, <1>5, <2>1, <2>2, <2>5, <2>6, VisitKeepsIInv DEF n, others, new
<1>. QED
  BY <1>4, <1>5

\* The end of a file: all it reaches has been read.
LEMMA ReturnKeepsIInv ==
    ASSUME IInv, Return
    PROVE  IInv'
<1> DEFINE n == Len(stack)
           files == ToSet(sourceFiles)
<1>1. /\ Expanding /\ Top.line > Len(Here) /\ stack' = Front(stack)
      /\ pc' = IF n = 1 THEN "convert" ELSE pc
      /\ UNCHANGED <<source, error, sourceFiles>> /\ p' = p
  BY DEF Return, p
<1>2. /\ source.kind = "latex" /\ pc = "open" /\ error = "none" /\ n \in Nat \ {0}
      /\ Top = stack[n] /\ Here = Directives(p, Top.file) /\ Here \in Seq(FileLine)
      /\ StackFits(p, stack, files) /\ stack \in Seq(Call)
  BY <1>1, AtTheTop
<1>3. Read(p, files, stack[n].file)
  BY <1>1, <1>2, FinishedCall
<1>4. /\ Front(stack) \in Seq(Call) /\ Len(Front(stack)) = n - 1
      /\ \A j \in 1 .. n - 1 : Front(stack)[j] = stack[j]
  BY <1>2, FrontIs
<1>5. StackFits(p, Front(stack), files)
  BY <1>2, <1>3, <1>4, CallsBelowFit
<1>6. n = 1 => Front(stack) = <<>> /\ stack[n].file = p.main
  <2>1. CallFits(p, stack, files, n)
    BY <1>2 DEF StackFits
  <2>. QED
    BY <1>2, <1>4, <2>1 DEF CallFits
<1>7. Traversal'
  <2>1. IsInjective(sourceFiles) /\ files \subseteq Reach(p, p.main)
    BY <1>2 DEF IInv, Traversal
  <2>2. CASE n = 1
    BY <1>1, <1>3, <1>6, <2>1, <2>2 DEF Traversal
  <2>3. CASE n # 1
    BY <1>1, <1>2, <1>5, <2>1, <2>3 DEF Traversal
  <2>. QED
    BY <2>2, <2>3
<1>8. TypeOK'
  <2>1. \A i \in 1 .. Len(Front(stack)) : Front(stack)[i].file \in File
    BY <1>4, FilesOfCalls
  <2>. QED
    BY <1>1, <1>2, <2>1 DEF TypeOK, IInv
<1>. QED
  BY <1>1, <1>2, <1>7, <1>8 DEF IInv

\* What comes after the expansion, or without one.
LEMMA RestKeepsIInv ==
    ASSUME IInv, ConvertLatex \/ ExtractPdf \/ PdfHeadings \/ DetectSections \/ ChunkNext
                   \/ FindForms \/ PlanBatches \/ UNCHANGED vars
    PROVE  IInv'
<1>1. CASE UNCHANGED <<source, stack, sourceFiles>> /\ UNCHANGED error
           /\ pc \notin {"open", "failed"}
           /\ pc' \in {"detect", "chunk", "plan", "done"}
  BY <1>1 DEF IInv, TypeOK, Traversal, p
<1>2. CASE ExtractPdf
  BY <1>2 DEF ExtractPdf, IInv, TypeOK, Fail, expansion, p
<1>3. CASE UNCHANGED vars
  BY <1>3 DEF IInv, TypeOK, Traversal, vars, p
<1>4. CASE ConvertLatex \/ PdfHeadings \/ DetectSections \/ ChunkNext \/ FindForms \/ PlanBatches
  BY <1>1, <1>4
  DEF ConvertLatex, PdfHeadings, DetectSections, ChunkNext, FindForms, PlanBatches, expansion
<1>. QED
  BY <1>2, <1>3, <1>4

LEMMA InitIInv == Init => IInv
<1> SUFFICES ASSUME Init PROVE IInv
  OBVIOUS
<1>1. /\ source \in Sources /\ pc = "open" /\ error = "none" /\ stack = <<>> /\ sourceFiles = <<>>
      /\ Len(<<>>) = 0 /\ ToSet(<<>>) = {} /\ IsInjective(<<>>)
  BY DEF Init, ToSet, IsInjective
<1>2. TypeOK
  BY <1>1 DEF TypeOK
<1>3. source.kind = "latex" => Traversal
  BY <1>1 DEF Traversal, StackFits
<1>. QED
  BY <1>1, <1>2, <1>3 DEF IInv

LEMMA NextIInv == IInv /\ [Next]_vars => IInv'
<1> SUFFICES ASSUME IInv, [Next]_vars PROVE IInv'
  OBVIOUS
<1>1. CASE OpenLatex
  BY <1>1, OpenKeepsIInv
<1>2. CASE Keep
  BY <1>2, KeepKeepsIInv
<1>3. CASE Include
  BY <1>3, IncludeKeepsIInv
<1>4. CASE Return
  BY <1>4, ReturnKeepsIInv
<1>5. CASE \/ ConvertLatex \/ ExtractPdf \/ PdfHeadings \/ DetectSections \/ ChunkNext
           \/ FindForms \/ PlanBatches \/ UNCHANGED vars
  BY <1>5, RestKeepsIInv
<1>. QED
  BY <1>1, <1>2, <1>3, <1>4, <1>5 DEF Next, Step, Stopped

-----------------------------------------------------------------------------
(* The expansion is sound                                                  *)

\* The invariant of the traversal: every call on the stack of _expand_file has
\* read what the \input commands it has passed lead to (extract/latex.py).
THEOREM ExpansionKeepsItsCalls == Spec => []IInv
<1>1. Init => IInv
  BY InitIInv
<1>2. IInv /\ [Next]_vars => IInv'
  BY NextIInv
<1>. QED
  BY <1>1, <1>2, PTL DEF Spec

\* Whatever the files include, a project is extracted only if all its \input
\* graph reaches can be read and nothing in it is reached from itself, and is
\* refused only if not; what is read is what it reaches, each file listed once.
THEOREM ExpansionIsSound == Spec => []TraversalIsSound
<1>1. IInv => TraversalIsSound
  <2> SUFFICES ASSUME IInv PROVE TraversalIsSound
    OBVIOUS
  <2>1. CASE source.kind = "latex"
    <3>1. Traversal
      BY <2>1 DEF IInv
    <3>2. pc = "done" => IsSound(p, p.main) /\ Reach(p, p.main) \subseteq ToSet(sourceFiles)
      BY <3>1 DEF Traversal, Read
    <3>. QED
      BY <3>1, <3>2 DEF IInv, Traversal, TraversalIsSound, ExtractedIffSound
  <2>2. CASE source.kind # "latex"
    BY <2>2 DEF IInv, TraversalIsSound, ExtractedIffSound
  <2>. QED
    BY <2>1, <2>2
<1>. QED
  BY <1>1, ExpansionKeepsItsCalls, PTL

-----------------------------------------------------------------------------
(* Counting up                                                             *)

\* A set of numbers that is not empty has a least one.
LEMMA LeastOfNat ==
    ASSUME NEW T \in SUBSET Nat, T # {}
    PROVE  \E m \in T : \A k \in T : m <= k
<1> DEFINE R == OpToRel(<, Nat)
<1>1. R = {ss \in Nat \X Nat : ss[1] < ss[2]}
  BY DEF OpToRel
<1>2. IsWellFoundedOn(R, Nat)
  BY NatLessThanWellFounded
<1> HIDE DEF R
<1>3. PICK m \in T : \A k \in T : ~ (<<k, m>> \in R)
  BY <1>2, WFMin
<1>4. ASSUME NEW k \in T PROVE m <= k
  <2>1. <<k, m>> \in Nat \X Nat /\ <<k, m>>[1] = k /\ <<k, m>>[2] = m
    OBVIOUS
  <2>2. ~(<<k, m>>[1] < <<k, m>>[2])
    BY <1>1, <1>3, <2>1
  <2>. QED
    BY <2>1, <2>2
<1>. QED
  BY <1>4

\* What holds of 0, and of n + 1 if of n, holds of all.
LEMMA Upwards ==
    ASSUME NEW N \in Nat, NEW T, 0 \in T, \A n \in 0 .. N - 1 : n \in T => n + 1 \in T
    PROVE  \A n \in 0 .. N : n \in T
<1> DEFINE Rest == {n \in 0 .. N : n \notin T}
<1>1. Rest \in SUBSET Nat
  OBVIOUS
<1> SUFFICES ASSUME Rest # {} PROVE FALSE
  OBVIOUS
<1>2. PICK m \in Rest : \A k \in Rest : m <= k
  <2> HIDE DEF Rest
  <2>. QED
    BY <1>1, LeastOfNat
<1>3. m - 1 \in 0 .. N - 1 /\ m - 1 \notin Rest
  BY <1>2
<1>4. m - 1 + 1 \in T
  BY <1>3
<1>. QED
  BY <1>2, <1>4

\* steps[k] leads from S[k - 1] to S[k], for each k up to N, beginning with a;
\* g holds what comes of it.
Leads(steps, N, S, a) ==
    /\ N \in Nat /\ a \in S[0]
    /\ \A k \in 1 .. N : \A x \in S[k - 1] : steps[k][x] \in S[k]

Follows(g, steps, N, S, a) ==
    /\ g \in [0 .. N -> UNION {S[k] : k \in 0 .. N}]
    /\ g[0] = a /\ \A k \in 1 .. N : g[k] = steps[k][g[k - 1]]
    /\ \A k \in 0 .. N : g[k] \in S[k]

\* A function may be defined by what it is at 0 and by what follows what.
LEMMA Recursion ==
    ASSUME NEW steps, NEW N, NEW S, NEW a, Leads(steps, N, S, a)
    PROVE  \E g : Follows(g, steps, N, S, a)
<1> USE DEF Leads
<1> DEFINE Fits(g, n) == /\ \A k \in 0 .. n : g[k] \in S[k]
                         /\ \A k \in 0 .. n : g[k] = IF k = 0 THEN a ELSE steps[k][g[k - 1]]
           T == {n \in 0 .. N : \E g : Fits(g, n)}
<1>1. 0 \in T
  <2> DEFINE h == [k \in 0 .. 0 |-> a]
  <2>1. Fits(h, 0)
    OBVIOUS
  <2> HIDE DEF h, Fits
  <2>. QED
    BY <2>1
<1>2. ASSUME NEW n \in 0 .. N - 1, n \in T
      PROVE  n + 1 \in T
  <2>1. PICK g : Fits(g, n)
    BY <1>2
  <2> DEFINE h == [k \in 0 .. n + 1 |-> IF k = n + 1 THEN steps[n + 1][g[n]] ELSE g[k]]
  <2>2. /\ \A k \in 0 .. n : h[k] = g[k]
        /\ h[n + 1] = steps[n + 1][g[n]] /\ steps[n + 1][g[n]] \in S[n + 1]
    BY <2>1
  <2>3. \A k \in 0 .. n + 1 : k \in 0 .. n \/ k = n + 1
    OBVIOUS
  <2>4. \A k \in 1 .. n + 1 : k - 1 \in 0 .. n
    OBVIOUS
  <2> HIDE DEF h
  <2>5. Fits(h, n + 1)
    BY <2>1, <2>2, <2>3, <2>4
  <2> HIDE DEF Fits
  <2>. QED
    BY <2>5
<1> HIDE DEF Fits, T
<1>3. N \in T
  BY <1>1, <1>2, Upwards
<1>4. PICK g : Fits(g, N)
  BY <1>3 DEF T
<1> DEFINE f == [k \in 0 .. N |-> g[k]]
<1>5. \A k \in 0 .. N : f[k] = g[k]
  OBVIOUS
<1>6. \A k \in 1 .. N : k \in 0 .. N /\ k - 1 \in 0 .. N
  OBVIOUS
<1>7. f \in [0 .. N -> UNION {S[k] : k \in 0 .. N}]
  BY <1>4 DEF Fits
<1> HIDE DEF f
<1>8. f[0] = a /\ \A k \in 1 .. N : f[k] = steps[k][f[k - 1]]
  BY <1>4, <1>5, <1>6 DEF Fits
<1>9. \A k \in 0 .. N : f[k] \in S[k]
  BY <1>4, <1>5 DEF Fits
<1>. QED
  BY <1>7, <1>8, <1>9 DEF Follows

LEMMA MinIs ==
    ASSUME NEW T \in SUBSET Nat, T # {}
    PROVE  Min(T) \in T /\ \A k \in T : Min(T) <= k
BY LeastOfNat DEF Min

LEMMA MaxIs ==
    ASSUME NEW N \in Nat, NEW T \in SUBSET (0 .. N), T # {}
    PROVE  Max(T) \in T /\ \A k \in T : k <= Max(T)
<1> DEFINE U == {n \in 0 .. N : N - n \in T}
<1>1. U \in SUBSET Nat
  OBVIOUS
<1>2. U # {}
  <2>1. PICK t \in T : t \in 0 .. N
    OBVIOUS
  <2>2. N - t \in U
    BY <2>1
  <2>. QED
    BY <2>2
<1>3. PICK u \in U : \A k \in U : u <= k
  <2> HIDE DEF U
  <2>. QED
    BY <1>1, <1>2, LeastOfNat
<1>4. ASSUME NEW k \in T PROVE k <= N - u
  <2>1. k \in 0 .. N /\ N - k \in U
    OBVIOUS
  <2>2. u <= N - k /\ u \in 0 .. N
    BY <1>3, <2>1
  <2>. QED
    BY <2>1, <2>2
<1>5. N - u \in T /\ \A k \in T : N - u >= k
  BY <1>3, <1>4
<1>6. \E x \in T : \A y \in T : x >= y
  BY <1>5
<1>. QED
  BY <1>6 DEF Max

-----------------------------------------------------------------------------
(* The length of a text                                                    *)

\* Each piece has a length.
Legible(text) == Len(text) \in Nat /\ \A i \in 1 .. Len(text) : text[i].word \in DOMAIN Bytes

LEMMA BytesAddUp ==
    ASSUME NEW d, Legible(d.text)
    PROVE  /\ BytesBefore(d)[0] = 0
           /\ \A k \in 1 .. Length(d) :
                BytesBefore(d)[k] = BytesBefore(d)[k - 1] + Bytes[Word(d, k)]
           /\ \A k \in 0 .. Length(d) : BytesBefore(d)[k] \in Nat
<1> DEFINE N == Length(d)
           none == 0
           S == [k \in 0 .. N |-> Nat]
           steps == [k \in 1 .. N |-> [x \in Nat |-> x + Bytes[Word(d, k)]]]
<1>1. N \in Nat /\ \A k \in 1 .. N : Bytes[Word(d, k)] \in Nat
  BY BudgetAssumption DEF Legible, Length, Word
<1>2. Leads(steps, N, S, none)
  BY <1>1 DEF Leads
<1>3. /\ \A k \in 0 .. N : S[k] = Nat
      /\ \A k \in 1 .. N : \A x \in Nat : steps[k][x] = x + Bytes[Word(d, k)]
      /\ \A k \in 1 .. N : k - 1 \in 0 .. N
  BY <1>1
<1> HIDE DEF N, none, S, steps
<1>4. PICK g : Follows(g, steps, N, S, none)
  BY <1>2, Recursion
<1>5. /\ g \in [0 .. N -> UNION {S[k] : k \in 0 .. N}] /\ g[0] = none
      /\ \A k \in 1 .. N : g[k] = g[k - 1] + Bytes[Word(d, k)]
  BY <1>3, <1>4 DEF Follows
<1>6. g = [k \in 0 .. N |-> IF k = 0 THEN none ELSE g[k - 1] + Bytes[Word(d, k)]]
  BY <1>5
<1>8. g = [k \in 0 .. Length(d) |-> IF k = 0 THEN 0 ELSE g[k - 1] + Bytes[Word(d, k)]]
  BY <1>6 DEF N, none
<1> DEFINE B == BytesBefore(d)
<1>9. B = [k \in 0 .. Length(d) |-> IF k = 0 THEN 0 ELSE B[k - 1] + Bytes[Word(d, k)]]
  BY <1>8 DEF BytesBefore
<1> HIDE DEF B
<1>10. /\ B[0] = 0
       /\ \A k \in 1 .. Length(d) : B[k] = B[k - 1] + Bytes[Word(d, k)]
  BY <1>1, <1>9 DEF N
<1>11. \A k \in 0 .. Length(d) : B[k] \in Nat
  <2> DEFINE T == {k \in 0 .. Length(d) : B[k] \in Nat}
  <2>1. 0 \in T
    BY <1>1, <1>10 DEF N
  <2>2. ASSUME NEW k \in 0 .. Length(d) - 1, k \in T PROVE k + 1 \in T
    <3>1. k + 1 \in 1 .. Length(d) /\ k + 1 - 1 = k
      BY <1>1 DEF N
    <3>2. Bytes[Word(d, k + 1)] \in Nat /\ B[k] \in Nat
      BY <1>1, <2>2, <3>1 DEF N
    <3>3. B[k + 1] = B[k] + Bytes[Word(d, k + 1)]
      BY <1>10, <3>1
    <3>. QED
      BY <3>1, <3>2, <3>3
  <2>3. Length(d) \in Nat
    BY <1>1 DEF N
  <2> HIDE DEF T
  <2>4. \A k \in 0 .. Length(d) : k \in T
    BY <2>1, <2>2, <2>3, Upwards
  <2>. QED
    BY <2>4 DEF T
<1>. QED
  BY <1>10, <1>11 DEF B

LEMMA BytesOfPiece ==
    ASSUME NEW d, Legible(d.text), NEW k \in 1 .. Length(d)
    PROVE  /\ Bytes[Word(d, k)] \in 1 .. 4 * (Budget - OverlapTokens)
           /\ Budget \in Nat /\ OverlapTokens \in Nat /\ OverlapTokens <= Budget
<1>1. Bytes[Word(d, k)] \in 1 .. 4 * (Budget - OverlapTokens)
  BY BudgetAssumption DEF Legible, Length, Word
<1>2. Budget \in Nat /\ OverlapTokens = Budget \div 10
  BY BudgetAssumption
<1>3. Budget \div 10 \in Nat /\ Budget \div 10 <= Budget
  BY <1>2
<1>. QED
  BY <1>1, <1>2, <1>3

\* The places of a text: its pieces and the end.
Places(d) == 1 .. Length(d) + 1

\* More text has no fewer bytes.
LEMMA BytesGrow ==
    ASSUME NEW d, Legible(d.text), NEW i \in Places(d), NEW j \in Places(d), i <= j
    PROVE  /\ BytesOf(d, i, j) \in Nat
           /\ \A k \in Places(d) : j <= k => BytesOf(d, i, j) <= BytesOf(d, i, k)
<1> DEFINE B == BytesBefore(d)
           N == Length(d)
           T == {n \in 0 .. N : \A m \in 0 .. n : B[m] <= B[n]}
<1>1. N \in Nat
  BY DEF Legible, Length
<1>2. /\ \A k \in 1 .. N : B[k] = B[k - 1] + Bytes[Word(d, k)]
      /\ \A k \in 0 .. N : B[k] \in Nat
  BY BytesAddUp
<1>3. \A k \in 1 .. N : Bytes[Word(d, k)] \in Nat
  BY BytesOfPiece
<1> HIDE DEF B, N
<1>4. \A n \in 0 .. N : n \in T
  <2>1. 0 \in T
    BY <1>1, <1>2
  <2>2. ASSUME NEW n \in 0 .. N - 1, n \in T PROVE n + 1 \in T
    <3>1. n + 1 \in 1 .. N /\ n + 1 - 1 = n
      BY <1>1
    <3>2. B[n + 1] = B[n] + Bytes[Word(d, n + 1)] /\ Bytes[Word(d, n + 1)] \in Nat
      BY <1>2, <1>3, <3>1
    <3>3. \A m \in 0 .. n : B[m] <= B[n] /\ B[m] \in Nat
      BY <1>1, <1>2, <2>2
    <3>4. B[n] \in Nat /\ B[n + 1] \in Nat
      BY <1>1, <1>2
    <3>5. ASSUME NEW m \in 0 .. n + 1 PROVE B[m] <= B[n + 1]
      <4>1. CASE m = n + 1
        BY <3>4, <4>1
      <4>2. CASE m # n + 1
        BY <3>2, <3>3, <3>4, <4>2
      <4>. QED
        BY <4>1, <4>2
    <3>. QED
      BY <3>1, <3>5
  <2> HIDE DEF T
  <2>. QED
    BY <1>1, <2>1, <2>2, Upwards
<1>5. \A n \in 0 .. N : \A m \in 0 .. n : B[m] <= B[n]
  BY <1>4
<1>6. i - 1 \in 0 .. N /\ j - 1 \in 0 .. N
  BY <1>1 DEF Places, N
<1>7. BytesOf(d, i, j) = B[j - 1] - B[i - 1]
  BY DEF BytesOf, B
<1>8. B[j - 1] \in Nat /\ B[i - 1] \in Nat /\ B[i - 1] <= B[j - 1]
  <2>1. i - 1 \in 0 .. j - 1
    BY <1>1, <1>6 DEF Places
  <2>. QED
    BY <1>2, <1>5, <1>6, <2>1
<1>9. BytesOf(d, i, j) \in Nat
  BY <1>7, <1>8
<1>10. ASSUME NEW k \in Places(d), j <= k PROVE BytesOf(d, i, j) <= BytesOf(d, i, k)
  <2>1. k - 1 \in 0 .. N /\ j - 1 \in 0 .. k - 1
    BY <1>1, <1>6, <1>10 DEF Places, N
  <2>2. B[j - 1] <= B[k - 1] /\ B[k - 1] \in Nat
    BY <1>2, <1>5, <2>1
  <2>3. BytesOf(d, i, k) = B[k - 1] - B[i - 1]
    BY DEF BytesOf, B
  <2>. QED
    BY <1>7, <1>8, <2>2, <2>3
<1>. QED
  BY <1>9, <1>10

\* Nor more tokens.
LEMMA TokensGrow ==
    ASSUME NEW d, Legible(d.text), NEW i \in Places(d), NEW j \in Places(d), i <= j,
           NEW k \in Places(d), j <= k
    PROVE  /\ EstimateTokens(d, i, i) = 0
           /\ EstimateTokens(d, i, j) \in Nat
           /\ EstimateTokens(d, i, j) <= EstimateTokens(d, i, k)
<1>1. /\ BytesOf(d, i, j) \in Nat /\ BytesOf(d, i, k) \in Nat
      /\ BytesOf(d, i, j) <= BytesOf(d, i, k)
  <2>1. i <= k
    BY DEF Places
  <2>. QED
    BY <2>1, BytesGrow
<1>2. BytesOf(d, i, i) = 0
  <2>1. i - 1 \in 0 .. Length(d) /\ Length(d) \in Nat
    BY DEF Legible, Length, Places
  <2>2. BytesBefore(d)[i - 1] \in Nat
    BY <2>1, BytesAddUp
  <2>. QED
    BY <2>2 DEF BytesOf
<1>3. \A a, b \in Nat : a <= b => (a + 3) \div 4 \in Nat /\ (a + 3) \div 4 <= (b + 3) \div 4
  OBVIOUS
<1>4. (0 + 3) \div 4 = 0
  OBVIOUS
<1>. QED
  BY <1>1, <1>2, <1>3, <1>4 DEF EstimateTokens

\* A piece more than an overlap keeps to the budget.
LEMMA PieceFits ==
    ASSUME NEW d, Legible(d.text), NEW i \in Places(d), NEW j \in Places(d), i <= j,
           j <= Length(d), EstimateTokens(d, i, j) <= OverlapTokens
    PROVE  EstimateTokens(d, i, j + 1) <= Budget
<1>1. Length(d) \in Nat /\ j \in 1 .. Length(d) /\ i - 1 \in 0 .. Length(d)
  BY DEF Legible, Length, Places
<1>2. /\ BytesBefore(d)[j] = BytesBefore(d)[j - 1] + Bytes[Word(d, j)]
      /\ BytesBefore(d)[j] \in Nat /\ BytesBefore(d)[j - 1] \in Nat
      /\ BytesBefore(d)[i - 1] \in Nat
  <2>1. j - 1 \in 0 .. Length(d) /\ j \in 0 .. Length(d)
    BY <1>1
  <2>. QED
    BY <1>1, <2>1, BytesAddUp
<1>3. /\ Bytes[Word(d, j)] \in 1 .. 4 * (Budget - OverlapTokens)
      /\ Budget \in Nat /\ OverlapTokens \in Nat /\ OverlapTokens <= Budget
  BY <1>1, BytesOfPiece
<1>4. BytesOf(d, i, j + 1) = BytesOf(d, i, j) + Bytes[Word(d, j)] /\ BytesOf(d, i, j) \in Nat
  <2>2. BytesOf(d, i, j) \in Nat
    BY BytesGrow
  <2>3. BytesOf(d, i, j) = BytesBefore(d)[j - 1] - BytesBefore(d)[i - 1]
    BY DEF BytesOf
  <2>5. \A k : BytesOf(d, i, k) = BytesBefore(d)[k - 1] - BytesBefore(d)[i - 1]
    BY DEF BytesOf
  <2>6. BytesOf(d, i, j + 1) = BytesBefore(d)[j] - BytesBefore(d)[i - 1]
    <3> DEFINE k == j + 1
    <3>1. k - 1 = j
      BY <1>1
    <3> HIDE DEF k
    <3>2. BytesOf(d, i, k) = BytesBefore(d)[j] - BytesBefore(d)[i - 1]
      BY <2>5, <3>1
    <3>. QED
      BY <3>2 DEF k
  <2>4. Bytes[Word(d, j)] \in Nat
    BY <1>3
  <2>. QED
    BY <1>2, <2>2, <2>3, <2>4, <2>6
<1>5. (BytesOf(d, i, j) + 3) \div 4 <= OverlapTokens
  BY DEF EstimateTokens
<1>6. \A a, b, o \in Nat : (a + 3) \div 4 <= o => a <= 4 * o
  OBVIOUS
<1>7. \A a, o \in Nat : a <= 4 * o => (a + 3) \div 4 <= o
  OBVIOUS
<1>8. BytesOf(d, i, j) <= 4 * OverlapTokens
  BY <1>3, <1>4, <1>5, <1>6
<1>9. BytesOf(d, i, j + 1) \in Nat /\ BytesOf(d, i, j + 1) <= 4 * Budget
  BY <1>3, <1>4, <1>8
<1>. QED
  BY <1>3, <1>7, <1>9 DEF EstimateTokens

\* The overlap of a chunk begins in its section, and keeps to its part of the
\* budget.
LEMMA OverlapFits ==
    ASSUME NEW d, Legible(d.text), NEW first \in Places(d), NEW start \in Places(d),
           first <= start
    PROVE  /\ OverlapStart(d, start, first) \in first .. start
           /\ EstimateTokens(d, OverlapStart(d, start, first), start) <= OverlapTokens
<1>1. EstimateTokens(d, start, start) = 0 /\ OverlapTokens \in Nat
  <2>1. OverlapTokens \in Nat
    BY BudgetAssumption
  <2>2. start <= start
    BY DEF Places
  <2>. QED
    BY <2>1, <2>2, TokensGrow
<1> DEFINE T == {m \in first .. start : EstimateTokens(d, m, start) <= OverlapTokens}
<1>2. T \in SUBSET Nat /\ start \in T
  BY <1>1 DEF Places
<1>3. Min(T) \in T
  <2> HIDE DEF T
  <2>. QED
    BY <1>2, MinIs
<1>4. CASE start = first \/ OverlapTokens = 0
  BY <1>1, <1>4 DEF OverlapStart, Places
<1>5. CASE start # first /\ OverlapTokens # 0
  BY <1>3, <1>5 DEF OverlapStart
<1>. QED
  BY <1>4, <1>5

\* A chunk goes beyond its overlap, and keeps to the budget and its section.
LEMMA EndFits ==
    ASSUME NEW d, Legible(d.text), NEW from \in Places(d), NEW start \in Places(d),
           NEW end \in Places(d), from <= start, start < end,
           EstimateTokens(d, from, start) <= OverlapTokens
    PROVE  /\ MaxFittingEnd(d, from, end) \in start + 1 .. end
           /\ EstimateTokens(d, from, MaxFittingEnd(d, from, end)) <= Budget
<1>1. /\ Length(d) \in Nat /\ start <= Length(d) /\ start + 1 \in Places(d)
      /\ from <= Length(d) /\ from + 1 \in Places(d)
  BY DEF Legible, Length, Places
<1>2. EstimateTokens(d, from, start + 1) <= Budget
  BY <1>1, PieceFits
<1>3. EstimateTokens(d, from, from + 1) <= Budget
  <2>1. EstimateTokens(d, from, from) = 0 /\ OverlapTokens \in Nat
    BY TokensGrow, BudgetAssumption DEF Places
  <2>2. EstimateTokens(d, from, from) <= OverlapTokens
    BY <2>1
  <2>. QED
    BY <1>1, <2>2, PieceFits DEF Places
<1> DEFINE T == {from + 1} \cup {e \in from + 1 .. end : EstimateTokens(d, from, e) <= Budget}
<1>4. T \in SUBSET (0 .. end) /\ end \in Nat /\ start + 1 \in T
  BY <1>2 DEF Places
<1>5. Max(T) \in T /\ start + 1 <= Max(T)
  <2> HIDE DEF T
  <2>. QED
    BY <1>4, MaxIs
<1>6. \A e \in T : e <= end /\ e \in Nat /\ EstimateTokens(d, from, e) <= Budget
  BY <1>3, <1>4
<1>7. MaxFittingEnd(d, from, end) = Max(T)
  BY DEF MaxFittingEnd
<1> HIDE DEF T
<1>8. Max(T) <= end /\ Max(T) \in Nat /\ EstimateTokens(d, from, Max(T)) <= Budget
  BY <1>5, <1>6
<1>. QED
  BY <1>5, <1>7, <1>8 DEF Places

\* The cut is made behind the start, at the latest where the budget ends.
LEMMA CutFits ==
    ASSUME NEW d, NEW start \in Places(d), NEW hardEnd \in Nat, start < hardEnd
    PROVE  LastBoundary(d, start, hardEnd) \in start + 1 .. hardEnd
<1> DEFINE Ends(kind) == {e \in start + 1 .. hardEnd : Boundary[Word(d, e - 1)] >= kind}
<1>1. ASSUME NEW kind, Ends(kind) # {}
      PROVE  Max(Ends(kind)) \in start + 1 .. hardEnd
  <2>1. Ends(kind) \in SUBSET (0 .. hardEnd)
    BY DEF Places
  <2>2. Ends(kind) \subseteq start + 1 .. hardEnd
    OBVIOUS
  <2> HIDE DEF Ends
  <2>. QED
    BY <1>1, <2>1, <2>2, MaxIs
<1>2. hardEnd \in start + 1 .. hardEnd
  BY DEF Places
<1> DEFINE Good(kind) == /\ Ends(kind) # {}
                         /\ BytesOf(d, start, Max(Ends(kind)))
                              >= BytesOf(d, start, hardEnd) \div 3
<1>3. LastBoundary(d, start, hardEnd) =
        IF hardEnd > Length(d) THEN hardEnd
        ELSE IF Good(3) THEN Max(Ends(3))
        ELSE IF Good(2) THEN Max(Ends(2))
        ELSE IF Good(1) THEN Max(Ends(1)) ELSE hardEnd
  BY DEF LastBoundary
<1>4. \A kind : Good(kind) => Ends(kind) # {}
  OBVIOUS
<1> HIDE DEF Good, Ends
<1>. QED
  BY <1>1, <1>2, <1>3, <1>4

\* The body of the loop of Chunker.chunk: a chunk has an end behind its new text,
\* within the section, and keeps to the budget, as its overlap does to its part.
LEMMA ChunkFits ==
    ASSUME NEW d, Legible(d.text), NEW s, NEW sequence,
           s.start \in Places(d), s.end \in Places(d),
           NEW start \in s.start .. s.end - 1
    PROVE  LET c == NextChunk(d, s, start, sequence) IN
           /\ c.content = start
           /\ c.start \in s.start .. start /\ c.end \in start + 1 .. s.end
           /\ EstimateTokens(d, c.start, c.end) <= Budget
           /\ EstimateTokens(d, c.start, c.content) <= OverlapTokens
           /\ c.section = s.id /\ c.pages = PageRange(d, c.start, c.end, s.pages)
<1> DEFINE from == OverlapStart(d, start, s.start)
           hardEnd == MaxFittingEnd(d, from, s.end)
           cut == LastBoundary(d, start, hardEnd)
           end == IF cut <= start THEN hardEnd ELSE cut
           c == NextChunk(d, s, start, sequence)
<1>1. /\ c.content = start /\ c.start = from /\ c.end = end /\ c.section = s.id
      /\ c.pages = PageRange(d, c.start, c.end, s.pages)
  BY DEF NextChunk
<1>2. /\ Length(d) \in Nat /\ s.start \in Nat /\ s.end \in Nat /\ start \in Places(d)
      /\ s.start <= start /\ start < s.end
  BY DEF Places, Legible, Length
<1>3. from \in s.start .. start /\ EstimateTokens(d, from, start) <= OverlapTokens
  BY <1>2, OverlapFits
<1> HIDE DEF from
<1>4. from \in Places(d) /\ from <= start
  BY <1>2, <1>3 DEF Places
<1>5. hardEnd \in start + 1 .. s.end /\ EstimateTokens(d, from, hardEnd) <= Budget
  BY <1>2, <1>3, <1>4, EndFits
<1> HIDE DEF hardEnd
<1>6. cut \in start + 1 .. hardEnd
  <2>1. hardEnd \in Nat /\ start < hardEnd
    BY <1>2, <1>5
  <2>. QED
    BY <1>2, <2>1, CutFits
<1> HIDE DEF cut
<1>7. end = cut /\ end \in Places(d) /\ hardEnd \in Places(d) /\ end <= hardEnd /\ from <= end
      /\ end \in start + 1 .. s.end
  BY <1>2, <1>4, <1>5, <1>6 DEF Places
<1> HIDE DEF end
<1>8. EstimateTokens(d, from, end) <= EstimateTokens(d, from, hardEnd)
      /\ EstimateTokens(d, from, end) \in Nat /\ EstimateTokens(d, from, hardEnd) \in Nat
  <2>1. hardEnd <= hardEnd /\ from <= hardEnd
    BY <1>4, <1>7 DEF Places
  <2>. QED
    BY <1>4, <1>7, <2>1, TokensGrow
<1>9. Budget \in Nat
  BY BudgetAssumption
<1>. QED
  BY <1>1, <1>3, <1>5, <1>7, <1>8, <1>9

-----------------------------------------------------------------------------
(* Headings in order                                                       *)

LEMMA InsertIs ==
    ASSUME NEW S, NEW s \in Seq(S), NEW e \in S, NEW i \in 1 .. Len(s) + 1
    PROVE  /\ InsertAt(s, i, e) \in Seq(S) /\ Len(InsertAt(s, i, e)) = Len(s) + 1
           /\ \A j \in 1 .. Len(s) + 1 :
                InsertAt(s, i, e)[j] = IF j < i THEN s[j] ELSE IF j = i THEN e ELSE s[j - 1]
<1> DEFINE n == Len(s)
           a == SubSeq(s, 1, i - 1)
           b == SubSeq(s, i, n)
           one == <<e>>
<1>1. n \in Nat /\ i \in 1 .. n + 1 /\ \A j \in 1 .. n : s[j] \in S
  BY LenProperties, ElementOfSeq
<1>2. /\ a \in Seq(S) /\ Len(a) = i - 1 /\ \A j \in 1 .. i - 1 : a[j] = s[j]
  <2>1. \A j \in 1 .. i - 1 : s[j] \in S
    BY <1>1
  <2>2. /\ a \in Seq(S) /\ Len(a) = IF 1 <= i - 1 THEN i - 1 - 1 + 1 ELSE 0
        /\ \A j \in 1 .. i - 1 - 1 + 1 : a[j] = s[1 + j - 1]
    BY <1>1, <2>1, SubSeqProperties
  <2>. QED
    BY <1>1, <2>2
<1>3. /\ b \in Seq(S) /\ Len(b) = n - i + 1 /\ \A j \in 1 .. n - i + 1 : b[j] = s[i + j - 1]
  <2>1. \A j \in i .. n : s[j] \in S
    BY <1>1
  <2>2. /\ b \in Seq(S) /\ Len(b) = IF i <= n THEN n - i + 1 ELSE 0
        /\ \A j \in 1 .. n - i + 1 : b[j] = s[i + j - 1]
    BY <1>1, <2>1, SubSeqProperties
  <2>. QED
    BY <1>1, <2>2
<1>4. one \in Seq(S) /\ Len(one) = 1 /\ one[1] = e
  OBVIOUS
<1> DEFINE c == a \o one
           whole == c \o b
<1>5. InsertAt(s, i, e) = whole
  BY DEF InsertAt
<1>6. /\ c \in Seq(S) /\ Len(c) = i - 1 + 1
      /\ \A j \in 1 .. i - 1 + 1 : c[j] = IF j <= i - 1 THEN a[j] ELSE one[j - (i - 1)]
  <2> HIDE DEF a, one
  <2>1. /\ c \in Seq(S) /\ Len(c) = Len(a) + Len(one)
        /\ \A j \in 1 .. Len(a) + Len(one) :
             c[j] = IF j <= Len(a) THEN a[j] ELSE one[j - Len(a)]
    BY <1>2, <1>4, ConcatProperties
  <2> HIDE DEF c
  <2>. QED
    BY <1>2, <1>4, <2>1
<1> HIDE DEF n, a, one, c
<1>7. Len(c) = i /\ \A j \in 1 .. i : c[j] = IF j < i THEN s[j] ELSE e
  <2>1. i - 1 + 1 = i
    BY <1>1
  <2>2. ASSUME NEW j \in 1 .. i, j < i PROVE c[j] = s[j]
    <3>1. j <= i - 1 /\ j \in 1 .. i - 1
      BY <1>1, <2>2
    <3>. QED
      BY <1>2, <1>6, <2>1, <3>1
  <2>3. c[i] = e
    <3>1. i - (i - 1) = 1 /\ ~(i <= i - 1) /\ i \in 1 .. i
      BY <1>1
    <3>. QED
      BY <1>4, <1>6, <2>1, <3>1
  <2>. QED
    BY <1>1, <1>6, <2>1, <2>2, <2>3
<1>8. /\ whole \in Seq(S) /\ Len(whole) = n + 1
      /\ \A j \in 1 .. n + 1 : whole[j] = IF j <= i THEN c[j] ELSE b[j - i]
  <2> HIDE DEF b
  <2>1. /\ whole \in Seq(S) /\ Len(whole) = Len(c) + Len(b)
        /\ \A j \in 1 .. Len(c) + Len(b) :
             whole[j] = IF j <= Len(c) THEN c[j] ELSE b[j - Len(c)]
    BY <1>3, <1>6, ConcatProperties
  <2> HIDE DEF whole
  <2>2. i + (n - i + 1) = n + 1
    BY <1>1
  <2>. QED
    BY <1>3, <1>7, <2>1, <2>2
<1> HIDE DEF b, whole
<1>9. \A j \in 1 .. n + 1 :
        whole[j] = IF j < i THEN s[j] ELSE IF j = i THEN e ELSE s[j - 1]
  <2> SUFFICES ASSUME NEW j \in 1 .. n + 1
               PROVE  whole[j] = IF j < i THEN s[j] ELSE IF j = i THEN e ELSE s[j - 1]
    OBVIOUS
  <2>1. CASE j <= i
    <3>1. j \in 1 .. i
      BY <1>1, <2>1
    <3>2. whole[j] = c[j]
      BY <1>8, <2>1
    <3>. QED
      BY <1>1, <1>7, <2>1, <3>1, <3>2
  <2>2. CASE ~(j <= i)
    <3>1. j - i \in 1 .. n - i + 1 /\ i + (j - i) - 1 = j - 1 /\ ~(j < i) /\ j # i
      BY <1>1, <2>2
    <3>2. b[j - i] = s[i + (j - i) - 1]
      BY <1>3, <3>1
    <3>3. whole[j] = b[j - i]
      BY <1>8, <2>2
    <3>. QED
      BY <3>1, <3>2, <3>3
  <2>. QED
    BY <2>1, <2>2
<1>. QED
  BY <1>5, <1>8, <1>9 DEF n

\* The headings begin in the text or behind it, never before it, and have titles.
Begin(hs) ==
    /\ Len(hs) \in Nat
    /\ \A k \in 1 .. Len(hs) : hs[k].start \in Nat \ {0} /\ hs[k].title \in DOMAIN Base
HeadingsFit(d) == Begin(d.headings)

InText(d) ==
    {h \in {d.headings[k] : k \in 1 .. Len(d.headings)} : h.start <= Length(d) + 1}

\* Headings, none before the ones in front of it.
Rising(d) ==
    {s \in Seq(InText(d)) : \A i, j \in 1 .. Len(s) : i <= j => s[i].start <= s[j].start}

LEMMA InTextIs ==
    ASSUME NEW d, Legible(d.text), HeadingsFit(d), NEW h \in InText(d)
    PROVE  h.start \in Places(d) /\ h.start \in Nat
BY DEF InText, HeadingsFit, Begin, Legible, Length, Places

LEMMA InsertRises ==
    ASSUME NEW d, Legible(d.text), HeadingsFit(d), NEW s \in Rising(d), NEW h \in InText(d)
    PROVE  InsertAt(s, Min({i \in DOMAIN s : HeadingLess(h, s[i])} \cup {Len(s) + 1}), h)
             \in Rising(d)
<1> DEFINE greater == {i \in DOMAIN s : HeadingLess(h, s[i])}
           T == greater \cup {Len(s) + 1}
           m == Min(T)
           n == Len(s)
           new == InsertAt(s, m, h)
<1>1. /\ s \in Seq(InText(d)) /\ n \in Nat /\ DOMAIN s = 1 .. n
      /\ \A i \in 1 .. n : s[i] \in InText(d)
      /\ \A i, j \in 1 .. n : i <= j => s[i].start <= s[j].start
  BY LenProperties, ElementOfSeq DEF Rising
<1>2. T \in SUBSET Nat /\ T # {}
  BY <1>1
<1>3. m \in T /\ \A k \in T : m <= k
  <2> HIDE DEF T
  <2>. QED
    BY <1>2, MinIs
<1>4. m \in 1 .. n + 1
  BY <1>1, <1>3
<1>5. h.start \in Nat /\ \A i \in 1 .. n : s[i].start \in Nat
  BY <1>1, InTextIs
<1>6. \A i \in 1 .. n : i < m => s[i].start <= h.start
  <2> SUFFICES ASSUME NEW i \in 1 .. n, i < m PROVE s[i].start <= h.start
    OBVIOUS
  <2>1. i \notin greater
    <3>1. ~(m <= i) /\ m \in 1 .. n + 1
      BY <1>1, <1>4
    <3>2. i \notin T
      <4> HIDE DEF T, m
      <4>. QED
        BY <1>3, <3>1
    <3>. QED
      BY <3>2
  <2>2. ~HeadingLess(h, s[i])
    BY <1>1, <2>1
  <2>3. ~(h.start < s[i].start)
    BY <2>2 DEF HeadingLess
  <2>. QED
    BY <1>5, <2>3
<1>7. \A i \in 1 .. n : m <= i => h.start <= s[i].start
  <2> SUFFICES ASSUME NEW i \in 1 .. n, m <= i PROVE h.start <= s[i].start
    OBVIOUS
  <2>1. m \in greater /\ m \in 1 .. n
    BY <1>1, <1>3, <1>4
  <2>2. HeadingLess(h, s[m])
    BY <2>1
  <2>3. h.start < s[m].start \/ h.start = s[m].start
    BY <2>2 DEF HeadingLess
  <2>4. s[m].start <= s[i].start
    BY <1>1, <2>1
  <2>. QED
    BY <1>5, <2>1, <2>3, <2>4
<1> HIDE DEF m, T, greater
<1>8. /\ new \in Seq(InText(d)) /\ Len(new) = n + 1
      /\ \A j \in 1 .. n + 1 : new[j] = IF j < m THEN s[j] ELSE IF j = m THEN h ELSE s[j - 1]
  <2> DEFINE S == InText(d)
  <2>1. s \in Seq(S) /\ h \in S /\ m \in 1 .. Len(s) + 1
    BY <1>1, <1>4
  <2> HIDE DEF S
  <2>2. /\ InsertAt(s, m, h) \in Seq(S) /\ Len(InsertAt(s, m, h)) = Len(s) + 1
        /\ \A j \in 1 .. Len(s) + 1 :
             InsertAt(s, m, h)[j] = IF j < m THEN s[j] ELSE IF j = m THEN h ELSE s[j - 1]
    BY <2>1, InsertIs
  <2>. QED
    BY <2>2 DEF S
<1> HIDE DEF new
<1>9. ASSUME NEW i \in 1 .. n + 1, NEW j \in 1 .. n + 1, i <= j
      PROVE  new[i].start <= new[j].start
  <2>1. CASE j < m
    <3>1. i \in 1 .. n /\ j \in 1 .. n /\ i < m
      BY <1>1, <1>4, <1>9, <2>1
    <3>. QED
      BY <1>1, <1>8, <1>9, <2>1, <3>1
  <2>2. CASE j = m /\ i < m
    <3>1. i \in 1 .. n
      BY <1>1, <1>4, <2>2
    <3>. QED
      BY <1>6, <1>8, <2>2, <3>1
  <2>3. CASE j = m /\ i = m
    BY <1>5, <1>8, <2>3
  <2>4. CASE j > m /\ i < m
    <3>1. i \in 1 .. n /\ j - 1 \in 1 .. n /\ i <= j - 1 /\ ~(j < m) /\ j # m
      BY <1>1, <1>4, <2>4
    <3>2. new[i] = s[i] /\ new[j] = s[j - 1]
      BY <1>8, <2>4, <3>1
    <3>. QED
      BY <1>1, <3>1, <3>2
  <2>5. CASE j > m /\ i = m
    <3>1. j - 1 \in 1 .. n /\ m <= j - 1 /\ ~(j < m) /\ j # m
      BY <1>1, <1>4, <2>5
    <3>2. new[i] = h /\ new[j] = s[j - 1]
      BY <1>4, <1>8, <2>5, <3>1
    <3>. QED
      BY <1>7, <3>1, <3>2
  <2>6. CASE j > m /\ i > m
    <3>1. i - 1 \in 1 .. n /\ j - 1 \in 1 .. n /\ i - 1 <= j - 1
      BY <1>1, <1>4, <1>9, <2>6
    <3>2. ~(j < m) /\ j # m /\ ~(i < m) /\ i # m
      BY <1>4, <2>6
    <3>3. new[i] = s[i - 1] /\ new[j] = s[j - 1]
      BY <1>8, <3>2
    <3>. QED
      BY <1>1, <3>1, <3>3
  <2>. QED
    BY <1>1, <1>4, <1>9, <2>1, <2>2, <2>3, <2>4, <2>5, <2>6
<1>10. new \in Rising(d)
  BY <1>8, <1>9 DEF Rising
<1>. QED
  BY <1>10 DEF new, m, T, greater

\* f does as steps says, as long as it keeps to S.
Agrees(f, steps, N, S, a) ==
    f[0] = a /\ \A k \in 1 .. N : f[k - 1] \in S[k - 1] => f[k] = steps[k][f[k - 1]]

LEMMA Stays ==
    ASSUME NEW f, NEW steps, NEW N, NEW S, NEW a, Leads(steps, N, S, a),
           Agrees(f, steps, N, S, a)
    PROVE  \A k \in 0 .. N : f[k] \in S[k]
<1> DEFINE T == {k \in 0 .. N : f[k] \in S[k]}
<1>1. N \in Nat /\ 0 \in T
  BY DEF Leads, Agrees
<1>2. ASSUME NEW k \in 0 .. N - 1, k \in T PROVE k + 1 \in T
  <2> DEFINE m == k + 1
  <2>1. m \in 1 .. N /\ m \in 0 .. N /\ m - 1 = k
    BY <1>1
  <2>2. f[m - 1] \in S[m - 1]
    BY <1>2, <2>1
  <2> HIDE DEF m
  <2>3. f[m] \in S[m]
    BY <2>1, <2>2 DEF Leads, Agrees
  <2>4. m \in T
    BY <2>1, <2>3
  <2>. QED
    BY <2>4 DEF m
<1> HIDE DEF T
<1>3. \A k \in 0 .. N : k \in T
  BY <1>1, <1>2, Upwards
<1>. QED
  BY <1>3 DEF T

\* The headings of a document in their order (SectionDetector.detect).
LEMMA OrderedRises ==
    ASSUME NEW d, Legible(d.text), HeadingsFit(d)
    PROVE  Ordered(d) \in Rising(d)
<1> DEFINE N == Len(d.headings)
           Put(x, h) == InsertAt(x, Min({i \in DOMAIN x : HeadingLess(h, x[i])}
                                          \cup {Len(x) + 1}), h)
           Next1(k, x) == IF d.headings[k].start > Length(d) + 1 THEN x
                          ELSE Put(x, d.headings[k])
           none == <<>>
           S == [k \in 0 .. N |-> Rising(d)]
           steps == [k \in 1 .. N |-> [x \in Rising(d) |-> Next1(k, x)]]
<1>1. N \in Nat
  BY DEF HeadingsFit, Begin
<1>2. \A k \in 1 .. N : \A x \in Rising(d) : Next1(k, x) \in Rising(d)
  <2> SUFFICES ASSUME NEW k \in 1 .. N, NEW x \in Rising(d) PROVE Next1(k, x) \in Rising(d)
    OBVIOUS
  <2>1. CASE d.headings[k].start > Length(d) + 1
    BY <2>1
  <2>2. CASE ~(d.headings[k].start > Length(d) + 1)
    <3>1. d.headings[k] \in InText(d)
      <4>1. d.headings[k].start \in Nat /\ Length(d) \in Nat
        BY DEF HeadingsFit, Begin, Legible, Length
      <4>. QED
        BY <2>2, <4>1 DEF InText
    <3>2. Put(x, d.headings[k]) \in Rising(d)
      <4> DEFINE h == d.headings[k]
      <4>1. h \in InText(d)
        BY <3>1
      <4> HIDE DEF h
      <4>2. Put(x, h) \in Rising(d)
        BY <4>1, InsertRises
      <4>. QED
        BY <4>2 DEF h
    <3>. QED
      BY <2>2, <3>2
  <2>. QED
    BY <2>1, <2>2
<1>3. none \in Rising(d)
  <2>1. none \in Seq(InText(d)) /\ 1 .. Len(none) = {}
    OBVIOUS
  <2>. QED
    BY <2>1 DEF Rising
<1> HIDE DEF Next1
<1>4. Leads(steps, N, S, none)
  BY <1>1, <1>2, <1>3 DEF Leads
<1>5. /\ \A k \in 0 .. N : S[k] = Rising(d)
      /\ \A k \in 1 .. N : \A x \in Rising(d) : steps[k][x] = Next1(k, x)
      /\ \A k \in 1 .. N : k - 1 \in 0 .. N
  BY <1>1
<1> HIDE DEF N, none, S, steps
<1>6. PICK g : Follows(g, steps, N, S, none)
  BY <1>4, Recursion
<1>7. /\ g \in [0 .. N -> UNION {S[k] : k \in 0 .. N}] /\ g[0] = none
      /\ \A k \in 1 .. N : g[k] = Next1(k, g[k - 1])
      /\ \A k \in 0 .. N : g[k] \in Rising(d)
  BY <1>5, <1>6 DEF Follows
<1>8. g = [k \in 0 .. N |-> IF k = 0 THEN none ELSE Next1(k, g[k - 1])]
  BY <1>7
<1> DEFINE Is(f) == f = [k \in 0 .. N |-> IF k = 0 THEN none ELSE Next1(k, f[k - 1])]
           B == CHOOSE f : Is(f)
<1>9. B = [k \in 0 .. N |-> IF k = 0 THEN none ELSE Next1(k, B[k - 1])]
  <2>1. Is(g)
    BY <1>8
  <2> HIDE DEF Is
  <2>2. Is(B)
    BY <2>1
  <2>. QED
    BY <2>2 DEF Is
<1>10. Ordered(d) = B[N]
  BY DEF Ordered, B, N, none, Next1
<1> HIDE DEF B
<1>11. Agrees(B, steps, N, S, none)
  <2>1. B[0] = none
    BY <1>1, <1>9
  <2>2. ASSUME NEW k \in 1 .. N, B[k - 1] \in S[k - 1] PROVE B[k] = steps[k][B[k - 1]]
    <3>1. B[k] = Next1(k, B[k - 1])
      BY <1>1, <1>9
    <3>. QED
      BY <1>1, <1>5, <2>2, <3>1
  <2>. QED
    BY <2>1, <2>2 DEF Agrees
<1>12. B[N] \in S[N]
  BY <1>1, <1>4, <1>11, Stays
<1>. QED
  BY <1>1, <1>5, <1>10, <1>12

Upto(s, m) == \A i \in 1 .. Len(s) : s[i].start <= m

LEMMA AppendRises ==
    ASSUME NEW d, Legible(d.text), HeadingsFit(d), NEW s \in Rising(d), NEW h \in InText(d),
           Upto(s, h.start)
    PROVE  Append(s, h) \in Rising(d) /\ Upto(Append(s, h), h.start)
<1> DEFINE more == Append(s, h)
           S == InText(d)
           n == Len(s)
<1>1. s \in Seq(S) /\ n \in Nat /\ \A i, j \in 1 .. n : i <= j => s[i].start <= s[j].start
  BY LenProperties DEF Rising
<1>2. h \in S /\ h.start \in Nat
  BY InTextIs
<1>3. /\ more \in Seq(S) /\ Len(more) = n + 1 /\ more[n + 1] = h
      /\ \A i \in 1 .. n : more[i] = s[i]
  <2> HIDE DEF S
  <2>. QED
    BY <1>1, <1>2, AppendProperties
<1> HIDE DEF more
<1>4. \A i \in 1 .. n + 1 : more[i].start <= h.start
  BY <1>1, <1>2, <1>3 DEF Upto
<1>5. \A i, j \in 1 .. n + 1 : i <= j => more[i].start <= more[j].start
  <2> SUFFICES ASSUME NEW i \in 1 .. n + 1, NEW j \in 1 .. n + 1, i <= j
               PROVE  more[i].start <= more[j].start
    OBVIOUS
  <2>1. CASE j = n + 1
    BY <1>3, <1>4, <2>1
  <2>2. CASE j # n + 1
    <3>1. i \in 1 .. n /\ j \in 1 .. n
      BY <1>1, <2>2
    <3>. QED
      BY <1>1, <1>3, <3>1
  <2>. QED
    BY <2>1, <2>2
<1>. QED
  BY <1>3, <1>4, <1>5 DEF Rising, Upto, more

LEMMA FrontRises ==
    ASSUME NEW d, NEW s \in Rising(d), s # <<>>, NEW m, Upto(s, m)
    PROVE  Front(s) \in Rising(d) /\ Upto(Front(s), m)
<1> DEFINE S == InText(d)
           less == Front(s)
           n == Len(s)
<1>1. s \in Seq(S) /\ n \in Nat \ {0} /\ \A i, j \in 1 .. n : i <= j => s[i].start <= s[j].start
  BY LenProperties, EmptySeq DEF Rising
<1>2. /\ less \in Seq(S) /\ Len(less) = n - 1
      /\ \A i \in 1 .. n - 1 : less[i] = s[i]
  <2> HIDE DEF S
  <2>. QED
    BY <1>1, FrontIs
<1> HIDE DEF less
<1>3. \A i, j \in 1 .. n - 1 : i <= j => less[i].start <= less[j].start
  BY <1>1, <1>2
<1>4. Upto(less, m)
  BY <1>1, <1>2 DEF Upto
<1>5. less \in Rising(d)
  BY <1>2, <1>3 DEF Rising
<1>. QED
  BY <1>4, <1>5 DEF less

\* What _deduplicate leaves is in order.
LEMMA DeduplicateRises ==
    ASSUME NEW d, Legible(d.text), HeadingsFit(d)
    PROVE  Deduplicate(d) \in Rising(d)
<1> DEFINE o == Ordered(d)
           N == Len(o)
           Next1(k, x) ==
               IF x = <<>> \/ ~SameHeading(Last(x), o[k]) THEN Append(x, o[k])
               ELSE IF Priority(o[k].origin) < Priority(Last(x).origin)
                 THEN Append(Front(x), o[k]) ELSE x
           none == <<>>
           Bound(k) == IF k = 0 THEN 0 ELSE o[k].start
           S == [k \in 0 .. N |-> {x \in Rising(d) : Upto(x, Bound(k))}]
           steps == [k \in 1 .. N |-> [x \in Rising(d) |-> Next1(k, x)]]
<1>1. /\ o \in Seq(InText(d)) /\ N \in Nat /\ \A k \in 1 .. N : o[k] \in InText(d)
      /\ \A i, j \in 1 .. N : i <= j => o[i].start <= o[j].start
  <2>1. Ordered(d) \in Rising(d)
    BY OrderedRises
  <2>. QED
    BY <2>1, LenProperties, ElementOfSeq DEF Rising
<1>2. \A k \in 1 .. N : o[k].start \in Nat
  BY <1>1, InTextIs
<1> HIDE DEF o
<1>3. none \in Rising(d) /\ Upto(none, 0)
  <2>1. none \in Seq(InText(d)) /\ 1 .. Len(none) = {}
    OBVIOUS
  <2>. QED
    BY <2>1 DEF Rising, Upto
<1>4. ASSUME NEW k \in 1 .. N, NEW x \in Rising(d), Upto(x, Bound(k - 1))
      PROVE  Next1(k, x) \in Rising(d) /\ Upto(Next1(k, x), o[k].start)
  <2>1. Upto(x, o[k].start)
    <3>1. x \in Seq(InText(d)) /\ Len(x) \in Nat /\ \A i \in 1 .. Len(x) : x[i] \in InText(d)
      BY LenProperties, ElementOfSeq DEF Rising
    <3>2. \A i \in 1 .. Len(x) : x[i].start \in Nat
      BY <3>1, InTextIs
    <3>3. CASE k = 1
      BY <1>2, <1>4, <3>2, <3>3 DEF Upto
    <3>4. CASE k # 1
      <4> DEFINE m == k - 1
      <4>1. m \in 1 .. N /\ m <= k
        BY <1>1, <3>4
      <4>2. o[m].start <= o[k].start /\ Bound(m) = o[m].start
        BY <1>1, <4>1
      <4>3. Upto(x, Bound(m))
        BY <1>4
      <4> HIDE DEF m, Bound
      <4>. QED
        BY <1>2, <3>2, <4>1, <4>2, <4>3 DEF Upto
    <3>. QED
      BY <3>3, <3>4
  <2> DEFINE h == o[k]
  <2>2. h \in InText(d) /\ Upto(x, h.start)
    BY <1>1, <2>1
  <2> HIDE DEF h
  <2>3. Append(x, h) \in Rising(d) /\ Upto(Append(x, h), h.start)
    BY <2>2, AppendRises
  <2>4. x # <<>> => Append(Front(x), h) \in Rising(d) /\ Upto(Append(Front(x), h), h.start)
    <3> SUFFICES ASSUME x # <<>>
                 PROVE  Append(Front(x), h) \in Rising(d) /\ Upto(Append(Front(x), h), h.start)
      OBVIOUS
    <3> DEFINE less == Front(x)
    <3>1. less \in Rising(d) /\ Upto(less, h.start)
      BY <2>2, FrontRises
    <3> HIDE DEF less
    <3>2. Append(less, h) \in Rising(d) /\ Upto(Append(less, h), h.start)
      BY <2>2, <3>1, AppendRises
    <3>. QED
      BY <3>2 DEF less
  <2>. QED
    BY <2>2, <2>3, <2>4 DEF h
<1> HIDE DEF Next1
<1>5. /\ \A k \in 0 .. N : S[k] = {x \in Rising(d) : Upto(x, Bound(k))}
      /\ \A k \in 1 .. N : \A x \in Rising(d) : steps[k][x] = Next1(k, x)
      /\ \A k \in 1 .. N : k - 1 \in 0 .. N /\ k \in 0 .. N /\ Bound(k) = o[k].start
      /\ Bound(0) = 0 /\ 0 \in 0 .. N
  BY <1>1
<1> HIDE DEF N, none, S, steps, Bound
<1>6. Leads(steps, N, S, none)
  <2>1. none \in S[0]
    BY <1>1, <1>3, <1>5
  <2>2. ASSUME NEW k \in 1 .. N, NEW x \in S[k - 1] PROVE steps[k][x] \in S[k]
    <3>1. x \in Rising(d) /\ Upto(x, Bound(k - 1))
      BY <1>5, <2>2
    <3>2. Next1(k, x) \in Rising(d) /\ Upto(Next1(k, x), o[k].start)
      BY <1>4, <3>1
    <3>. QED
      BY <1>5, <3>1, <3>2
  <2>. QED
    BY <1>1, <2>1, <2>2 DEF Leads
<1>7. PICK g : Follows(g, steps, N, S, none)
  BY <1>6, Recursion
<1>8. /\ g \in [0 .. N -> UNION {S[k] : k \in 0 .. N}] /\ g[0] = none
      /\ \A k \in 1 .. N : g[k] = Next1(k, g[k - 1])
  <2>1. /\ g \in [0 .. N -> UNION {S[k] : k \in 0 .. N}] /\ g[0] = none
        /\ \A k \in 0 .. N : g[k] \in S[k]
        /\ \A k \in 1 .. N : g[k] = steps[k][g[k - 1]]
    BY <1>7 DEF Follows
  <2>2. \A k \in 0 .. N : g[k] \in Rising(d)
    BY <1>5, <2>1
  <2>. QED
    BY <1>5, <2>1, <2>2
<1>9. g = [k \in 0 .. N |-> IF k = 0 THEN none ELSE Next1(k, g[k - 1])]
  BY <1>8
<1> DEFINE Is(f) == f = [k \in 0 .. N |-> IF k = 0 THEN none ELSE Next1(k, f[k - 1])]
           B == CHOOSE f : Is(f)
<1>10. B = [k \in 0 .. N |-> IF k = 0 THEN none ELSE Next1(k, B[k - 1])]
  <2>1. Is(g)
    BY <1>9
  <2> HIDE DEF Is
  <2>2. Is(B)
    BY <2>1
  <2>. QED
    BY <2>2 DEF Is
<1>11. Deduplicate(d) = B[N]
  BY DEF Deduplicate, B, N, none, Next1, o
<1> HIDE DEF B
<1>12. Agrees(B, steps, N, S, none)
  <2>1. B[0] = none
    BY <1>1, <1>10
  <2>2. ASSUME NEW k \in 1 .. N, B[k - 1] \in S[k - 1] PROVE B[k] = steps[k][B[k - 1]]
    <3>1. B[k] = Next1(k, B[k - 1])
      BY <1>1, <1>10
    <3>2. B[k - 1] \in Rising(d)
      BY <1>5, <2>2
    <3>. QED
      BY <1>5, <3>1, <3>2
  <2>. QED
    BY <2>1, <2>2 DEF Agrees
<1>13. B[N] \in S[N]
  BY <1>1, <1>6, <1>12, Stays
<1>14. N \in 0 .. N
  BY <1>1
<1>. QED
  BY <1>5, <1>11, <1>13, <1>14

\* Sections that follow each other and cover the text.
Tiles(d, secs) ==
    /\ Len(secs) \in Nat \ {0} /\ DOMAIN secs = 1 .. Len(secs)
    /\ \A i \in 1 .. Len(secs) :
         secs[i].start \in Places(d) /\ secs[i].end \in Places(d) /\ secs[i].start <= secs[i].end
    /\ secs[1].start = 1 /\ secs[Len(secs)].end = Length(d) + 1
    /\ \A i \in 1 .. Len(secs) - 1 : secs[i].end = secs[i + 1].start

\* SectionDetector.detect: whatever headings there are.
LEMMA DetectTiles ==
    ASSUME NEW d, Legible(d.text), HeadingsFit(d)
    PROVE  Tiles(d, Detect(d))
<1> DEFINE hs == Deduplicate(d)
           n == Len(hs)
           L == Length(d)
           End(i) == IF i < n THEN hs[i + 1].start ELSE L + 1
           Sec(i) == Section(d, SectionId(hs, i), hs[i].title, hs[i].start, End(i), hs[i].page)
           first == Section(d, <<"document-preamble">>, "document", 1, hs[1].start, NoPage)
           whole == Section(d, <<"document">>, "document", 1, L + 1, NoPage)
           body == [i \in 1 .. n |-> Sec(i)]
           before == IF hs[1].start > 1 THEN <<first>> ELSE <<>>
<1>1. /\ hs \in Seq(InText(d)) /\ n \in Nat /\ \A i \in 1 .. n : hs[i] \in InText(d)
      /\ \A i, j \in 1 .. n : i <= j => hs[i].start <= hs[j].start
      /\ hs # <<>> => n # 0
  <2>1. Deduplicate(d) \in Rising(d)
    BY DeduplicateRises
  <2>. QED
    BY <2>1, LenProperties, ElementOfSeq, EmptySeq DEF Rising
<1>2. L \in Nat /\ \A i \in 1 .. n : hs[i].start \in 1 .. L + 1
  <2>1. L \in Nat
    BY DEF Legible, Length
  <2>2. \A i \in 1 .. n : hs[i].start \in Places(d)
    BY <1>1, InTextIs
  <2>. QED
    BY <2>1, <2>2 DEF Places
<1>3. whole.start = 1 /\ whole.end = L + 1
  BY DEF Section
<1>4. first.start = 1 /\ first.end = hs[1].start
  BY DEF Section
<1>5. \A i \in 1 .. n : Sec(i).start = hs[i].start /\ Sec(i).end = End(i)
  BY DEF Section
<1>6. Detect(d) = IF hs = <<>> THEN <<whole>> ELSE before \o body
  BY DEF Detect
<1> HIDE DEF hs, L, Sec, first, whole
<1>7. CASE hs = <<>>
  <2>1. Detect(d) = <<whole>>
    BY <1>6, <1>7
  <2>2. Len(<<whole>>) = 1 /\ DOMAIN <<whole>> = 1 .. 1 /\ <<whole>>[1] = whole
    OBVIOUS
  <2>. QED
    BY <1>2, <1>3, <2>1, <2>2 DEF Tiles, Places, L
<1>8. CASE hs # <<>>
  <2> DEFINE S == {first} \cup {Sec(i) : i \in 1 .. n}
             m == Len(before)
             secs == before \o body
             k == m + n
  <2>1. /\ before \in Seq(S) /\ m \in 0 .. 1
        /\ m = 1 => before[1] = first /\ hs[1].start > 1
        /\ m = 0 => ~(hs[1].start > 1)
    <3>1. <<first>> \in Seq(S) /\ Len(<<first>>) = 1 /\ <<first>>[1] = first
      OBVIOUS
    <3>2. <<>> \in Seq(S) /\ Len(<<>>) = 0
      OBVIOUS
    <3> HIDE DEF S
    <3>3. CASE hs[1].start > 1
      BY <3>1, <3>3
    <3>4. CASE ~(hs[1].start > 1)
      BY <3>2, <3>4
    <3>. QED
      BY <3>3, <3>4
  <2>2. body \in Seq(S) /\ Len(body) = n /\ \A i \in 1 .. n : body[i] = Sec(i)
    BY <1>1
  <2> HIDE DEF before, body, S
  <2>3. /\ secs \in Seq(S) /\ Len(secs) = k
        /\ \A i \in 1 .. k : secs[i] = IF i <= m THEN before[i] ELSE body[i - m]
    <3>1. /\ secs \in Seq(S) /\ Len(secs) = Len(before) + Len(body)
          /\ \A i \in 1 .. Len(before) + Len(body) :
               secs[i] = IF i <= Len(before) THEN before[i] ELSE body[i - Len(before)]
      BY <2>1, <2>2, ConcatProperties
    <3>. QED
      BY <2>2, <3>1
  <2>4. DOMAIN secs = 1 .. k
    BY <2>3, LenProperties
  <2> HIDE DEF m, secs
  <2>5. n \in Nat \ {0} /\ k \in Nat \ {0} /\ Detect(d) = secs
    BY <1>1, <1>6, <1>8, <2>1 DEF secs
  <2>6. \A i \in 1 .. n : /\ m + i \in 1 .. k /\ secs[m + i] = Sec(i)
                          /\ secs[m + i].start = hs[i].start /\ secs[m + i].end = End(i)
    <3> SUFFICES ASSUME NEW i \in 1 .. n
                 PROVE  /\ m + i \in 1 .. k /\ secs[m + i] = Sec(i)
                        /\ secs[m + i].start = hs[i].start /\ secs[m + i].end = End(i)
      OBVIOUS
    <3> DEFINE j == m + i
    <3>1. j \in 1 .. k /\ ~(j <= m) /\ j - m = i
      BY <2>1, <2>5
    <3> HIDE DEF j
    <3>2. secs[j] = Sec(i)
      BY <2>2, <2>3, <3>1
    <3>. QED
      BY <1>5, <3>1, <3>2 DEF j
  <2>7. m = 1 => secs[1].start = 1 /\ secs[1].end = hs[1].start
    <3>1. m = 1 => secs[1] = before[1]
      BY <2>3, <2>5
    <3>. QED
      BY <1>4, <2>1, <3>1
  <2>8. \A i \in 1 .. n : hs[i].start <= End(i) /\ End(i) \in 1 .. L + 1
    <3> SUFFICES ASSUME NEW i \in 1 .. n PROVE hs[i].start <= End(i) /\ End(i) \in 1 .. L + 1
      OBVIOUS
    <3>1. CASE i < n
      <4>1. i + 1 \in 1 .. n /\ i <= i + 1
        BY <2>5, <3>1
      <4>. QED
        BY <1>1, <1>2, <3>1, <4>1
    <3>2. CASE ~(i < n)
      BY <1>2, <3>2
    <3>. QED
      BY <3>1, <3>2
  <2>9. \A i \in 1 .. k : (m = 1 /\ i = 1) \/ (i - m \in 1 .. n /\ i = m + (i - m))
    BY <2>1, <2>5
  <2>10. ASSUME NEW i \in 1 .. k
         PROVE  secs[i].start \in 1 .. L + 1 /\ secs[i].end \in 1 .. L + 1
                /\ secs[i].start <= secs[i].end
    <3>1. CASE m = 1 /\ i = 1
      BY <1>2, <2>5, <2>7, <3>1
    <3>2. CASE i - m \in 1 .. n /\ i = m + (i - m)
      BY <1>2, <2>6, <2>8, <3>2
    <3>. QED
      BY <2>9, <3>1, <3>2
  <2>11. secs[1].start = 1
    <3>1. CASE m = 1
      BY <2>7, <3>1
    <3>2. CASE m = 0
      <4>1. 1 \in 1 .. n /\ hs[1].start = 1
        BY <1>2, <2>1, <2>5, <3>2
      <4>2. secs[m + 1].start = hs[1].start
        BY <2>6, <4>1
      <4>. QED
        BY <3>2, <4>1, <4>2
    <3>. QED
      BY <2>1, <3>1, <3>2
  <2>12. secs[k].end = L + 1
    <3>1. n \in 1 .. n /\ ~(n < n)
      BY <2>5
    <3>. QED
      BY <2>6, <3>1
  <2>13. ASSUME NEW i \in 1 .. k - 1 PROVE secs[i].end = secs[i + 1].start
    <3>1. CASE m = 1 /\ i = 1
      <4>1. 1 \in 1 .. n
        BY <2>5
      <4>. QED
        BY <2>6, <2>7, <3>1, <4>1
    <3>2. CASE i - m \in 1 .. n /\ i = m + (i - m)
      <4> DEFINE j == i - m
      <4>1. j \in 1 .. n /\ i = m + j /\ j < n /\ j + 1 \in 1 .. n /\ i + 1 = m + (j + 1)
        BY <2>1, <2>5, <3>2
      <4> HIDE DEF j
      <4>2. secs[m + j].end = hs[j + 1].start /\ secs[m + (j + 1)].start = hs[j + 1].start
        BY <2>6, <4>1
      <4>. QED
        BY <4>1, <4>2
    <3>. QED
      BY <2>5, <2>9, <3>1, <3>2
  <2>. QED
    BY <2>3, <2>4, <2>5, <2>10, <2>11, <2>12, <2>13 DEF Tiles, Places, L
<1>. QED
  BY <1>7, <1>8

-----------------------------------------------------------------------------
(* Texts put together                                                      *)

\* The first part is in S[1], and with one more part it is in the next of S.
Grows(ss, S) ==
    /\ Len(ss) \in Nat
    /\ Len(ss) = 0 => ss \in S[0]
    /\ Len(ss) # 0 => ss[1] \in S[1]
    /\ \A k \in 2 .. Len(ss) : \A x \in S[k - 1] : x \o ss[k] \in S[k]

LEMMA FlattenStays ==
    ASSUME NEW ss, NEW S, Grows(ss, S)
    PROVE  FlattenSeq(ss) \in S[Len(ss)]
<1> DEFINE N == Len(ss)
<1>1. CASE N = 0
  BY <1>1 DEF FlattenSeq, Grows
<1>2. CASE N # 0
  <2> DEFINE none == <<>>
             Next1(i, x) == IF i = 1 THEN ss[i] ELSE x \o ss[i]
             R == [k \in 0 .. N |-> IF k = 0 THEN {none} ELSE S[k]]
             steps == [k \in 1 .. N |-> [x \in R[k - 1] |-> Next1(k, x)]]
  <2>1. N \in Nat \ {0}
    BY <1>2 DEF Grows
  <2>2. \A k \in 1 .. N : \A x \in R[k - 1] : Next1(k, x) \in R[k]
    <3> SUFFICES ASSUME NEW k \in 1 .. N, NEW x \in R[k - 1] PROVE Next1(k, x) \in R[k]
      OBVIOUS
    <3>1. CASE k = 1
      BY <2>1, <3>1 DEF Grows
    <3>2. CASE k # 1
      <4>1. k \in 2 .. N /\ k - 1 # 0 /\ k - 1 \in 0 .. N /\ k # 0 /\ k \in 0 .. N
        BY <2>1, <3>2
      <4>2. x \in S[k - 1] /\ R[k] = S[k]
        BY <4>1
      <4>3. x \o ss[k] \in S[k]
        BY <4>1, <4>2 DEF Grows
      <4>. QED
        BY <3>2, <4>2, <4>3
    <3>. QED
      BY <3>1, <3>2
  <2>3. /\ R[0] = {none} /\ R[N] = S[N] /\ N \in 0 .. N
        /\ \A k \in 1 .. N : k - 1 \in 0 .. N /\ k \in 0 .. N
        /\ \A k \in 1 .. N : \A x \in R[k - 1] : steps[k][x] = Next1(k, x)
    BY <2>1
  <2> HIDE DEF N, none, R, steps, Next1
  <2>4. Leads(steps, N, R, none)
    BY <2>1, <2>2, <2>3 DEF Leads
  <2>5. PICK g : Follows(g, steps, N, R, none)
    BY <2>4, Recursion
  <2>6. \A k \in 1 .. N : g[k] = Next1(k, g[k - 1])
    BY <2>3, <2>5 DEF Follows
  <2> DEFINE h == [i \in 1 .. N |-> g[i]]
             Is(f) == f = [i \in 1 .. N |-> IF i = 1 THEN ss[i] ELSE f[i - 1] \o ss[i]]
             B == CHOOSE f : Is(f)
  <2>7. Is(h)
    <3>1. ASSUME NEW i \in 1 .. N PROVE h[i] = IF i = 1 THEN ss[i] ELSE h[i - 1] \o ss[i]
      <4>1. CASE i = 1
        BY <2>6, <4>1 DEF Next1
      <4>2. CASE i # 1
        <5>1. i - 1 \in 1 .. N
          BY <2>1, <4>2
        <5> DEFINE before == g[i - 1]
        <5>2. h[i] = Next1(i, before) /\ h[i - 1] = before
          BY <2>6, <5>1
        <5> HIDE DEF before, h
        <5>. QED
          BY <4>2, <5>2 DEF Next1
      <4>. QED
        BY <4>1, <4>2
    <3> DEFINE w == [i \in 1 .. N |-> IF i = 1 THEN ss[i] ELSE h[i - 1] \o ss[i]]
    <3>2. \A i \in 1 .. N : h[i] = w[i]
      BY <3>1
    <3>3. h = w
      BY <3>2
    <3>. QED
      BY <3>3
  <2>8. B = [i \in 1 .. N |-> IF i = 1 THEN ss[i] ELSE B[i - 1] \o ss[i]]
    <3> HIDE DEF Is, h
    <3>1. Is(B)
      BY <2>7
    <3>. QED
      BY <3>1 DEF Is
  <2>9. FlattenSeq(ss) = B[N]
    BY <1>2 DEF FlattenSeq, N
  <2> HIDE DEF B
  <2> DEFINE C == [k \in 0 .. N |-> IF k = 0 THEN none ELSE B[k]]
  <2>10. Agrees(C, steps, N, R, none)
    <3>1. C[0] = none /\ 0 \in 0 .. N
      BY <2>1
    <3>2. ASSUME NEW k \in 1 .. N, C[k - 1] \in R[k - 1] PROVE C[k] = steps[k][C[k - 1]]
      <4> DEFINE before == C[k - 1]
      <4>1. steps[k][before] = Next1(k, before)
        BY <2>3, <3>2
      <4>2. C[k] = B[k]
        BY <2>1
      <4>3. k # 1 => before = B[k - 1]
        BY <2>1
      <4>4. B[k] = IF k = 1 THEN ss[k] ELSE B[k - 1] \o ss[k]
        BY <2>8
      <4> HIDE DEF before, C
      <4>5. C[k] = Next1(k, before)
        BY <4>2, <4>3, <4>4 DEF Next1
      <4>. QED
        BY <4>1, <4>5 DEF before
    <3> HIDE DEF C
    <3>. QED
      BY <3>1, <3>2 DEF Agrees
  <2>11. C[N] = B[N]
    BY <2>1
  <2> HIDE DEF C
  <2>12. C[N] \in R[N]
    BY <2>3, <2>4, <2>10, Stays
  <2>. QED
    BY <2>3, <2>9, <2>11, <2>12 DEF N
<1>. QED
  BY <1>1, <1>2

\* What is put together holds elements of its parts.
LEMMA FlattenIs ==
    ASSUME NEW S, NEW N \in Nat, NEW ss, ss \in [1 .. N -> Seq(S)]
    PROVE  FlattenSeq(ss) \in Seq(S)
<1> DEFINE R == [k \in 0 .. N |-> Seq(S)]
<1>1. Len(ss) = N /\ (N = 0 => ss = <<>>)
  OBVIOUS
<1>2. \A x, y \in Seq(S) : x \o y \in Seq(S)
  BY ConcatProperties
<1>3. \A k \in 1 .. N : ss[k] \in Seq(S)
  OBVIOUS
<1>4. <<>> \in Seq(S)
  OBVIOUS
<1>5. \A k \in 0 .. N : R[k] = Seq(S)
  OBVIOUS
<1> HIDE DEF R
<1>6. Grows(ss, R)
  <2>1. \A k \in 2 .. N : k - 1 \in 0 .. N /\ k \in 0 .. N /\ k \in 1 .. N
    OBVIOUS
  <2>2. N = 0 => ss \in R[0]
    <3>1. 0 \in 0 .. N
      OBVIOUS
    <3>2. R[0] = Seq(S)
      BY <1>5, <3>1
    <3>3. N = 0 => ss \in Seq(S)
      BY <1>1, <1>4
    <3>. QED
      BY <3>2, <3>3
  <2>3. N # 0 => ss[1] \in R[1]
    BY <1>3, <1>5
  <2>4. \A k \in 2 .. N : \A x \in R[k - 1] : x \o ss[k] \in R[k]
    BY <1>2, <1>3, <1>5, <2>1
  <2>. QED
    BY <1>1, <2>2, <2>3, <2>4 DEF Grows
<1>7. FlattenSeq(ss) \in R[N] /\ N \in 0 .. N
  BY <1>1, <1>6, FlattenStays
<1>. QED
  BY <1>5, <1>7

-----------------------------------------------------------------------------
(* Texts that hold each element once                                       *)

Lists(s, T) == s \in Seq(T) /\ IsInjective(s) /\ T \subseteq ToSet(s)

LEMMA ConcatLists ==
    ASSUME NEW a, NEW A, Lists(a, A), NEW b, NEW B, Lists(b, B), A \cap B = {}
    PROVE  Lists(a \o b, A \cup B)
<1> DEFINE S == A \cup B
           c == a \o b
           m == Len(a)
           n == Len(b)
<1>1. /\ a \in Seq(A) /\ m \in Nat /\ DOMAIN a = 1 .. m /\ \A i \in 1 .. m : a[i] \in A
      /\ b \in Seq(B) /\ n \in Nat /\ DOMAIN b = 1 .. n /\ \A i \in 1 .. n : b[i] \in B
  BY LenProperties, ElementOfSeq DEF Lists
<1>2. /\ \A i, j \in 1 .. m : a[i] = a[j] => i = j
      /\ \A i, j \in 1 .. n : b[i] = b[j] => i = j
      /\ \A x \in A : \E i \in 1 .. m : a[i] = x
      /\ \A x \in B : \E i \in 1 .. n : b[i] = x
  BY <1>1 DEF Lists, IsInjective, ToSet
<1>3. a \in Seq(S) /\ b \in Seq(S)
  BY <1>1, SeqMonotonic
<1>4. /\ c \in Seq(S) /\ Len(c) = m + n
      /\ \A i \in 1 .. m + n : c[i] = IF i <= m THEN a[i] ELSE b[i - m]
  BY <1>3, ConcatProperties
<1>5. DOMAIN c = 1 .. m + n
  BY <1>4, LenProperties
<1> HIDE DEF c, m, n
<1>6. \A i \in 1 .. m : i \in 1 .. m + n /\ c[i] = a[i]
  BY <1>1, <1>4
<1>7. \A i \in 1 .. n : m + i \in 1 .. m + n /\ c[m + i] = b[i]
  <2> SUFFICES ASSUME NEW i \in 1 .. n PROVE m + i \in 1 .. m + n /\ c[m + i] = b[i]
    OBVIOUS
  <2> DEFINE j == m + i
  <2>1. j \in 1 .. m + n /\ ~(j <= m) /\ j - m = i
    BY <1>1
  <2> HIDE DEF j
  <2>2. c[j] = b[i]
    BY <1>4, <2>1
  <2>. QED
    BY <2>1, <2>2 DEF j
<1>8. \A i \in 1 .. m + n : i \in 1 .. m \/ (i - m \in 1 .. n /\ m + (i - m) = i)
  BY <1>1
<1>9. ASSUME NEW i \in 1 .. m + n, NEW j \in 1 .. m + n, c[i] = c[j] PROVE i = j
  <2>1. CASE i \in 1 .. m /\ j \in 1 .. m
    BY <1>2, <1>6, <1>9, <2>1
  <2>2. CASE i \in 1 .. m /\ j - m \in 1 .. n /\ m + (j - m) = j
    <3>1. c[i] \in A /\ c[j] \in B
      BY <1>1, <1>6, <1>7, <2>2
    <3>. QED
      BY <1>9, <3>1
  <2>3. CASE j \in 1 .. m /\ i - m \in 1 .. n /\ m + (i - m) = i
    <3>1. c[j] \in A /\ c[i] \in B
      BY <1>1, <1>6, <1>7, <2>3
    <3>. QED
      BY <1>9, <3>1
  <2>4. CASE /\ i - m \in 1 .. n /\ m + (i - m) = i
             /\ j - m \in 1 .. n /\ m + (j - m) = j
    <3>1. c[i] = b[i - m] /\ c[j] = b[j - m]
      BY <1>7, <2>4
    <3>2. i - m = j - m
      BY <1>2, <1>9, <2>4, <3>1
    <3>. QED
      BY <2>4, <3>2
  <2>. QED
    BY <1>8, <2>1, <2>2, <2>3, <2>4
<1>10. ASSUME NEW x \in S PROVE \E i \in 1 .. m + n : c[i] = x
  BY <1>2, <1>6, <1>7
<1>. QED
  BY <1>4, <1>5, <1>9, <1>10 DEF Lists, IsInjective, ToSet, c

\* Apart(T, N): the first N of the sets T have no element in common.
Apart(T, N) == \A i, j \in 1 .. N : i # j => T[i] \cap T[j] = {}

LEMMA FlattenLists ==
    ASSUME NEW N \in Nat, NEW ss, Len(ss) = N, N = 0 => ss = <<>>, NEW T, Apart(T, N),
           \A i \in 1 .. N : Lists(ss[i], T[i])
    PROVE  Lists(FlattenSeq(ss), UNION {T[i] : i \in 1 .. N})
<1> DEFINE U(k) == UNION {T[i] : i \in 1 .. k}
           R == [k \in 0 .. N |-> {x \in Seq(U(k)) : Lists(x, U(k))}]
<1>1. \A k \in 0 .. N : R[k] = {x \in Seq(U(k)) : Lists(x, U(k))}
  OBVIOUS
<1>2. \A k \in 2 .. N : U(k) = U(k - 1) \cup T[k] /\ U(k - 1) \cap T[k] = {}
  <2> SUFFICES ASSUME NEW k \in 2 .. N
               PROVE  U(k) = U(k - 1) \cup T[k] /\ U(k - 1) \cap T[k] = {}
    OBVIOUS
  <2>1. \A i : i \in 1 .. k <=> i \in 1 .. k - 1 \/ i = k
    OBVIOUS
  <2>2. \A i \in 1 .. k - 1 : i \in 1 .. N /\ k \in 1 .. N /\ i # k
    OBVIOUS
  <2>3. U(k) = U(k - 1) \cup T[k]
    BY <2>1
  <2>4. \A i \in 1 .. k - 1 : T[i] \cap T[k] = {}
    BY <2>2 DEF Apart
  <2>. QED
    BY <2>3, <2>4
<1>3. 0 \in 0 .. N /\ U(0) = {}
  OBVIOUS
<1>4. N # 0 => 1 \in 0 .. N /\ 1 \in 1 .. N /\ U(1) = T[1]
  OBVIOUS
<1> HIDE DEF R, U
<1>5. Grows(ss, R)
  <2>1. N = 0 => ss \in R[0]
    <3>1. <<>> \in Seq({}) /\ Len(<<>>) = 0 /\ DOMAIN <<>> = {}
      OBVIOUS
    <3>2. Lists(<<>>, {})
      BY <3>1 DEF Lists, IsInjective
    <3>. QED
      BY <1>1, <1>3, <3>1, <3>2
  <2>2. N # 0 => ss[1] \in R[1]
    BY <1>1, <1>4 DEF Lists
  <2>3. ASSUME NEW k \in 2 .. N, NEW x \in R[k - 1] PROVE x \o ss[k] \in R[k]
    <3>1. k - 1 \in 0 .. N /\ k \in 0 .. N /\ k \in 1 .. N
      OBVIOUS
    <3>2. Lists(x, U(k - 1))
      BY <1>1, <2>3, <3>1
    <3>3. Lists(x \o ss[k], U(k - 1) \cup T[k])
      BY <1>2, <3>1, <3>2, ConcatLists
    <3>. QED
      BY <1>1, <1>2, <3>1, <3>3 DEF Lists
  <2>. QED
    BY <2>1, <2>2, <2>3 DEF Grows
<1>6. FlattenSeq(ss) \in R[N] /\ N \in 0 .. N
  BY <1>5, FlattenStays
<1>. QED
  BY <1>1, <1>6 DEF U

-----------------------------------------------------------------------------
(* Numbers and sizes                                                       *)

\* A part of a finite set is smaller.
LEMMA PartIsSmaller ==
    ASSUME NEW S, IsFiniteSet(S), NEW T \in SUBSET S, NEW x \in S, x \notin T
    PROVE  /\ Cardinality(T) \in Nat /\ Cardinality(S) \in Nat
           /\ Cardinality(T) < Cardinality(S)
<1>1. /\ IsFiniteSet(T) /\ Cardinality(T) <= Cardinality(S)
      /\ Cardinality(S) = Cardinality(T) => S = T
  BY FS_Subset
<1>2. Cardinality(T) \in Nat /\ Cardinality(S) \in Nat
  BY <1>1, FS_CardinalityType
<1>. QED
  BY <1>1, <1>2

\* A finite set of whole numbers has a least and a greatest one.
LEMMA MinOfFinite ==
    ASSUME NEW S \in SUBSET Int, IsFiniteSet(S), S # {}
    PROVE  Min(S) \in S /\ \A k \in S : Min(S) <= k
<1> DEFINE Below(x) == {y \in S : y < x}
           Ranks == {Cardinality(Below(x)) : x \in S}
<1>1. \A x \in S : Below(x) \in SUBSET S
  OBVIOUS
<1>2. \A x \in S : IsFiniteSet(Below(x)) /\ Cardinality(Below(x)) \in Nat
  <2> SUFFICES ASSUME NEW x \in S
               PROVE  IsFiniteSet(Below(x)) /\ Cardinality(Below(x)) \in Nat
    OBVIOUS
  <2> DEFINE B == Below(x)
  <2>1. B \in SUBSET S
    OBVIOUS
  <2> HIDE DEF B
  <2>2. IsFiniteSet(B)
    BY <2>1, FS_Subset
  <2>3. Cardinality(B) \in Nat
    BY <2>2, FS_CardinalityType
  <2>. QED
    BY <2>2, <2>3 DEF B
<1>3. PICK r \in Ranks : \A q \in Ranks : r <= q
  <2>1. Ranks \in SUBSET Nat /\ Ranks # {}
    BY <1>2
  <2> HIDE DEF Ranks
  <2>. QED
    BY <2>1, LeastOfNat
<1>4. PICK x \in S : r = Cardinality(Below(x))
  BY <1>3
<1>5. ASSUME NEW y \in S, y < x PROVE FALSE
  <2> DEFINE B == Below(x)
             C == Below(y)
  <2>1. C \in SUBSET B /\ y \in B /\ y \notin C /\ IsFiniteSet(B)
    <3>1. \A z \in S : z \in Int
      OBVIOUS
    <3>2. C \in SUBSET B
      <4>1. \A z \in S : z < y => z < x
        BY <1>5, <3>1
      <4>. QED
        BY <4>1
    <3>3. y \in B /\ y \notin C
      BY <1>5, <3>1
    <3>. QED
      BY <1>2, <3>2, <3>3
  <2>2. Cardinality(C) \in Ranks
    OBVIOUS
  <2> HIDE DEF B, C
  <2>3. Cardinality(C) < Cardinality(B) /\ Cardinality(C) \in Nat /\ Cardinality(B) \in Nat
    BY <2>1, PartIsSmaller
  <2>4. r = Cardinality(B)
    BY <1>4 DEF B
  <2> HIDE DEF Ranks
  <2>. QED
    BY <1>3, <2>2, <2>3, <2>4
<1>6. x \in S /\ \A y \in S : x <= y
  BY <1>5
<1>. QED
  BY <1>6 DEF Min

LEMMA MaxOfFinite ==
    ASSUME NEW S \in SUBSET Int, IsFiniteSet(S), S # {}
    PROVE  Max(S) \in S /\ \A k \in S : k <= Max(S)
<1> DEFINE f == [x \in S |-> 0 - x]
           T == {0 - x : x \in S}
<1>1. f \in Surjection(S, T)
  BY DEF Surjection
<1>2. T \in SUBSET Int /\ T # {}
  <2>1. \A x \in S : x \in Int /\ 0 - x \in Int
    OBVIOUS
  <2>2. T # {}
    OBVIOUS
  <2>. QED
    BY <2>1, <2>2
<1> HIDE DEF f, T
<1>3. IsFiniteSet(T)
  BY <1>1, FS_Surjection
<1>4. Min(T) \in T /\ \A k \in T : Min(T) <= k
  BY <1>2, <1>3, MinOfFinite
<1>5. PICK x \in S : Min(T) = 0 - x
  BY <1>4 DEF T
<1>6. \A y \in S : 0 - y \in T
  BY DEF T
<1>7. \A y \in S : x >= y
  BY <1>4, <1>5, <1>6
<1>8. \E z \in S : \A y \in S : z >= y
  BY <1>7
<1>. QED
  BY <1>8 DEF Max

-----------------------------------------------------------------------------
(* The pages of a PDF                                                      *)

\* PdfText means the same by the words it takes from the library.
LEMMA SameWords ==
    /\ \A S : Pdf!IsFiniteSet(S) <=> IsFiniteSet(S)
    /\ \A S : Pdf!Cardinality(S) = Cardinality(S)
    /\ \A S : Pdf!Min(S) = Min(S) /\ Pdf!Max(S) = Max(S)
    /\ \A s : Pdf!FlattenSeq(s) = FlattenSeq(s)
<1>1. \A S : Pdf!IsFiniteSet(S) <=> IsFiniteSet(S)
  BY DEF Pdf!IsFiniteSet, IsFiniteSet
<1>2. \A S : Pdf!Cardinality(S) = Cardinality(S)
  BY DEF Pdf!Cardinality, Cardinality
<1>3. \A S : Pdf!Min(S) = Min(S) /\ Pdf!Max(S) = Max(S)
  BY DEF Pdf!Min, Min, Pdf!Max, Max
<1>4. \A s : Pdf!FlattenSeq(s) = FlattenSeq(s)
  BY DEF Pdf!FlattenSeq, FlattenSeq
<1>. QED
  BY <1>1, <1>2, <1>3, <1>4

\* A part of a page is read from the top down, each block once.
LEMMA SortedLists ==
    ASSUME NEW blocks, Pdf!IsPage(blocks), NEW B \in SUBSET blocks
    PROVE  Lists(Pdf!Sorted(B), B)
<1> DEFINE Above(b) == {a \in B : Pdf!ByY(a, b)}
           n == Cardinality(B)
           rank == [b \in B |-> Cardinality(Above(b))]
<1>1. IsFiniteSet(B) /\ n \in Nat
  <2>1. IsFiniteSet(blocks)
    BY SameWords DEF Pdf!IsPage
  <2>2. IsFiniteSet(B)
    BY <2>1, FS_Subset
  <2>. QED
    BY <2>2, FS_CardinalityType
<1>2. \A b \in B : b.x0 \in Int /\ b.y0 \in Int
  BY DEF Pdf!IsPage
<1>3. \A a, b, c \in B : Pdf!ByY(a, b) /\ Pdf!ByY(b, c) => Pdf!ByY(a, c)
  BY <1>2 DEF Pdf!ByY
<1>4. \A a \in B : ~Pdf!ByY(a, a)
  BY <1>2 DEF Pdf!ByY
<1>5. \A a, b \in B : a # b => Pdf!ByY(a, b) \/ Pdf!ByY(b, a)
  BY DEF Pdf!IsPage
<1>6. \A b \in B : rank[b] \in 0 .. n - 1
  <2> SUFFICES ASSUME NEW b \in B PROVE rank[b] \in 0 .. n - 1
    OBVIOUS
  <2> DEFINE A == Above(b)
  <2>1. A \in SUBSET B /\ b \notin A /\ rank[b] = Cardinality(A)
    BY <1>4
  <2> HIDE DEF A, rank
  <2>2. Cardinality(A) \in Nat /\ Cardinality(A) < n
    BY <1>1, <2>1, PartIsSmaller
  <2>. QED
    BY <1>1, <2>1, <2>2
<1>7. \A a, b \in B : Pdf!ByY(a, b) => rank[a] < rank[b]
  <2> SUFFICES ASSUME NEW a \in B, NEW b \in B, Pdf!ByY(a, b) PROVE rank[a] < rank[b]
    OBVIOUS
  <2> DEFINE A == Above(a)
             C == Above(b)
  <2>1. A \in SUBSET C /\ a \in C /\ a \notin A
    BY <1>3, <1>4
  <2>2. rank[a] = Cardinality(A) /\ rank[b] = Cardinality(C) /\ C \in SUBSET B
    OBVIOUS
  <2> HIDE DEF A, C, rank
  <2>3. IsFiniteSet(C)
    BY <1>1, <2>2, FS_Subset
  <2>. QED
    BY <2>1, <2>2, <2>3, PartIsSmaller
<1>8. \A a, b \in B : rank[a] = rank[b] => a = b
  <2> HIDE DEF rank
  <2> SUFFICES ASSUME NEW a \in B, NEW b \in B, rank[a] = rank[b], a # b PROVE FALSE
    OBVIOUS
  <2>1. rank[a] \in Int /\ rank[b] \in Int
    BY <1>1, <1>6
  <2>. QED
    BY <1>5, <1>7, <2>1
<1>9. \A k \in 0 .. n - 1 : \E b \in B : rank[b] = k
  <2> DEFINE D == 0 .. n - 1
  <2>1. IsFiniteSet(D) /\ Cardinality(D) = n
    <3>1. 0 \in Int /\ n - 1 \in Int
      BY <1>1
    <3>2. IsFiniteSet(0 .. n - 1) /\ Cardinality(0 .. n - 1) = IF 0 > n - 1 THEN 0 ELSE n - 1 - 0 + 1
      BY <3>1, FS_Interval
    <3>. QED
      BY <1>1, <3>2
  <2>2. rank \in [B -> D]
    BY <1>6
  <2> HIDE DEF D
  <2>3. rank \in Injection(B, D)
    BY <1>8, <2>2 DEF Injection, IsInjective
  <2> HIDE DEF rank
  <2>4. rank \in Surjection(B, D)
    BY <2>1, <2>3, FS_Injection
  <2>. QED
    BY <2>4 DEF Surjection, D
<1> DEFINE s == Pdf!Sorted(B)
           At(k) == CHOOSE b \in B : rank[b] = k - 1
<1>10. s = [k \in 1 .. n |-> At(k)]
  <2>1. \A b \in B : rank[b] = Cardinality(Above(b))
    OBVIOUS
  <2> HIDE DEF rank
  <2>2. \A k \in 1 .. n : At(k) = CHOOSE b \in B : Cardinality(Above(b)) = k - 1
    <3> SUFFICES ASSUME NEW k \in 1 .. n
                 PROVE  At(k) = CHOOSE b \in B : Cardinality(Above(b)) = k - 1
      OBVIOUS
    <3>1. \A b : (b \in B /\ rank[b] = k - 1) <=> (b \in B /\ Cardinality(Above(b)) = k - 1)
      BY <2>1
    <3>. QED
      BY <3>1
  <2> DEFINE w == [k \in 1 .. n |-> CHOOSE b \in B : Cardinality(Above(b)) = k - 1]
  <2>3. s = w
    <3>1. \A S : Pdf!Cardinality(S) = Cardinality(S)
      BY SameWords
    <3>2. Pdf!Sorted(B) = [k \in 1 .. Pdf!Cardinality(B) |->
              CHOOSE b \in B : Pdf!Cardinality({a \in B : Pdf!ByY(a, b)}) = k - 1]
      BY DEF Pdf!Sorted
    <3>. QED
      BY <3>1, <3>2
  <2>5. w = [k \in 1 .. n |-> At(k)]
    <3> HIDE DEF At
    <3>. QED
      BY <2>2
  <2> HIDE DEF At, w, s
  <2>. QED
    BY <2>3, <2>5
<1>11. \A k \in 1 .. n : At(k) \in B /\ rank[At(k)] = k - 1
  <2> SUFFICES ASSUME NEW k \in 1 .. n PROVE At(k) \in B /\ rank[At(k)] = k - 1
    OBVIOUS
  <2>1. k - 1 \in 0 .. n - 1
    BY <1>1
  <2> HIDE DEF rank
  <2>2. \E b \in B : rank[b] = k - 1
    BY <1>9, <2>1
  <2>. QED
    BY <2>2
<1> HIDE DEF rank, At, s
<1>12. s \in Seq(B) /\ DOMAIN s = 1 .. n /\ \A k \in 1 .. n : s[k] = At(k)
  BY <1>1, <1>10, <1>11
<1>13. IsInjective(s)
  <2> SUFFICES ASSUME NEW i \in 1 .. n, NEW j \in 1 .. n, s[i] = s[j] PROVE i = j
    BY <1>12 DEF IsInjective
  <2>1. i - 1 = j - 1
    BY <1>11, <1>12
  <2>. QED
    BY <2>1
<1>14. ASSUME NEW b \in B PROVE b \in ToSet(s)
  <2> DEFINE k == rank[b] + 1
  <2>1. rank[b] \in 0 .. n - 1
    BY <1>6
  <2>2. k \in 1 .. n /\ k - 1 = rank[b]
    BY <1>1, <2>1
  <2> HIDE DEF k
  <2>3. s[k] = b
    BY <1>8, <1>11, <1>12, <2>2
  <2>. QED
    BY <1>12, <2>2, <2>3 DEF ToSet
<1>. QED
  BY <1>12, <1>13, <1>14 DEF Lists, s

\* What stands above the columns does not stand below them.
LEMMA TopIsNotBottom ==
    ASSUME Slack \in Nat, NEW blocks, Pdf!IsPage(blocks), NEW narrow \in SUBSET blocks,
           narrow # {}, NEW b \in blocks,
           b.y1 <= Pdf!Min({n.y0 : n \in narrow}) + Slack
    PROVE  ~(b.y0 >= Pdf!Max({n.y1 : n \in narrow}) - Slack)
<1> DEFINE Y0 == {n.y0 : n \in narrow}
           Y1 == {n.y1 : n \in narrow}
           f0 == [n \in narrow |-> n.y0]
           f1 == [n \in narrow |-> n.y1]
<1>1. /\ \A n \in blocks : n.y0 \in Int /\ n.y1 \in Int /\ n.y1 - n.y0 > 2 * Slack
  BY DEF Pdf!IsPage
<1>2. IsFiniteSet(narrow)
  <2>1. IsFiniteSet(blocks)
    BY SameWords DEF Pdf!IsPage
  <2>. QED
    BY <2>1, FS_Subset
<1>3. f0 \in Surjection(narrow, Y0) /\ f1 \in Surjection(narrow, Y1)
  BY DEF Surjection
<1>4. Y0 \in SUBSET Int /\ Y0 # {} /\ Y1 \in SUBSET Int /\ Y1 # {}
  BY <1>1
<1>5. PICK n \in narrow : n.y0 \in Y0 /\ n.y1 \in Y1
  OBVIOUS
<1> HIDE DEF Y0, Y1, f0, f1
<1>6. IsFiniteSet(Y0) /\ IsFiniteSet(Y1)
  BY <1>2, <1>3, FS_Surjection
<1>7. Min(Y0) \in Int /\ Min(Y0) <= n.y0
  BY <1>4, <1>5, <1>6, MinOfFinite
<1>8. Max(Y1) \in Int /\ n.y1 <= Max(Y1)
  BY <1>4, <1>5, <1>6, MaxOfFinite
<1>9. b.y1 <= Min(Y0) + Slack
  BY SameWords DEF Y0
<1>10. b.y0 \in Int /\ b.y1 \in Int /\ b.y1 - b.y0 > 2 * Slack
       /\ n.y0 \in Int /\ n.y1 \in Int /\ n.y1 - n.y0 > 2 * Slack
  BY <1>1
<1>11. ~(b.y0 >= Max(Y1) - Slack)
  BY <1>7, <1>8, <1>9, <1>10
<1>. QED
  BY <1>11, SameWords DEF Y1

\* _ordered_blocks: each block of a page is read once.
LEMMA OrderedBlocksLists ==
    ASSUME Slack \in Nat, NEW blocks, Pdf!IsPage(blocks)
    PROVE  Lists(Pdf!OrderedBlocks(blocks), blocks)
<1> DEFINE narrow == {b \in blocks : Pdf!Narrow(b)}
           left == {b \in narrow : (b.x0 + b.x1) \div 2 < 50}
           right == narrow \ left
           full == blocks \ narrow
           top == {b \in full : b.y1 <= Pdf!Min({n.y0 : n \in narrow}) + Slack}
           bottom == {b \in full : b.y0 >= Pdf!Max({n.y1 : n \in narrow}) - Slack}
           between == full \ (top \cup bottom)
           s1 == Pdf!Sorted(top)
           s2 == Pdf!Sorted(left)
           s3 == Pdf!Sorted(between)
           s4 == Pdf!Sorted(right)
           s5 == Pdf!Sorted(bottom)
<1>1. Pdf!OrderedBlocks(blocks)
        = IF left = {} \/ right = {} THEN Pdf!Sorted(blocks)
          ELSE (((s1 \o s2) \o s3) \o s4) \o s5
  BY DEF Pdf!OrderedBlocks
<1>2. CASE left = {} \/ right = {}
  <2>1. blocks \in SUBSET blocks
    OBVIOUS
  <2>2. Lists(Pdf!Sorted(blocks), blocks)
    BY <2>1, SortedLists
  <2>. QED
    BY <1>1, <1>2, <2>2
<1>3. CASE ~(left = {} \/ right = {})
  <2>1. /\ top \in SUBSET blocks /\ left \in SUBSET blocks /\ between \in SUBSET blocks
        /\ right \in SUBSET blocks /\ bottom \in SUBSET blocks
    OBVIOUS
  <2>2. top \cap bottom = {}
    <3>1. narrow \in SUBSET blocks /\ narrow # {}
      BY <1>3
    <3> HIDE DEF narrow
    <3>2. \A b \in blocks : b.y1 <= Pdf!Min({n.y0 : n \in narrow}) + Slack
                              => ~(b.y0 >= Pdf!Max({n.y1 : n \in narrow}) - Slack)
      BY <3>1, TopIsNotBottom
    <3>. QED
      BY <3>2
  <2>3. /\ top \cap left = {} /\ (top \cup left) \cap between = {}
        /\ ((top \cup left) \cup between) \cap right = {}
    OBVIOUS
  <2>4. (((top \cup left) \cup between) \cup right) \cap bottom = {}
    <3>1. left \cap bottom = {} /\ between \cap bottom = {} /\ right \cap bottom = {}
      OBVIOUS
    <3> HIDE DEF top, left, between, right, bottom
    <3>. QED
      BY <2>2, <3>1
  <2>5. (((top \cup left) \cup between) \cup right) \cup bottom = blocks
    OBVIOUS
  <2> HIDE DEF top, left, between, right, bottom
  <2>6. /\ Lists(s1, top) /\ Lists(s2, left) /\ Lists(s3, between)
        /\ Lists(s4, right) /\ Lists(s5, bottom)
    BY <2>1, SortedLists
  <2> HIDE DEF s1, s2, s3, s4, s5
  <2>7. Lists(s1 \o s2, top \cup left)
    BY <2>3, <2>6, ConcatLists
  <2>8. Lists((s1 \o s2) \o s3, (top \cup left) \cup between)
    BY <2>3, <2>6, <2>7, ConcatLists
  <2>9. Lists(((s1 \o s2) \o s3) \o s4, ((top \cup left) \cup between) \cup right)
    BY <2>3, <2>6, <2>8, ConcatLists
  <2>10. Lists((((s1 \o s2) \o s3) \o s4) \o s5,
               (((top \cup left) \cup between) \cup right) \cup bottom)
    BY <2>4, <2>6, <2>9, ConcatLists
  <2>. QED
    BY <1>1, <1>3, <2>5, <2>10
<1>. QED
  BY <1>2, <1>3

\* The piece of text a block stands for.
PieceOf(b, n) == [word |-> b.word, page |-> n, block |-> b]
PiecesOf(pdf, n) == {PieceOf(b, n) : b \in pdf.pages[n].blocks}

\* _extract_document: the text has one piece for each block of each page.
LEMMA TextLists ==
    ASSUME Slack \in Nat, NEW pdf, Pdf!IsPdf(pdf)
    PROVE  Lists(Pdf!Text(pdf), UNION {PiecesOf(pdf, n) : n \in 1 .. Len(pdf.pages)})
<1> DEFINE N == Len(pdf.pages)
           order(n) == Pdf!OrderedBlocks(pdf.pages[n].blocks)
           said(n) == [k \in 1 .. Len(order(n)) |->
                         [word |-> order(n)[k].word, page |-> n, block |-> order(n)[k]]]
           ss == [n \in 1 .. N |-> said(n)]
           T == [n \in 1 .. N |-> PiecesOf(pdf, n)]
<1>1. N \in Nat /\ \A n \in 1 .. N : Pdf!IsPage(pdf.pages[n].blocks)
  BY DEF Pdf!IsPdf
<1>2. ASSUME NEW n \in 1 .. N PROVE Lists(said(n), PiecesOf(pdf, n))
  <2> DEFINE o == order(n)
             blocks == pdf.pages[n].blocks
             m == Len(o)
             w == said(n)
             P == PiecesOf(pdf, n)
  <2>1. Lists(o, blocks)
    BY <1>1, OrderedBlocksLists
  <2>2. w = [k \in 1 .. m |-> PieceOf(o[k], n)]
    BY DEF PieceOf
  <2>3. P = {PieceOf(b, n) : b \in blocks}
    BY DEF PiecesOf
  <2> HIDE DEF o, blocks, w, P
  <2>4. /\ m \in Nat /\ DOMAIN o = 1 .. m /\ \A k \in 1 .. m : o[k] \in blocks
        /\ \A i, j \in 1 .. m : o[i] = o[j] => i = j
        /\ \A b \in blocks : \E k \in 1 .. m : o[k] = b
    <3>1. o \in Seq(blocks)
      BY <2>1 DEF Lists
    <3>2. m \in Nat /\ DOMAIN o = 1 .. m /\ \A k \in 1 .. m : o[k] \in blocks
      BY <3>1, LenProperties, ElementOfSeq
    <3>. QED
      BY <2>1, <3>2 DEF Lists, IsInjective, ToSet
  <2>5. \A a, b : PieceOf(a, n) = PieceOf(b, n) => a = b
    <3>1. \A a : PieceOf(a, n).block = a
      BY DEF PieceOf
    <3>. QED
      BY <3>1
  <2> HIDE DEF m
  <2>6. w \in Seq(P) /\ DOMAIN w = 1 .. m /\ \A k \in 1 .. m : w[k] = PieceOf(o[k], n)
    BY <2>2, <2>3, <2>4
  <2>7. IsInjective(w)
    BY <2>4, <2>5, <2>6 DEF IsInjective
  <2>8. \A x \in P : x \in ToSet(w)
    BY <2>3, <2>4, <2>6 DEF ToSet
  <2>. QED
    BY <2>6, <2>7, <2>8 DEF Lists, w, P
<1>3. ASSUME NEW i \in 1 .. N, NEW j \in 1 .. N, i # j PROVE T[i] \cap T[j] = {}
  <2>1. \A x \in PiecesOf(pdf, i) : x.page = i
    BY DEF PiecesOf, PieceOf
  <2>2. \A x \in PiecesOf(pdf, j) : x.page = j
    BY DEF PiecesOf, PieceOf
  <2>. QED
    BY <1>3, <2>1, <2>2
<1>4. Pdf!Text(pdf) = FlattenSeq(ss)
  <2>1. Pdf!Text(pdf) = Pdf!FlattenSeq(ss)
    BY DEF Pdf!Text
  <2>. QED
    BY <2>1, SameWords
<1>5. Len(ss) = N /\ (N = 0 => ss = <<>>) /\ (\A n \in 1 .. N : ss[n] = said(n))
      /\ \A n \in 1 .. N : T[n] = PiecesOf(pdf, n)
  <2> HIDE DEF said
  <2>. QED
    BY <1>1
<1>6. UNION {T[n] : n \in 1 .. N} = UNION {PiecesOf(pdf, n) : n \in 1 .. N}
  BY <1>5
<1> HIDE DEF N, ss, T, said
<1>7. Lists(FlattenSeq(ss), UNION {T[n] : n \in 1 .. N})
  <2>1. Apart(T, N)
    BY <1>3 DEF Apart
  <2>2. \A n \in 1 .. N : Lists(ss[n], T[n])
    BY <1>2, <1>5
  <2>. QED
    BY <1>1, <1>5, <2>1, <2>2, FlattenLists
<1>. QED
  BY <1>4, <1>6, <1>7 DEF N

-----------------------------------------------------------------------------
(* Texts and headings as they are extracted                                *)

\* A line whose words have a length.
Readable(line) ==
    /\ line.arg \in DOMAIN Bytes /\ Len(line.block) \in Nat
    /\ \A k \in 1 .. Len(line.block) : line.block[k] \in DOMAIN Bytes

LEMMA PlainTextIs ==
    ASSUME NEW ls, Len(ls) \in Nat, \A i \in 1 .. Len(ls) : Readable(ls[i])
    PROVE  Legible(PlainText(ls))
<1> DEFINE N == Len(ls)
           S == {Piece(w) : w \in DOMAIN Bytes}
           ss == [i \in 1 .. N |-> TextOf(ls[i])]
<1>1. \A w \in DOMAIN Bytes : Piece(w) \in S
  OBVIOUS
<1>2. \A s \in S : s.word \in DOMAIN Bytes
  BY DEF Piece
<1> HIDE DEF S
<1>3. ASSUME NEW i \in 1 .. N PROVE TextOf(ls[i]) \in Seq(S)
  <2>1. <<>> \in Seq(S) /\ <<Piece(ls[i].arg)>> \in Seq(S)
    BY <1>1 DEF Readable
  <2>2. [k \in 1 .. Len(ls[i].block) |-> Piece(ls[i].block[k])] \in Seq(S)
    BY <1>1 DEF Readable
  <2>3. \/ TextOf(ls[i]) = <<>>
        \/ TextOf(ls[i]) = <<Piece(ls[i].arg)>>
        \/ TextOf(ls[i]) = [k \in 1 .. Len(ls[i].block) |-> Piece(ls[i].block[k])]
    BY DEF TextOf
  <2>. QED
    BY <2>1, <2>2, <2>3
<1>4. ss \in [1 .. N -> Seq(S)]
  BY <1>3
<1>5. PlainText(ls) = FlattenSeq(ss)
  BY DEF PlainText
<1> DEFINE text == FlattenSeq(ss)
<1> HIDE DEF ss, N
<1>6. text \in Seq(S)
  BY <1>4, FlattenIs DEF N
<1> HIDE DEF text
<1>7. Len(text) \in Nat /\ \A i \in 1 .. Len(text) : text[i] \in S
  BY <1>6, LenProperties, ElementOfSeq
<1>8. Legible(text)
  BY <1>2, <1>7 DEF Legible
<1>. QED
  BY <1>5, <1>8 DEF text

LEMMA LatexHeadingsBegin ==
    ASSUME NEW ls, Len(ls) \in Nat, \A k \in 1 .. Len(ls) : ls[k].arg \in DOMAIN Base,
           NEW text, Len(text) \in Nat
    PROVE  Begin(LatexHeadings(ls, text))
<1> DEFINE N == Len(ls)
           H == [title : {ls[k].arg : k \in 1 .. N}, level : {1}, page : {NoPage},
                 start : Nat \ {0}, origin : {"latex_ast"}]
           From(x) == IF x = <<>> THEN 1 ELSE Last(x).start + 1
           At(k, x) == {i \in From(x) .. Len(text) : text[i].word = ls[k].arg}
           Heading(k, x) ==
               [title |-> ls[k].arg, level |-> 1, page |-> NoPage,
                start |-> IF At(k, x) = {} THEN From(x) ELSE Min(At(k, x)),
                origin |-> "latex_ast"]
           Next1(k, x) == IF ls[k].kind # "heading" THEN x ELSE Append(x, Heading(k, x))
           none == <<>>
           S == [k \in 0 .. N |-> Seq(H)]
           steps == [k \in 1 .. N |-> [x \in Seq(H) |-> Next1(k, x)]]
<1>1. none \in Seq(H) /\ N \in Nat
  OBVIOUS
<1>2. \A k \in 1 .. N : \A x \in Seq(H) : Next1(k, x) \in Seq(H)
  <2> SUFFICES ASSUME NEW k \in 1 .. N, NEW x \in Seq(H) PROVE Next1(k, x) \in Seq(H)
    OBVIOUS
  <2>1. From(x) \in Nat \ {0}
    <3>1. CASE x = <<>>
      BY <3>1
    <3>2. CASE x # <<>>
      <4>1. Len(x) \in Nat \ {0} /\ Last(x) = x[Len(x)]
        BY <3>2, EmptySeq DEF Last
      <4>2. Last(x) \in H
        <5>1. Len(x) \in 1 .. Len(x)
          BY <4>1
        <5> HIDE DEF H
        <5>2. x[Len(x)] \in H
          BY <5>1, ElementOfSeq
        <5>. QED
          BY <4>1, <5>2
      <4>3. Last(x).start \in Nat
        BY <4>2
      <4>. QED
        BY <3>2, <4>3
    <3>. QED
      BY <3>1, <3>2
  <2> HIDE DEF From
  <2>2. At(k, x) # {} => Min(At(k, x)) \in Nat \ {0}
    <3> DEFINE A == At(k, x)
    <3>1. A \in SUBSET Nat /\ \A i \in A : i # 0
      BY <2>1
    <3> HIDE DEF A
    <3>2. A # {} => Min(A) \in A
      BY <3>1, MinIs
    <3>3. A # {} => Min(A) \in Nat \ {0}
      BY <3>1, <3>2
    <3>. QED
      BY <3>3 DEF A
  <2> HIDE DEF At
  <2>3. Heading(k, x) \in H
    BY <2>1, <2>2
  <2> HIDE DEF Heading, H
  <2>4. Append(x, Heading(k, x)) \in Seq(H)
    BY <2>3, AppendProperties
  <2>. QED
    BY <2>4
<1>3. \A h \in H : h.start \in Nat \ {0} /\ h.title \in DOMAIN Base
  OBVIOUS
<1> HIDE DEF Next1, H
<1>4. /\ \A k \in 0 .. N : S[k] = Seq(H)
      /\ \A k \in 1 .. N : \A x \in Seq(H) : steps[k][x] = Next1(k, x)
      /\ \A k \in 1 .. N : k - 1 \in 0 .. N
      /\ 0 \in 0 .. N /\ N \in 0 .. N
  BY <1>1
<1> HIDE DEF N, none, S, steps
<1>5. Leads(steps, N, S, none)
  <2>1. \A k \in 1 .. N : \A x \in S[k - 1] : steps[k][x] \in S[k]
    <3> SUFFICES ASSUME NEW k \in 1 .. N, NEW x \in S[k - 1] PROVE steps[k][x] \in S[k]
      OBVIOUS
    <3>1. k \in 0 .. N /\ k - 1 \in 0 .. N
      BY <1>1
    <3>2. x \in Seq(H)
      BY <1>4, <3>1
    <3>3. steps[k][x] \in Seq(H)
      BY <1>2, <1>4, <3>2
    <3>. QED
      BY <1>4, <3>1, <3>3
  <2>. QED
    BY <1>1, <1>4, <2>1 DEF Leads
<1>6. PICK g : Follows(g, steps, N, S, none)
  BY <1>5, Recursion
<1>7. /\ g \in [0 .. N -> UNION {S[k] : k \in 0 .. N}] /\ g[0] = none
      /\ \A k \in 1 .. N : g[k] = Next1(k, g[k - 1])
  <2>1. /\ g \in [0 .. N -> UNION {S[k] : k \in 0 .. N}] /\ g[0] = none
        /\ \A k \in 0 .. N : g[k] \in S[k]
        /\ \A k \in 1 .. N : g[k] = steps[k][g[k - 1]]
    BY <1>6 DEF Follows
  <2>2. \A k \in 0 .. N : g[k] \in Seq(H)
    BY <1>4, <2>1
  <2>. QED
    BY <1>4, <2>1, <2>2
<1>8. g = [k \in 0 .. N |-> IF k = 0 THEN none ELSE Next1(k, g[k - 1])]
  BY <1>7
<1> DEFINE Is(f) == f = [k \in 0 .. N |-> IF k = 0 THEN none ELSE Next1(k, f[k - 1])]
           B == CHOOSE f : Is(f)
<1>9. B = [k \in 0 .. N |-> IF k = 0 THEN none ELSE Next1(k, B[k - 1])]
  <2>1. Is(g)
    BY <1>8
  <2> HIDE DEF Is
  <2>2. Is(B)
    BY <2>1
  <2>. QED
    BY <2>2 DEF Is
<1>10. LatexHeadings(ls, text) = B[N]
  BY DEF LatexHeadings, B, N, none, Next1
<1> HIDE DEF B
<1>11. Agrees(B, steps, N, S, none)
  <2>1. B[0] = none
    BY <1>1, <1>9
  <2>2. ASSUME NEW k \in 1 .. N, B[k - 1] \in S[k - 1] PROVE B[k] = steps[k][B[k - 1]]
    <3>1. B[k] = Next1(k, B[k - 1])
      BY <1>1, <1>9
    <3>2. B[k - 1] \in Seq(H)
      BY <1>4, <2>2
    <3>. QED
      BY <1>4, <2>2, <3>1, <3>2
  <2>. QED
    BY <2>1, <2>2 DEF Agrees
<1>12. B[N] \in Seq(H)
  BY <1>4, <1>5, <1>11, Stays
<1>13. Len(B[N]) \in Nat /\ \A k \in 1 .. Len(B[N]) : B[N][k] \in H
  BY <1>12, LenProperties, ElementOfSeq
<1>. QED
  BY <1>3, <1>10, <1>13 DEF Begin

\* Headings of a document of N pages.
Stand(hs, N) == Begin(hs) /\ \A k \in 1 .. Len(hs) : hs[k].page \in 1 .. N

\* _outline_headings and _font_headings.
LEMMA PdfHeadingsStand ==
    ASSUME NEW pdf, Pdf!IsPdf(pdf), \A o \in ToSet(pdf.outline) : o.title \in DOMAIN Base,
           NEW text, Len(text) \in Nat,
           \A i \in 1 .. Len(text) : /\ text[i].word \in DOMAIN Base
                                    /\ text[i].page \in 1 .. Len(pdf.pages)
    PROVE  Stand(Pdf!Headings(pdf, text), Len(pdf.pages))
<1> DEFINE n == Len(text)
           m == Len(pdf.pages)
<1>1. Stand(Pdf!OutlineHeadings(pdf, text), m)
  <2> DEFINE N == Len(pdf.outline)
             Top1(q) == 1 + Pdf!Cardinality({i \in 1 .. n : text[i].page < q})
             At(o) == {i \in 1 .. n : text[i].page = o.page /\ text[i].word = o.title}
             Heading(o) ==
                 [title |-> o.title, level |-> o.level, page |-> o.page,
                  start |-> IF At(o) = {} THEN Top1(o.page) ELSE Pdf!Min(At(o)),
                  origin |-> "pdf_outline"]
             On == {k \in 1 .. N : pdf.outline[k].page \in DOMAIN pdf.pages}
             S == {Heading(pdf.outline[k]) : k \in On}
             ss == [k \in 1 .. N |-> IF pdf.outline[k].page \in DOMAIN pdf.pages
                                     THEN <<Heading(pdf.outline[k])>> ELSE <<>>]
  <2>1. \A q : Top1(q) \in Nat \ {0}
    <3> SUFFICES ASSUME NEW q PROVE Top1(q) \in Nat \ {0}
      OBVIOUS
    <3> DEFINE A == {i \in 1 .. n : text[i].page < q}
    <3>1. A \in SUBSET (1 .. n) /\ IsFiniteSet(1 .. n)
      BY FS_Interval
    <3>2. Top1(q) = 1 + Cardinality(A)
      BY SameWords
    <3> HIDE DEF A
    <3>3. IsFiniteSet(A)
      BY <3>1, FS_Subset
    <3>4. Cardinality(A) \in Nat
      BY <3>3, FS_CardinalityType
    <3>. QED
      BY <3>2, <3>4
  <2>2. \A o : At(o) # {} => Pdf!Min(At(o)) \in Nat \ {0}
    <3> SUFFICES ASSUME NEW o, At(o) # {} PROVE Pdf!Min(At(o)) \in Nat \ {0}
      OBVIOUS
    <3> DEFINE A == At(o)
    <3>1. A \in SUBSET Nat /\ A # {} /\ 0 \notin A
      OBVIOUS
    <3>2. Pdf!Min(A) = Min(A)
      BY SameWords
    <3> HIDE DEF A
    <3>3. Min(A) \in A
      BY <3>1, MinIs
    <3>4. Min(A) \in Nat \ {0}
      BY <3>1, <3>3
    <3>. QED
      BY <3>2, <3>4 DEF A
  <2> HIDE DEF Top1, At
  <2>3. \A o : /\ Heading(o).start \in Nat \ {0} /\ Heading(o).title = o.title
               /\ Heading(o).page = o.page
    BY <2>1, <2>2
  <2>9. N \in Nat /\ \A k \in On : /\ pdf.outline[k].title \in DOMAIN Base
                                  /\ pdf.outline[k].page \in 1 .. m
    <3>1. N \in Nat /\ DOMAIN pdf.pages = 1 .. m /\ DOMAIN pdf.outline = 1 .. N
      BY DEF Pdf!IsPdf
    <3>2. \A k \in 1 .. N : pdf.outline[k] \in ToSet(pdf.outline)
      BY <3>1 DEF ToSet
    <3>. QED
      BY <3>1, <3>2
  <2> HIDE DEF Heading
  <2>4. \A h \in S : h.start \in Nat \ {0} /\ h.title \in DOMAIN Base /\ h.page \in 1 .. m
    BY <2>3, <2>9
  <2>5. ss \in [1 .. N -> Seq(S)]
    <3>1. ASSUME NEW k \in 1 .. N PROVE ss[k] \in Seq(S)
      <4>1. CASE pdf.outline[k].page \in DOMAIN pdf.pages
        <5>1. Heading(pdf.outline[k]) \in S
          BY <4>1
        <5> HIDE DEF S
        <5>2. <<Heading(pdf.outline[k])>> \in Seq(S)
          BY <5>1
        <5>. QED
          BY <4>1, <5>2
      <4>2. CASE pdf.outline[k].page \notin DOMAIN pdf.pages
        <5>1. <<>> \in Seq(S)
          OBVIOUS
        <5> HIDE DEF S
        <5>. QED
          BY <4>2, <5>1
      <4>. QED
        BY <4>1, <4>2
    <3> HIDE DEF S
    <3>. QED
      BY <3>1
  <2>6. Pdf!OutlineHeadings(pdf, text) = FlattenSeq(ss)
    <3>1. Pdf!OutlineHeadings(pdf, text) = Pdf!FlattenSeq(ss)
      BY DEF Pdf!OutlineHeadings, Heading, At, Top1
    <3>. QED
      BY <3>1, SameWords
  <2> DEFINE hs == FlattenSeq(ss)
  <2>7. hs \in Seq(S)
    <3> HIDE DEF ss, S
    <3>. QED
      BY <2>5, FlattenIs
  <2> HIDE DEF hs, S
  <2>8. Len(hs) \in Nat /\ \A k \in 1 .. Len(hs) : hs[k] \in S
    BY <2>7, LenProperties, ElementOfSeq
  <2>. QED
    BY <2>4, <2>6, <2>8 DEF Stand, Begin, hs
<1>2. Stand(Pdf!FontHeadings(text), m)
  <2> DEFINE body == Pdf!MedianSizeTwice(text)
             IsLarge(i) == /\ 200 * text[i].block.size >= 118 * body
                           /\ ~Pdf!IsRunningHeader(text, i)
             Heading(i) == [title |-> text[i].word, level |-> 1, page |-> text[i].page,
                            start |-> i, origin |-> "pdf_heading"]
             S == {Heading(i) : i \in 1 .. n}
             ss == [i \in 1 .. n |-> IF IsLarge(i) THEN <<Heading(i)>> ELSE <<>>]
  <2>1. \A h \in S : h.start \in Nat \ {0} /\ h.title \in DOMAIN Base /\ h.page \in 1 .. m
    OBVIOUS
  <2>2. Pdf!FontHeadings(text) = FlattenSeq(ss)
    <3>1. Pdf!FontHeadings(text) = Pdf!FlattenSeq(ss)
      BY DEF Pdf!FontHeadings
    <3>. QED
      BY <3>1, SameWords
  <2> HIDE DEF IsLarge
  <2>3. ss \in [1 .. n -> Seq(S)]
    <3>1. ASSUME NEW k \in 1 .. n PROVE ss[k] \in Seq(S)
      <4>1. Heading(k) \in S
        OBVIOUS
      <4> HIDE DEF S, Heading
      <4>2. <<Heading(k)>> \in Seq(S) /\ <<>> \in Seq(S)
        BY <4>1
      <4>. QED
        BY <4>2
    <3> HIDE DEF S
    <3>. QED
      BY <3>1
  <2> DEFINE hs == FlattenSeq(ss)
  <2>4. hs \in Seq(S)
    <3> HIDE DEF ss, S
    <3>. QED
      BY <2>3, FlattenIs
  <2> HIDE DEF hs, S
  <2>5. Len(hs) \in Nat /\ \A k \in 1 .. Len(hs) : hs[k] \in S
    BY <2>4, LenProperties, ElementOfSeq
  <2>. QED
    BY <2>1, <2>2, <2>5 DEF Stand, Begin, hs
<1>. QED
  BY <1>1, <1>2 DEF Pdf!Headings

-----------------------------------------------------------------------------
(* The document and its chunks                                             *)

LinesFit == lines \in Seq(FileLine) /\ \A i \in 1 .. Len(lines) : Readable(lines[i])

\* What is extracted has a length everywhere, and headings at places of its own.
DocFits ==
    /\ DOMAIN doc = {"text", "headings", "quality"}
    /\ pc = "convert" => source.kind = "latex"
    /\ pc = "headings" => source.kind = "pdf"
    /\ pc \in {"headings", "detect", "chunk", "plan", "done"} => Legible(doc.text)
    /\ pc \in {"detect", "chunk", "plan", "done"} =>
         /\ HeadingsFit(doc) /\ source.kind \in {"latex", "pdf"}
         /\ source.kind = "pdf" => Stand(doc.headings, Len(source.pdf.pages))
    /\ source.kind = "pdf" /\ pc \in {"headings", "detect", "chunk", "plan", "done"} =>
         source.pdf.readable = "yes" /\ doc.text = Pdf!Text(source.pdf)

\* A chunk of one of the sections.
IsCut(d, secs, c) ==
    /\ \E k \in 1 .. Len(secs) :
         /\ c.start \in secs[k].start .. c.content
         /\ c.content < c.end /\ c.end <= secs[k].end
         /\ c.section = secs[k].id
         /\ c.pages = PageRange(d, c.start, c.end, secs[k].pages)
    /\ c.content \in Nat /\ c.end \in Nat
    /\ EstimateTokens(d, c.start, c.end) <= Budget
    /\ EstimateTokens(d, c.start, c.content) <= OverlapTokens

Cursor == [section : Nat, start : Nat, sequence : Nat]

\* The chunks cs have cut the text up to the place cur.
CutUpTo(d, secs, cs, cur) ==
    /\ cs \in Seq(ToSet(cs)) /\ cur \in Cursor
    /\ \A i \in 1 .. Len(cs) :
         IsCut(d, secs, cs[i]) /\ cs[i].content = IF i = 1 THEN 1 ELSE cs[i - 1].end
    /\ cur.start = IF Len(cs) = 0 THEN 1 ELSE cs[Len(cs)].end
    /\ cur.section \in 1 .. Len(secs) + 1
    /\ cur.section <= Len(secs) =>
         cur.start \in secs[cur.section].start .. secs[cur.section].end
    /\ cur.section = Len(secs) + 1 => cur.start = Length(d) + 1

CutsFit ==
    /\ pc \notin {"chunk", "plan", "done"} =>
         chunks = <<>> /\ cursor = [section |-> 1, start |-> 1, sequence |-> 1]
    /\ pc \in {"chunk", "plan", "done"} =>
         /\ sections = Detect(doc)
         /\ Tiles(doc, sections) /\ CutUpTo(doc, sections, chunks, cursor)
    /\ pc \in {"plan", "done"} => cursor.section = Len(sections) + 1

WholeIInv == IInv /\ LinesFit /\ DocFits /\ CutsFit

\* The cutting begins at the beginning.
LEMMA FirstCut ==
    ASSUME NEW d, NEW secs, Tiles(d, secs), NEW cur,
           cur = [section |-> 1, start |-> 1, sequence |-> 1]
    PROVE  /\ CutUpTo(d, secs, <<>>, cur)
           /\ [cur EXCEPT !.start = secs[1].start] = cur
<1>1. Len(secs) \in Nat \ {0} /\ secs[1].start = 1 /\ secs[1].end \in Nat /\ 1 <= secs[1].end
  <2>1. 1 \in 1 .. Len(secs)
    BY DEF Tiles
  <2>. QED
    BY <2>1 DEF Tiles, Places
<1>2. Len(<<>>) = 0 /\ ToSet(<<>>) = {} /\ <<>> \in Seq({})
  BY DEF ToSet
<1>3. cur \in Cursor /\ cur.section = 1 /\ cur.start = 1
  BY DEF Cursor
<1>. QED
  BY <1>1, <1>2, <1>3 DEF CutUpTo

\* With each chunk the cutting goes on.
LEMMA CutOnce ==
    ASSUME NEW d, Legible(d.text), NEW secs, Tiles(d, secs), NEW cs, NEW cur,
           CutUpTo(d, secs, cs, cur), cur.section <= Len(secs),
           cur.start < secs[cur.section].end
    PROVE  LET c == NextChunk(d, secs[cur.section], cur.start, cur.sequence) IN
           /\ CutUpTo(d, secs, Append(cs, c), [cur EXCEPT !.start = c.end, !.sequence = @ + 1])
           /\ cur.start < c.end
<1> DEFINE s == secs[cur.section]
           c == NextChunk(d, s, cur.start, cur.sequence)
           next == [cur EXCEPT !.start = c.end, !.sequence = @ + 1]
           more == Append(cs, c)
           S == ToSet(cs) \cup {c}
           n == Len(cs)
<1>1. /\ cur \in Cursor /\ cur.section \in 1 .. Len(secs) /\ Len(secs) \in Nat
      /\ cur.start \in s.start .. s.end - 1 /\ s.start \in Places(d) /\ s.end \in Places(d)
      /\ s.start \in Nat /\ s.end \in Nat
  <2>1. cur \in Cursor /\ cur.section \in 1 .. Len(secs) /\ Len(secs) \in Nat
    BY DEF CutUpTo, Tiles
  <2>2. s.start \in Places(d) /\ s.end \in Places(d) /\ cur.start \in s.start .. s.end
    BY <2>1 DEF CutUpTo, Tiles
  <2>3. s.start \in Nat /\ s.end \in Nat
    BY <2>2 DEF Places
  <2> HIDE DEF s
  <2>4. cur.start < s.end
    BY DEF s
  <2>. QED
    BY <2>1, <2>2, <2>3, <2>4
<1> HIDE DEF s
<1>2. /\ c.content = cur.start
      /\ c.start \in s.start .. cur.start /\ c.end \in cur.start + 1 .. s.end
      /\ EstimateTokens(d, c.start, c.end) <= Budget
      /\ EstimateTokens(d, c.start, c.content) <= OverlapTokens
      /\ c.section = s.id /\ c.pages = PageRange(d, c.start, c.end, s.pages)
  BY <1>1, ChunkFits
<1> HIDE DEF c
<1>3. cur.start \in Nat /\ c.end \in Nat /\ cur.start < c.end /\ c.end <= s.end
  BY <1>1, <1>2
<1>4. IsCut(d, secs, c)
  <2>1. c.start \in secs[cur.section].start .. c.content
    BY <1>2 DEF s
  <2>2. c.content < c.end /\ c.end <= secs[cur.section].end
    BY <1>2, <1>3 DEF s
  <2>3. c.section = secs[cur.section].id
        /\ c.pages = PageRange(d, c.start, c.end, secs[cur.section].pages)
    BY <1>2 DEF s
  <2>. QED
    <3>1. cur.section \in 1 .. Len(secs) /\ c.content \in Nat /\ c.end \in Nat
      BY <1>1, <1>2, <1>3
    <3>. QED
      BY <1>2, <2>1, <2>2, <2>3, <3>1 DEF IsCut
<1>5. /\ more \in Seq(S) /\ Len(more) = n + 1 /\ n \in Nat /\ more[n + 1] = c
      /\ \A i \in 1 .. n : more[i] = cs[i]
  <2>1. cs \in Seq(ToSet(cs))
    BY DEF CutUpTo
  <2>2. cs \in Seq(S)
    BY <2>1, SeqMonotonic
  <2>3. c \in S
    OBVIOUS
  <2> HIDE DEF S
  <2>. QED
    BY <2>2, <2>3, AppendProperties, LenProperties
<1>6. ToSet(more) = S
  <2>1. DOMAIN more = 1 .. n + 1 /\ DOMAIN cs = 1 .. n
    <3>1. cs \in Seq(ToSet(cs))
      BY DEF CutUpTo
    <3>2. DOMAIN cs = 1 .. n
      BY <3>1, LenProperties
    <3> HIDE DEF more, S, n
    <3>3. DOMAIN more = 1 .. Len(more)
      BY <1>5, LenProperties
    <3>. QED
      BY <1>5, <3>2, <3>3
  <2> HIDE DEF more, n
  <2>2. \A i \in 1 .. n + 1 : i \in 1 .. n \/ i = n + 1
    BY <1>5
  <2>3. \A i \in 1 .. n : i \in 1 .. n + 1
    BY <1>5
  <2>4. n + 1 \in 1 .. n + 1
    BY <1>5
  <2>5. ToSet(more) = {more[i] : i \in 1 .. n + 1} /\ ToSet(cs) = {cs[i] : i \in 1 .. n}
    BY <2>1 DEF ToSet
  <2>6. {more[i] : i \in 1 .. n + 1} \subseteq {cs[i] : i \in 1 .. n} \cup {c}
    BY <1>5, <2>2
  <2>7. {cs[i] : i \in 1 .. n} \cup {c} \subseteq {more[i] : i \in 1 .. n + 1}
    BY <1>5, <2>3, <2>4
  <2>. QED
    BY <2>5, <2>6, <2>7
<1> HIDE DEF more
<1>7. next \in Cursor /\ next.section = cur.section /\ next.start = c.end
  <2>1. cur \in [section : Nat, start : Nat, sequence : Nat]
    BY <1>1 DEF Cursor
  <2>2. cur.sequence + 1 \in Nat
    BY <2>1
  <2> DEFINE e == c.end
             q == cur.sequence + 1
  <2>3. e \in Nat /\ q \in Nat
    BY <1>3, <2>2
  <2> HIDE DEF e, q
  <2>4. [cur EXCEPT !.start = e, !.sequence = q] \in [section : Nat, start : Nat, sequence : Nat]
    BY <2>1, <2>3
  <2>5. /\ [cur EXCEPT !.start = e, !.sequence = q].section = cur.section
        /\ [cur EXCEPT !.start = e, !.sequence = q].start = e
    BY <2>1
  <2>. QED
    BY <2>4, <2>5 DEF Cursor, e, q
<1> HIDE DEF next, S, n
<1>8. ASSUME NEW i \in 1 .. n + 1
      PROVE  IsCut(d, secs, more[i]) /\ more[i].content = IF i = 1 THEN 1 ELSE more[i - 1].end
  <2>1. CASE i = n + 1
    <3>1. cur.start = IF n = 0 THEN 1 ELSE cs[n].end
      BY DEF CutUpTo, n
    <3>2. n # 0 => more[n] = cs[n] /\ i - 1 = n /\ i # 1
      BY <1>5, <2>1
    <3>3. n = 0 => i = 1
      BY <2>1
    <3>. QED
      BY <1>2, <1>4, <1>5, <2>1, <3>1, <3>2, <3>3
  <2>2. CASE i # n + 1
    <3>1. i \in 1 .. n
      BY <1>5, <2>2
    <3>2. IsCut(d, secs, cs[i]) /\ cs[i].content = IF i = 1 THEN 1 ELSE cs[i - 1].end
      BY <3>1 DEF CutUpTo, n
    <3>3. i # 1 => i - 1 \in 1 .. n
      BY <1>5, <3>1
    <3>. QED
      BY <1>5, <3>1, <3>2, <3>3
  <2>. QED
    BY <2>1, <2>2
<1>9. CutUpTo(d, secs, more, next)
  <2>1. more \in Seq(ToSet(more))
    BY <1>5, <1>6
  <2>2. next.start = IF Len(more) = 0 THEN 1 ELSE more[Len(more)].end
    BY <1>5, <1>7
  <2>3. next.section \in 1 .. Len(secs) + 1 /\ next.section # Len(secs) + 1
    BY <1>1, <1>7
  <2>4. next.start \in secs[next.section].start .. secs[next.section].end
    BY <1>1, <1>3, <1>7 DEF s
  <2>. QED
    BY <1>5, <1>7, <1>8, <2>1, <2>2, <2>3, <2>4 DEF CutUpTo
<1>. QED
  BY <1>3, <1>9 DEF more, next, c, s

\* At the end of a section it goes on with the next one.
LEMMA CutNextSection ==
    ASSUME NEW d, Legible(d.text), NEW secs, Tiles(d, secs), NEW cs, NEW cur,
           CutUpTo(d, secs, cs, cur), cur.section <= Len(secs),
           ~(cur.start < secs[cur.section].end)
    PROVE  /\ CutUpTo(d, secs, cs, [section |-> cur.section + 1,
                                    start |-> secs[cur.section].end, sequence |-> 1])
           /\ cur.section \in Nat
<1> DEFINE k == cur.section
           next == [section |-> k + 1, start |-> secs[k].end, sequence |-> 1]
<1>1. k \in 1 .. Len(secs) /\ Len(secs) \in Nat
  BY DEF CutUpTo, Tiles
<1>2. cur.start = secs[k].end /\ secs[k].end \in Nat
  BY <1>1 DEF CutUpTo, Tiles, Places
<1>3. next \in Cursor /\ next.section = k + 1 /\ next.start = cur.start
  BY <1>1, <1>2 DEF Cursor
<1>4. k + 1 \in 1 .. Len(secs) + 1
  BY <1>1
<1>5. CASE k = Len(secs)
  <2>1. cur.start = Length(d) + 1 /\ ~(k + 1 <= Len(secs))
    BY <1>1, <1>2, <1>5 DEF Tiles
  <2> HIDE DEF next, k
  <2>. QED
    BY <1>1, <1>3, <1>4, <2>1 DEF CutUpTo, next, k
<1>6. CASE k # Len(secs)
  <2> DEFINE m == k + 1
  <2>1. m \in 1 .. Len(secs) /\ k \in 1 .. Len(secs) - 1 /\ m # Len(secs) + 1
    BY <1>1, <1>6
  <2>2. secs[k].end = secs[m].start /\ secs[m].start <= secs[m].end
        /\ secs[m].start \in Nat /\ secs[m].end \in Nat
    BY <2>1 DEF Tiles, Places
  <2>3. cur.start \in secs[m].start .. secs[m].end
    BY <1>2, <2>2
  <2>4. next.section = m
    BY <1>3
  <2> HIDE DEF next, m
  <2>5. CutUpTo(d, secs, cs, next)
    BY <1>3, <2>1, <2>3, <2>4 DEF CutUpTo
  <2>. QED
    BY <1>1, <2>5 DEF next, k
<1>. QED
  BY <1>5, <1>6

\* The lines of a file can be read.
LEMMA ReadableLines ==
    ASSUME source \in Sources, source.kind = "latex", NEW f \in File,
           NEW k \in 1 .. Len(Directives(p, f))
    PROVE  Directives(p, f)[k] \in FileLine /\ Readable(Directives(p, f)[k])
<1> DEFINE line == Directives(p, f)[k]
<1>1. Directives(p, f) \in Seq(FileLine)
  BY ProjectOfSource
<1>2. line \in FileLine /\ line \in ToSet(Directives(p, f))
  <2>1. DOMAIN Directives(p, f) = 1 .. Len(Directives(p, f))
    BY <1>1, LenProperties
  <2>. QED
    BY <1>1, <2>1, ElementOfSeq DEF ToSet
<1>3. {line.arg} \cup ToSet(line.block) \subseteq DOMAIN Bytes
  <2> HIDE DEF line
  <2>. QED
    BY <1>2, SourcesAssumption DEF p
<1>4. Len(line.block) \in Nat /\ DOMAIN line.block = 1 .. Len(line.block)
  <2>1. line.block \in Seq(STRING)
    BY <1>2 DEF FileLine
  <2>. QED
    BY <2>1, LenProperties
<1> HIDE DEF line
<1>5. \A i \in 1 .. Len(line.block) : line.block[i] \in ToSet(line.block)
  BY <1>4 DEF ToSet
<1>. QED
  BY <1>2, <1>3, <1>4, <1>5 DEF Readable, line

\* What stands on a page can be read.
LEMMA PdfIsLegible ==
    ASSUME source \in Sources, source.kind = "pdf", source.pdf.readable = "yes"
    PROVE  /\ Pdf!IsPdf(source.pdf) /\ Legible(Pdf!Text(source.pdf))
           /\ \A i \in 1 .. Len(Pdf!Text(source.pdf)) :
                Pdf!Text(source.pdf)[i].page \in 1 .. Len(source.pdf.pages)
<1> DEFINE pages == source.pdf.pages
           text == Pdf!Text(source.pdf)
           S == UNION {PiecesOf(source.pdf, n) : n \in 1 .. Len(pages)}
<1>1. /\ Slack \in Nat /\ Pdf!IsPdf(source.pdf)
      /\ \A n \in 1 .. Len(pages) : \A b \in pages[n].blocks : b.word \in DOMAIN Bytes
  BY SourcesAssumption
<1>2. \A s \in S : s.word \in DOMAIN Bytes /\ s.page \in 1 .. Len(pages)
  <2>1. \A n : \A s \in PiecesOf(source.pdf, n) :
           s.page = n /\ \E b \in pages[n].blocks : s.word = b.word
    BY DEF PiecesOf, PieceOf
  <2>. QED
    BY <1>1, <2>1
<1>3. Lists(text, S)
  BY <1>1, TextLists
<1> HIDE DEF text, S
<1>4. Len(text) \in Nat /\ \A i \in 1 .. Len(text) : text[i] \in S
  <2>1. text \in Seq(S)
    BY <1>3 DEF Lists
  <2>. QED
    BY <2>1, LenProperties, ElementOfSeq
<1>5. Legible(text)
  BY <1>2, <1>4 DEF Legible
<1>. QED
  BY <1>1, <1>2, <1>4, <1>5 DEF text

-----------------------------------------------------------------------------
(* Every step keeps to it                                                  *)

LEMMA InitWhole == Init => WholeIInv
<1> SUFFICES ASSUME Init PROVE WholeIInv
  OBVIOUS
<1>1. IInv
  BY InitIInv
<1>2. LinesFit
  <2>1. lines = <<>> /\ <<>> \in Seq(FileLine) /\ Len(<<>>) = 0
    BY DEF Init
  <2>. QED
    BY <2>1 DEF LinesFit
<1>3. DocFits /\ CutsFit
  BY DEF Init, DocFits, CutsFit, NoDoc
<1>. QED
  BY <1>1, <1>2, <1>3 DEF WholeIInv

\* The expansion comes before it all.
LEMMA ExpandingKeepsWhole ==
    ASSUME WholeIInv, OpenLatex \/ Keep \/ Include \/ Return
    PROVE  LinesFit' /\ DocFits' /\ CutsFit'
<1>1. /\ pc = "open" /\ pc' \in {"open", "failed", "convert"} /\ UNCHANGED <<source, result>>
      /\ source.kind = "latex"
  BY AtTheTop
  DEF WholeIInv, OpenLatex, Keep, Include, Return, Expanding, Visit, Fail
<1>2. DocFits' /\ CutsFit'
  BY <1>1 DEF WholeIInv, DocFits, CutsFit, result
<1>3. CASE Keep
  <2>1. /\ Top.line \in 1 .. Len(Here) /\ Top.file \in File /\ Here = Directives(p, Top.file)
        /\ source \in Sources /\ lines' = Append(lines, Here[Top.line])
    BY <1>3, AtTheTop DEF Keep, WholeIInv, IInv, Expanding
  <2> DEFINE line == Here[Top.line]
  <2>2. line \in FileLine /\ Readable(line)
    BY <1>1, <2>1, ReadableLines
  <2> HIDE DEF line
  <2>3. lines \in Seq(FileLine) /\ \A i \in 1 .. Len(lines) : Readable(lines[i])
    BY DEF WholeIInv, LinesFit
  <2> DEFINE more == Append(lines, line)
  <2>4. /\ more \in Seq(FileLine) /\ Len(more) = Len(lines) + 1 /\ more[Len(lines) + 1] = line
        /\ Len(lines) \in Nat /\ \A i \in 1 .. Len(lines) : more[i] = lines[i]
    BY <2>2, <2>3, AppendProperties, LenProperties
  <2> HIDE DEF more
  <2>5. \A i \in 1 .. Len(more) : Readable(more[i])
    BY <2>2, <2>3, <2>4
  <2>6. lines' = more
    BY <2>1 DEF more, line
  <2>. QED
    BY <1>2, <2>4, <2>5, <2>6 DEF LinesFit
<1>4. CASE OpenLatex \/ Include \/ Return
  <2>1. UNCHANGED lines
    BY <1>4 DEF OpenLatex, Include, Return
  <2>. QED
    BY <1>2, <2>1 DEF WholeIInv, LinesFit
<1>. QED
  BY <1>3, <1>4

LEMMA ReadingKeepsWhole ==
    ASSUME WholeIInv, ConvertLatex \/ ExtractPdf \/ PdfHeadings
    PROVE  LinesFit' /\ DocFits' /\ CutsFit'
<1>1. /\ pc \in {"convert", "open", "headings"} /\ pc' \in {"failed", "headings", "detect"}
      /\ UNCHANGED <<source, lines, sections, chunks, cursor>>
  BY DEF ConvertLatex, ExtractPdf, PdfHeadings, Fail, expansion
<1>2. LinesFit' /\ CutsFit'
  BY <1>1 DEF WholeIInv, LinesFit, CutsFit
<1>3. source \in Sources
  BY DEF WholeIInv, IInv
<1>4. CASE ConvertLatex
  <2> DEFINE text == PlainText(lines)
             hs == LatexHeadings(lines, text)
  <2>1. Len(lines) \in Nat /\ \A i \in 1 .. Len(lines) : Readable(lines[i])
    BY DEF WholeIInv, LinesFit
  <2>2. Legible(text)
    BY <2>1, PlainTextIs
  <2> HIDE DEF text
  <2>3. Begin(hs)
    <3>1. \A i \in 1 .. Len(lines) : lines[i].arg \in DOMAIN Base
      BY <2>1, SourcesAssumption DEF Readable
    <3>. QED
      BY <2>1, <2>2, <3>1, LatexHeadingsBegin DEF Legible
  <2>4. doc' = [text |-> text, headings |-> hs, quality |-> "high"] /\ pc' = "detect"
        /\ source.kind = "latex"
    BY <1>4 DEF ConvertLatex, text, WholeIInv, DocFits
  <2> HIDE DEF hs
  <2>5. doc'.text = text /\ doc'.headings = hs
    BY <2>4
  <2>. QED
    BY <1>1, <1>2, <2>2, <2>3, <2>4, <2>5 DEF DocFits, HeadingsFit
<1>5. CASE ExtractPdf
  <2>1. CASE source.pdf.readable = "yes"
    <3>1. /\ source.kind = "pdf" /\ pc = "open" /\ pc' = "headings"
          /\ doc' = [doc EXCEPT !.text = Pdf!Text(source.pdf)]
      BY <1>5, <2>1 DEF ExtractPdf
    <3>2. Legible(Pdf!Text(source.pdf))
      BY <1>3, <2>1, <3>1, PdfIsLegible
    <3>3. DOMAIN doc = {"text", "headings", "quality"}
      BY DEF WholeIInv, DocFits
    <3> DEFINE text == Pdf!Text(source.pdf)
    <3>4. doc' = [doc EXCEPT !.text = text]
      BY <3>1
    <3> HIDE DEF text
    <3>5. doc'.text = text /\ DOMAIN doc' = DOMAIN doc
      BY <3>3, <3>4
    <3>6. Legible(doc'.text) /\ doc'.text = Pdf!Text(source.pdf)
      BY <3>2, <3>5 DEF text
    <3> HIDE DEF WholeIInv
    <3>7. DocFits'
      BY <1>1, <2>1, <3>1, <3>3, <3>5, <3>6 DEF DocFits
    <3>. QED
      BY <1>2, <3>7
  <2>2. CASE source.pdf.readable # "yes"
    <3>1. pc' = "failed" /\ UNCHANGED doc
      BY <1>5, <2>2 DEF ExtractPdf, Fail
    <3>. QED
      BY <1>1, <1>2, <3>1 DEF WholeIInv, DocFits
  <2>. QED
    BY <2>1, <2>2
<1>6. CASE PdfHeadings
  <2> DEFINE hs == Pdf!Headings(source.pdf, doc.text)
             q == Pdf!Quality(doc.text)
  <2>1. /\ pc = "headings" /\ pc' = "detect"
        /\ doc' = [doc EXCEPT !.headings = hs, !.quality = q]
    BY <1>6 DEF PdfHeadings
  <2>2. /\ source.kind = "pdf" /\ source.pdf.readable = "yes" /\ doc.text = Pdf!Text(source.pdf)
        /\ Legible(doc.text) /\ DOMAIN doc = {"text", "headings", "quality"}
    BY <2>1 DEF WholeIInv, DocFits
  <2>3. Stand(hs, Len(source.pdf.pages))
    <3> DEFINE text == doc.text
    <3>1. /\ Pdf!IsPdf(source.pdf) /\ Legible(text)
          /\ \A i \in 1 .. Len(text) : text[i].page \in 1 .. Len(source.pdf.pages)
      BY <1>3, <2>2, PdfIsLegible
    <3>2. /\ DOMAIN Bytes \subseteq DOMAIN Base
          /\ \A o \in ToSet(source.pdf.outline) : o.title \in DOMAIN Base
      BY <1>3, <2>2, SourcesAssumption
    <3> HIDE DEF text
    <3>3. /\ Len(text) \in Nat
          /\ \A i \in 1 .. Len(text) : /\ text[i].word \in DOMAIN Base
                                       /\ text[i].page \in 1 .. Len(source.pdf.pages)
      BY <3>1, <3>2 DEF Legible
    <3>4. Stand(Pdf!Headings(source.pdf, text), Len(source.pdf.pages))
      BY <3>1, <3>2, <3>3, PdfHeadingsStand
    <3>. QED
      BY <3>4 DEF text
  <2> HIDE DEF hs, q
  <2>4. doc'.text = doc.text /\ doc'.headings = hs /\ DOMAIN doc' = DOMAIN doc
    BY <2>1, <2>2
  <2>5. /\ HeadingsFit(doc') /\ Legible(doc'.text)
        /\ Stand(doc'.headings, Len(source.pdf.pages))
    BY <2>2, <2>3, <2>4 DEF HeadingsFit, Stand
  <2>6. DocFits'
    BY <1>1, <2>1, <2>2, <2>4, <2>5 DEF DocFits
  <2>. QED
    BY <1>2, <2>6
<1>. QED
  BY <1>4, <1>5, <1>6

\* The sections are found, and the cutting begins.
LEMMA DetectKeepsWhole ==
    ASSUME WholeIInv, DetectSections
    PROVE  LinesFit' /\ DocFits' /\ CutsFit'
<1>1. /\ pc = "detect" /\ pc' = "chunk" /\ sections' = Detect(doc)
      /\ UNCHANGED <<source, lines, doc, chunks>>
      /\ cursor' = [cursor EXCEPT !.start = sections'[1].start]
  BY DEF DetectSections, expansion
<1>2. LinesFit' /\ DocFits' /\ Legible(doc.text) /\ HeadingsFit(doc)
  BY <1>1 DEF WholeIInv, LinesFit, DocFits
<1>3. Tiles(doc, sections')
  BY <1>1, <1>2, DetectTiles
<1>4. chunks = <<>> /\ cursor = [section |-> 1, start |-> 1, sequence |-> 1]
  BY <1>1 DEF WholeIInv, CutsFit
<1>5. CutUpTo(doc, sections', <<>>, cursor) /\ cursor' = cursor
  BY <1>1, <1>3, <1>4, FirstCut
<1>. QED
  BY <1>1, <1>2, <1>3, <1>4, <1>5 DEF CutsFit

\* One chunk, or one section, further.
LEMMA ChunkKeepsWhole ==
    ASSUME WholeIInv, ChunkNext
    PROVE  LinesFit' /\ DocFits' /\ CutsFit'
<1> DEFINE s == sections[cursor.section]
           chunk == NextChunk(doc, s, cursor.start, cursor.sequence)
<1>1. /\ pc = "chunk" /\ cursor.section <= Len(sections)
      /\ UNCHANGED <<source, pc, lines, doc, sections>>
      /\ IF cursor.start < s.end
           THEN /\ chunks' = Append(chunks, chunk)
                /\ cursor' = [cursor EXCEPT !.start = chunk.end, !.sequence = @ + 1]
           ELSE /\ cursor' = [section |-> cursor.section + 1, start |-> s.end, sequence |-> 1]
                /\ UNCHANGED chunks
  BY DEF ChunkNext, expansion
<1>2. /\ LinesFit' /\ DocFits' /\ Legible(doc.text) /\ Tiles(doc, sections)
      /\ sections = Detect(doc) /\ CutUpTo(doc, sections, chunks, cursor)
  BY <1>1 DEF WholeIInv, LinesFit, DocFits, CutsFit
<1>3. CutUpTo(doc, sections, chunks', cursor')
  <2>1. CASE cursor.start < s.end
    <3> DEFINE next == [cursor EXCEPT !.start = chunk.end, !.sequence = @ + 1]
    <3>1. CutUpTo(doc, sections, Append(chunks, chunk), next)
      BY <1>1, <1>2, <2>1, CutOnce
    <3>2. chunks' = Append(chunks, chunk) /\ cursor' = next
      BY <1>1, <2>1
    <3> HIDE DEF chunk, next
    <3>. QED
      BY <3>1, <3>2
  <2>2. CASE ~(cursor.start < s.end)
    BY <1>1, <1>2, <2>2, CutNextSection
  <2>. QED
    BY <2>1, <2>2
<1>. QED
  BY <1>1, <1>2, <1>3 DEF CutsFit

\* What comes after the chunks leaves them.
LEMMA RestKeepsWhole ==
    ASSUME WholeIInv, FindForms \/ PlanBatches \/ UNCHANGED vars
    PROVE  LinesFit' /\ DocFits' /\ CutsFit'
<1>1. UNCHANGED <<source, lines, doc, sections, chunks, cursor>>
  BY DEF FindForms, PlanBatches, vars, expansion
<1>2. \/ pc = "chunk" /\ cursor.section > Len(sections) /\ pc' = "plan"
      \/ pc = "plan" /\ pc' = "done"
      \/ pc' = pc
  BY DEF FindForms, PlanBatches, vars
<1>3. pc \in {"chunk", "plan", "done"} =>
        Len(sections) \in Nat /\ cursor.section \in 1 .. Len(sections) + 1
  BY DEF WholeIInv, CutsFit, CutUpTo, Tiles
<1>4. pc = "chunk" /\ cursor.section > Len(sections) => cursor.section = Len(sections) + 1
  BY <1>3
<1>5. LinesFit'
  BY <1>1 DEF WholeIInv, LinesFit
<1>6. DocFits'
  BY <1>1, <1>2 DEF WholeIInv, DocFits
<1>7. CutsFit'
  BY <1>1, <1>2, <1>4 DEF WholeIInv, CutsFit
<1>. QED
  BY <1>5, <1>6, <1>7

LEMMA NextWhole == WholeIInv /\ [Next]_vars => WholeIInv'
<1> SUFFICES ASSUME WholeIInv, [Next]_vars PROVE WholeIInv'
  OBVIOUS
<1>1. IInv'
  BY NextIInv DEF WholeIInv
<1>2. CASE OpenLatex \/ Keep \/ Include \/ Return
  BY <1>1, <1>2, ExpandingKeepsWhole DEF WholeIInv
<1>3. CASE ConvertLatex \/ ExtractPdf \/ PdfHeadings
  BY <1>1, <1>3, ReadingKeepsWhole DEF WholeIInv
<1>4. CASE DetectSections
  BY <1>1, <1>4, DetectKeepsWhole DEF WholeIInv
<1>5. CASE ChunkNext
  BY <1>1, <1>5, ChunkKeepsWhole DEF WholeIInv
<1>6. CASE FindForms \/ PlanBatches \/ UNCHANGED vars
  BY <1>1, <1>6, RestKeepsWhole DEF WholeIInv
<1>. QED
  BY <1>2, <1>3, <1>4, <1>5, <1>6 DEF Next, Step, Stopped

\* The text of a PDF holds each block of each page once.
LEMMA BlocksAreRead ==
    ASSUME WholeIInv
    PROVE  EveryBlockIsRead
<1> SUFFICES ASSUME source.kind = "pdf", pc = "detect" PROVE EveryBlockIsRead
  BY DEF EveryBlockIsRead
<1> DEFINE pages == source.pdf.pages
           N == Len(pages)
           text == doc.text
           n == Len(text)
           S == UNION {PiecesOf(source.pdf, k) : k \in 1 .. N}
<1>1. source \in Sources /\ source.pdf.readable = "yes" /\ text = Pdf!Text(source.pdf)
  BY DEF WholeIInv, DocFits, IInv
<1>2. Slack \in Nat /\ Pdf!IsPdf(source.pdf)
  BY <1>1, SourcesAssumption
<1>3. Lists(text, S)
  BY <1>1, <1>2, TextLists
<1>4. \A s \in S : \E k \in 1 .. N : \E b \in pages[k].blocks : s = PieceOf(b, k)
  BY DEF PiecesOf
<1>5. \A k \in 1 .. N : \A b \in pages[k].blocks : PieceOf(b, k) \in S
  BY DEF PiecesOf
<1> HIDE DEF text, S, pages
<1>6. /\ n \in Nat /\ \A i \in 1 .. n : text[i] \in S
      /\ \A i, j \in 1 .. n : text[i] = text[j] => i = j
      /\ \A s \in S : \E i \in 1 .. n : text[i] = s
  <2>1. text \in Seq(S)
    BY <1>3 DEF Lists
  <2>2. n \in Nat /\ DOMAIN text = 1 .. n /\ \A i \in 1 .. n : text[i] \in S
    BY <2>1, LenProperties, ElementOfSeq
  <2>. QED
    BY <1>3, <2>2 DEF Lists, IsInjective, ToSet
<1>7. \A b, k : /\ PieceOf(b, k).page = k /\ PieceOf(b, k).block = b
                /\ PieceOf(b, k).word = b.word
  BY DEF PieceOf
<1> HIDE DEF n, N
<1>8. ASSUME NEW i \in 1 .. n
      PROVE  /\ text[i].page \in 1 .. N /\ text[i].block \in pages[text[i].page].blocks
             /\ text[i].word = text[i].block.word
             /\ text[i] = PieceOf(text[i].block, text[i].page)
  <2>1. PICK k \in 1 .. N : \E b \in pages[k].blocks : text[i] = PieceOf(b, k)
    BY <1>4, <1>6
  <2>2. PICK b \in pages[k].blocks : text[i] = PieceOf(b, k)
    BY <2>1
  <2>3. text[i].page = k /\ text[i].block = b /\ text[i].word = b.word
    BY <1>7, <2>2
  <2>. QED
    BY <2>2, <2>3
<1>9. ASSUME NEW k \in 1 .. N, NEW b \in pages[k].blocks
      PROVE  \E i \in 1 .. n : \A j \in 1 .. n : text[j].page = k /\ text[j].block = b <=> j = i
  <2>1. PICK i \in 1 .. n : text[i] = PieceOf(b, k)
    BY <1>5, <1>6
  <2>2. ASSUME NEW j \in 1 .. n PROVE text[j].page = k /\ text[j].block = b <=> j = i
    <3>1. CASE j = i
      BY <1>7, <2>1, <3>1
    <3>2. CASE text[j].page = k /\ text[j].block = b
      <4>1. text[j] = PieceOf(b, k)
        BY <1>8, <3>2
      <4>. QED
        BY <1>6, <2>1, <3>2, <4>1
    <3>. QED
      BY <3>1, <3>2
  <2>. QED
    BY <2>2
<1>. QED
  BY <1>8, <1>9 DEF EveryBlockIsRead, text, pages, n, N

LEMMA CutsAreWhole ==
    ASSUME WholeIInv
    PROVE  SectionsTile /\ ChunksRestoreTheText /\ ChunksKeepToBudget
<1>1. CASE pc \notin {"chunk", "plan", "done"}
  <2>1. chunks = <<>> /\ 1 .. Len(<<>>) = {}
    BY <1>1 DEF WholeIInv, CutsFit
  <2>. QED
    BY <1>1, <2>1 DEF SectionsTile, ChunksRestoreTheText, ChunksKeepToBudget
<1>2. CASE pc \in {"chunk", "plan", "done"}
  <2>1. Tiles(doc, sections) /\ CutUpTo(doc, sections, chunks, cursor)
    BY <1>2 DEF WholeIInv, CutsFit
  <2>2. SectionsTile
    BY <2>1 DEF SectionsTile, Tiles, Last
  <2>3. ChunksRestoreTheText
    <3>1. chunks \in Seq(ToSet(chunks))
      BY <2>1 DEF CutUpTo
    <3>2. chunks = <<>> <=> Len(chunks) = 0
      <4> HIDE DEF CutUpTo
      <4>1. chunks # <<>> => Len(chunks) \in Nat \ {0}
        BY <3>1, EmptySeq
      <4>2. chunks = <<>> => Len(chunks) = 0
        BY EmptySeq
      <4>. QED
        BY <4>1, <4>2
    <3>3. ASSUME NEW i \in 1 .. Len(chunks)
          PROVE  /\ chunks[i].content < chunks[i].end
                 /\ chunks[i].content = IF i = 1 THEN 1 ELSE chunks[i - 1].end
      BY <2>1 DEF CutUpTo, IsCut
    <3>4. pc = "done" => cursor.start = Length(doc) + 1
      <4>1. pc = "done" => cursor.section = Len(sections) + 1
        BY DEF WholeIInv, CutsFit
      <4>. QED
        BY <2>1, <4>1 DEF CutUpTo
    <3>5. cursor.start = IF Len(chunks) = 0 THEN 1 ELSE chunks[Len(chunks)].end
      BY <2>1 DEF CutUpTo
    <3>. QED
      BY <3>2, <3>3, <3>4, <3>5 DEF ChunksRestoreTheText, Last
  <2>4. ChunksKeepToBudget
    <3>1. OverlapTokens = Budget \div 10
      BY BudgetAssumption
    <3>2. ASSUME NEW i \in 1 .. Len(chunks)
          PROVE  LET c == chunks[i]
                     s == {t \in ToSet(sections) : t.start <= c.content /\ c.content < t.end}
                 IN /\ EstimateTokens(doc, c.start, c.end) <= Budget
                    /\ EstimateTokens(doc, c.start, c.content) <= Budget \div 10
                    /\ \E t \in s : t.start <= c.start /\ c.end <= t.end
      <4> DEFINE c == chunks[i]
      <4>1. IsCut(doc, sections, c)
        BY <2>1 DEF CutUpTo
      <4> HIDE DEF c
      <4>2. PICK k \in 1 .. Len(sections) :
               c.start \in sections[k].start .. c.content
               /\ c.content < c.end /\ c.end <= sections[k].end
        BY <4>1 DEF IsCut
      <4>3. /\ DOMAIN sections = 1 .. Len(sections)
            /\ sections[k].start \in Places(doc) /\ sections[k].end \in Places(doc)
        BY <2>1, <4>2 DEF Tiles
      <4> DEFINE t == sections[k]
      <4>4. t \in ToSet(sections)
        BY <4>2, <4>3 DEF ToSet
      <4>5. t.start \in Nat /\ t.end \in Nat /\ c.content \in Nat /\ c.end \in Nat
        BY <4>1, <4>3 DEF Places, IsCut
      <4>6. t.start <= c.content /\ c.content < t.end /\ t.start <= c.start /\ c.end <= t.end
        BY <4>2, <4>5
      <4>7. /\ EstimateTokens(doc, c.start, c.end) <= Budget
            /\ EstimateTokens(doc, c.start, c.content) <= Budget \div 10
        BY <3>1, <4>1 DEF IsCut
      <4> HIDE DEF t
      <4>. QED
        BY <4>4, <4>6, <4>7 DEF c
    <3>. QED
      BY <3>2 DEF ChunksKeepToBudget
  <2>. QED
    BY <2>2, <2>3, <2>4
<1>. QED
  BY <1>1, <1>2

\* The invariant of the document: sections that tile the text, and chunks that
\* have cut it up to the cursor, each within one section and the budget
\* (extract/sections.py, extract/chunking.py).
THEOREM CuttingKeepsToTheText == Spec => []WholeIInv
<1>1. Init => WholeIInv
  BY InitWhole
<1>2. WholeIInv /\ [Next]_vars => WholeIInv'
  BY NextWhole
<1>. QED
  BY <1>1, <1>2, PTL DEF Spec

\* Whatever the blocks, the headings and the lengths of the words: the sections
\* follow each other over the whole text, the chunks hold each piece of it once,
\* none is over its budget or leaves its section with its overlap, and each block
\* of a PDF is read exactly once.
THEOREM TextStaysWhole == Spec => []TextIsWhole
<1>1. WholeIInv => TextIsWhole
  BY BlocksAreRead, CutsAreWhole DEF TextIsWhole
<1>. QED
  BY <1>1, CuttingKeepsToTheText, PTL

-----------------------------------------------------------------------------
(* Every step goes forward                                                 *)

\* No file is called while it is being expanded.
Distinct(calls) ==
    \A i, j \in 1 .. Len(calls) : calls[i].file = calls[j].file => i = j

ForwardIInv == WholeIInv /\ (pc = "open" => Distinct(stack))

\* So there are no more calls than files.
LEMMA CallsAreFew ==
    ASSUME NEW calls \in Seq(Call), Distinct(calls)
    PROVE  Len(calls) \in Nat /\ Cardinality(File) \in Nat /\ Len(calls) <= Cardinality(File)
<1> DEFINE n == Len(calls)
           f == [i \in 1 .. n |-> calls[i].file]
           D == 1 .. n
<1>1. n \in Nat /\ \A i \in 1 .. n : calls[i].file \in File
  <2>1. n \in Nat /\ \A i \in 1 .. n : calls[i] \in Call
    BY LenProperties, ElementOfSeq
  <2>. QED
    BY <2>1 DEF Call
<1>2. IsFiniteSet(File) /\ Cardinality(File) \in Nat
  BY SourcesAssumption, FS_CardinalityType
<1>3. f \in Injection(D, File)
  BY <1>1 DEF Distinct, Injection, IsInjective
<1>4. Cardinality(D) = n
  <2>1. 1 \in Int /\ n \in Int
    BY <1>1
  <2>2. Cardinality(1 .. n) = IF 1 > n THEN 0 ELSE n - 1 + 1
    BY <2>1, FS_Interval
  <2>. QED
    BY <1>1, <2>2
<1> HIDE DEF f, D
<1>5. Cardinality(D) <= Cardinality(File)
  BY <1>2, <1>3, FS_Injection
<1>. QED
  BY <1>1, <1>2, <1>4, <1>5

\* The last call goes on, whatever is called from it, or is over.
LEMMA Ahead ==
    ASSUME NEW n \in 1 .. Cardinality(File), Cardinality(File) \in Nat,
           Len(stack) = n, Len(stack') \in Nat,
           \A k \in 1 .. n - 1 : k <= Len(stack') /\ stack'[k].line = stack[k].line,
           \/ n <= Len(stack') /\ stack[n].line < stack'[n].line
           \/ Len(stack') = n - 1 /\ stack[n].line < Infinity
    PROVE  Later(Position, Position')
<1> DEFINE C == Cardinality(File)
           f == Position
           g == Position'
<1>1. /\ f = [i \in 1 .. C |-> IF i <= Len(stack) THEN stack[i].line ELSE Infinity]
      /\ g = [i \in 1 .. C |-> IF i <= Len(stack') THEN stack'[i].line ELSE Infinity]
  BY DEF Position
<1> HIDE DEF f, g
<1>2. n \in DOMAIN f /\ n \in 1 .. C
  BY <1>1
<1>3. f[n] = stack[n].line /\ g[n] = IF n <= Len(stack') THEN stack'[n].line ELSE Infinity
  BY <1>1, <1>2
<1>4. f[n] < g[n]
  <2>1. CASE n <= Len(stack') /\ stack[n].line < stack'[n].line
    BY <1>3, <2>1
  <2>2. CASE Len(stack') = n - 1 /\ stack[n].line < Infinity
    <3>1. ~(n <= Len(stack'))
      BY <2>2
    <3>. QED
      BY <1>3, <2>2, <3>1
  <2>. QED
    BY <2>1, <2>2
<1>5. \A k \in 1 .. n - 1 : f[k] = g[k]
  <2> SUFFICES ASSUME NEW k \in 1 .. n - 1 PROVE f[k] = g[k]
    OBVIOUS
  <2>1. k \in 1 .. C /\ k <= Len(stack) /\ k <= Len(stack')
    OBVIOUS
  <2>. QED
    BY <1>1, <2>1
<1>. QED
  BY <1>2, <1>4, <1>5 DEF Later, f, g

\* What a step of the expansion does to the calls.
LEMMA StepOfCalls ==
    ASSUME ForwardIInv, stack # <<>>, Keep \/ Include \/ Return, pc' # "failed"
    PROVE  Later(Position, Position') /\ (pc' = "open" => Distinct(stack'))
<1> DEFINE n == Len(stack)
<1>1. IInv /\ Expanding /\ source \in Sources
  BY DEF ForwardIInv, WholeIInv, IInv, Keep, Include, Return
<1>2. /\ source.kind = "latex" /\ pc = "open" /\ stack \in Seq(Call) /\ n \in Nat \ {0}
      /\ Top = stack[n] /\ Top.file \in File /\ Top.line \in Nat \ {0}
      /\ Len(Here) \in Nat /\ Here = Directives(p, Top.file) /\ Distinct(stack)
      /\ StackFits(p, stack, ToSet(sourceFiles))
  BY <1>1, AtTheTop DEF ForwardIInv
<1>3. n <= Cardinality(File) /\ Cardinality(File) \in Nat
  BY <1>2, CallsAreFew
<1>4. CASE Return
  <2>1. stack' = Front(stack)
    BY <1>4 DEF Return
  <2>2. Len(stack') = n - 1 /\ \A k \in 1 .. n - 1 : stack'[k] = stack[k]
    BY <1>2, <2>1, FrontIs
  <2>3. stack[n].line < Infinity
    <3>1. CallFits(p, stack, ToSet(sourceFiles), n)
      BY <1>2 DEF StackFits
    <3>2. stack[n].line <= Len(Here) + 1
      BY <1>2, <3>1 DEF CallFits
    <3>3. Len(Here) + 1 < Infinity /\ Infinity \in Nat
      BY <1>1, <1>2, SourcesAssumption DEF p
    <3>. QED
      BY <1>2, <3>2, <3>3
  <2>4. n \in 1 .. Cardinality(File) /\ Len(stack') \in Nat
    BY <1>2, <1>3, <2>2
  <2>5. \A k \in 1 .. n - 1 : k <= Len(stack') /\ stack'[k].line = stack[k].line
    BY <1>2, <2>2
  <2>6. Later(Position, Position')
    BY <1>3, <2>2, <2>3, <2>4, <2>5, Ahead
  <2>7. Distinct(stack')
    <3>1. \A k \in 1 .. n - 1 : k \in 1 .. n
      BY <1>2
    <3>. QED
      BY <1>2, <2>2, <3>1 DEF Distinct
  <2>. QED
    BY <2>6, <2>7
<1>5. CASE Keep \/ Include
  <2>1. /\ Advanced \in Seq(Call) /\ Len(Advanced) = n
        /\ \A i \in 1 .. n - 1 : Advanced[i] = stack[i]
        /\ Advanced[n].file = Top.file /\ Advanced[n].line = Top.line + 1
    BY <1>1, <1>2, AdvancedIs DEF Expanding
  <2>2. Distinct(Advanced)
    <3>1. \A i \in 1 .. n : Advanced[i].file = stack[i].file
      BY <1>2, <2>1
    <3> HIDE DEF Advanced
    <3>. QED
      BY <1>2, <2>1, <3>1 DEF Distinct
  <2> HIDE DEF Advanced
  <2>3. \/ stack' = Advanced
        \/ \E f \in File : /\ stack' = Append(Advanced, [file |-> f, line |-> 1])
                           /\ ~\E i \in 1 .. n : Advanced[i].file = f
    <3>1. CASE Keep
      BY <3>1 DEF Keep
    <3>2. CASE Include
      <4> DEFINE child == Resolve(p, Top.file, Here[Top.line].arg)
      <4>1. IF child \in File THEN Visit(child, Advanced)
            ELSE Fail(ErrorOf(child)) /\ UNCHANGED <<stack, sourceFiles>>
        BY <3>2 DEF Include
      <4> HIDE DEF child
      <4>2. child \in File /\ Visit(child, Advanced)
        BY <4>1 DEF Fail
      <4>3. /\ ~\E i \in 1 .. Len(Advanced) : Advanced[i].file = child
            /\ stack' = Append(Advanced, [file |-> child, line |-> 1])
        BY <4>2 DEF Visit, Fail
      <4>. QED
        BY <2>1, <4>2, <4>3
    <3>. QED
      BY <1>5, <3>1, <3>2
  <2>4. /\ Len(stack') \in Nat /\ n <= Len(stack')
        /\ \A i \in 1 .. n : stack'[i] = Advanced[i]
        /\ Distinct(stack')
    <3>1. CASE stack' = Advanced
      BY <1>2, <2>1, <2>2, <3>1
    <3>2. CASE stack' # Advanced
      <4>1. PICK f \in File : /\ stack' = Append(Advanced, [file |-> f, line |-> 1])
                              /\ ~\E i \in 1 .. n : Advanced[i].file = f
        BY <2>3, <3>2
      <4> DEFINE call == [file |-> f, line |-> 1]
      <4>2. call \in Call /\ call.file = f
        BY DEF Call
      <4> HIDE DEF call
      <4>3. /\ Len(stack') = n + 1 /\ stack'[n + 1] = call
            /\ \A i \in 1 .. n : stack'[i] = Advanced[i]
        BY <1>2, <2>1, <4>1, <4>2, AppendProperties DEF call
      <4>4. Distinct(stack')
        <5> SUFFICES ASSUME NEW i \in 1 .. n + 1, NEW j \in 1 .. n + 1,
                            stack'[i].file = stack'[j].file
                     PROVE  i = j
          BY <4>3 DEF Distinct
        <5>1. \A k \in 1 .. n + 1 : k \in 1 .. n \/ k = n + 1
          BY <1>2
        <5>. QED
          BY <2>1, <2>2, <4>1, <4>2, <4>3, <5>1 DEF Distinct
      <4>. QED
        BY <1>2, <4>3, <4>4
    <3>. QED
      BY <3>1, <3>2
  <2>5. n \in 1 .. Cardinality(File)
    BY <1>2, <1>3
  <2>6. \A k \in 1 .. n - 1 : k <= Len(stack') /\ stack'[k].line = stack[k].line
    BY <1>2, <2>1, <2>4
  <2>7. stack[n].line < stack'[n].line
    BY <1>2, <2>1, <2>4
  <2>8. Later(Position, Position')
    BY <1>3, <2>4, <2>5, <2>6, <2>7, Ahead
  <2>. QED
    BY <2>4, <2>8
<1>. QED
  BY <1>4, <1>5

LEMMA InitForward == Init => ForwardIInv
<1> SUFFICES ASSUME Init PROVE ForwardIInv
  OBVIOUS
<1>1. WholeIInv /\ stack = <<>>
  BY InitWhole DEF Init
<1>. QED
  BY <1>1 DEF ForwardIInv, Distinct

LEMMA NextForward == ForwardIInv /\ [Next]_vars => ForwardIInv'
<1> SUFFICES ASSUME ForwardIInv, [Next]_vars PROVE ForwardIInv'
  OBVIOUS
<1>1. WholeIInv'
  BY NextWhole DEF ForwardIInv
<1> SUFFICES ASSUME pc' = "open" PROVE Distinct(stack')
  BY <1>1 DEF ForwardIInv
<1>2. CASE OpenLatex
  <2>1. stack' = Append(<<>>, [file |-> p.main, line |-> 1])
    BY <1>2 DEF OpenLatex, Visit, Fail
  <2>2. Append(<<>>, [file |-> p.main, line |-> 1]) = <<[file |-> p.main, line |-> 1]>>
    OBVIOUS
  <2>. QED
    BY <2>1, <2>2 DEF Distinct
<1>3. CASE Keep \/ Include \/ Return
  <2>1. stack # <<>>
    BY <1>3 DEF Keep, Include, Return, Expanding
  <2>. QED
    BY <1>3, <2>1, StepOfCalls
<1>4. CASE \/ ConvertLatex \/ ExtractPdf \/ PdfHeadings \/ DetectSections \/ ChunkNext
           \/ FindForms \/ PlanBatches
  BY <1>4
  DEF ConvertLatex, ExtractPdf, PdfHeadings, DetectSections, ChunkNext, FindForms,
      PlanBatches, Fail
<1>5. CASE UNCHANGED vars
  BY <1>5 DEF vars, ForwardIInv, Distinct
<1>. QED
  BY <1>2, <1>3, <1>4, <1>5 DEF Next, Step, Stopped

\* A chunk, or the end of a section, is further in the document.
LEMMA ChunkIsForward ==
    ASSUME WholeIInv, ChunkNext
    PROVE  Later(<<cursor.section, cursor.start>>, <<cursor'.section, cursor'.start>>)
<1> DEFINE s == sections[cursor.section]
           chunk == NextChunk(doc, s, cursor.start, cursor.sequence)
           f == <<cursor.section, cursor.start>>
           g == <<cursor'.section, cursor'.start>>
<1>1. /\ pc = "chunk" /\ cursor.section <= Len(sections)
      /\ IF cursor.start < s.end
           THEN cursor' = [cursor EXCEPT !.start = chunk.end, !.sequence = @ + 1]
           ELSE cursor' = [section |-> cursor.section + 1, start |-> s.end, sequence |-> 1]
  BY DEF ChunkNext
<1>2. /\ Legible(doc.text) /\ Tiles(doc, sections) /\ CutUpTo(doc, sections, chunks, cursor)
  BY <1>1 DEF WholeIInv, DocFits, CutsFit
<1>3. cursor \in [section : Nat, start : Nat, sequence : Nat]
  BY <1>2 DEF CutUpTo, Cursor
<1>4. /\ DOMAIN f = 1 .. 2 /\ f[1] = cursor.section /\ f[2] = cursor.start
      /\ g[1] = cursor'.section /\ g[2] = cursor'.start
  OBVIOUS
<1> HIDE DEF f, g
<1>5. CASE cursor.start < s.end
  <2>1. cursor.start < chunk.end
    BY <1>1, <1>2, <1>5, CutOnce
  <2>2. cursor'.section = cursor.section /\ cursor'.start = chunk.end
    <3> HIDE DEF chunk
    <3>. QED
      BY <1>1, <1>3, <1>5
  <2> HIDE DEF chunk
  <2>3. f[2] < g[2] /\ \A k \in 1 .. 2 - 1 : f[k] = g[k]
    BY <1>4, <2>1, <2>2
  <2>4. 2 \in DOMAIN f
    BY <1>4
  <2>. QED
    BY <2>3, <2>4 DEF Later, f, g
<1>6. CASE ~(cursor.start < s.end)
  <2>1. cursor'.section = cursor.section + 1 /\ cursor.section \in Nat
    BY <1>1, <1>3, <1>6
  <2>2. f[1] < g[1] /\ \A k \in 1 .. 1 - 1 : f[k] = g[k]
    BY <1>4, <2>1
  <2>3. 1 \in DOMAIN f
    BY <1>4
  <2>. QED
    BY <2>2, <2>3 DEF Later, f, g
<1>. QED
  BY <1>5, <1>6

\* Whatever the files include and wherever the cuts fall, every step of the
\* expansion and of the cutting is forward in the document: neither can go round
\* (LatexExtractor._expand_file, Chunker.chunk).
THEOREM AlwaysForward == Spec => OnlyForward
<1> DEFINE A == /\ stack # <<>> /\ pc' # "failed" => Later(Position, Position')
                /\ pc = "chunk" /\ pc' = "chunk" =>
                     Later(<<cursor.section, cursor.start>>, <<cursor'.section, cursor'.start>>)
<1>1. Init => ForwardIInv
  BY InitForward
<1>2. ForwardIInv /\ [Next]_vars => ForwardIInv'
  BY NextForward
<1>3. ForwardIInv /\ [Next]_vars => [A]_vars
  <2> SUFFICES ASSUME ForwardIInv, Next, ~UNCHANGED vars PROVE A
    OBVIOUS
  <2>1. WholeIInv
    BY DEF ForwardIInv
  <2>2. ASSUME stack # <<>>, pc' # "failed" PROVE Later(Position, Position')
    <3>1. source.kind = "latex" /\ pc \in {"open", "failed"}
      BY <2>1, <2>2 DEF WholeIInv, IInv, Traversal
    <3>2. Keep \/ Include \/ Return
      BY <2>2, <3>1
      DEF Next, Step, Stopped, OpenLatex, ConvertLatex, ExtractPdf, PdfHeadings,
          DetectSections, ChunkNext, FindForms, PlanBatches
    <3>. QED
      BY <2>2, <3>2, StepOfCalls
  <2>3. ASSUME pc = "chunk", pc' = "chunk"
        PROVE  Later(<<cursor.section, cursor.start>>, <<cursor'.section, cursor'.start>>)
    <3>1. ChunkNext
      BY <2>3
      DEF Next, Step, Stopped, OpenLatex, Keep, Include, Return, Expanding, ConvertLatex,
          ExtractPdf, PdfHeadings, DetectSections, FindForms, PlanBatches
    <3>. QED
      BY <2>1, <3>1, ChunkIsForward
  <2>. QED
    BY <2>2, <2>3
<1>4. OnlyForward <=> [][A]_vars
  BY DEF OnlyForward
<1>. QED
  BY <1>1, <1>2, <1>3, <1>4, PTL DEF Spec

-----------------------------------------------------------------------------
(* What is chosen from a sequence                                          *)

\* o is what the first k elements of s have of S, in their order.
Chosen(s, S, k, o) ==
    /\ \A i \in 1 .. k : s[i] \in S => s[i] \in ToSet(o)
    /\ Len(o) > 0 => \E i \in 1 .. k : s[i] \in S
    /\ \A i \in 1 .. k : s[i] \in S /\ (\A h \in 1 .. i - 1 : s[h] \notin S) =>
         Len(o) > 0 /\ o[1] = s[i]
    /\ \A i \in 1 .. k : s[i] \in S /\ (\A h \in i + 1 .. k : s[h] \notin S) =>
         Len(o) > 0 /\ o[Len(o)] = s[i]

LEMMA ChosenNext ==
    ASSUME NEW U, NEW s, NEW S, NEW k \in Nat \ {0}, NEW o \in Seq(U), Chosen(s, S, k - 1, o),
           s[k] \in S => s[k] \in U
    PROVE  LET next == IF s[k] \in S THEN Append(o, s[k]) ELSE o IN
           next \in Seq(U) /\ Chosen(s, S, k, next)
<1>1. /\ \A i \in 1 .. k : i \in 1 .. k - 1 \/ i = k
      /\ \A i \in 1 .. k - 1 : i \in 1 .. k
      /\ k \in 1 .. k
  OBVIOUS
<1>2. CASE s[k] \notin S
  <2>1. \A i \in 1 .. k - 1 : \A h \in i + 1 .. k - 1 : h \in i + 1 .. k
    OBVIOUS
  <2>. QED
    BY <1>1, <1>2, <2>1 DEF Chosen
<1>3. CASE s[k] \in S
  <2> DEFINE x == s[k]
             next == Append(o, x)
             n == Len(o)
  <2>1. x \in U /\ n \in Nat /\ DOMAIN o = 1 .. n
    BY <1>3, LenProperties
  <2> HIDE DEF x
  <2>2. /\ next \in Seq(U) /\ Len(next) = n + 1 /\ next[n + 1] = x
        /\ \A i \in 1 .. n : next[i] = o[i]
    BY <2>1, AppendProperties
  <2> HIDE DEF next, n
  <2>3. DOMAIN next = 1 .. n + 1
    BY <2>2, LenProperties
  <2>4. \A y \in ToSet(o) : y \in ToSet(next)
    <3>1. \A i \in 1 .. n : i \in 1 .. n + 1
      BY <2>1
    <3>. QED
      BY <2>1, <2>2, <2>3, <3>1 DEF ToSet
  <2>5. x \in ToSet(next)
    <3>1. n + 1 \in 1 .. n + 1
      BY <2>1
    <3>. QED
      BY <2>2, <2>3, <3>1 DEF ToSet
  <2>6. ASSUME NEW i \in 1 .. k, s[i] \in S, \A h \in 1 .. i - 1 : s[h] \notin S
        PROVE  next[1] = s[i]
    <3>1. CASE i \in 1 .. k - 1
      <4>1. n > 0 /\ o[1] = s[i]
        BY <2>6, <3>1 DEF Chosen, n
      <4>2. 1 \in 1 .. n
        BY <2>1, <4>1
      <4>. QED
        BY <2>2, <4>1, <4>2
    <3>2. CASE i = k
      <4>1. ~(n > 0)
        BY <2>6, <3>2 DEF Chosen, n
      <4>2. n + 1 = 1
        BY <2>1, <4>1
      <4>. QED
        BY <2>2, <3>2, <4>2 DEF x
    <3>. QED
      BY <1>1, <3>1, <3>2
  <2>7. ASSUME NEW i \in 1 .. k, \A h \in i + 1 .. k : s[h] \notin S
        PROVE  i = k
    <3>1. i # k => k \in i + 1 .. k
      OBVIOUS
    <3>. QED
      BY <1>3, <2>7, <3>1
  <2>8. /\ n + 1 > 0
        /\ \A i \in 1 .. k : s[i] \in S => s[i] \in ToSet(next)
    <3>1. \A i \in 1 .. k - 1 : s[i] \in S => s[i] \in ToSet(o)
      BY DEF Chosen
    <3>. QED
      BY <1>1, <2>1, <2>4, <2>5, <3>1 DEF x
  <2>9. Chosen(s, S, k, next)
    BY <1>1, <1>3, <2>2, <2>6, <2>7, <2>8 DEF Chosen, x
  <2>. QED
    BY <1>3, <2>2, <2>9 DEF next, x
<1>. QED
  BY <1>2, <1>3

LEMMA OnlyIs ==
    ASSUME NEW s, Len(s) \in Nat, NEW S, NEW U, \A i \in 1 .. Len(s) : s[i] \in S => s[i] \in U
    PROVE  Only(s, S) \in Seq(U) /\ Chosen(s, S, Len(s), Only(s, S))
<1> DEFINE N == Len(s)
           Next1(k, x) == IF s[k] \in S THEN Append(x, s[k]) ELSE x
           none == <<>>
           R == [k \in 0 .. N |-> {x \in Seq(U) : Chosen(s, S, k, x)}]
           steps == [k \in 1 .. N |-> [x \in R[k - 1] |-> Next1(k, x)]]
<1>1. N \in Nat
  OBVIOUS
<1>2. \A k \in 0 .. N : R[k] = {x \in Seq(U) : Chosen(s, S, k, x)}
  OBVIOUS
<1>3. \A k \in 1 .. N : k - 1 \in 0 .. N /\ k \in 0 .. N /\ k \in Nat \ {0}
  OBVIOUS
<1> HIDE DEF R
<1>4. \A k \in 1 .. N : \A x \in R[k - 1] : Next1(k, x) \in R[k]
  <2> SUFFICES ASSUME NEW k \in 1 .. N, NEW x \in R[k - 1] PROVE Next1(k, x) \in R[k]
    OBVIOUS
  <2>1. x \in Seq(U) /\ Chosen(s, S, k - 1, x)
    BY <1>2, <1>3
  <2>2. s[k] \in S => s[k] \in U
    OBVIOUS
  <2>3. Next1(k, x) \in Seq(U) /\ Chosen(s, S, k, Next1(k, x))
    BY <1>3, <2>1, <2>2, ChosenNext
  <2> HIDE DEF Next1
  <2>. QED
    BY <1>2, <1>3, <2>3
<1>5. none \in R[0] /\ 0 \in 0 .. N
  <2>1. 0 \in 0 .. N /\ none \in Seq(U) /\ Len(none) = 0
    BY <1>1
  <2>2. Chosen(s, S, 0, none)
    BY <2>1 DEF Chosen
  <2> HIDE DEF none, N
  <2>. QED
    BY <1>2, <2>1, <2>2
<1> HIDE DEF Next1
<1>6. \A k \in 1 .. N : \A x \in R[k - 1] : steps[k][x] = Next1(k, x)
  OBVIOUS
<1> HIDE DEF N, none, steps
<1>7. Leads(steps, N, R, none)
  BY <1>1, <1>4, <1>5, <1>6 DEF Leads
<1>8. PICK g : Follows(g, steps, N, R, none)
  BY <1>7, Recursion
<1>9. /\ g \in [0 .. N -> UNION {R[k] : k \in 0 .. N}] /\ g[0] = none
      /\ \A k \in 1 .. N : g[k] = Next1(k, g[k - 1])
  BY <1>3, <1>6, <1>8 DEF Follows
<1>10. g = [k \in 0 .. N |-> IF k = 0 THEN none ELSE Next1(k, g[k - 1])]
  BY <1>1, <1>9
<1> DEFINE Is(f) == f = [k \in 0 .. N |-> IF k = 0 THEN none ELSE Next1(k, f[k - 1])]
           B == CHOOSE f : Is(f)
<1>11. B = [k \in 0 .. N |-> IF k = 0 THEN none ELSE Next1(k, B[k - 1])]
  <2>1. Is(g)
    BY <1>10
  <2> HIDE DEF Is
  <2>2. Is(B)
    BY <2>1
  <2>. QED
    BY <2>2 DEF Is
<1>12. Only(s, S) = B[N]
  BY DEF Only, B, N, none, Next1
<1> HIDE DEF B
<1>13. Agrees(B, steps, N, R, none)
  <2>1. B[0] = none
    BY <1>1, <1>11
  <2>2. ASSUME NEW k \in 1 .. N, B[k - 1] \in R[k - 1] PROVE B[k] = steps[k][B[k - 1]]
    <3>1. B[k] = Next1(k, B[k - 1])
      BY <1>1, <1>11
    <3>. QED
      BY <1>6, <2>2, <3>1
  <2>. QED
    BY <2>1, <2>2 DEF Agrees
<1>14. B[N] \in R[N] /\ N \in 0 .. N
  BY <1>1, <1>7, <1>13, Stays
<1>. QED
  BY <1>2, <1>12, <1>14 DEF N

\* What is put together holds what its parts hold.
LEMMA FlattenHolds ==
    ASSUME NEW S, NEW N \in Nat, NEW ss \in [1 .. N -> Seq(S)],
           NEW i \in 1 .. N, NEW x \in ToSet(ss[i])
    PROVE  x \in ToSet(FlattenSeq(ss))
<1> DEFINE R == [k \in 0 .. N |-> {y \in Seq(S) : i <= k => x \in ToSet(y)}]
<1>1. \A k \in 0 .. N : R[k] = {y \in Seq(S) : i <= k => x \in ToSet(y)}
  OBVIOUS
<1>2. Len(ss) = N /\ (N = 0 => ss = <<>>) /\ N # 0 /\ \A k \in 1 .. N : ss[k] \in Seq(S)
  OBVIOUS
<1> HIDE DEF R
<1>3. ASSUME NEW k \in 2 .. N, NEW y \in R[k - 1] PROVE y \o ss[k] \in R[k]
  <2> DEFINE z == ss[k]
             c == y \o z
  <2>1. /\ k - 1 \in 0 .. N /\ k \in 0 .. N /\ k \in 1 .. N
        /\ y \in Seq(S) /\ z \in Seq(S) /\ (i <= k - 1 => x \in ToSet(y))
    <3>1. k - 1 \in 0 .. N /\ k \in 0 .. N /\ k \in 1 .. N
      OBVIOUS
    <3>. QED
      BY <1>1, <1>2, <1>3, <3>1
  <2> HIDE DEF z
  <2>2. /\ c \in Seq(S) /\ Len(c) = Len(y) + Len(z) /\ Len(y) \in Nat /\ Len(z) \in Nat
        /\ \A j \in 1 .. Len(y) + Len(z) : c[j] = IF j <= Len(y) THEN y[j] ELSE z[j - Len(y)]
        /\ DOMAIN y = 1 .. Len(y) /\ DOMAIN z = 1 .. Len(z)
    BY <2>1, ConcatProperties, LenProperties
  <2> HIDE DEF c
  <2>3. DOMAIN c = 1 .. Len(c)
    BY <2>2, LenProperties
  <2>4. CASE i <= k - 1
    <3>1. PICK j \in 1 .. Len(y) : y[j] = x
      BY <2>1, <2>2, <2>4 DEF ToSet
    <3>2. j \in 1 .. Len(c) /\ c[j] = x
      BY <2>2, <3>1
    <3>3. x \in ToSet(c)
      BY <2>3, <3>2 DEF ToSet
    <3>. QED
      BY <1>1, <2>1, <2>2, <3>3 DEF c, z
  <2>5. CASE i = k
    <3>1. PICK j \in 1 .. Len(z) : z[j] = x
      BY <2>2, <2>5 DEF ToSet, z
    <3> DEFINE m == Len(y) + j
    <3>2. m \in 1 .. Len(c) /\ ~(m <= Len(y)) /\ m - Len(y) = j
      BY <2>2, <3>1
    <3> HIDE DEF m
    <3>3. c[m] = x
      BY <2>2, <3>1, <3>2
    <3>4. x \in ToSet(c)
      BY <2>3, <3>2, <3>3 DEF ToSet
    <3>. QED
      BY <1>1, <2>1, <2>2, <3>4 DEF c, z
  <2>6. CASE ~(i <= k)
    BY <1>1, <2>1, <2>2, <2>6 DEF c, z
  <2>. QED
    BY <2>1, <2>4, <2>5, <2>6
<1>4. Grows(ss, R)
  <2>1. ss[1] \in R[1]
    <3>1. 1 \in 0 .. N /\ 1 \in 1 .. N
      BY <1>2
    <3>2. i <= 1 => i = 1
      OBVIOUS
    <3>. QED
      BY <1>1, <1>2, <3>1, <3>2
  <2>. QED
    BY <1>2, <1>3, <2>1 DEF Grows
<1>5. FlattenSeq(ss) \in R[N] /\ N \in 0 .. N
  BY <1>2, <1>4, FlattenStays
<1>. QED
  BY <1>1, <1>5

-----------------------------------------------------------------------------
(* The plan                                                                *)

PlanFits ==
    /\ pc \notin {"chunk", "plan", "done"} => sections = <<>>
    /\ pc \in {"plan", "done"} => service = Forms
    /\ pc = "done" => batches = [spec \in Specs |-> Plan(doc, sections, chunks, service, spec)]

PlanIInv == WholeIInv /\ PlanFits

LEMMA InitPlan == Init => PlanIInv
BY InitWhole DEF Init, PlanIInv, PlanFits

\* Forms are found, and batches planned, when everything else is there.
LEMMA NextPlan == PlanIInv /\ [Next]_vars => PlanIInv'
<1> SUFFICES ASSUME PlanIInv, [Next]_vars PROVE PlanIInv'
  OBVIOUS
<1>1. WholeIInv' /\ WholeIInv
  BY NextWhole DEF PlanIInv
<1>2. CASE FindForms
  <2>1. UNCHANGED <<source, sections>> /\ service' = Forms /\ pc' = "plan" /\ pc = "chunk"
    BY <1>2 DEF FindForms
  <2>2. Forms' = Forms
    BY <2>1 DEF Forms
  <2>. QED
    BY <1>1, <2>1, <2>2 DEF PlanIInv, PlanFits
<1>3. CASE PlanBatches
  <2>1. /\ UNCHANGED <<source, doc, sections, chunks, service>> /\ service = Forms /\ pc' = "done"
        /\ batches' = [spec \in Specs |-> Plan(doc, sections, chunks, service, spec)]
    BY <1>3 DEF PlanBatches, PlanIInv, PlanFits
  <2>2. Forms' = Forms
    BY <2>1 DEF Forms
  <2>. QED
    BY <1>1, <2>1, <2>2 DEF PlanIInv, PlanFits
<1>4. CASE UNCHANGED vars
  <2>1. UNCHANGED <<source, pc, doc, sections, chunks, service, batches>>
    BY <1>4 DEF vars, planned
  <2>2. Forms' = Forms
    BY <2>1 DEF Forms
  <2>. QED
    BY <1>1, <2>1, <2>2 DEF PlanIInv, PlanFits
<1>5. CASE \/ OpenLatex \/ Keep \/ Include \/ Return \/ ConvertLatex \/ ExtractPdf \/ PdfHeadings
  <2>1. pc \notin {"chunk", "plan", "done"} /\ pc' \notin {"plan", "done"} /\ UNCHANGED sections
    BY <1>1, <1>5 DEF OpenLatex, Keep, Include, Return, ConvertLatex, ExtractPdf,
       PdfHeadings, Visit, Fail, Expanding, result
  <2>. QED
    BY <1>1, <2>1 DEF PlanIInv, PlanFits
<1>6. CASE DetectSections \/ ChunkNext
  <2>1. pc' = "chunk"
    BY <1>6 DEF DetectSections, ChunkNext
  <2>. QED
    BY <1>1, <2>1 DEF PlanIInv, PlanFits
<1>. QED
  BY <1>2, <1>3, <1>4, <1>5, <1>6 DEF Next, Step, Stopped

-----------------------------------------------------------------------------
(* The sections and their pages                                            *)

\* s is the section of the i-th of the headings hs.
IsTitled(d, hs, s, i) ==
    /\ i \in 1 .. Len(hs)
    /\ s.id = SectionId(hs, i) /\ s.title = hs[i].title
    /\ s.pages = PageRange(d, s.start, s.end, <<hs[i].page, hs[i].page>>)

IsUntitled(hs, s) ==
    s.title = "document"
    /\ s.id = IF hs = <<>> THEN <<"document">> ELSE <<"document-preamble">>

\* SectionDetector.detect: m sections for text without a title, then one for each
\* heading.
Names(d, hs, secs, m) ==
    /\ m \in 0 .. 1 /\ Len(hs) \in Nat /\ Len(secs) = m + Len(hs)
    /\ Len(hs) = 0 => hs = <<>>
    /\ \A k \in 1 .. Len(hs) : hs[k] \in InText(d)
    /\ \A k \in 1 .. Len(secs) : \/ k <= m /\ IsUntitled(hs, secs[k])
                                 \/ k > m /\ IsTitled(d, hs, secs[k], k - m)

LEMMA DetectNames ==
    ASSUME NEW d, Legible(d.text), HeadingsFit(d)
    PROVE  \E m : Names(d, Deduplicate(d), Detect(d), m)
<1> DEFINE hs == Deduplicate(d)
           n == Len(hs)
           L == Length(d)
           End(i) == IF i < n THEN hs[i + 1].start ELSE L + 1
           Sec(i) == Section(d, SectionId(hs, i), hs[i].title, hs[i].start, End(i), hs[i].page)
           first == Section(d, <<"document-preamble">>, "document", 1, hs[1].start, NoPage)
           whole == Section(d, <<"document">>, "document", 1, L + 1, NoPage)
           body == [i \in 1 .. n |-> Sec(i)]
           before == IF hs[1].start > 1 THEN <<first>> ELSE <<>>
<1>1. /\ n \in Nat /\ (\A i \in 1 .. n : hs[i] \in InText(d)) /\ (n = 0 <=> hs = <<>>)
  <2>1. Deduplicate(d) \in Rising(d)
    BY DeduplicateRises
  <2>. QED
    BY <2>1, LenProperties, ElementOfSeq, EmptySeq DEF Rising
<1>2. \A i \in 1 .. n : IsTitled(d, hs, Sec(i), i)
  BY DEF IsTitled, Section
<1>3. hs = <<>> => IsUntitled(hs, whole)
  BY DEF IsUntitled, Section
<1>4. hs # <<>> => IsUntitled(hs, first)
  BY DEF IsUntitled, Section
<1>5. Detect(d) = IF hs = <<>> THEN <<whole>> ELSE before \o body
  BY DEF Detect
<1> HIDE DEF hs, L, Sec, first, whole
<1>6. CASE hs = <<>>
  <2>1. Detect(d) = <<whole>> /\ Len(<<whole>>) = 1 /\ <<whole>>[1] = whole /\ n = 0
    BY <1>1, <1>5, <1>6
  <2> DEFINE secs == Detect(d)
  <2>2. Len(secs) = 1 /\ secs[1] = whole
    BY <2>1
  <2> HIDE DEF secs, n
  <2>3. Names(d, hs, secs, 1)
    BY <1>1, <1>3, <1>6, <2>1, <2>2 DEF Names, n
  <2>. QED
    BY <2>3 DEF hs, secs
<1>7. CASE hs # <<>>
  <2> DEFINE S == {first} \cup {Sec(i) : i \in 1 .. n}
             m == Len(before)
             secs == before \o body
  <2>1. before \in Seq(S) /\ m \in 0 .. 1 /\ (m = 1 => before[1] = first)
    <3>1. <<first>> \in Seq(S) /\ Len(<<first>>) = 1 /\ <<first>>[1] = first
      OBVIOUS
    <3>2. <<>> \in Seq(S) /\ Len(<<>>) = 0
      OBVIOUS
    <3> HIDE DEF S
    <3>3. CASE hs[1].start > 1
      BY <3>1, <3>3
    <3>4. CASE ~(hs[1].start > 1)
      BY <3>2, <3>4
    <3>. QED
      BY <3>3, <3>4
  <2>2. body \in Seq(S) /\ Len(body) = n /\ \A i \in 1 .. n : body[i] = Sec(i)
    BY <1>1
  <2> HIDE DEF before, body, S
  <2>3. /\ Len(secs) = m + n
        /\ \A i \in 1 .. m + n : secs[i] = IF i <= m THEN before[i] ELSE body[i - m]
    <3>1. /\ Len(secs) = Len(before) + Len(body)
          /\ \A i \in 1 .. Len(before) + Len(body) :
               secs[i] = IF i <= Len(before) THEN before[i] ELSE body[i - Len(before)]
      BY <2>1, <2>2, ConcatProperties
    <3>. QED
      BY <2>2, <3>1
  <2>4. Detect(d) = secs
    BY <1>5, <1>7
  <2> HIDE DEF m, secs
  <2>5. ASSUME NEW k \in 1 .. m + n
        PROVE  \/ k <= m /\ IsUntitled(hs, secs[k])
               \/ k > m /\ IsTitled(d, hs, secs[k], k - m)
    <3>1. CASE k <= m
      <4>1. m = 1 /\ k = 1
        BY <2>1, <3>1
      <4>. QED
        BY <1>4, <1>7, <2>1, <2>3, <3>1, <4>1
    <3>2. CASE ~(k <= m)
      <4> DEFINE i == k - m
      <4>1. i \in 1 .. n /\ k > m
        BY <1>1, <2>1, <3>2
      <4> HIDE DEF i
      <4>2. secs[k] = Sec(i)
        BY <2>2, <2>3, <3>2, <4>1 DEF i
      <4>3. IsTitled(d, hs, secs[k], i)
        BY <1>2, <4>1, <4>2
      <4>. QED
        BY <4>1, <4>3 DEF i
    <3>. QED
      BY <3>1, <3>2
  <2>6. Names(d, hs, secs, m)
    BY <1>1, <2>1, <2>3, <2>5 DEF Names
  <2>. QED
    BY <2>4, <2>6 DEF hs
<1>. QED
  BY <1>6, <1>7

\* PageRange holds the pages of its pieces.
LEMMA PageRangeIs ==
    ASSUME NEW d, NEW start \in Nat, NEW end \in Nat, NEW default, NEW N \in Nat,
           \A i \in start .. end - 1 : d.text[i].page \in 0 .. N
    PROVE  LET r == PageRange(d, start, end, default) IN
           /\ r = default \/ r[1] \in 1 .. N
           /\ \A i \in start .. end - 1 : d.text[i].page # NoPage =>
                d.text[i].page \in r[1] .. r[2]
<1> DEFINE T == {d.text[i].page : i \in start .. end - 1} \ {NoPage}
           r == PageRange(d, start, end, default)
<1>1. r = IF T = {} THEN default ELSE <<Min(T), Max(T)>>
  BY DEF PageRange
<1>2. T \in SUBSET (0 .. N) /\ T \in SUBSET Nat /\ NoPage \notin T
  OBVIOUS
<1>3. \A i \in start .. end - 1 : d.text[i].page # NoPage => d.text[i].page \in T
  OBVIOUS
<1> HIDE DEF T, r
<1>4. CASE T = {}
  BY <1>1, <1>3, <1>4 DEF r
<1>5. CASE T # {}
  <2>1. Min(T) \in T /\ (\A k \in T : Min(T) <= k) /\ Max(T) \in T /\ \A k \in T : k <= Max(T)
    BY <1>2, <1>5, MinIs, MaxIs
  <2>2. r[1] = Min(T) /\ r[2] = Max(T)
    BY <1>1, <1>5
  <2>3. Min(T) \in 1 .. N
    <3> DEFINE a == Min(T)
    <3>1. a \in T
      BY <2>1
    <3> HIDE DEF a
    <3>2. a \in 0 .. N /\ a # 0
      BY <1>2, <3>1 DEF NoPage
    <3>3. a \in 1 .. N
      BY <3>2
    <3>. QED
      BY <3>3 DEF a
  <2>4. \A k \in T : k \in r[1] .. r[2]
    BY <1>2, <2>1, <2>2
  <2>. QED
    BY <1>3, <2>2, <2>3, <2>4 DEF r
<1>. QED
  BY <1>4, <1>5

\* When sections are there, they are those of the headings, and the text has pages.
LEMMA SectionsAreNamed ==
    ASSUME WholeIInv, pc \in {"chunk", "plan", "done"}
    PROVE  /\ Legible(doc.text) /\ HeadingsFit(doc) /\ Tiles(doc, sections)
           /\ source.kind \in {"latex", "pdf"} /\ source \in Sources
           /\ \E m : Names(doc, Deduplicate(doc), sections, m)
           /\ source.kind = "pdf" =>
                /\ Pdf!IsPdf(source.pdf) /\ Stand(doc.headings, Len(source.pdf.pages))
                /\ \A i \in 1 .. Length(doc) : doc.text[i].page \in 1 .. Len(source.pdf.pages)
<1>1. /\ Legible(doc.text) /\ HeadingsFit(doc) /\ Tiles(doc, sections) /\ sections = Detect(doc)
      /\ source.kind \in {"latex", "pdf"} /\ source \in Sources
      /\ source.kind = "pdf" =>
           /\ Stand(doc.headings, Len(source.pdf.pages))
           /\ source.pdf.readable = "yes" /\ doc.text = Pdf!Text(source.pdf)
  BY DEF WholeIInv, DocFits, CutsFit, IInv
<1>2. \E m : Names(doc, Deduplicate(doc), sections, m)
  BY <1>1, DetectNames
<1>3. source.kind = "pdf" =>
        /\ Pdf!IsPdf(source.pdf)
        /\ \A i \in 1 .. Length(doc) : doc.text[i].page \in 1 .. Len(source.pdf.pages)
  <2> SUFFICES ASSUME source.kind = "pdf"
               PROVE  /\ Pdf!IsPdf(source.pdf)
                      /\ \A i \in 1 .. Length(doc) :
                           doc.text[i].page \in 1 .. Len(source.pdf.pages)
    OBVIOUS
  <2> DEFINE text == Pdf!Text(source.pdf)
  <2>1. /\ Pdf!IsPdf(source.pdf)
        /\ \A i \in 1 .. Len(text) : text[i].page \in 1 .. Len(source.pdf.pages)
    BY <1>1, PdfIsLegible
  <2>2. doc.text = text
    BY <1>1
  <2> HIDE DEF text
  <2>. QED
    BY <2>1, <2>2 DEF Length
<1>. QED
  BY <1>1, <1>2, <1>3

\* The words of page_roles are those of the documents.
LEMMA SamePages ==
    /\ \A S : Pages!Min(S) = Min(S)
    /\ Pages!ServiceRoles = {"title", "approval", "assignment", "calendar_plan", "review"}
BY DEF Pages!Min, Min, Pages!ServiceRoles

\* A page behind the beginning of the main text is a form only by its title.
LEMMA FormBehindMain ==
    ASSUME NEW pages, NEW main \in Nat \ {0}, NEW n \in Pages!ServicePages(pages, main),
           ~(n < main)
    PROVE  "review" \in pages[n].titles
<1>1. Pages!PageRole(pages, n, main) \in Pages!ServiceRoles
  BY DEF Pages!ServicePages
<1>2. main # Pages!NoMain
  BY DEF Pages!NoMain
<1> DEFINE role == Pages!ServiceRole(pages[n], main = Pages!NoMain \/ n < main, main # Pages!NoMain)
<1>3. role \in {"none", "review"} /\ (role = "review" => "review" \in pages[n].titles)
  <2>1. role = IF "review" \in pages[n].titles /\ pages[n].support >= 2 THEN "review" ELSE "none"
    BY <1>2 DEF Pages!ServiceRole
  <2>. QED
    BY <2>1
<1> HIDE DEF role
<1>4. role # "none"
  <2>1. Pages!PageRole(pages, n, main) =
          IF role # "none" THEN role
          ELSE IF Pages!NonServiceRole(pages[n]) # "none" THEN Pages!NonServiceRole(pages[n])
          ELSE IF main # Pages!NoMain /\ n >= main THEN "main_text" ELSE "unknown"
    BY DEF Pages!PageRole, role
  <2>2. Pages!NonServiceRole(pages[n]) \in {"abstract", "contents", "bibliography", "appendix", "none"}
    BY DEF Pages!NonServiceRole
  <2> HIDE DEF Pages!PageRole, Pages!NonServiceRole
  <2>. QED
    BY <1>1, <2>1, <2>2, SamePages
<1>. QED
  BY <1>3, <1>4

LEMMA MainTextStays ==
    ASSUME PlanIInv
    PROVE  MainTextIsNoForm
<1> SUFFICES ASSUME source.kind = "pdf", pc = "done",
                    NEW i \in 1 .. Len(sections), MatchesRole(sections[i], "introduction"),
                    NEW n \in service, n >= sections[i].pages[1]
             PROVE  "review" \in source.pdf.pages[n].page.titles
  BY DEF MainTextIsNoForm
<1> DEFINE N == Len(source.pdf.pages)
           hs == Deduplicate(doc)
           s == sections[i]
           pages == [k \in 1 .. N |-> source.pdf.pages[k].page]
           introductions ==
             {sections[j].pages[1] : j \in
                {k \in 1 .. Len(sections) : MatchesRole(sections[k], "introduction")}}
           main == Pages!IntroductionPage(pages, introductions \ {NoPage})
<1>1. /\ WholeIInv /\ service = Forms
  BY DEF PlanIInv, PlanFits
<1>2. /\ Legible(doc.text) /\ HeadingsFit(doc) /\ Tiles(doc, sections)
      /\ Pdf!IsPdf(source.pdf) /\ Stand(doc.headings, N)
      /\ \A k \in 1 .. Length(doc) : doc.text[k].page \in 1 .. N
  BY <1>1, SectionsAreNamed
<1>3. PICK m : Names(doc, hs, sections, m)
  BY <1>1, SectionsAreNamed
<1>4. N \in Nat /\ service = Pages!ServicePages(pages, main)
  BY <1>1, <1>2 DEF Forms, Pdf!IsPdf
<1> HIDE DEF hs
<1>5. ASSUME NEW k \in 1 .. Len(sections), MatchesRole(sections[k], "introduction")
      PROVE  sections[k].pages[1] \in 1 .. N
  <2> DEFINE t == sections[k]
  <2>1. ~IsUntitled(hs, t)
    BY <1>5, TitlesAssumption DEF IsUntitled, MatchesRole
  <2> DEFINE j == k - m
  <2>2. IsTitled(doc, hs, t, j)
    BY <1>3, <2>1 DEF Names
  <2>3. j \in 1 .. Len(hs) /\ hs[j] \in InText(doc)
        /\ t.pages = PageRange(doc, t.start, t.end, <<hs[j].page, hs[j].page>>)
    BY <1>3, <2>2 DEF IsTitled, Names
  <2>4. hs[j].page \in 1 .. N
    BY <1>2, <2>3 DEF InText, Stand
  <2>5. t.start \in Places(doc) /\ t.end \in Places(doc)
    BY <1>2 DEF Tiles
  <2>6. /\ t.start \in Nat /\ t.end \in Nat
        /\ \A h \in t.start .. t.end - 1 : doc.text[h].page \in 0 .. N
    <3>1. /\ Length(doc) \in Nat /\ t.start \in 1 .. Length(doc) + 1
          /\ t.end \in 1 .. Length(doc) + 1
      BY <1>2, <2>5 DEF Places, Legible, Length
    <3>2. \A h \in t.start .. t.end - 1 : h \in 1 .. Length(doc)
      BY <3>1
    <3>3. \A h \in t.start .. t.end - 1 : doc.text[h].page \in 1 .. N
      BY <1>2, <3>2
    <3>. QED
      BY <1>4, <3>1, <3>3
  <2> HIDE DEF t, j, N
  <2> DEFINE default == <<hs[j].page, hs[j].page>>
             r == PageRange(doc, t.start, t.end, default)
  <2>7. default[1] \in 1 .. N
    BY <2>4
  <2> HIDE DEF default
  <2>8. r = default \/ r[1] \in 1 .. N
    BY <1>4, <2>6, PageRangeIs
  <2>9. t.pages = r
    BY <2>3 DEF default
  <2> HIDE DEF r
  <2>10. t.pages[1] \in 1 .. N
    BY <2>7, <2>8, <2>9
  <2>. QED
    BY <2>10 DEF t
<1>6. s.pages[1] \in 1 .. N /\ s.pages[1] \in introductions \ {NoPage}
  BY <1>5 DEF NoPage
<1>7. introductions \ {NoPage} \in SUBSET Nat /\ introductions \ {NoPage} # {}
  <2>1. \A x \in introductions : \E k \in 1 .. Len(sections) :
           MatchesRole(sections[k], "introduction") /\ x = sections[k].pages[1]
    OBVIOUS
  <2>2. \A x \in introductions : x \in 1 .. N
    BY <1>5, <2>1
  <2> HIDE DEF introductions
  <2>. QED
    BY <1>4, <1>6, <2>2
<1> HIDE DEF pages
<1>8. main \in Nat \ {0} /\ main <= s.pages[1]
  <2> DEFINE T == introductions \ {NoPage}
  <2>1. main = Min(T)
    BY <1>7, SamePages DEF Pages!IntroductionPage
  <2>2. s.pages[1] \in T /\ T \in SUBSET Nat /\ T # {} /\ 0 \notin T
    BY <1>6, <1>7 DEF NoPage
  <2> HIDE DEF T, main, s
  <2>3. main \in T /\ \A k \in T : main <= k
    BY <2>1, <2>2, MinIs
  <2>. QED
    BY <2>2, <2>3
<1> HIDE DEF main
<1>9. n \in Nat
  <2>1. n \in DOMAIN pages
    BY <1>4 DEF Pages!ServicePages
  <2>. QED
    BY <1>4, <2>1 DEF pages
<1>10. ~(n < main)
  BY <1>6, <1>8, <1>9
<1>11. "review" \in pages[n].titles
  BY <1>4, <1>8, <1>10, FormBehindMain
<1>12. pages[n] = source.pdf.pages[n].page
  <2>1. n \in DOMAIN pages
    BY <1>4 DEF Pages!ServicePages
  <2>. QED
    BY <2>1 DEF pages
<1>. QED
  BY <1>11, <1>12

-----------------------------------------------------------------------------
(* What a batch holds                                                      *)

\* _bounded_section_chunks: of the chunks given, and both ends if it may keep two.
LEMMA BoundedIs ==
    ASSUME NEW U, NEW s \in Seq(U), NEW limit \in Nat \ {0}
    PROVE  LET o == BoundedSectionChunks(s, limit) IN
           /\ o \in Seq(U)
           /\ limit > 1 /\ Len(s) > 0 => s[1] \in ToSet(o) /\ s[Len(s)] \in ToSet(o)
<1> DEFINE o == BoundedSectionChunks(s, limit)
           n == Len(s)
           head == (limit + 1) \div 2
           tail == limit - head
           x == SubSeq(s, 1, head)
           y == SubSeq(s, n - tail + 1, n)
<1>1. n \in Nat /\ DOMAIN s = 1 .. n /\ \A i \in 1 .. n : s[i] \in U
  BY LenProperties, ElementOfSeq
<1>2. o = IF n <= limit THEN s ELSE x \o y
  BY DEF BoundedSectionChunks
<1>3. /\ head \in 1 .. limit /\ tail \in 0 .. limit
      /\ limit > 1 => tail \in 1 .. limit
  OBVIOUS
<1> HIDE DEF head, tail, n
<1>4. CASE n <= limit
  <2>1. n > 0 => 1 \in 1 .. n /\ n \in 1 .. n
    BY <1>1
  <2>. QED
    BY <1>1, <1>2, <1>4, <2>1 DEF ToSet, n
<1>5. CASE ~(n <= limit)
  <2> DEFINE from == n - tail + 1
  <2>1. /\ head \in Int /\ from \in Int /\ n \in Int /\ 1 \in Int
        /\ \A i \in 1 .. head : i \in 1 .. n
        /\ \A i \in from .. n : i \in 1 .. n
    BY <1>1, <1>3, <1>5
  <2>2. x \in Seq(U) /\ Len(x) = head /\ \A i \in 1 .. head : x[i] = s[i]
    <3>1. /\ x \in Seq(U) /\ Len(x) = IF 1 <= head THEN head - 1 + 1 ELSE 0
          /\ \A i \in 1 .. head - 1 + 1 : x[i] = s[1 + i - 1]
      BY <1>1, <2>1, SubSeqProperties
    <3>2. 1 <= head /\ head - 1 + 1 = head
      BY <1>3
    <3>3. \A i \in 1 .. head : 1 + i - 1 = i
      BY <1>3
    <3> HIDE DEF x
    <3>. QED
      BY <3>1, <3>2, <3>3
  <2>3. y \in Seq(U) /\ Len(y) = tail /\ (tail # 0 => y[tail] = s[n])
    <3>1. from + 0 = n - tail + 1
      BY <2>1
    <3> HIDE DEF from
    <3> DEFINE z == SubSeq(s, from, n)
    <3>2. /\ z \in Seq(U) /\ Len(z) = IF from <= n THEN n - from + 1 ELSE 0
          /\ \A i \in 1 .. n - from + 1 : z[i] = s[from + i - 1]
      BY <1>1, <2>1, SubSeqProperties
    <3>3. n - from + 1 = tail /\ (from <= n <=> tail # 0) /\ from + tail - 1 = n
      BY <1>1, <1>3, <2>1, <3>1
    <3> HIDE DEF z
    <3>4. tail # 0 => tail \in 1 .. tail
      BY <1>3
    <3>5. z \in Seq(U) /\ Len(z) = tail /\ (tail # 0 => z[tail] = s[n])
      BY <3>2, <3>3, <3>4
    <3>. QED
      BY <3>5 DEF z, from
  <2> HIDE DEF x, y
  <2> DEFINE c == x \o y
  <2>4. /\ c \in Seq(U) /\ Len(c) = head + tail
        /\ \A i \in 1 .. head + tail : c[i] = IF i <= head THEN x[i] ELSE y[i - head]
    BY <2>2, <2>3, ConcatProperties
  <2> HIDE DEF c
  <2>5. DOMAIN c = 1 .. head + tail
    BY <2>4, LenProperties
  <2>6. s[1] \in ToSet(c)
    <3>1. 1 \in 1 .. head + tail /\ 1 <= head /\ 1 \in 1 .. head
      BY <1>3
    <3>. QED
      BY <2>2, <2>4, <2>5, <3>1 DEF ToSet
  <2>7. limit > 1 => s[n] \in ToSet(c)
    <3> SUFFICES ASSUME limit > 1 PROVE s[n] \in ToSet(c)
      OBVIOUS
    <3> DEFINE e == head + tail
    <3>1. e \in 1 .. head + tail /\ ~(e <= head) /\ e - head = tail /\ tail # 0
      BY <1>3
    <3> HIDE DEF e
    <3>2. c[e] = s[n]
      BY <2>3, <2>4, <3>1
    <3>. QED
      BY <2>5, <3>1, <3>2 DEF ToSet
  <2>8. o = c
    BY <1>2, <1>5 DEF c
  <2>. QED
    BY <2>4, <2>6, <2>7, <2>8 DEF n
<1>. QED
  BY <1>4, <1>5

\* What may be sent for a rule: chunks that touch no form, or titles.
Sendable(d, secs, cs, forms, spec) ==
    IF spec.headingsOnly THEN UNION {ToSet(HeadingChunks(d, s)) : s \in ToSet(secs)}
    ELSE {c \in ToSet(cs) : ~IntersectsServicePage(c, forms)}

LEMMA HeadingChunksAre ==
    ASSUME NEW d, NEW s
    PROVE  HeadingChunks(d, s) \in Seq(ToSet(HeadingChunks(d, s)))
<1> DEFINE at == {i \in s.start .. s.end - 1 : Word(d, i) = s.title}
           c == [id |-> <<"heading", s.title>>, section |-> s.id, start |-> Min(at),
                 content |-> Min(at), end |-> Min(at) + 1,
                 pages |-> <<s.pages[1], s.pages[1]>>]
<1>1. HeadingChunks(d, s) = IF at = {} THEN <<>> ELSE <<c>>
  BY DEF HeadingChunks
<1> HIDE DEF at, c
<1>2. <<c>> \in Seq(ToSet(<<c>>)) /\ <<>> \in Seq(ToSet(<<>>))
  <2>1. DOMAIN <<c>> = 1 .. 1 /\ <<c>>[1] = c
    OBVIOUS
  <2>2. c \in ToSet(<<c>>)
    BY <2>1 DEF ToSet
  <2>. QED
    BY <2>2
<1>. QED
  BY <1>1, <1>2

\* Whatever is chosen for a section may be sent.
LEMMA CandidatesAre ==
    ASSUME NEW d, NEW secs, NEW cs, Len(cs) \in Nat, DOMAIN cs = 1 .. Len(cs),
           NEW forms, NEW spec, NEW s \in ToSet(secs)
    PROVE  Candidates(d, s, cs, forms, spec) \in Seq(Sendable(d, secs, cs, forms, spec))
<1> DEFINE S == {c \in ToSet(cs) : c.section = s.id}
           all == IF spec.headingsOnly THEN HeadingChunks(d, s) ELSE Only(cs, S)
           T == {c \in ToSet(all) : ~IntersectsServicePage(c, forms)}
           U == Sendable(d, secs, cs, forms, spec)
<1>1. Candidates(d, s, cs, forms, spec) = Only(all, T)
  BY DEF Candidates
<1>2. Len(all) \in Nat /\ \A i \in 1 .. Len(all) : all[i] \in T => all[i] \in U
  <2>1. CASE spec.headingsOnly
    <3> DEFINE h == HeadingChunks(d, s)
    <3>1. all = h
      BY <2>1
    <3>2. h \in Seq(ToSet(h))
      BY HeadingChunksAre
    <3> HIDE DEF all, h
    <3>3. Len(h) \in Nat /\ \A i \in 1 .. Len(h) : h[i] \in ToSet(h)
      BY <3>2, LenProperties, ElementOfSeq
    <3>4. \A c \in ToSet(h) : c \in U
      BY <2>1 DEF Sendable, h
    <3>. QED
      BY <3>1, <3>3, <3>4
  <2>2. CASE ~spec.headingsOnly
    <3> DEFINE h == Only(cs, S)
    <3>1. all = h
      BY <2>2
    <3>2. h \in Seq(ToSet(cs))
      <4>1. \A i \in 1 .. Len(cs) : cs[i] \in S => cs[i] \in ToSet(cs)
        OBVIOUS
      <4> HIDE DEF S
      <4>. QED
        BY <4>1, OnlyIs
    <3>3. \A x : x \in T => ~IntersectsServicePage(x, forms)
      OBVIOUS
    <3> HIDE DEF all, h, T
    <3>4. Len(h) \in Nat /\ \A i \in 1 .. Len(h) : h[i] \in ToSet(cs)
      BY <3>2, LenProperties, ElementOfSeq
    <3>. QED
      BY <2>2, <3>1, <3>3, <3>4 DEF Sendable
  <2>. QED
    BY <2>1, <2>2
<1> HIDE DEF all, T, U
<1>3. Only(all, T) \in Seq(U)
  BY <1>2, OnlyIs
<1>. QED
  BY <1>1, <1>3 DEF U

\* The sections a rule is about.
Chosens(d, secs, spec) ==
    Only(secs, {s \in ToSet(secs) : \E role \in ToSet(spec.roles) :
                                      MatchesRole(s, role) /\ HasBody(d, s)})
Parts(d, secs, cs, forms, spec) ==
    [i \in 1 .. Len(Chosens(d, secs, spec)) |->
       BoundedSectionChunks(Candidates(d, Chosens(d, secs, spec)[i], cs, forms, spec),
                            spec.perSection)]

\* BatchPlanner.plan: what it puts together may be sent, and is cut at the total.
LEMMA PlanIs ==
    ASSUME NEW d, NEW secs, Len(secs) \in Nat, DOMAIN secs = 1 .. Len(secs),
           NEW cs, Len(cs) \in Nat, DOMAIN cs = 1 .. Len(cs),
           NEW forms, NEW spec \in Specs
    PROVE  LET all == FlattenSeq(Parts(d, secs, cs, forms, spec))
               batch == Plan(d, secs, cs, forms, spec).chunks
               U == Sendable(d, secs, cs, forms, spec)
           IN /\ Parts(d, secs, cs, forms, spec)
                   \in [1 .. Len(Chosens(d, secs, spec)) -> Seq(U)]
              /\ Chosens(d, secs, spec) \in Seq(ToSet(secs))
              /\ batch \in Seq(U) /\ Len(batch) <= spec.total
              /\ Len(batch) < spec.total => \A c \in ToSet(all) : c \in ToSet(batch)
<1> DEFINE chosen == Chosens(d, secs, spec)
           n == Len(chosen)
           parts == Parts(d, secs, cs, forms, spec)
           all == FlattenSeq(parts)
           U == Sendable(d, secs, cs, forms, spec)
           upto == Min({spec.total, Len(all)})
           batch == SubSeq(all, 1, upto)
<1>1. Plan(d, secs, cs, forms, spec).chunks = batch
  BY DEF Plan, Parts, Chosens
<1>2. chosen \in Seq(ToSet(secs))
  <2> DEFINE S == {s \in ToSet(secs) : \E role \in ToSet(spec.roles) :
                                      MatchesRole(s, role) /\ HasBody(d, s)}
  <2>1. chosen = Only(secs, S)
    BY DEF Chosens
  <2>2. \A i \in 1 .. Len(secs) : secs[i] \in S => secs[i] \in ToSet(secs)
    OBVIOUS
  <2> HIDE DEF S, chosen
  <2>. QED
    BY <2>1, <2>2, OnlyIs
<1>3. n \in Nat /\ \A i \in 1 .. n : chosen[i] \in ToSet(secs)
  <2> HIDE DEF chosen
  <2>. QED
    BY <1>2, LenProperties, ElementOfSeq
<1>4. parts \in [1 .. n -> Seq(U)]
  <2>1. parts = [i \in 1 .. n |-> BoundedSectionChunks(
                                    Candidates(d, chosen[i], cs, forms, spec), spec.perSection)]
    BY DEF Parts
  <2>2. ASSUME NEW i \in 1 .. n
        PROVE  BoundedSectionChunks(Candidates(d, chosen[i], cs, forms, spec), spec.perSection)
                 \in Seq(U)
    <3> DEFINE s == chosen[i]
               these == Candidates(d, s, cs, forms, spec)
    <3>1. s \in ToSet(secs)
      BY <1>3
    <3> HIDE DEF s, U
    <3>2. these \in Seq(U)
      BY <3>1, CandidatesAre DEF U
    <3>3. spec.perSection \in Nat \ {0}
      BY SpecsAssumption
    <3> HIDE DEF these
    <3>4. BoundedSectionChunks(these, spec.perSection) \in Seq(U)
      BY <3>2, <3>3, BoundedIs
    <3>. QED
      BY <3>4 DEF these, s
  <2> HIDE DEF parts, chosen, U, n
  <2>. QED
    BY <2>1, <2>2
<1> HIDE DEF chosen, parts, U, n
<1>5. all \in Seq(U)
  BY <1>3, <1>4, FlattenIs
<1> HIDE DEF all
<1>6. Len(all) \in Nat /\ DOMAIN all = 1 .. Len(all) /\ \A i \in 1 .. Len(all) : all[i] \in U
  BY <1>5, LenProperties, ElementOfSeq
<1> DEFINE N == Len(all)
           limit == spec.total
<1>10. N \in Nat /\ limit \in Nat \ {0}
  BY <1>6, SpecsAssumption
<1>7. upto \in 0 .. N /\ upto <= limit /\ (upto < limit => upto = N)
  <2> DEFINE T == {limit, N}
  <2>2. T \in SUBSET Nat /\ T # {} /\ limit \in T /\ N \in T
        /\ \A k \in T : k = limit \/ k = N
    BY <1>10
  <2> HIDE DEF T
  <2>3. Min(T) \in T /\ \A k \in T : Min(T) <= k
    BY <2>2, MinIs
  <2>4. upto = Min(T)
    BY DEF T
  <2> HIDE DEF upto, N, limit
  <2>. QED
    <3> DEFINE a == upto
    <3>1. (a = limit \/ a = N) /\ a <= limit /\ a <= N
      BY <2>2, <2>3, <2>4
    <3> HIDE DEF a
    <3>2. a \in 0 .. N /\ a <= limit /\ (a < limit => a = N)
      BY <1>10, <3>1
    <3>. QED
      BY <3>2 DEF a
<1> HIDE DEF upto
<1>8. /\ batch \in Seq(U) /\ Len(batch) = upto /\ \A i \in 1 .. upto : batch[i] = all[i]
      /\ DOMAIN batch = 1 .. upto
  <2>1. upto \in Int /\ 1 \in Int /\ \A i \in 1 .. upto : i \in 1 .. N
    <3> HIDE DEF N, limit
    <3>. QED
      BY <1>7, <1>10
  <2>5. \A i \in 1 .. upto : all[i] \in U
    BY <1>6, <2>1
  <2>2. /\ batch \in Seq(U) /\ Len(batch) = IF 1 <= upto THEN upto - 1 + 1 ELSE 0
        /\ \A i \in 1 .. upto - 1 + 1 : batch[i] = all[1 + i - 1]
    BY <2>1, <2>5, SubSeqProperties
  <2>3. upto - 1 + 1 = upto /\ (~(1 <= upto) => upto = 0) /\ \A i \in 1 .. upto : 1 + i - 1 = i
    <3> HIDE DEF N, limit
    <3>. QED
      BY <1>7, <1>10
  <2> HIDE DEF batch
  <2>4. batch \in Seq(U) /\ Len(batch) = upto /\ \A i \in 1 .. upto : batch[i] = all[i]
    BY <2>2, <2>3
  <2>. QED
    BY <2>4, LenProperties
<1>9. Len(batch) < spec.total => \A c \in ToSet(all) : c \in ToSet(batch)
  <2> HIDE DEF batch
  <2>. QED
    BY <1>6, <1>7, <1>8 DEF ToSet
<1>. QED
  BY <1>1, <1>2, <1>4, <1>7, <1>8, <1>9 DEF all, parts, chosen, n, U

\* The chunk of a title is the title.
LEMMA HeadingSays ==
    ASSUME NEW d, NEW s, s.start \in Nat, s.end \in Nat, NEW c \in ToSet(HeadingChunks(d, s)),
           NEW i \in c.start .. c.end - 1
    PROVE  d.text[i].word = s.title
<1> DEFINE at == {k \in s.start .. s.end - 1 : Word(d, k) = s.title}
           m == Min(at)
           h == [id |-> <<"heading", s.title>>, section |-> s.id, start |-> m,
                 content |-> m, end |-> m + 1, pages |-> <<s.pages[1], s.pages[1]>>]
<1>1. HeadingChunks(d, s) = IF at = {} THEN <<>> ELSE <<h>>
  BY DEF HeadingChunks
<1>2. at \in SUBSET Nat /\ \A k \in at : d.text[k].word = s.title
  BY DEF Word
<1>3. h.start = m /\ h.end = m + 1
  OBVIOUS
<1> HIDE DEF at, h
<1>4. at # {} /\ c = h
  <2>1. DOMAIN <<>> = {} /\ DOMAIN <<h>> = {1} /\ <<h>>[1] = h
    OBVIOUS
  <2>. QED
    BY <1>1, <2>1 DEF ToSet
<1>5. m \in at /\ m \in Nat
  BY <1>2, <1>4, MinIs
<1> HIDE DEF m
<1>6. i = m
  BY <1>3, <1>4, <1>5
<1>. QED
  BY <1>2, <1>5, <1>6

\* The chunks are those of the sections, one behind the other.
LEMMA ChunksAreCut ==
    ASSUME WholeIInv, pc = "done"
    PROVE  /\ Len(chunks) \in Nat /\ DOMAIN chunks = 1 .. Len(chunks)
           /\ \A i \in 1 .. Len(chunks) :
                /\ IsCut(doc, sections, chunks[i])
                /\ chunks[i].content = IF i = 1 THEN 1 ELSE chunks[i - 1].end
           /\ Len(sections) \in Nat /\ DOMAIN sections = 1 .. Len(sections)
           /\ \A k \in 1 .. Len(sections) :
                /\ sections[k].start \in Places(doc) /\ sections[k].end \in Places(doc)
                /\ sections[k].start \in Nat /\ sections[k].end \in Nat
<1>1. CutUpTo(doc, sections, chunks, cursor) /\ Tiles(doc, sections)
  BY DEF WholeIInv, CutsFit
<1>2. chunks \in Seq(ToSet(chunks))
  BY <1>1 DEF CutUpTo
<1>3. Len(chunks) \in Nat /\ DOMAIN chunks = 1 .. Len(chunks)
  BY <1>2, LenProperties
<1>. QED
  BY <1>1, <1>3 DEF CutUpTo, Tiles, Places

LEMMA FormsAreKept ==
    ASSUME PlanIInv
    PROVE  NoFormIsForwarded
<1> SUFFICES ASSUME pc = "done", NEW spec \in Specs, NEW c \in ToSet(batches[spec].chunks),
                    NEW i \in c.start .. c.end - 1, doc.text[i].page \in service
             PROVE  spec.headingsOnly /\ \E s \in ToSet(sections) : doc.text[i].word = s.title
  BY DEF NoFormIsForwarded
<1>1. /\ WholeIInv /\ service = Forms
      /\ batches = [r \in Specs |-> Plan(doc, sections, chunks, service, r)]
  BY DEF PlanIInv, PlanFits
<1>2. /\ Legible(doc.text) /\ source.kind \in {"latex", "pdf"}
      /\ source.kind = "pdf" =>
           /\ Pdf!IsPdf(source.pdf)
           /\ \A k \in 1 .. Length(doc) : doc.text[k].page \in 1 .. Len(source.pdf.pages)
  BY <1>1, SectionsAreNamed
<1>3. /\ Len(chunks) \in Nat /\ DOMAIN chunks = 1 .. Len(chunks)
      /\ \A k \in 1 .. Len(chunks) : IsCut(doc, sections, chunks[k])
      /\ Len(sections) \in Nat /\ DOMAIN sections = 1 .. Len(sections)
      /\ \A k \in 1 .. Len(sections) :
           /\ sections[k].start \in Places(doc) /\ sections[k].end \in Places(doc)
           /\ sections[k].start \in Nat /\ sections[k].end \in Nat
  BY <1>1, ChunksAreCut
<1> DEFINE U == Sendable(doc, sections, chunks, service, spec)
           batch == Plan(doc, sections, chunks, service, spec).chunks
<1>4. c \in U
  <2>1. batches[spec].chunks = batch
    BY <1>1
  <2>2. batch \in Seq(U)
    BY <1>3, PlanIs
  <2> HIDE DEF batch, U
  <2>3. DOMAIN batch = 1 .. Len(batch) /\ \A k \in 1 .. Len(batch) : batch[k] \in U
    BY <2>2, LenProperties, ElementOfSeq
  <2>. QED
    BY <2>1, <2>3 DEF ToSet
<1>5. CASE spec.headingsOnly
  <2>1. PICK s \in ToSet(sections) : c \in ToSet(HeadingChunks(doc, s))
    BY <1>4, <1>5 DEF Sendable
  <2>2. s.start \in Nat /\ s.end \in Nat
    BY <1>3 DEF ToSet
  <2>3. doc.text[i].word = s.title
    BY <2>1, <2>2, HeadingSays
  <2>. QED
    BY <1>5, <2>3
<1>6. CASE ~spec.headingsOnly
  <2>1. c \in ToSet(chunks) /\ ~IntersectsServicePage(c, service)
    BY <1>4, <1>6 DEF Sendable
  <2>2. IsCut(doc, sections, c)
    BY <1>3, <2>1 DEF ToSet
  <2>3. PICK k \in 1 .. Len(sections) :
           /\ c.start \in sections[k].start .. c.content
           /\ c.content < c.end /\ c.end <= sections[k].end
           /\ c.pages = PageRange(doc, c.start, c.end, sections[k].pages)
    BY <2>2 DEF IsCut
  <2>4. source.kind = "pdf"
    BY <1>1, <1>2 DEF Forms
  <2> DEFINE N == Len(source.pdf.pages)
             default == sections[k].pages
             r == PageRange(doc, c.start, c.end, default)
  <2>5. N \in Nat /\ \A h \in 1 .. Length(doc) : doc.text[h].page \in 1 .. N
    BY <1>2, <2>4 DEF Pdf!IsPdf
  <2>6. /\ c.start \in Nat /\ c.end \in Nat
        /\ \A h \in c.start .. c.end - 1 : h \in 1 .. Length(doc)
    <3>1. c.content \in Nat /\ c.end \in Nat
      BY <2>2 DEF IsCut
    <3>2. /\ sections[k].start \in 1 .. Length(doc) + 1 /\ sections[k].end \in 1 .. Length(doc) + 1
          /\ Length(doc) \in Nat
      BY <1>2, <1>3 DEF Places, Legible, Length
    <3> DEFINE a == sections[k].start
               e == sections[k].end
               L == Length(doc)
    <3>3. a \in 1 .. L + 1 /\ e \in 1 .. L + 1 /\ L \in Nat
      BY <3>2
    <3>4. c.start \in a .. c.content /\ c.end <= e
      BY <2>3
    <3> HIDE DEF a, e, L
    <3>5. c.start \in Nat /\ 1 <= c.start /\ c.end <= L + 1
      BY <3>1, <3>3, <3>4
    <3>6. \A h \in c.start .. c.end - 1 : h \in 1 .. L
      BY <3>1, <3>3, <3>5
    <3>. QED
      BY <3>1, <3>5, <3>6 DEF L
  <2> HIDE DEF N, default
  <2>7. \A h \in c.start .. c.end - 1 : doc.text[h].page \in 1 .. N
    BY <2>5, <2>6
  <2>8. \A h \in c.start .. c.end - 1 : doc.text[h].page # NoPage =>
           doc.text[h].page \in r[1] .. r[2]
    <3>1. \A h \in c.start .. c.end - 1 : doc.text[h].page \in 0 .. N
      BY <2>5, <2>7
    <3>. QED
      BY <2>5, <2>6, <3>1, PageRangeIs
  <2>9. c.pages = r
    BY <2>3 DEF default
  <2> HIDE DEF r
  <2>10. doc.text[i].page \in c.pages[1] .. c.pages[2]
    BY <2>5, <2>7, <2>8, <2>9 DEF NoPage
  <2>. QED
    BY <2>1, <2>10 DEF IntersectsServicePage
<1>. QED
  BY <1>5, <1>6

\* Chunks go forward through the text.
LEMMA ChunksGoOn ==
    ASSUME WholeIInv, pc = "done", NEW i \in 1 .. Len(chunks), NEW j \in 1 .. Len(chunks), i < j
    PROVE  chunks[i].end <= chunks[j].content
<1>1. /\ Len(chunks) \in Nat
      /\ \A k \in 1 .. Len(chunks) :
           /\ chunks[k].content \in Nat /\ chunks[k].end \in Nat
           /\ chunks[k].content < chunks[k].end
           /\ chunks[k].content = IF k = 1 THEN 1 ELSE chunks[k - 1].end
  BY ChunksAreCut DEF IsCut
<1> DEFINE N == Len(chunks) - i - 1
           T == {n \in 0 .. N : chunks[i].end <= chunks[i + 1 + n].content}
<1>2. N \in Nat /\ i \in Nat /\ j \in Nat
  BY <1>1
<1>3. 0 \in T
  <2> DEFINE k == i + 1
  <2>1. k \in 1 .. Len(chunks) /\ k # 1 /\ k - 1 = i /\ i + 1 + 0 = k
    BY <1>1
  <2> HIDE DEF k
  <2>2. chunks[i].end <= chunks[k].content
    BY <1>1, <2>1
  <2>. QED
    BY <1>2, <2>1, <2>2
<1>4. ASSUME NEW n \in 0 .. N - 1, n \in T PROVE n + 1 \in T
  <2> DEFINE k == i + 1 + n
             m == k + 1
  <2>1. /\ k \in 1 .. Len(chunks) /\ m \in 1 .. Len(chunks) /\ m # 1 /\ m - 1 = k
        /\ i + 1 + (n + 1) = m /\ n + 1 \in 0 .. N
    BY <1>1, <1>2
  <2>2. chunks[i].end <= chunks[k].content
    BY <1>4
  <2> HIDE DEF k, m, N
  <2>5. chunks[m].content = chunks[k].end
    <3>1. chunks[m].content = IF m = 1 THEN 1 ELSE chunks[m - 1].end
      BY <1>1, <2>1
    <3>. QED
      BY <2>1, <3>1
  <2>6. /\ chunks[k].content \in Nat /\ chunks[k].end \in Nat /\ chunks[i].end \in Nat
        /\ chunks[k].content < chunks[k].end
    BY <1>1, <2>1
  <2>3. chunks[i].end <= chunks[m].content
    BY <2>2, <2>5, <2>6
  <2>4. m \in 1 .. Len(chunks) /\ n + 1 \in 0 .. N /\ chunks[i + 1 + (n + 1)] = chunks[m]
    BY <2>1
  <2> HIDE DEF m
  <2>. QED
    BY <2>3, <2>4
<1> DEFINE n == j - i - 1
<1>5. n \in 0 .. N /\ i + 1 + n = j
  BY <1>1
<1>6. \A x \in T : chunks[i].end <= chunks[i + 1 + x].content
  OBVIOUS
<1> HIDE DEF N, T
<1>7. \A x \in 0 .. N : x \in T
  BY <1>2, <1>3, <1>4, Upwards
<1> HIDE DEF n
<1>. QED
  BY <1>5, <1>6, <1>7

\* What may be chosen of a section has its first chunk first and its last one last.
LEMMA EndsAreCandidates ==
    ASSUME WholeIInv, pc = "done", NEW s \in ToSet(sections),
           \A t \in ToSet(sections) : t.id = s.id => t = s,
           NEW c \in ToSet(chunks), c.section = s.id, c.content = s.start \/ c.end = s.end,
           NEW spec, ~spec.headingsOnly
    PROVE  LET these == Candidates(doc, s, chunks, {}, spec) IN
           Len(these) > 0 /\ (c = these[1] \/ c = these[Len(these)])
<1> DEFINE S == {x \in ToSet(chunks) : x.section = s.id}
           o == Only(chunks, S)
           n == Len(chunks)
<1>1. /\ n \in Nat /\ DOMAIN chunks = 1 .. n
      /\ \A i \in 1 .. n : IsCut(doc, sections, chunks[i])
      /\ Len(sections) \in Nat /\ DOMAIN sections = 1 .. Len(sections)
      /\ \A k \in 1 .. Len(sections) :
           sections[k].start \in Nat /\ sections[k].end \in Nat
  BY ChunksAreCut
<1>2. ASSUME NEW x \in S
      PROVE  /\ s.start <= x.content /\ x.content < x.end /\ x.end <= s.end
             /\ x.content \in Nat /\ x.end \in Nat
  <2>1. IsCut(doc, sections, x) /\ x.section = s.id
    BY <1>1 DEF ToSet
  <2>2. PICK k \in 1 .. Len(sections) :
           /\ x.start \in sections[k].start .. x.content
           /\ x.content < x.end /\ x.end <= sections[k].end
           /\ x.section = sections[k].id
    BY <2>1 DEF IsCut
  <2>3. sections[k] = s
    <3>1. sections[k] \in ToSet(sections)
      BY <1>1 DEF ToSet
    <3>. QED
      BY <2>1, <2>2, <3>1
  <2>4. x.content \in Nat /\ x.end \in Nat /\ s.start \in Nat
    BY <1>1, <2>1, <2>3 DEF IsCut
  <2>. QED
    BY <2>2, <2>3, <2>4
<1>3. PICK i \in 1 .. n : chunks[i] = c
  BY <1>1 DEF ToSet
<1>4. \A h \in 1 .. n : chunks[h] \in ToSet(chunks)
  BY <1>1 DEF ToSet
<1>5. c \in S /\ \A h \in 1 .. n : chunks[h] \in S => chunks[h] \in ToSet(chunks)
  BY <1>4
<1> HIDE DEF S
<1>6. o \in Seq(ToSet(chunks)) /\ Chosen(chunks, S, n, o)
  BY <1>1, <1>5, OnlyIs
<1> HIDE DEF o, n
<1>7. Len(o) > 0 /\ (c = o[1] \/ c = o[Len(o)])
  <2>1. CASE c.content = s.start
    <3>1. ASSUME NEW h \in 1 .. i - 1 PROVE chunks[h] \notin S
      <4>1. h \in 1 .. n /\ h < i
        BY <1>1, <1>3
      <4>2. chunks[h].end <= c.content
        BY <1>3, <4>1, ChunksGoOn DEF n
      <4>. QED
        BY <1>2, <1>5, <2>1, <4>2
    <3>2. Len(o) > 0 /\ o[1] = c
      BY <1>3, <1>5, <1>6, <3>1 DEF Chosen
    <3>. QED
      BY <3>2
  <2>2. CASE c.end = s.end
    <3>1. ASSUME NEW h \in i + 1 .. n PROVE chunks[h] \notin S
      <4>1. h \in 1 .. n /\ i < h
        BY <1>1, <1>3
      <4>2. c.end <= chunks[h].content
        BY <1>3, <4>1, ChunksGoOn DEF n
      <4>. QED
        BY <1>2, <1>5, <2>2, <4>2
    <3>2. Len(o) > 0 /\ o[Len(o)] = c
      BY <1>3, <1>5, <1>6, <3>1 DEF Chosen
    <3>. QED
      BY <3>2
  <2>. QED
    BY <2>1, <2>2
<1> DEFINE T == {x \in ToSet(o) : ~IntersectsServicePage(x, {})}
           these == Only(o, T)
           m == Len(o)
<1>8. Candidates(doc, s, chunks, {}, spec) = these
  BY DEF Candidates, o, S
<1>9. /\ m \in Nat /\ m > 0 /\ \A k \in 1 .. m : o[k] \in T /\ o[k] \in ToSet(o)
  <2>1. m \in Nat /\ DOMAIN o = 1 .. m
    BY <1>6, LenProperties
  <2>2. \A k \in 1 .. m : o[k] \in ToSet(o)
    BY <2>1 DEF ToSet
  <2>. QED
    BY <1>7, <2>1, <2>2 DEF IntersectsServicePage
<1> HIDE DEF T, these, m
<1>10. Chosen(o, T, m, these)
  BY <1>9, OnlyIs DEF these, m
<1>11. 1 \in 1 .. m /\ m \in 1 .. m /\ (\A h \in 1 .. 1 - 1 : FALSE) /\ \A h \in m + 1 .. m : FALSE
  BY <1>9
<1>12. Len(these) > 0 /\ these[1] = o[1]
  BY <1>9, <1>10, <1>11 DEF Chosen
<1>13. these[Len(these)] = o[m]
  BY <1>9, <1>10, <1>11 DEF Chosen
<1>. QED
  BY <1>7, <1>8, <1>12, <1>13 DEF m

LEMMA EndsAreKept ==
    ASSUME PlanIInv
    PROVE  HeadAndTailAreKept
<1> SUFFICES ASSUME pc = "done", source.kind = "latex", NEW spec \in Specs
             PROVE  LET batch == batches[spec].chunks IN
                    /\ Len(batch) <= spec.total
                    /\ Len(batch) < spec.total /\ spec.perSection > 1 /\ ~spec.headingsOnly =>
                         \A s \in ToSet(sections) :
                             /\ \E role \in ToSet(spec.roles) : MatchesRole(s, role)
                             /\ HasBody(doc, s)
                             /\ \A t \in ToSet(sections) : t.id = s.id => t = s
                             => \A c \in ToSet(chunks) :
                                  c.section = s.id /\ (c.content = s.start \/ c.end = s.end)
                                    => c \in ToSet(batch)
  BY DEF HeadAndTailAreKept
<1> DEFINE batch == Plan(doc, sections, chunks, {}, spec).chunks
           chosen == Chosens(doc, sections, spec)
           parts == Parts(doc, sections, chunks, {}, spec)
           all == FlattenSeq(parts)
           U == Sendable(doc, sections, chunks, {}, spec)
           n == Len(chosen)
<1>1. WholeIInv /\ batches[spec].chunks = batch
  <2>1. /\ WholeIInv /\ service = Forms
        /\ batches = [r \in Specs |-> Plan(doc, sections, chunks, service, r)]
    BY DEF PlanIInv, PlanFits
  <2>2. service = {}
    BY <2>1 DEF Forms
  <2>. QED
    BY <2>1, <2>2
<1>2. /\ Len(chunks) \in Nat /\ DOMAIN chunks = 1 .. Len(chunks)
      /\ Len(sections) \in Nat /\ DOMAIN sections = 1 .. Len(sections)
  BY <1>1, ChunksAreCut
<1>3. /\ parts \in [1 .. n -> Seq(U)] /\ chosen \in Seq(ToSet(sections))
      /\ Len(batch) <= spec.total
      /\ Len(batch) < spec.total => \A c \in ToSet(all) : c \in ToSet(batch)
  BY <1>2, PlanIs
<1>4. ASSUME spec.perSection > 1, ~spec.headingsOnly, NEW s \in ToSet(sections),
             \E role \in ToSet(spec.roles) : MatchesRole(s, role), HasBody(doc, s),
             \A t \in ToSet(sections) : t.id = s.id => t = s,
             NEW c \in ToSet(chunks), c.section = s.id, c.content = s.start \/ c.end = s.end
      PROVE  c \in ToSet(all)
  <2> DEFINE S == {t \in ToSet(sections) : \E role \in ToSet(spec.roles) :
                                             MatchesRole(t, role) /\ HasBody(doc, t)}
  <2>1. s \in ToSet(chosen)
    <3>1. s \in S /\ \A i \in 1 .. Len(sections) : sections[i] \in S => sections[i] \in ToSet(sections)
      BY <1>4
    <3>2. chosen = Only(sections, S)
      BY DEF Chosens
    <3> HIDE DEF S, chosen
    <3>3. Chosen(sections, S, Len(sections), chosen)
      BY <1>2, <3>1, <3>2, OnlyIs
    <3>4. PICK i \in 1 .. Len(sections) : sections[i] = s
      BY <1>2 DEF ToSet
    <3>. QED
      BY <3>1, <3>3, <3>4 DEF Chosen
  <2> HIDE DEF chosen
  <2>2. n \in Nat /\ DOMAIN chosen = 1 .. n
    BY <1>3, LenProperties
  <2>3. PICK i \in 1 .. n : chosen[i] = s
    BY <2>1, <2>2 DEF ToSet
  <2> DEFINE these == Candidates(doc, s, chunks, {}, spec)
             part == BoundedSectionChunks(these, spec.perSection)
  <2>4. parts[i] = part
    BY <2>3 DEF Parts, chosen
  <2>5. Len(these) > 0 /\ (c = these[1] \/ c = these[Len(these)])
    BY <1>1, <1>4, EndsAreCandidates
  <2>6. these \in Seq(U)
    BY <1>2, CandidatesAre
  <2> HIDE DEF these, U
  <2>7. spec.perSection \in Nat \ {0}
    BY SpecsAssumption
  <2>8. c \in ToSet(part)
    BY <1>4, <2>5, <2>6, <2>7, BoundedIs
  <2> HIDE DEF part, parts, n
  <2>9. c \in ToSet(parts[i])
    BY <2>4, <2>8
  <2>10. c \in ToSet(FlattenSeq(parts))
    BY <1>3, <2>2, <2>9, FlattenHolds
  <2>. QED
    BY <2>10
<1> HIDE DEF batch, all
<1>. QED
  BY <1>1, <1>3, <1>4

-----------------------------------------------------------------------------
(* The addresses of the sections                                           *)

\* How many of the first i headings have the base of the i-th.
Serial(hs, i) == Cardinality({j \in 1 .. i : Base[hs[j].title] = Base[hs[i].title]})

LEMMA SerialIs ==
    ASSUME NEW hs, NEW i \in Nat \ {0}, NEW k \in 1 .. i,
           Base[hs[k].title] = Base[hs[i].title]
    PROVE  /\ Serial(hs, i) \in Nat /\ Serial(hs, k) \in Nat /\ Serial(hs, k) >= 1
           /\ k # i => Serial(hs, k) < Serial(hs, i)
<1> DEFINE A == {j \in 1 .. k : Base[hs[j].title] = Base[hs[k].title]}
           B == {j \in 1 .. i : Base[hs[j].title] = Base[hs[i].title]}
<1>1. Serial(hs, k) = Cardinality(A) /\ Serial(hs, i) = Cardinality(B)
  BY DEF Serial
<1>2. A \in SUBSET (1 .. k) /\ B \in SUBSET (1 .. i) /\ A \subseteq B /\ k \in A
      /\ (k # i => i \in B /\ i \notin A)
  OBVIOUS
<1>3. IsFiniteSet(1 .. k) /\ IsFiniteSet(1 .. i)
  BY FS_Interval
<1> HIDE DEF A, B
<1>4. IsFiniteSet(A) /\ IsFiniteSet(B)
  BY <1>2, <1>3, FS_Subset
<1>5. Cardinality(A) \in Nat /\ Cardinality(B) \in Nat
  BY <1>4, FS_CardinalityType
<1>6. Cardinality(A) >= 1
  <2>1. Cardinality(A) # 0
    BY <1>2, <1>4, FS_EmptySet
  <2>. QED
    BY <1>5, <2>1
<1>7. k # i => Cardinality(A) < Cardinality(B)
  <2>1. A \in SUBSET B /\ (k # i => A # B)
    BY <1>2
  <2>2. Cardinality(A) <= Cardinality(B) /\ (Cardinality(B) = Cardinality(A) => B = A)
    BY <1>4, <2>1, FS_Subset
  <2> DEFINE m == Cardinality(A)
             n == Cardinality(B)
  <2>3. m \in Nat /\ n \in Nat /\ m <= n /\ (k # i => n # m)
    BY <1>5, <2>1, <2>2
  <2> HIDE DEF m, n
  <2>4. k # i => m < n
    BY <2>3
  <2>. QED
    BY <2>4 DEF m, n
<1>. QED
  BY <1>1, <1>5, <1>6, <1>7

\* The addresses of titles are not empty, and stay as they are when put longer.
LEMMA BaseIs ==
    ASSUME NEW t \in DOMAIN Base, NEW u \in DOMAIN Base, NEW m \in Nat, NEW n \in Nat
    PROVE  /\ Len(Base[t]) \in Nat \ {0}
           /\ Len(Append(Base[t], m)) = Len(Base[t]) + 1
           /\ Append(Base[t], m) = Append(Base[u], n) => Base[t] = Base[u] /\ m = n
<1> DEFINE a == Base[t]
           b == Base[u]
           S == {a[k] : k \in 1 .. Len(a)} \cup {b[k] : k \in 1 .. Len(b)} \cup Nat
<1>1. /\ Len(a) \in Nat \ {0} /\ a = [k \in 1 .. Len(a) |-> a[k]]
      /\ Len(b) \in Nat \ {0} /\ b = [k \in 1 .. Len(b) |-> b[k]]
  BY TitlesAssumption
<1>2. (\A k \in 1 .. Len(a) : a[k] \in S) /\ (\A k \in 1 .. Len(b) : b[k] \in S)
      /\ m \in S /\ n \in S
  OBVIOUS
<1> HIDE DEF a, b, S
<1>3. a \in Seq(S) /\ b \in Seq(S)
  BY <1>1, <1>2
<1> DEFINE x == Append(a, m)
           y == Append(b, n)
<1>4. /\ x \in Seq(S) /\ Len(x) = Len(a) + 1 /\ x[Len(a) + 1] = m
      /\ \A k \in 1 .. Len(a) : x[k] = a[k]
  BY <1>2, <1>3, AppendProperties
<1>5. /\ y \in Seq(S) /\ Len(y) = Len(b) + 1 /\ y[Len(b) + 1] = n
      /\ \A k \in 1 .. Len(b) : y[k] = b[k]
  BY <1>2, <1>3, AppendProperties
<1> HIDE DEF x, y
<1>6. ASSUME x = y PROVE a = b /\ m = n
  <2>1. Len(a) = Len(b)
    <3>1. Len(a) + 1 = Len(b) + 1
      <4>1. Len(x) = Len(a) + 1 /\ Len(y) = Len(b) + 1
        BY <1>4, <1>5
      <4>2. Len(x) = Len(y)
        BY <1>6
      <4>. QED
        BY <4>1, <4>2
    <3> DEFINE k == Len(a)
               h == Len(b)
    <3>2. k \in Nat /\ h \in Nat /\ k + 1 = h + 1
      BY <1>1, <3>1
    <3> HIDE DEF k, h
    <3>3. k = h
      BY <3>2
    <3>. QED
      BY <3>3 DEF k, h
  <2>2. m = n /\ \A k \in 1 .. Len(a) : a[k] = b[k]
    BY <1>4, <1>5, <1>6, <2>1
  <2>. QED
    BY <1>1, <2>1, <2>2
<1>. QED
  BY <1>1, <1>4, <1>6 DEF x, y, a, b

\* The sections of two headings have one address only if one of them has the one
\* of its title and the other one with a number.
LEMMA TitledIdsDiffer ==
    ASSUME NEW hs, NEW i \in Nat \ {0}, NEW k \in Nat \ {0}, k < i,
           hs[i].title \in DOMAIN Base, hs[k].title \in DOMAIN Base,
           SectionId(hs, i) = SectionId(hs, k)
    PROVE  /\ SectionId(hs, i) = Base[hs[i].title] \/ SectionId(hs, k) = Base[hs[k].title]
           /\ Len(SectionId(hs, i)) > 1
<1> DEFINE a == Base[hs[k].title]
           b == Base[hs[i].title]
           m == Serial(hs, k)
           n == Serial(hs, i)
<1>1. /\ SectionId(hs, k) = IF m = 1 THEN a ELSE Append(a, m)
      /\ SectionId(hs, i) = IF n = 1 THEN b ELSE Append(b, n)
  BY DEF SectionId, Serial
<1>2. /\ m \in Nat /\ n \in Nat /\ m >= 1 /\ n >= 1
      /\ a = b => m < n
  <2>1. k \in 1 .. i /\ k # i /\ i \in 1 .. i /\ k \in 1 .. k
    OBVIOUS
  <2>2. a = b => m < n
    BY <2>1, SerialIs
  <2>3. n \in Nat /\ n >= 1
    BY <2>1, SerialIs
  <2>4. m \in Nat /\ m >= 1
    BY <2>1, SerialIs
  <2>. QED
    BY <2>2, <2>3, <2>4
<1>3. /\ Len(a) \in Nat \ {0} /\ Len(b) \in Nat \ {0}
      /\ Len(Append(a, m)) = Len(a) + 1 /\ Len(Append(b, n)) = Len(b) + 1
      /\ Append(a, m) = Append(b, n) => a = b /\ m = n
  <2> DEFINE t == hs[k].title
             u == hs[i].title
  <2>1. t \in DOMAIN Base /\ u \in DOMAIN Base /\ m \in Nat /\ n \in Nat
    BY <1>2
  <2> HIDE DEF m, n, t, u
  <2>2. /\ Len(Base[t]) \in Nat \ {0} /\ Len(Append(Base[t], m)) = Len(Base[t]) + 1
        /\ Append(Base[t], m) = Append(Base[u], n) => Base[t] = Base[u] /\ m = n
    BY <2>1, BaseIs
  <2>3. Len(Base[u]) \in Nat \ {0} /\ Len(Append(Base[u], n)) = Len(Base[u]) + 1
    BY <2>1, BaseIs
  <2>. QED
    BY <2>2, <2>3 DEF t, u
<1> HIDE DEF a, b, m, n
<1>4. CASE m = 1 /\ n = 1
  BY <1>1, <1>2, <1>4
<1>5. CASE m # 1 /\ n # 1
  BY <1>1, <1>2, <1>3, <1>5
<1>6. CASE m = 1 /\ n # 1
  BY <1>1, <1>3, <1>6 DEF a
<1>7. CASE m # 1 /\ n = 1
  BY <1>1, <1>3, <1>7 DEF b
<1>. QED
  BY <1>4, <1>5, <1>6, <1>7

\* SectionDetector.detect: sections with one address.
LEMMA SectionsDiffer ==
    ASSUME PlanIInv
    PROVE  AddressesDiffer
<1> SUFFICES ASSUME NEW i \in 1 .. Len(sections), NEW j \in 1 .. Len(sections), i < j,
                    sections[i].id = sections[j].id
             PROVE  /\ \E k \in {i, j} : sections[k].id = Base[sections[k].title]
                    /\ Len(sections[i].id) > 1 \/ sections[i].id = <<"document-preamble">>
  <2>1. \A i, j \in 1 .. Len(sections) : i # j => i < j \/ j < i
    <3> SUFFICES ASSUME NEW i \in 1 .. Len(sections), NEW j \in 1 .. Len(sections), i # j
                 PROVE  i < j \/ j < i
      OBVIOUS
    <3>1. i \in Int /\ j \in Int
      OBVIOUS
    <3>. QED
      BY <3>1
  <2>. QED
    BY <2>1 DEF AddressesDiffer
<1> DEFINE hs == Deduplicate(doc)
           n == Len(sections)
<1>1. pc \in {"chunk", "plan", "done"} /\ n \in Nat
  <2>1. sections # <<>>
    OBVIOUS
  <2>2. pc \in {"chunk", "plan", "done"}
    BY <2>1 DEF PlanIInv, PlanFits
  <2>. QED
    BY <2>2, SectionsAreNamed DEF PlanIInv, Tiles
<1>2. HeadingsFit(doc)
  BY <1>1, SectionsAreNamed DEF PlanIInv
<1>3. PICK m : Names(doc, hs, sections, m)
  BY <1>1, SectionsAreNamed DEF PlanIInv
<1> HIDE DEF hs
<1>4. \A k \in 1 .. Len(hs) : hs[k].title \in DOMAIN Base
  BY <1>2, <1>3 DEF Names, InText, HeadingsFit, Begin
<1>5. /\ i \in 1 .. n /\ j \in 1 .. n /\ m \in 0 .. 1 /\ Len(hs) \in Nat
      /\ ~(j <= m)
  BY <1>1, <1>3 DEF Names
<1> DEFINE b == j - m
           t == sections[j]
<1>6. /\ b \in 1 .. Len(hs) /\ b \in Nat \ {0} /\ t.id = SectionId(hs, b)
      /\ t.title = hs[b].title /\ hs[b].title \in DOMAIN Base
  <2>1. IsTitled(doc, hs, t, b)
    BY <1>3, <1>5 DEF Names
  <2>2. b \in 1 .. Len(hs)
    BY <2>1 DEF IsTitled
  <2> HIDE DEF b, t
  <2>. QED
    BY <1>4, <2>1, <2>2 DEF IsTitled
<1> HIDE DEF t
<1>7. CASE i <= m
  <2>1. IsUntitled(hs, sections[i]) /\ hs # <<>>
    <3>1. Len(hs) # 0
      BY <1>5, <1>6
    <3>2. IsUntitled(hs, sections[i])
      BY <1>3, <1>5, <1>7 DEF Names
    <3>3. hs # <<>>
      BY <3>1
    <3>. QED
      BY <3>2, <3>3
  <2>2. sections[i].id = <<"document-preamble">> /\ Len(<<"document-preamble">>) = 1
    BY <2>1 DEF IsUntitled
  <2>3. t.id = Base[t.title]
    <3> DEFINE w == t.title
               r == Serial(hs, b)
    <3>1. w \in DOMAIN Base
      BY <1>6
    <3>2. r \in Nat
      BY <1>6, SerialIs
    <3>3. t.id = IF r = 1 THEN Base[w] ELSE Append(Base[w], r)
      BY <1>6 DEF SectionId, Serial
    <3> HIDE DEF w, r
    <3>4. Len(Append(Base[w], r)) = Len(Base[w]) + 1 /\ Len(Base[w]) \in Nat \ {0}
      BY <3>1, <3>2, BaseIs
    <3>5. t.id = sections[i].id
      BY DEF t
    <3>6. t.id # Append(Base[w], r)
      BY <2>2, <3>4, <3>5
    <3>. QED
      BY <3>3, <3>6 DEF w
  <2>. QED
    BY <2>2, <2>3 DEF t
<1>8. CASE ~(i <= m)
  <2> DEFINE a == i - m
             s == sections[i]
  <2>1. /\ a \in 1 .. Len(hs) /\ s.id = SectionId(hs, a) /\ s.title = hs[a].title
        /\ hs[a].title \in DOMAIN Base
    <3>1. IsTitled(doc, hs, s, a)
      BY <1>3, <1>5, <1>8 DEF Names
    <3>2. a \in 1 .. Len(hs)
      BY <3>1 DEF IsTitled
    <3> HIDE DEF a, s
    <3>. QED
      BY <1>4, <3>1, <3>2 DEF IsTitled
  <2>2. a < b /\ a \in Nat \ {0}
    BY <1>5, <2>1
  <2> HIDE DEF a, b
  <2>3. SectionId(hs, b) = SectionId(hs, a)
    BY <1>6, <2>1 DEF t
  <2>4. /\ SectionId(hs, b) = Base[hs[b].title] \/ SectionId(hs, a) = Base[hs[a].title]
        /\ Len(SectionId(hs, b)) > 1
    BY <1>6, <2>1, <2>2, <2>3, TitledIdsDiffer
  <2>5. /\ s.id = Base[s.title] \/ t.id = Base[t.title]
        /\ Len(s.id) > 1
    BY <1>6, <2>1, <2>3, <2>4
  <2>. QED
    BY <2>5 DEF t
<1>. QED
  BY <1>7, <1>8

-----------------------------------------------------------------------------
(* The theorems of the batches                                             *)

\* The invariant of the plan: the forms are those of the pages and sections
\* found, and each batch is what is planned of them (extract/batching.py,
\* extract/page_roles.py).
THEOREM PlanningKeepsToTheDocument == Spec => []PlanIInv
<1>1. Init => PlanIInv
  BY InitPlan
<1>2. PlanIInv /\ [Next]_vars => PlanIInv'
  BY NextPlan
<1>. QED
  BY <1>1, <1>2, PTL DEF Spec

\* Whatever the document: nothing that stands on a form is sent, but a title of
\* some section; and behind the introduction only a page that is headed as a
\* review is taken for a form (BatchPlanner.plan, analyze_page_roles).
THEOREM FormsAreKeptOut == Spec => []FormsStayOut
<1>1. PlanIInv => FormsStayOut
  BY FormsAreKept, MainTextStays DEF FormsStayOut
<1>. QED
  BY <1>1, PlanningKeepsToTheDocument, PTL

\* Whatever the titles and limits: two sections share an address only by a title
\* that says so, and a batch within its total keeps both ends of each section it
\* is about (SectionDetector.detect, _bounded_section_chunks).
THEOREM BatchesKeepEnds == Spec => []BatchesKeepSections
<1>1. PlanIInv => BatchesKeepSections
  BY SectionsDiffer, EndsAreKept DEF BatchesKeepSections
<1>. QED
  BY <1>1, PlanningKeepsToTheDocument, PTL

-----------------------------------------------------------------------------
(* The text of a project, as one walk of its \input graph                  *)

\* What line i of f stands for below the files `seen`, W being what is below each.
Part(q, W, seen, f, i) ==
    LET line == Directives(q, f)[i]
        child == Resolve(q, f, line.arg)
    IN IF line.kind # "input" THEN <<line>>
       ELSE IF child \notin File THEN <<>>
       ELSE W[seen \cup {f}][child]

\* The first k lines of f.
FirstLines(q, W, seen, f, k) == FlattenSeq([i \in 1 .. k |-> Part(q, W, seen, f, i)])

Walked(q, W, seen, f) ==
    IF f \in seen THEN <<>> ELSE FirstLines(q, W, seen, f, Len(Directives(q, f)))

Walks == [SUBSET File -> [File -> Seq(FileLine)]]
Onward(q, W) == [seen \in SUBSET File |-> [f \in File |-> Walked(q, W, seen, f)]]

\* One that is what it leads to.
IsWalk(q, W) == W \in Walks /\ W = Onward(q, W)
Walk(q) == CHOOSE W : IsWalk(q, W)

\* What holds of a file below some others if it does of all files below those and
\* it, holds of every file: there are finitely many.
LEMMA DownTheFiles ==
    ASSUME NEW T, \A seen \in SUBSET File : \A f \in File :
             (f \notin seen => \A c \in File : <<seen \cup {f}, c>> \in T) => <<seen, f>> \in T
    PROVE  \A seen \in SUBSET File : \A f \in File : <<seen, f>> \in T
<1> DEFINE N == Cardinality(File)
           K == {n \in 0 .. N : \A seen \in SUBSET File : \A f \in File :
                   N - Cardinality(seen) <= n => <<seen, f>> \in T}
<1>1. IsFiniteSet(File) /\ N \in Nat
  BY SourcesAssumption, FS_CardinalityType
<1>2. \A seen \in SUBSET File :
         IsFiniteSet(seen) /\ Cardinality(seen) \in Nat /\ Cardinality(seen) <= N
  BY <1>1, FS_Subset, FS_CardinalityType
<1>3. ASSUME NEW seen \in SUBSET File, NEW f \in File, f \notin seen
      PROVE  seen \cup {f} \in SUBSET File /\ Cardinality(seen \cup {f}) = Cardinality(seen) + 1
  BY <1>2, <1>3, FS_AddElement
<1> HIDE DEF N
<1>4. ASSUME NEW seen \in SUBSET File, NEW f \in File, Cardinality(seen) = N
      PROVE  f \in seen
  <2> SUFFICES ASSUME f \notin seen PROVE FALSE
    OBVIOUS
  <2> DEFINE more == seen \cup {f}
  <2>1. more \in SUBSET File /\ Cardinality(more) = N + 1
    BY <1>3, <1>4
  <2> HIDE DEF more
  <2>. QED
    BY <1>1, <1>2, <2>1
<1>5. 0 \in K
  <2>1. ASSUME NEW seen \in SUBSET File, NEW f \in File, N - Cardinality(seen) <= 0
        PROVE  <<seen, f>> \in T
    <3>1. Cardinality(seen) = N
      BY <1>1, <1>2, <2>1
    <3>. QED
      BY <1>4, <3>1
  <2>. QED
    BY <1>1, <2>1
<1>6. ASSUME NEW n \in 0 .. N - 1, n \in K
      PROVE  n + 1 \in K
  <2>1. ASSUME NEW seen \in SUBSET File, NEW f \in File, N - Cardinality(seen) <= n + 1
        PROVE  <<seen, f>> \in T
    <3>1. ASSUME f \notin seen, NEW c \in File
          PROVE  <<seen \cup {f}, c>> \in T
      <4> DEFINE more == seen \cup {f}
      <4>1. more \in SUBSET File /\ Cardinality(more) = Cardinality(seen) + 1
        BY <1>3, <3>1
      <4> HIDE DEF more
      <4>2. N - Cardinality(more) <= n
        BY <1>1, <1>2, <2>1, <4>1
      <4>3. <<more, c>> \in T
        BY <1>6, <4>1, <4>2
      <4>. QED
        BY <4>3 DEF more
    <3>. QED
      BY <3>1
  <2>2. n + 1 \in 0 .. N
    BY <1>1
  <2>. QED
    BY <2>1, <2>2
<1> HIDE DEF K
<1>7. N \in K
  BY <1>1, <1>5, <1>6, Upwards
<1>8. \A seen \in SUBSET File : N - Cardinality(seen) <= N
  BY <1>1, <1>2
<1>. QED
  BY <1>7, <1>8 DEF K

\* What stands below a file depends only on what stands below its inputs.
LEMMA SameBelow ==
    ASSUME NEW q, NEW V, NEW W, NEW seen, NEW f,
           f \notin seen => \A c \in File : V[seen \cup {f}][c] = W[seen \cup {f}][c]
    PROVE  Walked(q, V, seen, f) = Walked(q, W, seen, f)
<1>1. CASE f \in seen
  BY <1>1 DEF Walked
<1>2. CASE f \notin seen
  <2> DEFINE n == Len(Directives(q, f))
  <2>1. \A i \in 1 .. n : Part(q, V, seen, f, i) = Part(q, W, seen, f, i)
    BY <1>2 DEF Part
  <2>2. [i \in 1 .. n |-> Part(q, V, seen, f, i)] = [i \in 1 .. n |-> Part(q, W, seen, f, i)]
    BY <2>1
  <2>. QED
    BY <1>2, <2>2 DEF Walked, FirstLines
<1>. QED
  BY <1>1, <1>2

\* The files whose text can be told.
AllLegible(q) == \A f \in File : Directives(q, f) \in Seq(FileLine) /\ Len(Directives(q, f)) \in Nat

LEMMA PartIs ==
    ASSUME NEW q, AllLegible(q), NEW W \in Walks, NEW seen \in SUBSET File, NEW f \in File,
           NEW i \in 1 .. Len(Directives(q, f))
    PROVE  Part(q, W, seen, f, i) \in Seq(FileLine)
<1> DEFINE line == Directives(q, f)[i]
           more == seen \cup {f}
<1>1. line \in FileLine
  BY DEF AllLegible
<1>2. \A x : x \in FileLine => <<x>> \in Seq(FileLine)
  OBVIOUS
<1>3. <<line>> \in Seq(FileLine) /\ <<>> \in Seq(FileLine)
  BY <1>1, <1>2
<1>4. more \in SUBSET File
  OBVIOUS
<1>5. \A c \in File : W[more][c] \in Seq(FileLine)
  BY <1>4 DEF Walks
<1>. QED
  BY <1>3, <1>5 DEF Part

LEMMA WalkedIs ==
    ASSUME NEW q, AllLegible(q), NEW W \in Walks, NEW seen \in SUBSET File, NEW f \in File
    PROVE  Walked(q, W, seen, f) \in Seq(FileLine)
<1> DEFINE n == Len(Directives(q, f))
           ss == [i \in 1 .. n |-> Part(q, W, seen, f, i)]
<1>1. n \in Nat /\ ss \in [1 .. n -> Seq(FileLine)]
  BY PartIs DEF AllLegible
<1> HIDE DEF ss, n
<1>2. FlattenSeq(ss) \in Seq(FileLine)
  BY <1>1, FlattenIs
<1>3. <<>> \in Seq(FileLine)
  OBVIOUS
<1>. QED
  BY <1>2, <1>3 DEF Walked, FirstLines, ss, n

\* There is such a walk: what files hold below all but k others is settled after
\* k rounds.
LEMMA WalkExists ==
    ASSUME NEW q, AllLegible(q)
    PROVE  IsWalk(q, Walk(q))
<1> DEFINE N == Cardinality(File)
           M == N + 1
           none == [seen \in SUBSET File |-> [f \in File |-> <<>>]]
           R == [k \in 0 .. M |-> Walks]
           steps == [k \in 1 .. M |-> [W \in Walks |-> Onward(q, W)]]
<1>1. IsFiniteSet(File) /\ N \in Nat /\ M \in Nat /\ N \in 0 .. M
  BY SourcesAssumption, FS_CardinalityType
<1>2. none \in Walks /\ \A W \in Walks : Onward(q, W) \in Walks
  <2>1. none \in Walks
    <3>1. <<>> \in Seq(FileLine)
      OBVIOUS
    <3>. QED
      BY <3>1 DEF Walks
  <2>2. ASSUME NEW W \in Walks
        PROVE  Onward(q, W) \in Walks
    <3>1. \A seen \in SUBSET File : \A f \in File : Walked(q, W, seen, f) \in Seq(FileLine)
      BY WalkedIs
    <3>. QED
      BY <3>1 DEF Walks, Onward
  <2>. QED
    BY <2>1, <2>2
<1>3. /\ \A k \in 0 .. M : R[k] = Walks
      /\ \A k \in 1 .. M : k - 1 \in 0 .. M /\ k \in 0 .. M
      /\ \A k \in 1 .. M : \A W \in Walks : steps[k][W] = Onward(q, W)
      /\ \A seen \in SUBSET File : \A f \in File : none[seen][f] = <<>>
  BY <1>1
<1> HIDE DEF N, M, none, R, steps
<1>4. Leads(steps, M, R, none)
  <2>1. 0 \in 0 .. M
    BY <1>1
  <2>. QED
    BY <1>1, <1>2, <1>3, <2>1 DEF Leads
<1>5. PICK g : Follows(g, steps, M, R, none)
  BY <1>4, Recursion
<1>6. /\ g[0] = none /\ \A k \in 0 .. M : g[k] \in Walks
      /\ \A k \in 1 .. M : g[k] = Onward(q, g[k - 1])
  BY <1>3, <1>5 DEF Follows
<1> DEFINE T == {t \in (SUBSET File) \X File : \A k, l \in 0 .. M :
                   N - Cardinality(t[1]) <= k /\ N - Cardinality(t[1]) <= l
                     => g[k][t[1]][t[2]] = g[l][t[1]][t[2]]}
<1>7. \A seen \in SUBSET File : \A f \in File : <<seen, f>> \in T
  <2>1. ASSUME NEW seen \in SUBSET File, NEW f \in File,
               f \notin seen => \A c \in File : <<seen \cup {f}, c>> \in T
        PROVE  <<seen, f>> \in T
    <3>0. Cardinality(seen) \in Nat
      BY <1>1, FS_Subset, FS_CardinalityType
    <3>1. \A k \in 1 .. M : g[k][seen][f] = Walked(q, g[k - 1], seen, f)
      <4> SUFFICES ASSUME NEW k \in 1 .. M PROVE g[k][seen][f] = Walked(q, g[k - 1], seen, f)
        OBVIOUS
      <4>1. PICK V : V = g[k - 1]
        OBVIOUS
      <4>2. g[k] = Onward(q, V)
        BY <1>6, <4>1
      <4>3. Onward(q, V)[seen][f] = Walked(q, V, seen, f)
        BY DEF Onward
      <4>. QED
        BY <4>1, <4>2, <4>3
    <3>2. CASE f \in seen
      <4>1. ASSUME NEW k \in 0 .. M PROVE g[k][seen][f] = <<>>
        <5>1. CASE k = 0
          BY <1>3, <1>6, <5>1
        <5>2. CASE k # 0
          <6>1. k \in 1 .. M
            BY <5>2
          <6>. QED
            BY <3>1, <3>2, <6>1 DEF Walked
        <5>. QED
          BY <5>1, <5>2
      <4>. QED
        BY <4>1
    <3>3. CASE f \notin seen
      <4> DEFINE more == seen \cup {f}
      <4>1. /\ more \in SUBSET File /\ Cardinality(more) = Cardinality(seen) + 1
            /\ Cardinality(more) <= N
        <5>1. IsFiniteSet(seen)
          BY <1>1, FS_Subset
        <5>. QED
          BY <1>1, <3>3, <5>1, FS_AddElement, FS_Subset DEF N
      <4>2. \A c \in File : \A k, l \in 0 .. M :
               N - Cardinality(more) <= k /\ N - Cardinality(more) <= l
                 => g[k][more][c] = g[l][more][c]
        BY <2>1, <3>3
      <4> HIDE DEF more
      <4>3. ASSUME NEW k \in 0 .. M, NEW l \in 0 .. M,
                   N - Cardinality(seen) <= k, N - Cardinality(seen) <= l
            PROVE  g[k][seen][f] = g[l][seen][f]
        <5>1. /\ k \in 1 .. M /\ l \in 1 .. M /\ k - 1 \in 0 .. M /\ l - 1 \in 0 .. M
              /\ N - Cardinality(more) <= k - 1 /\ N - Cardinality(more) <= l - 1
          BY <1>1, <3>0, <4>1, <4>3
        <5> DEFINE V == g[k - 1]
                   W == g[l - 1]
        <5>2. \A c \in File : V[more][c] = W[more][c]
          BY <4>2, <5>1
        <5>3. g[k][seen][f] = Walked(q, V, seen, f) /\ g[l][seen][f] = Walked(q, W, seen, f)
          BY <3>1, <5>1
        <5> HIDE DEF V, W
        <5>4. Walked(q, V, seen, f) = Walked(q, W, seen, f)
          BY <5>2, SameBelow DEF more
        <5>. QED
          BY <5>3, <5>4
      <4>. QED
        BY <4>3
    <3>. QED
      BY <3>2, <3>3
  <2> HIDE DEF T
  <2>2. \A seen \in SUBSET File : \A f \in File :
           (f \notin seen => \A c \in File : <<seen \cup {f}, c>> \in T) => <<seen, f>> \in T
    BY <2>1
  <2>. QED
    BY <2>2, DownTheFiles
<1>8. N \in 0 .. M /\ M \in 0 .. M /\ M \in 1 .. M /\ M - 1 = N
  BY <1>1 DEF M
<1>9. \A seen \in SUBSET File : \A f \in File : g[M][seen][f] = g[N][seen][f]
  <2> SUFFICES ASSUME NEW seen \in SUBSET File, NEW f \in File
               PROVE  g[M][seen][f] = g[N][seen][f]
    OBVIOUS
  <2>1. Cardinality(seen) \in Nat
    BY <1>1, FS_Subset, FS_CardinalityType
  <2>2. N - Cardinality(seen) <= N /\ N - Cardinality(seen) <= M
    BY <1>1, <2>1 DEF M
  <2>3. <<seen, f>> \in T
    BY <1>7
  <2>. QED
    BY <1>8, <2>2, <2>3
<1>10. g[N] \in Walks /\ g[M] \in Walks /\ g[M] = Onward(q, g[N])
  BY <1>6, <1>8
<1>11. g[M] = g[N]
  <2> DEFINE V == g[M]
             W == g[N]
  <2>1. V \in Walks /\ W \in Walks /\ \A seen \in SUBSET File : \A f \in File : V[seen][f] = W[seen][f]
    BY <1>9, <1>10
  <2> HIDE DEF V, W
  <2>2. \A seen \in SUBSET File : V[seen] \in [File -> Seq(FileLine)] /\ W[seen] \in [File -> Seq(FileLine)]
    BY <2>1 DEF Walks
  <2>3. \A seen \in SUBSET File : V[seen] = W[seen]
    BY <2>1, <2>2
  <2>4. V = W
    BY <2>1, <2>3 DEF Walks
  <2>. QED
    BY <2>4 DEF V, W
<1>12. IsWalk(q, g[N])
  BY <1>10, <1>11 DEF IsWalk
<1>. QED
  BY <1>12 DEF Walk

\* There is no other.
LEMMA WalkIsOnly ==
    ASSUME NEW q, AllLegible(q), NEW V, V = Onward(q, V)
    PROVE  V = Walk(q)
<1> DEFINE W == Walk(q)
           T == {t \in (SUBSET File) \X File : V[t[1]][t[2]] = W[t[1]][t[2]]}
<1>1. W = Onward(q, W)
  BY WalkExists DEF IsWalk
<1> HIDE DEF W
<1>2. \A seen \in SUBSET File : \A f \in File : <<seen, f>> \in T
  <2>1. ASSUME NEW seen \in SUBSET File, NEW f \in File,
               f \notin seen => \A c \in File : <<seen \cup {f}, c>> \in T
        PROVE  <<seen, f>> \in T
    <3>1. f \notin seen => \A c \in File : V[seen \cup {f}][c] = W[seen \cup {f}][c]
      BY <2>1
    <3>2. Walked(q, V, seen, f) = Walked(q, W, seen, f)
      BY <3>1, SameBelow
    <3>3. \A U : Onward(q, U)[seen][f] = Walked(q, U, seen, f)
      BY DEF Onward
    <3>4. V[seen][f] = Walked(q, V, seen, f) /\ W[seen][f] = Walked(q, W, seen, f)
      BY <1>1, <3>3
    <3>. QED
      BY <3>2, <3>4
  <2> HIDE DEF T
  <2>2. \A seen \in SUBSET File : \A f \in File :
           (f \notin seen => \A c \in File : <<seen \cup {f}, c>> \in T) => <<seen, f>> \in T
    BY <2>1
  <2>. QED
    BY <2>2, DownTheFiles
<1>3. \A seen \in SUBSET File : \A f \in File : V[seen][f] = W[seen][f]
  BY <1>2
<1>4. Onward(q, V) = Onward(q, W)
  <2>1. ASSUME NEW seen \in SUBSET File, NEW f \in File
        PROVE  Walked(q, V, seen, f) = Walked(q, W, seen, f)
    <3>1. seen \cup {f} \in SUBSET File
      OBVIOUS
    <3>2. \A c \in File : V[seen \cup {f}][c] = W[seen \cup {f}][c]
      BY <1>3, <3>1
    <3>. QED
      BY <3>2, SameBelow
  <2>. QED
    BY <2>1 DEF Onward
<1>. QED
  BY <1>1, <1>4 DEF W

LEMMA ProjectIsLegible ==
    ASSUME NEW q, IsProject(q)
    PROVE  AllLegible(q)
<1>1. \A s : s \in Seq(FileLine) => Len(s) \in Nat
  OBVIOUS
<1>. QED
  BY <1>1 DEF IsProject, AllLegible

\* What the formal rules read, unless a name is found in the working directory.
LEMMA RulesReadTheWalk ==
    ASSUME NEW q, IsProject(q), \A n \in Name : q.cwd[n] = NoFile
    PROVE  ExpandForAnalysis(q) = Walk(q)[{}][q.main]
<1> DEFINE Aside(W, path, f, i) ==
             LET line == Directives(q, f)[i]
                 child == q.near[f][line.arg]
             IN IF line.kind # "input" THEN <<line>>
                ELSE IF child \notin File THEN <<>>
                ELSE W[path \cup {f}][child]
           Inline(W) == [path \in SUBSET File |-> [f \in File |->
             IF f \in path THEN <<>>
             ELSE FlattenSeq([i \in 1 .. Len(Directives(q, f)) |-> Aside(W, path, f, i)])]]
           B == CHOOSE W : W = Inline(W)
<1>1. ExpandForAnalysis(q) = B[{}][q.main]
  BY DEF ExpandForAnalysis
<1>2. AllLegible(q)
  BY ProjectIsLegible
<1>3. ASSUME NEW W
      PROVE  Inline(W) = Onward(q, W)
  <2>1. ASSUME NEW path \in SUBSET File, NEW f \in File
        PROVE  Walked(q, W, path, f) =
                 IF f \in path THEN <<>>
                 ELSE FlattenSeq([i \in 1 .. Len(Directives(q, f)) |-> Aside(W, path, f, i)])
    <3> DEFINE n == Len(Directives(q, f))
    <3>1. ASSUME NEW i \in 1 .. n
          PROVE  Part(q, W, path, f, i) = Aside(W, path, f, i)
      <4> DEFINE line == Directives(q, f)[i]
      <4>1. line \in ToSet(Directives(q, f))
        BY <1>2 DEF ToSet, AllLegible
      <4>2. line.kind = "input" => line.arg \in Name
        BY <4>1 DEF IsProject
      <4>3. line.kind = "input" => Resolve(q, f, line.arg) = q.near[f][line.arg]
        BY <4>2 DEF Resolve
      <4> HIDE DEF line
      <4>. QED
        BY <4>3 DEF Part, line
    <3> HIDE DEF Aside
    <3>2. [i \in 1 .. n |-> Part(q, W, path, f, i)] = [i \in 1 .. n |-> Aside(W, path, f, i)]
      BY <3>1
    <3>. QED
      BY <3>2 DEF Walked, FirstLines
  <2> HIDE DEF Aside
  <2>. QED
    BY <2>1 DEF Onward
<1> HIDE DEF Inline
<1>4. Walk(q) = Inline(Walk(q))
  BY <1>2, <1>3, WalkExists DEF IsWalk
<1>5. B = Inline(B)
  BY <1>4
<1> HIDE DEF B
<1>6. B = Walk(q)
  BY <1>2, <1>3, <1>5, WalkIsOnly
<1>. QED
  BY <1>1, <1>6

-----------------------------------------------------------------------------
(* What is put together, once more                                         *)

\* One part after the other.
LEMMA FlattenNext ==
    ASSUME NEW S, NEW N \in Nat \ {0}, NEW ss \in [1 .. N -> Seq(S)]
    PROVE  FlattenSeq(ss) = FlattenSeq([i \in 1 .. N - 1 |-> ss[i]]) \o ss[N]
<1> DEFINE R == [k \in 0 .. N |-> Seq(S)]
           steps == [k \in 1 .. N |-> [x \in Seq(S) |-> x \o ss[k]]]
           first == [i \in 1 .. N - 1 |-> ss[i]]
           none == <<>>
<1>1. /\ \A k \in 0 .. N : R[k] = Seq(S)
      /\ \A k \in 1 .. N : k - 1 \in 0 .. N /\ k \in 0 .. N /\ ss[k] \in Seq(S)
      /\ \A k \in 1 .. N : \A x \in Seq(S) : steps[k][x] = x \o ss[k]
      /\ Len(ss) = N /\ Len(first) = N - 1 /\ (N - 1 = 0 => first = <<>>)
      /\ \A k \in 1 .. N - 1 : first[k] = ss[k] /\ k \in 1 .. N
      /\ 0 \in 0 .. N /\ 1 \in 1 .. N /\ N \in 1 .. N /\ N \in Nat /\ N - 1 \in Nat
  OBVIOUS
<1>2. none \in Seq(S) /\ \A x, y \in Seq(S) : x \o y \in Seq(S)
  BY ConcatProperties
<1>3. \A x \in Seq(S) : none \o x = x
  BY ConcatEmptySeq
<1> HIDE DEF R, steps, first
<1>4. Leads(steps, N, R, none)
  <2>1. N \in Nat /\ none \in R[0]
    BY <1>1, <1>2
  <2>2. ASSUME NEW k \in 1 .. N, NEW x \in R[k - 1]
        PROVE  steps[k][x] \in R[k]
    <3>1. x \in Seq(S) /\ R[k] = Seq(S) /\ ss[k] \in Seq(S)
      BY <1>1
    <3>2. steps[k][x] = x \o ss[k]
      BY <1>1, <3>1
    <3>. QED
      BY <1>2, <3>1, <3>2
  <2>. QED
    BY <2>1, <2>2 DEF Leads
<1>5. PICK g : Follows(g, steps, N, R, none)
  BY <1>4, Recursion
<1>6. /\ g[0] = none /\ \A k \in 0 .. N : g[k] \in Seq(S)
      /\ \A k \in 1 .. N : g[k] = g[k - 1] \o ss[k]
  <2>1. g[0] = none /\ \A k \in 0 .. N : g[k] \in Seq(S)
    BY <1>1, <1>5 DEF Follows
  <2>2. ASSUME NEW k \in 1 .. N
        PROVE  g[k] = g[k - 1] \o ss[k]
    <3>1. g[k - 1] \in Seq(S)
      BY <1>1, <2>1
    <3>2. g[k] = steps[k][g[k - 1]]
      BY <1>5 DEF Follows
    <3>3. steps[k][g[k - 1]] = g[k - 1] \o ss[k]
      BY <1>1, <3>1
    <3>. QED
      BY <3>2, <3>3
  <2>. QED
    BY <2>1, <2>2
<1>7. g[1] = ss[1]
  <2>1. g[1] = g[1 - 1] \o ss[1]
    BY <1>1, <1>6
  <2>2. 1 - 1 = 0
    OBVIOUS
  <2>3. g[1] = none \o ss[1]
    BY <1>6, <2>1, <2>2
  <2>. QED
    BY <1>1, <1>3, <2>3
<1> DEFINE G == [k \in 0 .. N |-> {g[k]}]
<1>8. \A k \in 0 .. N : G[k] = {g[k]}
  OBVIOUS
<1> HIDE DEF G, none
<1>9. \A k \in 2 .. N : k - 1 \in 0 .. N /\ k \in 0 .. N /\ k \in 1 .. N
  OBVIOUS
<1>10. Grows(ss, G)
  <2>1. ss[1] \in G[1]
    BY <1>1, <1>7, <1>8
  <2>2. ASSUME NEW k \in 2 .. N, NEW x \in G[k - 1]
        PROVE  x \o ss[k] \in G[k]
    <3>1. x = g[k - 1] /\ G[k] = {g[k]}
      BY <1>8, <1>9
    <3>2. g[k] = g[k - 1] \o ss[k]
      BY <1>6, <1>9
    <3>. QED
      BY <3>1, <3>2
  <2>. QED
    BY <1>1, <2>1, <2>2 DEF Grows
<1>11. Grows(first, G)
  <2>1. Len(first) # 0 => first[1] \in G[1]
    <3>1. Len(first) # 0 => 1 \in 1 .. N - 1
      BY <1>1
    <3>. QED
      BY <1>1, <1>7, <1>8, <3>1
  <2>2. \A k \in 2 .. N - 1 : k \in 2 .. N /\ first[k] = ss[k]
    BY <1>1
  <2>3. ASSUME NEW k \in 2 .. N - 1, NEW x \in G[k - 1]
        PROVE  x \o first[k] \in G[k]
    <3>1. k \in 2 .. N /\ first[k] = ss[k]
      BY <2>2
    <3>2. x = g[k - 1] /\ G[k] = {g[k]}
      BY <1>8, <1>9, <3>1
    <3>3. g[k] = g[k - 1] \o ss[k]
      BY <1>6, <1>9, <3>1
    <3>. QED
      BY <3>1, <3>2, <3>3
  <2>4. Len(first) = 0 => first \in G[0]
    BY <1>1, <1>6, <1>8 DEF none
  <2>. QED
    BY <1>1, <2>1, <2>3, <2>4 DEF Grows
<1>12. FlattenSeq(ss) \in G[N] /\ FlattenSeq(first) \in G[N - 1]
  BY <1>1, <1>10, <1>11, FlattenStays
<1>13. FlattenSeq(ss) = g[N] /\ FlattenSeq(first) = g[N - 1]
  BY <1>1, <1>8, <1>12
<1>. QED
  BY <1>1, <1>6, <1>13 DEF first

\* Nothing is in the whole that is in none of its parts.
LEMMA FlattenOnly ==
    ASSUME NEW S, NEW N \in Nat, NEW ss \in [1 .. N -> Seq(S)],
           NEW x \in ToSet(FlattenSeq(ss))
    PROVE  \E i \in 1 .. N : x \in ToSet(ss[i])
<1> DEFINE T == {y \in S : \E i \in 1 .. N : y \in ToSet(ss[i])}
<1>1. ASSUME NEW i \in 1 .. N
      PROVE  ss[i] \in Seq(T)
  <2> DEFINE s == ss[i]
  <2>1. s \in Seq(S) /\ Len(s) \in Nat /\ DOMAIN s = 1 .. Len(s)
    OBVIOUS
  <2>2. \A k \in 1 .. Len(s) : s[k] \in S /\ s[k] \in ToSet(s)
    BY <2>1 DEF ToSet
  <2>3. \A k \in 1 .. Len(s) : s[k] \in T
    BY <2>2
  <2>4. s = [k \in 1 .. Len(s) |-> s[k]]
    BY <2>1
  <2> HIDE DEF s, T
  <2>5. \A n \in Nat : [1 .. n -> T] \subseteq Seq(T)
    OBVIOUS
  <2>6. s \in [1 .. Len(s) -> T]
    BY <2>3, <2>4
  <2>7. s \in Seq(T)
    BY <2>1, <2>5, <2>6
  <2>. QED
    BY <2>7 DEF s
<1> HIDE DEF T
<1>2. ss \in [1 .. N -> Seq(T)]
  BY <1>1
<1>3. FlattenSeq(ss) \in Seq(T)
  BY <1>2, FlattenIs
<1>4. x \in T
  <2>1. \A s \in Seq(T) : ToSet(s) \subseteq T
    BY DEF ToSet
  <2>. QED
    BY <1>3, <2>1
<1>. QED
  BY <1>4 DEF T

-----------------------------------------------------------------------------
(* The bibliography is searched along the same walk                        *)

Bibliography(ls) == {l.arg : l \in {k \in ToSet(ls) : k.kind = "bib"}}

\* Those of what the inputs of f stand for.
BibliographyAfter(q, seen, f) ==
    UNION {Bibliography(Walk(q)[seen \cup {f}][c]) : c \in InputsOf(q, f) \cap File}

\* The bibliography commands of the walk: those of the file, and those below each
\* of its inputs.
LEMMA BibliographyBelow ==
    ASSUME NEW q, IsProject(q), NEW seen \in SUBSET File, NEW f \in File, f \notin seen
    PROVE  Bibliography(Walk(q)[seen][f]) =
             BibliographyOf(q, f) \cup BibliographyAfter(q, seen, f)
<1> DEFINE W == Walk(q)
           here == Directives(q, f)
           n == Len(here)
           ss == [i \in 1 .. n |-> Part(q, W, seen, f, i)]
           below == UNION {Bibliography(W[seen \cup {f}][c]) : c \in InputsOf(q, f) \cap File}
<1>1. /\ AllLegible(q) /\ W \in Walks /\ W = Onward(q, W) /\ n \in Nat /\ here \in Seq(FileLine)
      /\ DOMAIN here = 1 .. n
  BY ProjectIsLegible, WalkExists DEF IsWalk, AllLegible
<1> HIDE DEF W
<1>2. W[seen][f] = FlattenSeq(ss)
  <2>1. \A U : Onward(q, U)[seen][f] = Walked(q, U, seen, f)
    BY DEF Onward
  <2>. QED
    BY <1>1, <2>1 DEF Walked, FirstLines
<1>3. ss \in [1 .. n -> Seq(FileLine)] /\ \A i \in 1 .. n : ss[i] = Part(q, W, seen, f, i)
  BY <1>1, PartIs
<1> HIDE DEF ss
<1>4. \A l : l \in ToSet(W[seen][f]) <=> \E i \in 1 .. n : l \in ToSet(Part(q, W, seen, f, i))
  <2>1. ASSUME NEW l, l \in ToSet(FlattenSeq(ss))
        PROVE  \E i \in 1 .. n : l \in ToSet(ss[i])
    BY <1>1, <1>3, <2>1, FlattenOnly
  <2>2. ASSUME NEW l, NEW i \in 1 .. n, l \in ToSet(ss[i])
        PROVE  l \in ToSet(FlattenSeq(ss))
    BY <1>1, <1>3, <2>2, FlattenHolds
  <2>. QED
    BY <1>2, <1>3, <2>1, <2>2
<1>5. \A i \in 1 .. n : here[i] \in ToSet(here)
  BY <1>1 DEF ToSet
<1>6. \A x : ToSet(<<x>>) = {x}
  BY DEF ToSet
<1>7. ToSet(<<>>) = {}
  BY DEF ToSet
<1>8. ASSUME NEW l \in ToSet(W[seen][f]), l.kind = "bib"
      PROVE  l.arg \in BibliographyOf(q, f) \cup below
  <2>1. PICK i \in 1 .. n : l \in ToSet(Part(q, W, seen, f, i))
    BY <1>4
  <2> DEFINE child == Resolve(q, f, here[i].arg)
  <2>2. CASE here[i].kind # "input"
    <3>1. l = here[i]
      BY <1>6, <2>1, <2>2 DEF Part
    <3>. QED
      BY <1>5, <1>8, <3>1 DEF BibliographyOf
  <2>3. CASE here[i].kind = "input" /\ child \notin File
    BY <1>7, <2>1, <2>3 DEF Part
  <2>4. CASE here[i].kind = "input" /\ child \in File
    <3>1. child \in InputsOf(q, f)
      BY <1>5, <2>4 DEF InputsOf
    <3>2. l \in ToSet(W[seen \cup {f}][child])
      BY <2>1, <2>4 DEF Part
    <3>3. l.arg \in Bibliography(W[seen \cup {f}][child])
      BY <1>8, <3>2 DEF Bibliography
    <3>. QED
      BY <2>4, <3>1, <3>3
  <2>. QED
    BY <2>2, <2>3, <2>4
<1>9. ASSUME NEW a \in BibliographyOf(q, f) \cup below
      PROVE  \E l \in ToSet(W[seen][f]) : l.kind = "bib" /\ a = l.arg
  <2>1. CASE a \in BibliographyOf(q, f)
    <3>1. PICK l \in ToSet(here) : l.kind = "bib" /\ a = l.arg
      BY <2>1 DEF BibliographyOf
    <3>2. PICK i \in 1 .. n : l = here[i]
      BY <1>1, <3>1 DEF ToSet
    <3>3. Part(q, W, seen, f, i) = <<l>>
      BY <3>1, <3>2 DEF Part
    <3>. QED
      BY <1>4, <1>6, <3>1, <3>3
  <2>2. CASE a \in below
    <3>1. PICK c \in InputsOf(q, f) \cap File : a \in Bibliography(W[seen \cup {f}][c])
      BY <2>2
    <3>2. PICK l \in ToSet(W[seen \cup {f}][c]) : l.kind = "bib" /\ a = l.arg
      BY <3>1 DEF Bibliography
    <3>3. PICK line \in ToSet(here) : line.kind = "input" /\ c = Resolve(q, f, line.arg)
      BY <3>1 DEF InputsOf
    <3>4. PICK i \in 1 .. n : line = here[i]
      BY <1>1, <3>3 DEF ToSet
    <3>5. Part(q, W, seen, f, i) = W[seen \cup {f}][c]
      BY <3>1, <3>3, <3>4 DEF Part
    <3>. QED
      BY <1>4, <3>2, <3>5
  <2>. QED
    BY <1>9, <2>1, <2>2
<1>10. Bibliography(W[seen][f]) = BibliographyOf(q, f) \cup below
  BY <1>8, <1>9 DEF Bibliography
<1>. QED
  BY <1>10 DEF W, BibliographyAfter

\* So the search finds what the walk holds.
LEMMA BibliographyOfWalk ==
    ASSUME NEW q, IsProject(q)
    PROVE  BibliographyReferences(q) = Bibliography(Walk(q)[{}][q.main])
<1> DEFINE Search(B, visited, f) ==
             IF f \in visited THEN {}
             ELSE BibliographyOf(q, f) \cup
                  UNION {B[visited \cup {f}][child] : child \in InputsOf(q, f) \cap File}
           Searches(B) == [visited \in SUBSET File |-> [f \in File |-> Search(B, visited, f)]]
           Found == CHOOSE B : B = Searches(B)
           W == Walk(q)
           Held == [visited \in SUBSET File |-> [f \in File |-> Bibliography(W[visited][f])]]
           T == {t \in (SUBSET File) \X File : Found[t[1]][t[2]] = Held[t[1]][t[2]]}
<1>1. BibliographyReferences(q) = Found[{}][q.main]
  BY DEF BibliographyReferences
<1>2. q.main \in File
  BY DEF IsProject
<1>3. ASSUME NEW visited \in SUBSET File, NEW f \in File
      PROVE  Held[visited][f] = Search(Held, visited, f)
  <2>1. visited \cup {f} \in SUBSET File
    OBVIOUS
  <2>2. \A c \in File : Held[visited \cup {f}][c] = Bibliography(W[visited \cup {f}][c])
    BY <2>1
  <2>3. Held[visited][f] = Bibliography(W[visited][f])
    OBVIOUS
  <2> HIDE DEF Held
  <2>4. CASE f \notin visited
    <3>1. Bibliography(W[visited][f]) =
            BibliographyOf(q, f) \cup BibliographyAfter(q, visited, f)
      BY <2>4, BibliographyBelow
    <3>2. UNION {Held[visited \cup {f}][c] : c \in InputsOf(q, f) \cap File}
            = BibliographyAfter(q, visited, f)
      BY <2>2 DEF BibliographyAfter
    <3>. QED
      BY <2>3, <2>4, <3>1, <3>2
  <2>5. CASE f \in visited
    <3>1. W[visited][f] = <<>>
      <4>1. \A U : Onward(q, U)[visited][f] = Walked(q, U, visited, f)
        BY DEF Onward
      <4>2. W = Onward(q, W)
        BY ProjectIsLegible, WalkExists DEF IsWalk
      <4>. QED
        BY <2>5, <4>1, <4>2 DEF Walked
    <3>2. Bibliography(<<>>) = {}
      BY DEF Bibliography, ToSet
    <3>. QED
      BY <2>3, <2>5, <3>1, <3>2
  <2>. QED
    BY <2>4, <2>5
<1>4. Held = Searches(Held)
  <2>1. \A visited \in SUBSET File : Held[visited] = [f \in File |-> Held[visited][f]]
    OBVIOUS
  <2>2. Held = [visited \in SUBSET File |-> Held[visited]]
    OBVIOUS
  <2> HIDE DEF Held, Search
  <2>. QED
    BY <1>3, <2>1, <2>2
<1> HIDE DEF Searches, Search, Held
<1>5. Found = Searches(Found)
  BY <1>4
<1> HIDE DEF Found, W
<1>6. \A visited \in SUBSET File : \A f \in File : <<visited, f>> \in T
  <2>1. ASSUME NEW visited \in SUBSET File, NEW f \in File,
               f \notin visited => \A c \in File : <<visited \cup {f}, c>> \in T
        PROVE  <<visited, f>> \in T
    <3>1. f \notin visited => \A c \in File : Found[visited \cup {f}][c] = Held[visited \cup {f}][c]
      BY <2>1
    <3>2. Search(Found, visited, f) = Search(Held, visited, f)
      BY <3>1 DEF Search
    <3>3. \A B : Searches(B)[visited][f] = Search(B, visited, f)
      BY DEF Searches
    <3>4. Found[visited][f] = Search(Found, visited, f)
      BY <1>5, <3>3
    <3>. QED
      BY <1>3, <3>2, <3>4
  <2> HIDE DEF T
  <2>2. \A visited \in SUBSET File : \A f \in File :
           (f \notin visited => \A c \in File : <<visited \cup {f}, c>> \in T) => <<visited, f>> \in T
    BY <2>1
  <2>. QED
    BY <2>2, DownTheFiles
<1>7. {} \in SUBSET File
  OBVIOUS
<1>8. Found[{}][q.main] = Held[{}][q.main]
  BY <1>2, <1>6, <1>7
<1>9. Held[{}][q.main] = Bibliography(W[{}][q.main])
  BY <1>2, <1>7 DEF Held
<1>. QED
  BY <1>1, <1>8, <1>9 DEF W

-----------------------------------------------------------------------------
(* What the calls of _expand_file have read so far                         *)

\* The files of the calls above call i, and the lines it has passed, but for the
\* \input it waits for.
Above(calls, i) == {calls[j].file : j \in 1 .. i - 1}
Passed(calls, i) == IF i < Len(calls) THEN calls[i].line - 2 ELSE calls[i].line - 1

\* h[i] is the text when call i has read so far: that of the calls above, and its
\* own lines; the call below is for the \input it waits for.
CallReads(q, calls, h, i) ==
    LET f == calls[i].file
        here == Directives(q, f)
        last == calls[i].line - 1
    IN /\ f \notin Above(calls, i)
       /\ h[i] = h[i - 1] \o FirstLines(q, Walk(q), Above(calls, i), f, Passed(calls, i))
       /\ i < Len(calls) =>
            /\ last \in 1 .. Len(here) /\ here[last].kind = "input"
            /\ calls[i + 1].file = Resolve(q, f, here[last].arg)

Reads(q, calls, text, h) ==
    /\ h \in [0 .. Len(calls) -> Seq(FileLine)]
    /\ h[0] = <<>> /\ h[Len(calls)] = text
    /\ \A i \in 1 .. Len(calls) : CallReads(q, calls, h, i)

StackReads(q, calls, text) == \E h : Reads(q, calls, text, h)

\* The lines of a file, one after the other.
LEMMA FirstLinesAre ==
    ASSUME NEW q, AllLegible(q), NEW seen \in SUBSET File, NEW f \in File,
           NEW k \in 0 .. Len(Directives(q, f))
    PROVE  /\ FirstLines(q, Walk(q), seen, f, k) \in Seq(FileLine)
           /\ k = 0 => FirstLines(q, Walk(q), seen, f, k) = <<>>
           /\ k # 0 => FirstLines(q, Walk(q), seen, f, k) =
                         FirstLines(q, Walk(q), seen, f, k - 1) \o Part(q, Walk(q), seen, f, k)
<1> DEFINE W == Walk(q)
           ss == [i \in 1 .. k |-> Part(q, W, seen, f, i)]
           first == [i \in 1 .. k - 1 |-> ss[i]]
<1>1. W \in Walks /\ Len(Directives(q, f)) \in Nat /\ k \in Nat
  BY WalkExists DEF IsWalk, AllLegible
<1> HIDE DEF W
<1>2. ss \in [1 .. k -> Seq(FileLine)]
  BY <1>1, PartIs
<1>3. FlattenSeq(ss) \in Seq(FileLine)
  BY <1>1, <1>2, FlattenIs
<1>4. FirstLines(q, W, seen, f, k) = FlattenSeq(ss)
  BY DEF FirstLines
<1>5. CASE k = 0
  <2>1. ss = <<>> /\ Len(<<>>) = 0
    BY <1>5
  <2>2. FlattenSeq(<<>>) = <<>>
    BY DEF FlattenSeq
  <2>. QED
    BY <1>3, <1>4, <1>5, <2>1, <2>2 DEF W
<1>6. CASE k # 0
  <2>1. ss[k] = Part(q, W, seen, f, k) /\ k \in Nat \ {0}
    BY <1>1, <1>6
  <2>2. first = [i \in 1 .. k - 1 |-> Part(q, W, seen, f, i)]
    OBVIOUS
  <2>3. FirstLines(q, W, seen, f, k - 1) = FlattenSeq(first)
    BY <2>2 DEF FirstLines
  <2> HIDE DEF ss, first
  <2>4. FlattenSeq(ss) = FlattenSeq([i \in 1 .. k - 1 |-> ss[i]]) \o ss[k]
    BY <1>2, <2>1, FlattenNext
  <2>. QED
    BY <1>3, <1>4, <1>6, <2>1, <2>3, <2>4 DEF W, first
<1>. QED
  BY <1>5, <1>6

LEMMA AboveIs ==
    ASSUME NEW calls \in Seq(Call), NEW i \in 1 .. Len(calls) + 1
    PROVE  Above(calls, i) \in SUBSET File
<1>1. \A j \in 1 .. i - 1 : j \in 1 .. Len(calls)
  OBVIOUS
<1>. QED
  BY <1>1, FilesOfCalls DEF Above

LEMMA AboveSame ==
    ASSUME NEW calls, NEW others, NEW i \in Nat,
           \A j \in 1 .. i - 1 : others[j].file = calls[j].file
    PROVE  Above(others, i) = Above(calls, i)
<1> DEFINE before == 1 .. i - 1
<1>1. \A j \in before : others[j].file = calls[j].file
  OBVIOUS
<1> HIDE DEF before
<1>2. {others[j].file : j \in before} = {calls[j].file : j \in before}
  BY <1>1
<1>. QED
  BY <1>2 DEF Above, before

\* The calls above one whose file stays have read what they had.
LEMMA UpperCallsRead ==
    ASSUME NEW q, NEW calls \in Seq(Call), NEW others \in Seq(Call), NEW h, NEW g,
           NEW m \in Nat, m <= Len(calls), m <= Len(others),
           \A j \in 1 .. m - 1 : others[j] = calls[j] /\ g[j] = h[j], g[0] = h[0],
           others[m].file = calls[m].file,
           NEW i \in 1 .. m - 1, CallReads(q, calls, h, i)
    PROVE  CallReads(q, others, g, i)
<1>1. /\ Len(calls) \in Nat /\ Len(others) \in Nat /\ i < Len(calls) /\ i < Len(others)
      /\ i \in Nat
  OBVIOUS
<1>2. \A j \in 1 .. i - 1 : others[j].file = calls[j].file
  <2>1. \A j \in 1 .. i - 1 : j \in 1 .. m - 1
    OBVIOUS
  <2>. QED
    BY <2>1
<1>3. Above(others, i) = Above(calls, i)
  BY <1>1, <1>2, AboveSame
<1>4. others[i] = calls[i] /\ g[i] = h[i]
  OBVIOUS
<1>5. g[i - 1] = h[i - 1]
  <2>1. i - 1 = 0 \/ i - 1 \in 1 .. m - 1
    OBVIOUS
  <2>. QED
    BY <2>1
<1>6. others[i + 1].file = calls[i + 1].file
  <2>1. i + 1 = m \/ i + 1 \in 1 .. m - 1
    OBVIOUS
  <2>. QED
    BY <2>1
<1>7. Passed(others, i) = Passed(calls, i)
  BY <1>1, <1>4 DEF Passed
<1>. QED
  BY <1>1, <1>3, <1>4, <1>5, <1>6, <1>7 DEF CallReads

LEMMA ThreeParts ==
    ASSUME NEW a \in Seq(FileLine), NEW b \in Seq(FileLine), NEW c \in Seq(FileLine)
    PROVE  (a \o b) \o c = a \o (b \o c)
BY ConcatAssociative

\* A line that is no \input is added to the text.
LEMMA ReadLine ==
    ASSUME NEW q, AllLegible(q), NEW calls \in Seq(Call), Len(calls) \in Nat \ {0},
           NEW others \in Seq(Call), Len(others) = Len(calls),
           \A j \in 1 .. Len(calls) - 1 : others[j] = calls[j],
           others[Len(calls)].file = calls[Len(calls)].file,
           others[Len(calls)].line = calls[Len(calls)].line + 1,
           NEW line, calls[Len(calls)].line <= Len(Directives(q, calls[Len(calls)].file)),
           line = Directives(q, calls[Len(calls)].file)[calls[Len(calls)].line],
           line.kind # "input",
           NEW text, StackReads(q, calls, text)
    PROVE  StackReads(q, others, Append(text, line))
<1> DEFINE n == Len(calls)
           f == calls[n].file
           k == calls[n].line
           seen == Above(calls, n)
<1>1. PICK h : Reads(q, calls, text, h)
  BY DEF StackReads
<1>2. /\ n \in 1 .. Len(calls) /\ n \in Nat \ {0} /\ n \in 1 .. Len(calls) + 1
      /\ f \in File /\ k \in Nat \ {0} /\ Len(Directives(q, f)) \in Nat
      /\ k \in 1 .. Len(Directives(q, f)) /\ k \in 0 .. Len(Directives(q, f))
      /\ k - 1 \in 0 .. Len(Directives(q, f)) /\ k # 0
  BY FilesOfCalls DEF AllLegible
<1>3. seen \in SUBSET File
  BY <1>2, AboveIs
<1>4. /\ h \in [0 .. n -> Seq(FileLine)] /\ h[n] = text /\ h[0] = <<>>
      /\ \A i \in 1 .. n : CallReads(q, calls, h, i)
  BY <1>1 DEF Reads
<1> DEFINE more == Append(text, line)
           g == [i \in 0 .. n |-> IF i = n THEN more ELSE h[i]]
           below == FirstLines(q, Walk(q), seen, f, k - 1)
<1>5. h[n] = h[n - 1] \o below /\ f \notin seen
  <2>1. CallReads(q, calls, h, n)
    BY <1>2, <1>4
  <2>2. Passed(calls, n) = k - 1
    BY <1>2 DEF Passed
  <2>. QED
    BY <2>1, <2>2 DEF CallReads
<1>6. /\ n - 1 \in 0 .. n /\ n \in 0 .. n /\ 0 \in 0 .. n /\ n # 0 /\ n - 1 # n
      /\ \A j \in 1 .. n - 1 : j \in 0 .. n /\ j # n /\ j \in 1 .. n
  BY <1>2
<1>7. /\ h[n - 1] \in Seq(FileLine) /\ below \in Seq(FileLine) /\ text \in Seq(FileLine)
      /\ line \in FileLine /\ <<line>> \in Seq(FileLine)
  <2>1. h[n - 1] \in Seq(FileLine) /\ text \in Seq(FileLine)
    BY <1>4, <1>6
  <2>2. below \in Seq(FileLine)
    BY <1>2, <1>3, FirstLinesAre
  <2>3. line \in FileLine
    BY <1>2 DEF AllLegible
  <2>4. \A x \in FileLine : <<x>> \in Seq(FileLine)
    OBVIOUS
  <2>. QED
    BY <2>1, <2>2, <2>3, <2>4
<1>8. FirstLines(q, Walk(q), seen, f, k) = below \o <<line>>
  <2>1. Part(q, Walk(q), seen, f, k) = <<line>>
    BY DEF Part
  <2>2. FirstLines(q, Walk(q), seen, f, k) =
          FirstLines(q, Walk(q), seen, f, k - 1) \o Part(q, Walk(q), seen, f, k)
    <3> HIDE DEF f, k, seen
    <3>. QED
      BY <1>2, <1>3, FirstLinesAre
  <2>. QED
    BY <2>1, <2>2
<1>9. more \in Seq(FileLine) /\ more = h[n - 1] \o (below \o <<line>>)
  <2> HIDE DEF n, below
  <2>1. more \in Seq(FileLine) /\ more = text \o <<line>>
    BY <1>7
  <2>2. (h[n - 1] \o below) \o <<line>> = h[n - 1] \o (below \o <<line>>)
    BY <1>7, ThreeParts
  <2>. QED
    BY <1>4, <1>5, <2>1, <2>2
<1> HIDE DEF more, below
<1>10. /\ g \in [0 .. n -> Seq(FileLine)] /\ g[n] = more /\ g[0] = h[0] /\ g[n - 1] = h[n - 1]
       /\ \A j \in 1 .. n - 1 : g[j] = h[j]
  BY <1>4, <1>6, <1>9
<1> HIDE DEF g, n
<1>11. ASSUME NEW i \in 1 .. n - 1
       PROVE  CallReads(q, others, g, i)
  <2>1. CallReads(q, calls, h, i)
    BY <1>4, <1>6
  <2>2. \A j \in 1 .. n - 1 : others[j] = calls[j] /\ g[j] = h[j]
    BY <1>10 DEF n
  <2>3. n <= Len(calls) /\ n <= Len(others) /\ n \in Nat /\ others[n].file = calls[n].file
    BY <1>2 DEF n
  <2>. QED
    BY <1>10, <2>1, <2>2, <2>3, UpperCallsRead
<1>12. CallReads(q, others, g, n)
  <2>1. Above(others, n) = seen
    <3>1. \A j \in 1 .. n - 1 : others[j].file = calls[j].file
      BY DEF n
    <3>. QED
      BY <1>2, <3>1, AboveSame
  <2>2. others[n].file = f /\ others[n].line = k + 1 /\ Len(others) = n
    BY DEF n
  <2>3. Passed(others, n) = k
    BY <1>2, <2>2 DEF Passed
  <2>4. others[n].file \notin Above(others, n)
    BY <1>5, <2>1, <2>2
  <2>5. g[n] = g[n - 1] \o FirstLines(q, Walk(q), Above(others, n), others[n].file,
                                     Passed(others, n))
    <3> HIDE DEF seen, f, k
    <3>. QED
      BY <1>8, <1>9, <1>10, <2>1, <2>2, <2>3
  <2>6. ~(n < Len(others))
    BY <1>2, <2>2
  <2>. QED
    BY <2>4, <2>5, <2>6 DEF CallReads
<1>13. \A i \in 1 .. n : CallReads(q, others, g, i)
  BY <1>2, <1>11, <1>12
<1>14. Reads(q, others, more, g)
  BY <1>4, <1>10, <1>13 DEF Reads, n
<1>. QED
  BY <1>14 DEF StackReads, more

\* A file that is called begins with nothing.
LEMMA ReadInput ==
    ASSUME NEW q, AllLegible(q), NEW calls \in Seq(Call), Len(calls) \in Nat,
           NEW child \in File, \A j \in 1 .. Len(calls) : calls[j].file # child,
           NEW others \in Seq(Call), Len(others) = Len(calls) + 1,
           \A j \in 1 .. Len(calls) - 1 : others[j] = calls[j],
           others[Len(calls) + 1] = [file |-> child, line |-> 1],
           Len(calls) # 0 =>
             LET f == calls[Len(calls)].file
                 line == calls[Len(calls)].line
             IN /\ others[Len(calls)].file = f /\ others[Len(calls)].line = line + 1
                /\ line <= Len(Directives(q, f)) /\ Directives(q, f)[line].kind = "input"
                /\ child = Resolve(q, f, Directives(q, f)[line].arg),
           NEW text, StackReads(q, calls, text)
    PROVE  StackReads(q, others, text)
<1> DEFINE n == Len(calls)
           seen == Above(others, n + 1)
<1>1. PICK h : Reads(q, calls, text, h)
  BY DEF StackReads
<1>2. /\ h \in [0 .. n -> Seq(FileLine)] /\ h[n] = text /\ h[0] = <<>>
      /\ \A i \in 1 .. n : CallReads(q, calls, h, i)
  BY <1>1 DEF Reads
<1>3. n \in Nat /\ n \in 0 .. n /\ n + 1 \in 1 .. Len(others) + 1 /\ Len(others) = n + 1
      /\ n \notin 1 .. n - 1 /\ text \in Seq(FileLine)
  BY <1>2
<1> DEFINE g == [i \in 0 .. n + 1 |-> IF i = n + 1 THEN text ELSE h[i]]
<1>4. /\ g \in [0 .. n + 1 -> Seq(FileLine)] /\ g[n + 1] = text /\ g[0] = h[0] /\ g[n] = text
      /\ \A j \in 0 .. n : g[j] = h[j]
  BY <1>2, <1>3
<1> HIDE DEF g
<1>5. \A j \in 1 .. n : others[j].file = calls[j].file
  <2>1. \A j \in 1 .. n : j \in 1 .. n - 1 \/ (j = n /\ n # 0)
    BY <1>3
  <2>. QED
    BY <2>1
<1>6. ASSUME NEW i \in 1 .. n - 1
      PROVE  CallReads(q, others, g, i)
  <2>1. i \in 1 .. n /\ n \in 1 .. n
    BY <1>3
  <2>2. CallReads(q, calls, h, i) /\ others[n].file = calls[n].file
    BY <1>2, <1>5, <2>1
  <2>3. \A j \in 1 .. n - 1 : others[j] = calls[j] /\ g[j] = h[j]
    BY <1>3, <1>4
  <2>4. n <= Len(calls) /\ n <= Len(others) /\ i \in 1 .. n - 1
    BY <1>3
  <2> HIDE DEF n
  <2>. QED
    BY <1>3, <1>4, <2>2, <2>3, <2>4, UpperCallsRead
<1>7. ASSUME n # 0
      PROVE  CallReads(q, others, g, n)
  <2> DEFINE f == calls[n].file
             line == calls[n].line
             here == Directives(q, f)
  <2>1. /\ n \in 1 .. n /\ n - 1 \in 0 .. n /\ f \in File /\ line \in Nat \ {0}
        /\ Len(here) \in Nat /\ ~(n < Len(calls)) /\ n < Len(others)
    BY <1>3, <1>7, FilesOfCalls DEF AllLegible
  <2>2. others[n].file = f /\ others[n].line = line + 1 /\ line \in 1 .. Len(here)
        /\ here[line].kind = "input" /\ child = Resolve(q, f, here[line].arg)
    BY <1>7, <2>1
  <2>3. Above(others, n) = Above(calls, n)
    <3>1. \A j \in 1 .. n - 1 : others[j].file = calls[j].file
      OBVIOUS
    <3>. QED
      BY <1>3, <3>1, AboveSame
  <2>4. Passed(others, n) = line - 1 /\ Passed(calls, n) = line - 1
    BY <2>1, <2>2 DEF Passed
  <2>5. CallReads(q, calls, h, n) /\ g[n] = h[n] /\ g[n - 1] = h[n - 1]
    BY <1>2, <1>3, <1>4, <2>1
  <2>6. f \notin Above(calls, n)
        /\ h[n] = h[n - 1] \o FirstLines(q, Walk(q), Above(calls, n), f, line - 1)
    BY <2>4, <2>5 DEF CallReads
  <2>7. others[n].file \notin Above(others, n)
    BY <2>2, <2>3, <2>6
  <2>8. g[n] = g[n - 1] \o FirstLines(q, Walk(q), Above(others, n), others[n].file,
                                     Passed(others, n))
    BY <2>2, <2>3, <2>4, <2>5, <2>6
  <2>9. /\ others[n].line - 1 = line
        /\ Directives(q, others[n].file) = here
        /\ others[n + 1].file = child
    BY <2>1, <2>2
  <2>10. n < Len(others) =>
           /\ others[n].line - 1 \in 1 .. Len(Directives(q, others[n].file))
           /\ Directives(q, others[n].file)[others[n].line - 1].kind = "input"
           /\ others[n + 1].file =
                Resolve(q, others[n].file,
                        Directives(q, others[n].file)[others[n].line - 1].arg)
    BY <2>2, <2>9
  <2> HIDE DEF n, f, line, here
  <2>. QED
    BY <2>7, <2>8, <2>10 DEF CallReads
<1>8. CallReads(q, others, g, n + 1)
  <2>1. child \notin seen
    <3>1. n + 1 - 1 = n
      BY <1>3
    <3>2. \A j \in 1 .. n : others[j].file # child
      BY <1>5
    <3>3. seen = {others[j].file : j \in 1 .. n}
      BY <3>1 DEF Above
    <3>. QED
      BY <3>2, <3>3
  <2>2. seen \in SUBSET File
    BY <1>3, AboveIs
  <2>3. others[n + 1].file = child /\ others[n + 1].line = 1 /\ ~(n + 1 < Len(others))
    BY <1>3
  <2>4. Passed(others, n + 1) = 0 /\ n + 1 - 1 = n
    BY <1>3, <2>3 DEF Passed
  <2>5. FirstLines(q, Walk(q), seen, child, 0) = <<>>
    <3>1. 0 \in 0 .. Len(Directives(q, child))
      BY DEF AllLegible
    <3>. QED
      BY <2>2, <3>1, FirstLinesAre
  <2>6. text \o <<>> = text
    BY <1>3, ConcatEmptySeq
  <2> DEFINE m == n + 1
  <2>7. /\ g[m] = text /\ m - 1 = n /\ Passed(others, m) = 0 /\ seen = Above(others, m)
        /\ others[m].file = child
    BY <1>4, <2>3, <2>4
  <2>8. ~(m < Len(others)) /\ others[m].file \notin Above(others, m)
    BY <2>1, <2>3
  <2> HIDE DEF m, seen
  <2>9. g[m] = g[m - 1] \o FirstLines(q, Walk(q), Above(others, m), others[m].file,
                                     Passed(others, m))
    <3>1. g[m - 1] = text
      BY <1>4, <2>7
    <3>. QED
      BY <2>5, <2>6, <2>7, <3>1
  <2> HIDE DEF n, m
  <2>10. CallReads(q, others, g, m)
    BY <2>8, <2>9 DEF CallReads
  <2>. QED
    BY <2>10 DEF m
<1>9. \A i \in 1 .. n + 1 : CallReads(q, others, g, i)
  <2>1. \A i \in 1 .. n + 1 : i \in 1 .. n - 1 \/ (i = n /\ n # 0) \/ i = n + 1
    BY <1>3
  <2>. QED
    BY <1>6, <1>7, <1>8, <2>1
<1>10. Reads(q, others, text, g)
  BY <1>2, <1>3, <1>4, <1>9 DEF Reads
<1>. QED
  BY <1>10 DEF StackReads

\* A file that is finished has been read as it stands below the calls above it.
LEMMA ReadFile ==
    ASSUME NEW q, AllLegible(q), NEW calls \in Seq(Call), Len(calls) \in Nat \ {0},
           calls[Len(calls)].line - 1 = Len(Directives(q, calls[Len(calls)].file)),
           NEW others \in Seq(Call), Len(others) = Len(calls) - 1,
           \A j \in 1 .. Len(calls) - 1 : others[j] = calls[j],
           NEW text, StackReads(q, calls, text)
    PROVE  /\ Len(calls) = 1 => text = Walk(q)[{}][calls[1].file]
           /\ Len(calls) # 1 => StackReads(q, others, text)
<1> DEFINE n == Len(calls)
           f == calls[n].file
           seen == Above(calls, n)
           W == Walk(q)
<1>1. PICK h : Reads(q, calls, text, h)
  BY DEF StackReads
<1>2. /\ h \in [0 .. n -> Seq(FileLine)] /\ h[n] = text /\ h[0] = <<>>
      /\ \A i \in 1 .. n : CallReads(q, calls, h, i)
  BY <1>1 DEF Reads
<1>3. /\ n \in Nat \ {0} /\ n \in 1 .. n /\ n \in 1 .. n + 1 /\ f \in File
      /\ n - 1 \in 0 .. n /\ n \in 0 .. n
  BY FilesOfCalls
<1>4. seen \in SUBSET File
  BY <1>3, AboveIs
<1>5. /\ W \in Walks /\ W = Onward(q, W)
      /\ \A more \in SUBSET File : \A c \in File : W[more][c] = Walked(q, W, more, c)
  <2>1. W \in Walks /\ W = Onward(q, W)
    BY WalkExists DEF IsWalk
  <2>2. \A more \in SUBSET File : \A c \in File : Onward(q, W)[more][c] = Walked(q, W, more, c)
    BY DEF Onward
  <2>. QED
    BY <2>1, <2>2
<1>6. f \notin seen /\ h[n] = h[n - 1] \o W[seen][f]
  <2>1. CallReads(q, calls, h, n)
    BY <1>2, <1>3
  <2>2. Passed(calls, n) = Len(Directives(q, f))
    BY <1>3 DEF Passed
  <2>3. f \notin seen /\ h[n] = h[n - 1] \o FirstLines(q, W, seen, f, Len(Directives(q, f)))
    BY <2>1, <2>2 DEF CallReads
  <2>4. W[seen][f] = FirstLines(q, W, seen, f, Len(Directives(q, f)))
    BY <1>3, <1>4, <1>5, <2>3 DEF Walked
  <2>. QED
    BY <2>3, <2>4
<1>7. W[seen][f] \in Seq(FileLine)
  BY <1>3, <1>4, <1>5 DEF Walks
<1>8. CASE n = 1
  <2>1. seen = {}
    BY <1>8 DEF Above
  <2>2. h[n - 1] = <<>>
    BY <1>2, <1>8
  <2>3. text = W[{}][f]
    <3>1. <<>> \o W[seen][f] = W[seen][f]
      BY <1>7, ConcatEmptySeq
    <3>. QED
      BY <1>2, <1>6, <2>1, <2>2, <3>1
  <2>. QED
    BY <1>8, <2>3
<1>9. CASE n # 1
  <2> DEFINE m == n - 1
             e == calls[m].file
             k == calls[m].line - 1
             over == Above(calls, m)
             part == FirstLines(q, W, over, e, k - 1)
             g == [i \in 0 .. m |-> IF i = m THEN text ELSE h[i]]
  <2>1. /\ m \in Nat \ {0} /\ m \in 1 .. n /\ m < n /\ m + 1 = n /\ m \in 1 .. Len(calls) + 1
        /\ m - 1 \in 0 .. n /\ e \in File /\ Len(Directives(q, e)) \in Nat /\ m \in 0 .. n
        /\ calls[m].line \in Nat \ {0}
    BY <1>3, <1>9, FilesOfCalls DEF AllLegible
  <2>2. CallReads(q, calls, h, m)
    BY <1>2, <2>1
  <2>3. Passed(calls, m) = k - 1
    BY <2>1 DEF Passed
  <2>4. /\ e \notin over /\ h[m] = h[m - 1] \o part
        /\ k \in 1 .. Len(Directives(q, e)) /\ Directives(q, e)[k].kind = "input"
        /\ f = Resolve(q, e, Directives(q, e)[k].arg)
    BY <2>1, <2>2, <2>3 DEF CallReads
  <2>5. over \in SUBSET File
    BY <2>1, AboveIs
  <2>6. seen = over \cup {e}
    <3>1. \A j : j \in 1 .. n - 1 <=> j \in 1 .. m - 1 \/ j = m
      BY <2>1
    <3> HIDE DEF n, m
    <3>. QED
      BY <3>1 DEF Above
  <2>7. Part(q, W, over, e, k) = W[seen][f]
    <3> HIDE DEF W, k, e, over, seen, f
    <3>. QED
      BY <1>3, <2>4, <2>6 DEF Part
  <2>8. part \in Seq(FileLine) /\ FirstLines(q, W, over, e, k) = part \o W[seen][f]
    <3>1. k \in 0 .. Len(Directives(q, e)) /\ k - 1 \in 0 .. Len(Directives(q, e)) /\ k # 0
      BY <2>1, <2>4
    <3>2. FirstLines(q, Walk(q), over, e, k - 1) \in Seq(FileLine)
      <4> DEFINE i == k - 1
      <4>1. i \in 0 .. Len(Directives(q, e))
        BY <3>1
      <4> HIDE DEF i, e, over, k
      <4>2. FirstLines(q, Walk(q), over, e, i) \in Seq(FileLine)
        BY <2>1, <2>5, <4>1, FirstLinesAre
      <4>. QED
        BY <4>2 DEF i
    <3>3. FirstLines(q, Walk(q), over, e, k) =
            FirstLines(q, Walk(q), over, e, k - 1) \o Part(q, Walk(q), over, e, k)
      <4> HIDE DEF e, over, k
      <4>. QED
        BY <2>1, <2>5, <3>1, FirstLinesAre
    <3>. QED
      BY <2>7, <3>2, <3>3
  <2>9. text = h[m - 1] \o FirstLines(q, W, over, e, k) /\ text \in Seq(FileLine)
    <3>1. h[m - 1] \in Seq(FileLine)
      BY <1>2, <2>1
    <3>2. (h[m - 1] \o part) \o W[seen][f] = h[m - 1] \o (part \o W[seen][f])
      BY <1>7, <2>8, <3>1, ThreeParts
    <3>3. text = h[m] \o W[seen][f]
      BY <1>2, <1>6
    <3>4. text \in Seq(FileLine)
      BY <1>2, <1>3
    <3>. QED
      BY <2>4, <2>8, <3>2, <3>3, <3>4
  <2>10. /\ g \in [0 .. m -> Seq(FileLine)] /\ g[m] = text /\ g[0] = h[0] /\ g[m - 1] = h[m - 1]
         /\ \A j \in 1 .. m - 1 : g[j] = h[j]
    <3>1. n \in Nat
      BY <1>3
    <3> HIDE DEF n, m
    <3>2. \A j \in 0 .. m : j \in 0 .. n
      BY <2>1, <3>1
    <3>3. \A j \in 0 .. m : h[j] \in Seq(FileLine)
      BY <1>2, <3>2
    <3>4. m \in 0 .. m /\ 0 \in 0 .. m /\ m # 0 /\ m - 1 \in 0 .. m /\ m - 1 # m
      BY <2>1
    <3>5. \A j \in 1 .. m - 1 : j \in 0 .. m /\ j # m
      BY <2>1
    <3>. QED
      BY <2>9, <3>3, <3>4, <3>5
  <2> HIDE DEF g, part
  <2>11. others[m] = calls[m] /\ Len(others) = m /\ \A j \in 1 .. m - 1 : others[j] = calls[j]
    BY <2>1
  <2>12. ASSUME NEW i \in 1 .. m - 1
         PROVE  CallReads(q, others, g, i)
    <3>1. i \in 1 .. n
      BY <2>1
    <3>2. CallReads(q, calls, h, i)
      BY <1>2, <3>1
    <3>3. m <= Len(calls) /\ m <= Len(others) /\ others[m].file = calls[m].file
      BY <2>1, <2>11
    <3> HIDE DEF m
    <3>. QED
      BY <2>1, <2>10, <2>11, <3>2, <3>3, UpperCallsRead
  <2>13. CallReads(q, others, g, m)
    <3>1. Above(others, m) = over
      <4>1. \A j \in 1 .. m - 1 : others[j].file = calls[j].file
        BY <2>11
      <4>. QED
        BY <2>1, <4>1, AboveSame
    <3>2. Passed(others, m) = k /\ ~(m < Len(others)) /\ others[m].file = e
      BY <2>1, <2>11 DEF Passed
    <3>3. others[m].file \notin Above(others, m)
      BY <2>4, <3>1, <3>2
    <3>4. g[m] = g[m - 1] \o FirstLines(q, Walk(q), Above(others, m), others[m].file,
                                       Passed(others, m))
      BY <2>9, <2>10, <3>1, <3>2
    <3> HIDE DEF m
    <3>. QED
      BY <3>2, <3>3, <3>4 DEF CallReads
  <2>14. \A i \in 1 .. m : CallReads(q, others, g, i)
    BY <2>1, <2>12, <2>13
  <2>15. Reads(q, others, text, g)
    BY <1>2, <2>10, <2>11, <2>14 DEF Reads
  <2>16. StackReads(q, others, text)
    BY <2>15 DEF StackReads
  <2>. QED
    BY <1>9, <2>16
<1>. QED
  BY <1>8, <1>9

-----------------------------------------------------------------------------
(* The readers agree                                                       *)

\* While files are expanded each call has its text; when it is over the text is
\* that of the main file.
TextFits ==
    /\ pc = "open" => StackReads(p, stack, lines)
    /\ pc \notin {"open", "failed"} => lines = Walk(p)[{}][p.main]

ReadIInv == IInv /\ (source.kind = "latex" => TextFits)

LEMMA InitRead == Init => ReadIInv
<1> SUFFICES ASSUME Init PROVE ReadIInv
  OBVIOUS
<1>1. pc = "open" /\ stack = <<>> /\ lines = <<>> /\ Len(<<>>) = 0
  BY DEF Init
<1> DEFINE h == [i \in 0 .. 0 |-> <<>>]
<1>2. h \in [0 .. 0 -> Seq(FileLine)] /\ h[0] = <<>>
  <2>1. <<>> \in Seq(FileLine)
    OBVIOUS
  <2>. QED
    BY <2>1
<1> HIDE DEF h
<1>3. Reads(p, stack, lines, h)
  BY <1>1, <1>2 DEF Reads
<1>4. TextFits
  BY <1>1, <1>3 DEF TextFits, StackReads
<1>. QED
  BY <1>4, InitIInv DEF ReadIInv

LEMMA LegibleSource ==
    ASSUME IInv, source.kind = "latex"
    PROVE  AllLegible(p) /\ IsProject(p)
BY ProjectOfSource, SourcesAssumption DEF IInv, AllLegible, p

LEMMA KeepReads ==
    ASSUME ReadIInv, Keep
    PROVE  TextFits'
<1>1. /\ Expanding /\ Top.line <= Len(Here) /\ Here[Top.line].kind # "input"
      /\ lines' = Append(lines, Here[Top.line]) /\ stack' = Advanced
      /\ UNCHANGED <<source, pc>> /\ p' = p
  BY DEF Keep, p
<1>2. /\ source.kind = "latex" /\ pc = "open" /\ Len(stack) \in Nat \ {0}
      /\ Top = stack[Len(stack)] /\ Here = Directives(p, Top.file) /\ stack \in Seq(Call)
  BY <1>1, AtTheTop DEF ReadIInv
<1>3. /\ Advanced \in Seq(Call) /\ Len(Advanced) = Len(stack)
      /\ \A i \in 1 .. Len(stack) - 1 : Advanced[i] = stack[i]
      /\ Advanced[Len(stack)].file = Top.file
      /\ Advanced[Len(stack)].line = Top.line + 1
  BY <1>1, <1>2, AdvancedIs DEF Expanding
<1>4. AllLegible(p) /\ StackReads(p, stack, lines)
  BY <1>2, LegibleSource DEF ReadIInv, TextFits
<1> DEFINE line == Here[Top.line]
<1>5. line = Directives(p, stack[Len(stack)].file)[stack[Len(stack)].line]
  BY <1>2
<1>6. line.kind # "input" /\ lines' = Append(lines, line)
  BY <1>1
<1> HIDE DEF line, Advanced
<1>7. StackReads(p, Advanced, Append(lines, line))
  BY <1>1, <1>2, <1>3, <1>4, <1>5, <1>6, ReadLine
<1>. QED
  BY <1>1, <1>2, <1>6, <1>7 DEF TextFits

\* A file that is called, below the calls that wait for it.
LEMMA VisitReads ==
    ASSUME NEW child \in File, NEW callers \in Seq(Call), Visit(child, callers),
           AllLegible(p), p' = p, lines' = lines, pc = "open",
           stack \in Seq(Call), Len(stack) \in Nat, Len(callers) = Len(stack),
           \A j \in 1 .. Len(stack) - 1 : callers[j] = stack[j],
           Len(stack) # 0 =>
             LET f == stack[Len(stack)].file
                 line == stack[Len(stack)].line
             IN /\ callers[Len(stack)].file = f /\ callers[Len(stack)].line = line + 1
                /\ line <= Len(Directives(p, f)) /\ Directives(p, f)[line].kind = "input"
                /\ child = Resolve(p, f, Directives(p, f)[line].arg),
           StackReads(p, stack, lines)
    PROVE  TextFits'
<1> DEFINE new == [file |-> child, line |-> 1]
           others == Append(callers, new)
           n == Len(stack)
<1>1. CASE pc' = "failed"
  BY <1>1 DEF TextFits
<1>2. CASE pc' # "failed"
  <2>1. /\ \A i \in 1 .. n : callers[i].file # child
        /\ stack' = others /\ pc' = pc
    BY <1>2 DEF Visit, Fail
  <2>2. new \in Call
    BY DEF Call
  <2> HIDE DEF new
  <2>3. /\ others \in Seq(Call) /\ Len(others) = n + 1 /\ others[n + 1] = new
        /\ \A j \in 1 .. n : others[j] = callers[j]
    BY <2>2, AppendProperties
  <2> HIDE DEF others
  <2>4. \A j \in 1 .. n : stack[j].file # child
    <3>1. \A j \in 1 .. n : j \in 1 .. n - 1 \/ (j = n /\ n # 0)
      OBVIOUS
    <3>2. \A j \in 1 .. n : stack[j].file = callers[j].file
      BY <3>1
    <3>. QED
      BY <2>1, <3>2
  <2>5. \A j \in 1 .. n - 1 : others[j] = stack[j]
    BY <2>3
  <2>6. n # 0 => others[n] = callers[n]
    BY <2>3
  <2>7. StackReads(p, others, lines)
    BY <2>3, <2>4, <2>5, <2>6, ReadInput DEF new
  <2>. QED
    BY <2>1, <2>7 DEF TextFits
<1>. QED
  BY <1>1, <1>2

LEMMA OpenReads ==
    ASSUME ReadIInv, OpenLatex
    PROVE  TextFits'
<1>1. /\ source.kind = "latex" /\ pc = "open" /\ stack = <<>> /\ Len(stack) = 0
      /\ Visit(p.main, <<>>) /\ <<>> \in Seq(Call) /\ lines' = lines /\ p' = p
  BY DEF OpenLatex, p
<1>2. AllLegible(p) /\ p.main \in File /\ StackReads(p, stack, lines)
  BY <1>1, LegibleSource DEF ReadIInv, TextFits, IsProject
<1>3. PICK callers : callers = <<>>
  OBVIOUS
<1>4. callers \in Seq(Call) /\ Visit(p.main, callers) /\ Len(callers) = Len(stack)
      /\ \A j \in 1 .. Len(stack) - 1 : FALSE
  BY <1>1, <1>3
<1>. QED
  BY <1>1, <1>2, <1>4, VisitReads

LEMMA IncludeReads ==
    ASSUME ReadIInv, Include
    PROVE  TextFits'
<1> DEFINE child == Resolve(p, Top.file, Here[Top.line].arg)
           n == Len(stack)
<1>1. /\ Expanding /\ Top.line <= Len(Here) /\ Here[Top.line].kind = "input"
      /\ lines' = lines /\ p' = p
      /\ IF child \in File THEN Visit(child, Advanced)
         ELSE Fail(ErrorOf(child)) /\ UNCHANGED <<stack, sourceFiles>>
  BY DEF Include, p
<1>2. /\ source.kind = "latex" /\ pc = "open" /\ n \in Nat \ {0}
      /\ Top = stack[n] /\ Here = Directives(p, Top.file) /\ stack \in Seq(Call)
  BY <1>1, AtTheTop DEF ReadIInv
<1>3. AllLegible(p) /\ StackReads(p, stack, lines)
  BY <1>2, LegibleSource DEF ReadIInv, TextFits
<1>4. CASE child \notin File
  BY <1>1, <1>4 DEF Fail, TextFits
<1>5. CASE child \in File
  <2>1. /\ Advanced \in Seq(Call) /\ Len(Advanced) = n
        /\ \A i \in 1 .. n - 1 : Advanced[i] = stack[i]
        /\ Advanced[n].file = Top.file /\ Advanced[n].line = Top.line + 1
    BY <1>1, <1>2, AdvancedIs DEF Expanding
  <2>2. Visit(child, Advanced)
    BY <1>1, <1>5
  <2>3. child = Resolve(p, stack[n].file, Directives(p, stack[n].file)[stack[n].line].arg)
    BY <1>2
  <2> HIDE DEF child, Advanced
  <2>. QED
    BY <1>1, <1>2, <1>3, <1>5, <2>1, <2>2, <2>3, VisitReads
<1>. QED
  BY <1>4, <1>5

LEMMA ReturnReads ==
    ASSUME ReadIInv, Return
    PROVE  TextFits'
<1> DEFINE n == Len(stack)
<1>1. /\ Expanding /\ Top.line > Len(Here) /\ stack' = Front(stack)
      /\ pc' = IF n = 1 THEN "convert" ELSE pc
      /\ lines' = lines /\ p' = p
  BY DEF Return, p
<1>2. /\ source.kind = "latex" /\ pc = "open" /\ n \in Nat \ {0}
      /\ Top = stack[n] /\ Here = Directives(p, Top.file) /\ Len(Here) \in Nat
      /\ StackFits(p, stack, ToSet(sourceFiles)) /\ stack \in Seq(Call)
      /\ Top.line \in Nat \ {0}
  BY <1>1, AtTheTop DEF ReadIInv
<1>3. AllLegible(p) /\ StackReads(p, stack, lines)
  BY <1>2, LegibleSource DEF ReadIInv, TextFits
<1>4. /\ Front(stack) \in Seq(Call) /\ Len(Front(stack)) = n - 1
      /\ \A j \in 1 .. n - 1 : Front(stack)[j] = stack[j]
  BY <1>2, FrontIs
<1>5. CallFits(p, stack, ToSet(sourceFiles), n)
  BY <1>2 DEF StackFits
<1>6. stack[n].line - 1 = Len(Directives(p, stack[n].file)) /\ (n = 1 => stack[1].file = p.main)
  BY <1>1, <1>2, <1>5 DEF CallFits
<1> DEFINE others == Front(stack)
<1> HIDE DEF others
<1>7. /\ n = 1 => lines = Walk(p)[{}][stack[1].file]
      /\ n # 1 => StackReads(p, others, lines)
  BY <1>2, <1>3, <1>4, <1>6, ReadFile DEF others
<1>8. CASE n = 1
  BY <1>1, <1>6, <1>7, <1>8 DEF TextFits
<1>9. CASE n # 1
  BY <1>1, <1>2, <1>7, <1>9 DEF TextFits, others
<1>. QED
  BY <1>8, <1>9

LEMMA NextRead == ReadIInv /\ [Next]_vars => ReadIInv'
<1> SUFFICES ASSUME ReadIInv, [Next]_vars PROVE ReadIInv'
  OBVIOUS
<1>1. IInv'
  BY NextIInv DEF ReadIInv
<1>2. source' = source
  BY DEF Next, Step, Stopped, OpenLatex, Keep, Include, Return, ConvertLatex, ExtractPdf,
         PdfHeadings, DetectSections, ChunkNext, FindForms, PlanBatches, vars
<1>3. ASSUME source.kind = "latex"
      PROVE  TextFits'
  <2>1. CASE OpenLatex
    BY <2>1, OpenReads
  <2>2. CASE Keep
    BY <2>2, KeepReads
  <2>3. CASE Include
    BY <2>3, IncludeReads
  <2>4. CASE Return
    BY <2>4, ReturnReads
  <2>5. CASE ConvertLatex \/ PdfHeadings \/ DetectSections \/ ChunkNext \/ FindForms \/ PlanBatches
    <3>1. /\ pc \notin {"open", "failed"} /\ pc' # "open" /\ lines' = lines /\ p' = p
      BY <2>5 DEF ConvertLatex, PdfHeadings, DetectSections, ChunkNext, FindForms, PlanBatches,
                  expansion, p
    <3>. QED
      BY <1>3, <3>1 DEF ReadIInv, TextFits
  <2>6. CASE UNCHANGED vars
    BY <1>3, <2>6 DEF ReadIInv, TextFits, vars, p
  <2>7. CASE ExtractPdf
    BY <1>3, <2>7 DEF ExtractPdf
  <2>. QED
    BY <2>1, <2>2, <2>3, <2>4, <2>5, <2>6, <2>7 DEF Next, Step, Stopped
<1>. QED
  BY <1>1, <1>2, <1>3 DEF ReadIInv

\* What each call of _expand_file has put into the text is what stands in its file
\* up to its line, the files below in place of their \inputs.
THEOREM ExpansionReadsInOrder == Spec => []ReadIInv
<1>1. Init => ReadIInv
  BY InitRead
<1>2. ReadIInv /\ [Next]_vars => ReadIInv'
  BY NextRead
<1>. QED
  BY <1>1, <1>2, PTL DEF Spec

\* Whatever the project: the formal rules and the extraction read one text unless
\* the working directory has a file of an included name, and a bibliography is
\* declared if and only if its command is in that text (_expand_for_analysis,
\* _bibliography_references, _expand_file).
THEOREM ReadersDoAgree == Spec => []ReadersAgree
<1>1. ReadIInv => ReadersAgree
  <2> SUFFICES ASSUME ReadIInv, source.kind = "latex", pc = "done"
               PROVE  /\ ~Shadowed => lines = ExpandForAnalysis(p)
                      /\ BibliographyReferences(p) = Bibliography(lines)
    BY DEF ReadersAgree, BothReadersAgree, DeclaredIffInText, Bibliography
  <2>1. IsProject(p) /\ lines = Walk(p)[{}][p.main]
    BY LegibleSource DEF ReadIInv, TextFits
  <2>2. ~Shadowed => \A n \in Name : p.cwd[n] = NoFile
    BY DEF Shadowed
  <2>3. ASSUME ~Shadowed PROVE lines = ExpandForAnalysis(p)
    BY <2>1, <2>2, <2>3, RulesReadTheWalk
  <2>4. BibliographyReferences(p) = Bibliography(lines)
    BY <2>1, BibliographyOfWalk
  <2>. QED
    BY <2>3, <2>4
<1>. QED
  BY <1>1, ExpansionReadsInOrder, PTL
=============================================================================
