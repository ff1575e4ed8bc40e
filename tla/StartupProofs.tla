---------------------------- MODULE StartupProofs ----------------------------
(***************************************************************************)
(* The startup handshake, for any dialogs, banners and bursts of queries:  *)
(* of a TUI that was not held up, no key the sequencer sends refuses the   *)
(* dialog, the prompt is pasted into the REPL, and a dialog that can be    *)
(* trusted is not refused.                                                 *)
(*                                                                         *)
(* The keys are computed from a capture that several frames have gone      *)
(* into, and of which the oldest lines have been dropped.  What makes them *)
(* right is that its last lines are those of the frame on the screen: the  *)
(* last caret and the last trusting entry are then that frame's, and the   *)
(* entries between them are the options between them, whatever stands      *)
(* before.                                                                 *)
(***************************************************************************)
EXTENDS Handshake, FiniteSetTheorems, SequenceTheorems, WellFoundedInduction, TLAPS

(* CAPTURE_MAX_BYTES "only bounds a pathologically chatty TUI": a dialog   *)
(* fits the capture.                                                       *)
DialogFits == \A l \in Layouts : Len(l) <= CaptureLines

-----------------------------------------------------------------------------
(***************************************************************************)
(* Numbers.                                                                *)
(***************************************************************************)
LEMMA LeastNumber ==
  ASSUME NEW T \in SUBSET Nat, T # {}
  PROVE  \E m \in T : \A n \in T : m <= n
<1>1. PICK m \in T : \A n \in T : <<n, m>> \notin OpToRel(<, Nat)
  BY WFMin, NatLessThanWellFounded
<1>2. \A n \in T : ~(n < m)
  BY <1>1 DEF OpToRel
<1> QED
  BY <1>2

LEMMA GreatestNumber ==
  ASSUME NEW T \in SUBSET Nat, T # {}, NEW b \in Nat, \A n \in T : n <= b
  PROVE  \E m \in T : \A n \in T : n <= m
<1> DEFINE D == {d \in Nat : b - d \in T}
<1>1. \A n \in T : b - n \in D /\ b - (b - n) = n
  OBVIOUS
<1>2. PICK d \in D : \A e \in D : d <= e
  BY <1>1, LeastNumber
<1>3. b - d \in T /\ \A n \in T : d <= b - n
  BY <1>1, <1>2
<1> QED
  BY <1>3

(* What FiniteSetsExt calls the maximum is the one number that is.         *)
LEMMA MaxIs ==
  ASSUME NEW T \in SUBSET Int, NEW m \in T, \A n \in T : n <= m
  PROVE  Max(T) = m
<1>1. \A x \in T : (\A y \in T : x >= y) => x = m
  OBVIOUS
<1>2. \A y \in T : m >= y
  OBVIOUS
<1> QED
  BY <1>1, <1>2 DEF Max

-----------------------------------------------------------------------------
(***************************************************************************)
(* A capture that ends with the first n lines of a frame.                  *)
(***************************************************************************)
EndsWith(c, f, n) ==
  n <= Len(c) /\ \A k \in 1..n : c[Len(c) - n + k] = f[k]

LEMMA RetainedTail ==
  ASSUME NEW S, NEW c \in Seq(S)
  PROVE  /\ Retained(c) \in Seq(S)
         /\ Len(Retained(c)) = IF Len(c) <= CaptureLines THEN Len(c) ELSE CaptureLines
         /\ \A k \in 0..(Len(Retained(c)) - 1) :
              Retained(c)[Len(Retained(c)) - k] = c[Len(c) - k]
         /\ \A i \in DOMAIN Retained(c) : \E j \in DOMAIN c : Retained(c)[i] = c[j]
<1> DEFINE first == IF Len(c) <= CaptureLines THEN 1 ELSE Len(c) - CaptureLines + 1
<1>1. CaptureLines \in Nat /\ Len(c) \in Nat
  BY StartupSeqAssumption
<1>2. Max({1, Len(c) - CaptureLines + 1}) = first
  <2>1. first \in {1, Len(c) - CaptureLines + 1}
        /\ \A n \in {1, Len(c) - CaptureLines + 1} : n <= first
    BY <1>1
  <2>2. {1, Len(c) - CaptureLines + 1} \in SUBSET Int
    BY <1>1
  <2> QED
    BY <2>1, <2>2, MaxIs
<1>3. Retained(c) = SubSeq(c, first, Len(c))
  BY <1>2 DEF Retained
<1>4. first \in 1..(Len(c) + 1)
  BY <1>1
<1> HIDE DEF first
<1>5. /\ Retained(c) \in Seq(S)
      /\ Len(Retained(c)) = Len(c) - first + 1
      /\ \A i \in 1..(Len(c) - first + 1) : Retained(c)[i] = c[first + i - 1]
  BY <1>1, <1>3, <1>4
<1>6. \A k \in 0..(Len(Retained(c)) - 1) :
        Retained(c)[Len(Retained(c)) - k] = c[Len(c) - k]
  <2> SUFFICES ASSUME NEW k \in 0..(Len(Retained(c)) - 1)
               PROVE  Retained(c)[Len(Retained(c)) - k] = c[Len(c) - k]
    OBVIOUS
  <2>1. /\ Len(Retained(c)) - k \in 1..(Len(c) - first + 1)
        /\ first + (Len(Retained(c)) - k) - 1 = Len(c) - k
    BY <1>1, <1>4, <1>5
  <2> QED
    BY <1>5, <2>1
<1>7. \A i \in DOMAIN Retained(c) : first + i - 1 \in DOMAIN c
  BY <1>1, <1>4, <1>5
<1>8. \A i \in DOMAIN Retained(c) : Retained(c)[i] = c[first + i - 1]
  BY <1>5
<1>9. Len(Retained(c)) = IF Len(c) <= CaptureLines THEN Len(c) ELSE CaptureLines
  BY <1>1, <1>5 DEF first
<1> QED
  BY <1>5, <1>6, <1>7, <1>8, <1>9

(* More lines of a frame painted: a capture that ended with its first d    *)
(* lines ends with its first n, the cap notwithstanding.                   *)
LEMMA PaintedEnd ==
  ASSUME NEW S, NEW c \in Seq(S), NEW f \in Seq(S), NEW d \in Nat, NEW n \in Nat,
         d <= n, n <= Len(f), n <= CaptureLines, EndsWith(c, f, d)
  PROVE  EndsWith(Retained(c \o SubSeq(f, d + 1, n)), f, n)
<1> DEFINE a == SubSeq(f, d + 1, n)
           w == c \o a
           r == Retained(w)
<1>1. a \in Seq(S) /\ Len(a) = n - d /\ \A i \in 1..(n - d) : a[i] = f[d + i]
  OBVIOUS
<1>2. CaptureLines \in Nat
  BY StartupSeqAssumption
<1> HIDE DEF a
<1>3. /\ w \in Seq(S) /\ Len(w) = Len(c) + (n - d)
      /\ \A i \in 1..Len(c) : w[i] = c[i]
      /\ \A i \in 1..(n - d) : w[Len(c) + i] = a[i]
  <2>1. w \in Seq(S) /\ Len(w) = Len(c) + Len(a)
    BY <1>1, ConcatProperties
  <2>2. \A i \in 1..Len(w) : w[i] = IF i <= Len(c) THEN c[i] ELSE a[i - Len(c)]
    BY <1>1, <2>1, ConcatProperties
  <2>3. ASSUME NEW i \in 1..(n - d) PROVE w[Len(c) + i] = a[i]
    <3>1. Len(c) + i \in 1..Len(w) /\ ~(Len(c) + i <= Len(c)) /\ (Len(c) + i) - Len(c) = i
      BY <1>1, <2>1
    <3> QED
      BY <2>2, <3>1
  <2> QED
    BY <1>1, <2>1, <2>2, <2>3
<1> HIDE DEF w
<1>4. \A k \in 1..n : w[Len(w) - n + k] = f[k]
  <2> SUFFICES ASSUME NEW k \in 1..n PROVE w[Len(w) - n + k] = f[k]
    OBVIOUS
  <2>1. Len(w) - n + k = Len(c) - d + k
    BY <1>3
  <2>2. CASE k <= d
    <3>1. Len(c) - d + k \in 1..Len(c) /\ c[Len(c) - d + k] = f[k]
      BY <2>2 DEF EndsWith
    <3> QED
      BY <1>3, <2>1, <3>1
  <2>3. CASE k > d
    <3>1. k - d \in 1..(n - d) /\ Len(c) - d + k = Len(c) + (k - d) /\ d + (k - d) = k
      BY <2>3
    <3> QED
      BY <1>1, <1>3, <2>1, <3>1
  <2> QED
    BY <2>2, <2>3
<1>5. /\ Len(r) \in Nat /\ n <= Len(r) /\ n <= Len(w)
      /\ \A k \in 0..(Len(r) - 1) : r[Len(r) - k] = w[Len(w) - k]
  <2>1. n <= Len(w) /\ Len(w) \in Nat
    BY <1>3 DEF EndsWith
  <2>2. Len(r) = IF Len(w) <= CaptureLines THEN Len(w) ELSE CaptureLines
    BY <1>3, RetainedTail
  <2>3. \A k \in 0..(Len(r) - 1) : r[Len(r) - k] = w[Len(w) - k]
    BY <1>3, RetainedTail
  <2> QED
    BY <1>2, <2>1, <2>2, <2>3
<1> HIDE DEF r
<1>6. \A k \in 1..n : r[Len(r) - n + k] = w[Len(w) - n + k]
  <2> SUFFICES ASSUME NEW k \in 1..n PROVE r[Len(r) - n + k] = w[Len(w) - n + k]
    OBVIOUS
  <2>1. n - k \in 0..(Len(r) - 1) /\ Len(w) \in Nat
    BY <1>3, <1>5
  <2>2. Len(r) - (n - k) = Len(r) - n + k /\ Len(w) - (n - k) = Len(w) - n + k
    BY <1>5, <2>1
  <2> QED
    BY <1>5, <2>1, <2>2
<1> QED
  BY <1>4, <1>5, <1>6 DEF EndsWith, r, w, a

-----------------------------------------------------------------------------
(***************************************************************************)
(* The scan of a capture that ends with the dialog on the screen.          *)
(***************************************************************************)
Words == {"hint", "yes", "no"}

Frame == [i \in DOMAIN layout |-> [word |-> layout[i], caret |-> i = sel]]

Offset(c) == Len(c) - Len(layout)

LEMMA Shifted ==
  ASSUME NEW T \in SUBSET Int, IsFiniteSet(T), NEW off \in Int
  PROVE  /\ IsFiniteSet({off + j : j \in T})
         /\ Cardinality({off + j : j \in T}) = Cardinality(T)
<1> DEFINE U == {off + j : j \in T}
           g == [j \in T |-> off + j]
<1>1. g \in [T -> U] /\ \A j \in T : g[j] = off + j
  OBVIOUS
<1>2. \A j, k \in T : g[j] = g[k] => j = k
  BY <1>1
<1>3. \A u \in U : \E j \in T : g[j] = u
  BY <1>1
<1> HIDE DEF g, U
<1>4. g \in Bijection(T, U)
  BY <1>1, <1>2, <1>3 DEF Bijection, Injection, Surjection, IsInjective
<1>5. ExistsBijection(T, U)
  BY <1>4 DEF ExistsBijection
<1> QED
  BY <1>5, FS_Bijection DEF U

LEMMA LineParts ==
  ASSUME NEW r, NEW w, NEW b, r = [word |-> w, caret |-> b]
  PROVE  r.word = w /\ r.caret = b
OBVIOUS

(* The lines of the frame within the capture, and its entries.             *)
LEMMA FrameLines ==
  ASSUME NEW S, NEW c \in Seq(S), layout \in Seq(Words), sel \in Options,
         EndsWith(c, Frame, Len(layout))
  PROVE  /\ Offset(c) \in Nat /\ Len(layout) \in Nat /\ Len(c) = Offset(c) + Len(layout)
         /\ sel \in 1..Len(layout)
         /\ \A k \in 1..Len(layout) :
              /\ c[Offset(c) + k].word = layout[k]
              /\ c[Offset(c) + k].caret <=> k = sel
              /\ IsEntry(c[Offset(c) + k]) <=> k \in Options
<1>1. /\ Offset(c) \in Nat /\ Len(layout) \in Nat /\ Len(c) = Offset(c) + Len(layout)
      /\ DOMAIN layout = 1..Len(layout)
  BY DEF EndsWith, Offset
<1>2. sel \in 1..Len(layout)
  BY <1>1 DEF Options
<1>3. ASSUME NEW k \in 1..Len(layout)
      PROVE  /\ c[Offset(c) + k].word = layout[k]
             /\ c[Offset(c) + k].caret <=> k = sel
             /\ IsEntry(c[Offset(c) + k]) <=> k \in Options
  <2>1. c[Offset(c) + k] = Frame[k]
    BY <1>1 DEF EndsWith, Offset
  <2>2. Frame[k] = [word |-> layout[k], caret |-> k = sel]
    BY <1>1, Zenon DEF Frame
  <2>3. c[Offset(c) + k].word = layout[k]
    BY <2>1, <2>2, LineParts
  <2>6. c[Offset(c) + k].caret = (k = sel)
    BY <2>1, <2>2, LineParts
  <2>4. layout[k] \in Words
    BY <1>1
  <2>5. k \in Options <=> layout[k] \in {"yes", "no"}
    BY <1>1, <2>4 DEF Options, Words
  <2>7. k = sel => k \in Options
    OBVIOUS
  <2>8. IsEntry(c[Offset(c) + k]) <=> k \in Options
    BY <2>3, <2>5, <2>6, <2>7, Zenon DEF IsEntry
  <2> QED
    BY <2>3, <2>6, <2>8, Zenon
<1> QED
  BY <1>1, <1>2, <1>3

(* A line of the frame comes, among the entries of the capture, as many    *)
(* after its first as it does in the dialog.                               *)
LEMMA FrameIndex ==
  ASSUME NEW S, NEW c \in Seq(S), layout \in Seq(Words), sel \in Options,
         EndsWith(c, Frame, Len(layout))
  PROVE  \E b \in Nat : \A k \in 1..Len(layout) :
           Place(k) \in Nat /\ Index(c, Offset(c) + k) = b + Place(k)
<1> DEFINE A == {j \in DOMAIN c : j <= Offset(c) /\ IsEntry(c[j])}
<1>1. /\ Offset(c) \in Nat /\ Len(layout) \in Nat /\ Len(c) = Offset(c) + Len(layout)
      /\ DOMAIN c = 1..Len(c) /\ Options \subseteq 1..Len(layout)
      /\ \A k \in 1..Len(layout) : IsEntry(c[Offset(c) + k]) <=> k \in Options
  <2>1. DOMAIN c = 1..Len(c) /\ Options \subseteq 1..Len(layout)
    BY DEF Options
  <2> QED
    BY <2>1, FrameLines
<1>2. IsFiniteSet(A) /\ Cardinality(A) \in Nat
  <2>1. A \in SUBSET (1..Len(c)) /\ Len(c) \in Int
    BY <1>1
  <2>2. IsFiniteSet(1..Len(c))
    BY <2>1, FS_Interval
  <2> QED
    BY <2>1, <2>2, FS_Subset, FS_CardinalityType
<1> SUFFICES ASSUME NEW k \in 1..Len(layout)
             PROVE  Place(k) \in Nat /\ Index(c, Offset(c) + k) = Cardinality(A) + Place(k)
  BY <1>2
<1> DEFINE T == {j \in Options : j <= k}
           B == {Offset(c) + j : j \in T}
<1>3. T \in SUBSET Int /\ IsFiniteSet(T)
  <2>3. 1 \in Int /\ Len(layout) \in Int
    BY <1>1
  <2>4. IsFiniteSet(1..Len(layout))
    BY <2>3, FS_Interval
  <2>1. T \in SUBSET (1..Len(layout)) /\ IsFiniteSet(1..Len(layout))
    BY <1>1, <2>4
  <2>2. IsFiniteSet(T)
    BY <2>1, FS_Subset
  <2> QED
    BY <2>1, <2>2
<1>4. IsFiniteSet(B) /\ Cardinality(B) = Place(k) /\ Place(k) \in Nat
  <2>1. Offset(c) \in Int
    BY <1>1
  <2>2. IsFiniteSet(B) /\ Cardinality(B) = Cardinality(T)
    BY <1>3, <2>1, Shifted
  <2>3. Cardinality(T) \in Nat
    BY <1>3, FS_CardinalityType
  <2> QED
    BY <2>2, <2>3 DEF Place
<1>5. {j \in DOMAIN c : j <= Offset(c) + k /\ IsEntry(c[j])} = A \cup B
  <2>1. ASSUME NEW j \in DOMAIN c, j <= Offset(c) + k, IsEntry(c[j]), ~(j <= Offset(c))
        PROVE  j \in B
    <3>1. /\ j - Offset(c) \in 1..Len(layout) /\ Offset(c) + (j - Offset(c)) = j
          /\ j - Offset(c) <= k
      BY <1>1, <2>1
    <3>2. j - Offset(c) \in Options
      BY <1>1, <2>1, <3>1
    <3>3. j - Offset(c) \in T
      BY <3>1, <3>2
    <3> QED
      BY <3>1, <3>3
  <2>2. ASSUME NEW j \in T
        PROVE  /\ Offset(c) + j \in DOMAIN c /\ Offset(c) + j <= Offset(c) + k
               /\ IsEntry(c[Offset(c) + j])
    BY <1>1, <2>2
  <2>3. A \subseteq {j \in DOMAIN c : j <= Offset(c) + k /\ IsEntry(c[j])}
    BY <1>1
  <2> QED
    BY <2>1, <2>2, <2>3
<1>6. A \cap B = {}
  BY <1>1
<1>7. Cardinality(A \cup B) = Cardinality(A) + Cardinality(B)
  <2>1. Cardinality(A \cap B) = 0
    BY <1>6, FS_EmptySet
  <2>2. Cardinality(A \cup B) = Cardinality(A) + Cardinality(B) - Cardinality(A \cap B)
    BY <1>2, <1>4, FS_Union
  <2> HIDE DEF A, B
  <2> QED
    BY <1>2, <1>4, <2>1, <2>2
<1> QED
  BY <1>4, <1>5, <1>7 DEF Index

(* Two options with as many before them are one.                           *)
LEMMA PlaceInjective ==
  ASSUME layout \in Seq(Words), NEW i \in Options, NEW j \in Options, Place(i) = Place(j)
  PROVE  i = j
<1>1. Options \subseteq 1..Len(layout) /\ Len(layout) \in Nat
  BY DEF Options
<1>2. ASSUME NEW a \in Options, NEW b \in Options, a < b PROVE Place(a) # Place(b)
  <2> DEFINE A == {k \in Options : k <= a}
             B == {k \in Options : k <= b}
  <2>4. a \in Int /\ b \in Int /\ \A k \in Options : k \in Int
    BY <1>1
  <2>5. \A k \in Options : k <= a => k <= b
    BY <1>2, <2>4
  <2>6. A \in SUBSET B
    BY <2>5, Zenon
  <2>1. A \in SUBSET B /\ b \in B /\ b \notin A
    <3>1. b <= b /\ ~(b <= a)
      BY <1>2, <2>4
    <3> QED
      BY <2>6, <3>1, Zenon
  <2>2. IsFiniteSet(B)
    <3>2. 1 \in Int /\ Len(layout) \in Int
      BY <1>1
    <3>3. IsFiniteSet(1..Len(layout))
      BY <3>2, FS_Interval
    <3>1. B \in SUBSET (1..Len(layout)) /\ IsFiniteSet(1..Len(layout))
      BY <1>1, <3>3
    <3> QED
      BY <3>1, FS_Subset
  <2>3. Cardinality(B) # Cardinality(A)
    <3>1. Cardinality(B) = Cardinality(A) => B = A
      BY <2>1, <2>2, FS_Subset
    <3> HIDE DEF A, B
    <3> QED
      BY <2>1, <3>1
  <2> QED
    BY <2>3 DEF Place
<1> QED
  BY <1>1, <1>2

(* plan_dismiss: the arrows lead from the highlighted option to one that   *)
(* trusts.                                                                 *)
LEMMA ScanOfFrame ==
  ASSUME NEW S, NEW c \in Seq(S), layout \in Seq(Words), sel \in Options,
         EndsWith(c, Frame, Len(layout))
  PROVE  /\ dialog_present(c)
         /\ Carets(c) # {}
         /\ (\E j \in DOMAIN layout : layout[j] = "yes") =>
              /\ Trusting(c) # {}
              /\ \E m \in Options :
                   layout[m] = "yes" /\ Place(m) = Place(sel) + plan_dismiss(c)
<1>1. /\ Offset(c) \in Nat /\ Len(layout) \in Nat /\ Len(c) = Offset(c) + Len(layout)
      /\ sel \in 1..Len(layout)
      /\ DOMAIN c = 1..Len(c) /\ DOMAIN layout = 1..Len(layout)
  BY FrameLines
<1>2. \A k \in 1..Len(layout) :
        /\ c[Offset(c) + k].word = layout[k]
        /\ c[Offset(c) + k].caret <=> k = sel
  BY FrameLines
<1>3. Offset(c) + sel \in Carets(c)
  BY <1>1, <1>2 DEF Carets
<1>4. c[Offset(c) + sel].word \in {"yes", "no"} /\ Offset(c) + sel \in DOMAIN c
  BY <1>1, <1>2 DEF Options, Words
<1>5. dialog_present(c)
  BY <1>3, <1>4 DEF dialog_present, Carets
<1>6. \A i \in Carets(c) : i <= Offset(c) + sel
  <2> SUFFICES ASSUME NEW i \in Carets(c), ~(i <= Offset(c) + sel) PROVE FALSE
    OBVIOUS
  <2>1. i \in 1..Len(c) /\ c[i].caret
    BY <1>1 DEF Carets
  <2>2. /\ i - Offset(c) \in 1..Len(layout) /\ Offset(c) + (i - Offset(c)) = i
        /\ i - Offset(c) # sel
    BY <1>1, <2>1
  <2> QED
    BY <1>2, <2>1, <2>2
<1>7. Max(Carets(c)) = Offset(c) + sel
  <2>1. Carets(c) \in SUBSET Int
    BY <1>1 DEF Carets
  <2> QED
    BY <1>3, <1>6, <2>1, MaxIs
<1>8. ASSUME NEW y \in DOMAIN layout, layout[y] = "yes"
      PROVE  /\ Trusting(c) # {}
             /\ \E m \in Options :
                  layout[m] = "yes" /\ Place(m) = Place(sel) + plan_dismiss(c)
  <2>1. PICK m \in {k \in DOMAIN layout : layout[k] = "yes"} :
          \A k \in {j \in DOMAIN layout : layout[j] = "yes"} : k <= m
    <3>1. {k \in DOMAIN layout : layout[k] = "yes"} \in SUBSET Nat
      BY <1>1
    <3>2. \A k \in {j \in DOMAIN layout : layout[j] = "yes"} : k <= Len(layout)
      BY <1>1
    <3> QED
      BY <1>1, <1>8, <3>1, <3>2, GreatestNumber
  <2>2. m \in Options /\ m \in 1..Len(layout) /\ layout[m] = "yes"
    BY <1>1, <2>1 DEF Options
  <2>3. Offset(c) + m \in Trusting(c)
    BY <1>1, <1>2, <2>2 DEF Trusting
  <2>4. \A i \in Trusting(c) : i <= Offset(c) + m
    <3> SUFFICES ASSUME NEW i \in Trusting(c), ~(i <= Offset(c) + m) PROVE FALSE
      OBVIOUS
    <3>1. i \in 1..Len(c) /\ c[i].word = "yes"
      BY <1>1 DEF Trusting
    <3>2. /\ i - Offset(c) \in 1..Len(layout) /\ Offset(c) + (i - Offset(c)) = i
          /\ ~(i - Offset(c) <= m)
      BY <1>1, <2>2, <3>1
    <3>3. layout[i - Offset(c)] = "yes"
      BY <1>2, <3>1, <3>2
    <3> QED
      BY <1>1, <2>1, <3>2, <3>3
  <2>5. Max(Trusting(c)) = Offset(c) + m
    <3>1. Trusting(c) \in SUBSET Int
      BY <1>1 DEF Trusting
    <3> QED
      BY <2>3, <2>4, <3>1, MaxIs
  <2>6. PICK b \in Nat : \A k \in 1..Len(layout) :
          Place(k) \in Nat /\ Index(c, Offset(c) + k) = b + Place(k)
    BY FrameIndex
  <2>7. plan_dismiss(c) = (b + Place(m)) - (b + Place(sel))
    BY <1>1, <1>7, <2>2, <2>5, <2>6 DEF plan_dismiss, caret_index, trusting_index
  <2>8. Place(m) = Place(sel) + plan_dismiss(c)
    BY <1>1, <2>2, <2>6, <2>7
  <2> QED
    BY <2>2, <2>3, <2>8
<1> QED
  BY <1>3, <1>5, <1>8

-----------------------------------------------------------------------------
(***************************************************************************)
(* The inductive invariant.                                                *)
(***************************************************************************)
Trustable == \E i \in DOMAIN layout : layout[i] = "yes"

(* The lines a TUI with this dialog paints.                                *)
Shown ==
  {l \in [word : Words \cup {"text"}, caret : BOOLEAN] : l.word = "yes" => Trustable}

Typed ==
  /\ phase \in {"Waiting", "TrustDismissed", "PromptInjected"}
  /\ screen \in {"banner", "dialog", "repl", "exited"}
  /\ layout \in Layouts \cup {<<>>}
  /\ quiet \in Nat /\ drawn \in Nat /\ banner \in Nat
  /\ capture \in Seq(Shown)
  /\ attached \in BOOLEAN

(* The dialog is up: what was captured ends with what was painted of this  *)
(* frame, and once it is quiet with all of one, which its TUI reads keys   *)
(* for.                                                                    *)
Captured ==
  /\ EndsWith(capture, Frame, drawn)
  /\ quiet > 0 => attached = TRUE /\ EndsWith(capture, Frame, Len(layout))

OnScreen ==
  /\ screen # "exited"
  /\ phase # "Waiting" => screen = "repl"
  /\ (phase = "Waiting" /\ screen = "repl") => layout = <<>>
  /\ screen = "banner" => quiet = 0
  /\ (screen \in {"banner", "dialog"} /\ layout # <<>>) => sel \in Options
  /\ screen = "dialog" => layout # <<>> /\ drawn <= Len(layout)
  /\ (screen = "dialog" /\ ended # "refuse") => Captured

HandshakeInv ==
  /\ Typed
  /\ ~stalled => OnScreen
  /\ TrustableIsNotRefused

-----------------------------------------------------------------------------
(***************************************************************************)
(* What the steps do.                                                      *)
(***************************************************************************)
LEMMA Steps ==
  ASSUME [HNext]_hvars
  PROVE  \/ Query \/ Paint \/ NextFrame \/ Attach \/ PollWaiting
         \/ PollTrustDismissed \/ Quiet \/ PassCeiling \/ PassHardTimeout
         \/ UNCHANGED vars
BY Zenon DEF HNext, TuiGoesOn, Polls, Time, HOver, hvars

LEMMA LayoutWords ==
  ASSUME Typed
  PROVE  /\ layout \in Seq(Words)
         /\ layout # <<>> => layout \in Layouts
         /\ Len(layout) \in Nat /\ DOMAIN layout = 1..Len(layout)
<1>1. layout \in Seq(Words)
  <2>1. layout \in Layouts => layout \in Seq(Words)
    BY StartupSeqAssumption DEF Words
  <2>2. <<>> \in Seq(Words)
    OBVIOUS
  <2> QED
    BY <2>1, <2>2 DEF Typed
<1> QED
  BY <1>1 DEF Typed

LEMMA LinesShown ==
  ASSUME Typed
  PROVE  /\ Lines \in Seq(Shown)
         /\ screen = "dialog" => Lines = Frame
         /\ screen = "dialog" => Len(Lines) = Len(layout)
<1>0. layout \in Seq(Words) /\ Len(layout) \in Nat /\ DOMAIN layout = 1..Len(layout)
  BY LayoutWords
<1>1. \A b \in BOOLEAN : [word |-> "text", caret |-> b] \in Shown
  BY DEF Shown
<1>2. CASE screen = "banner"
  <2>1. Lines = [i \in 1..banner |-> [word |-> "text", caret |-> FALSE]]
    BY <1>2 DEF Lines
  <2>2. Lines \in [1..banner -> Shown] /\ banner \in Nat
    BY <1>1, <2>1 DEF Typed
  <2> QED
    BY <1>2, <2>2
<1>3. CASE screen = "dialog"
  <2>1. Lines = Frame
    BY <1>3 DEF Lines, Frame
  <2>2. ASSUME NEW i \in 1..Len(layout)
        PROVE  [word |-> layout[i], caret |-> i = sel] \in Shown
    <3>1. layout[i] \in Words /\ (layout[i] = "yes" => Trustable)
      BY <1>0 DEF Trustable
    <3>2. (i = sel) \in BOOLEAN
      OBVIOUS
    <3>3. [word |-> layout[i], caret |-> i = sel]
            \in [word : Words \cup {"text"}, caret : BOOLEAN]
      BY <3>1, <3>2, Zenon
    <3>4. [word |-> layout[i], caret |-> i = sel].word = layout[i]
      BY LineParts
    <3> QED
      BY <3>1, <3>3, <3>4, Zenon DEF Shown
  <2>3. Frame \in [1..Len(layout) -> Shown]
    BY <1>0, <2>2, Zenon DEF Frame
  <2>4. Frame \in Seq(Shown) /\ Len(Frame) = Len(layout)
    BY <1>0, <2>3
  <2> QED
    BY <2>1, <2>4
<1>4. CASE screen = "repl"
  <2>1. Lines = <<[word |-> "text", caret |-> TRUE]>>
    BY <1>4 DEF Lines
  <2>2. [word |-> "text", caret |-> TRUE] \in Shown
    BY <1>1, Zenon
  <2>3. \A l \in Shown : <<l>> \in Seq(Shown)
    OBVIOUS
  <2>4. Lines \in Seq(Shown)
    BY <2>1, <2>2, <2>3, Zenon
  <2>5. screen # "dialog"
    BY <1>4
  <2> QED
    BY <2>4, <2>5, Zenon
<1>5. CASE screen = "exited"
  <2>1. Lines = <<>>
    BY <1>5 DEF Lines
  <2>2. <<>> \in Seq(Shown)
    OBVIOUS
  <2>3. screen # "dialog"
    BY <1>5
  <2>4. Lines \in Seq(Shown)
    BY <2>1, <2>2
  <2> QED
    BY <2>3, <2>4, Zenon
<1> QED
  BY <1>2, <1>3, <1>4, <1>5 DEF Typed

(* The dialog does not change.                                             *)
LEMMA TypedStep ==
  ASSUME Typed, [HNext]_hvars
  PROVE  Typed' /\ layout' = layout /\ Trustable' = Trustable
<1>1. layout' = layout
  BY Steps DEF Query, Paint, NextFrame, Attach, PollWaiting, PollTrustDismissed, Quiet,
               PassCeiling, PassHardTimeout, vars, tuiVars, clockVars, seqVars,
               tuiNature, SendKeys, Press
<1>2. Trustable' = Trustable /\ Shown' = Shown
  BY <1>1 DEF Trustable, Shown
<1>3. banner' = banner
  BY Steps DEF Query, Paint, NextFrame, Attach, PollWaiting, PollTrustDismissed, Quiet,
               PassCeiling, PassHardTimeout, vars, tuiVars, clockVars, seqVars,
               tuiNature
<1>4. phase' \in {"Waiting", "TrustDismissed", "PromptInjected"}
  BY Steps DEF Query, Paint, NextFrame, Attach, PollWaiting, PollTrustDismissed, Quiet,
               PassCeiling, PassHardTimeout, vars, tuiVars, clockVars, seqVars,
               tuiNature, SendKeys, Typed
<1>5. screen' \in {"banner", "dialog", "repl", "exited"}
  BY Steps DEF Query, Paint, NextFrame, Attach, PollWaiting, PollTrustDismissed, Quiet,
               PassCeiling, PassHardTimeout, vars, tuiVars, clockVars, seqVars,
               tuiNature, SendKeys, Press, Typed, LeaveBanner, Repaint
<1>6. quiet' \in Nat
  <2>1. quiet' \in {quiet, 0, quiet + 1}
    <3>1. Query \/ Paint \/ NextFrame \/ Attach => quiet' \in {quiet, 0}
      BY DEF Query, Paint, NextFrame, Attach, clockVars
    <3>2. PollWaiting \/ PollTrustDismissed => quiet' \in {quiet, 0}
      BY DEF PollWaiting, PollTrustDismissed, clockVars, SendKeys
    <3>3. Quiet => quiet' = quiet + 1
      BY DEF Quiet
    <3>4. PassCeiling \/ PassHardTimeout \/ UNCHANGED vars => quiet' = quiet
      BY DEF PassCeiling, PassHardTimeout, vars, clockVars
    <3> QED
      BY Steps, <3>1, <3>2, <3>3, <3>4, Zenon
  <2> QED
    BY <2>1 DEF Typed
<1>7. drawn' \in Nat
  <2>1. Paint => drawn' \in Nat
    BY LinesShown DEF Paint, Typed
  <2>2. ~Paint => drawn' \in {drawn, 0}
    BY Steps DEF Query, NextFrame, Attach, PollWaiting, PollTrustDismissed, Quiet,
               PassCeiling, PassHardTimeout, vars, tuiVars, clockVars, seqVars,
               tuiNature, SendKeys, Press
  <2> QED
    BY <2>1, <2>2 DEF Typed
<1>8. capture' \in Seq(Shown)
  <2>1. ASSUME Paint PROVE capture' \in Seq(Shown)
    <3>1. PICK n \in drawn + 1..Len(Lines) :
            IF phase = "Waiting" /\ ended # "refuse"
            THEN capture' = Retained(capture \o SubSeq(Lines, drawn + 1, n))
            ELSE capture' = capture
      BY <2>1 DEF Paint
    <3>2. SubSeq(Lines, drawn + 1, n) \in Seq(Shown)
      BY <3>1, LinesShown DEF Typed
    <3>3. capture \o SubSeq(Lines, drawn + 1, n) \in Seq(Shown)
      BY <3>2, ConcatProperties DEF Typed
    <3>4. Retained(capture \o SubSeq(Lines, drawn + 1, n)) \in Seq(Shown)
      BY <3>3, RetainedTail
    <3> QED
      BY <3>1, <3>4 DEF Typed
  <2>2. ~Paint => capture' = capture
    BY Steps DEF Query, NextFrame, Attach, PollWaiting, PollTrustDismissed, Quiet,
               PassCeiling, PassHardTimeout, vars, tuiVars, clockVars, seqVars,
               tuiNature
  <2> QED
    BY <2>1, <2>2 DEF Typed
<1>9. layout' \in Layouts \cup {<<>>} /\ banner' \in Nat
  BY <1>1, <1>3 DEF Typed
<1>10. attached' \in BOOLEAN
  <2>1. attached' = attached \/ attached' = TRUE
    <3>1. Press(0) => attached' = attached
      BY Zenon DEF Press, tuiVars
    <3>2. ASSUME NEW delta, SendKeys(delta) PROVE attached' = attached
      BY <3>2, Zenon DEF SendKeys, Press, tuiVars
    <3>3. PollWaiting => attached' = attached
      BY <3>2, Zenon DEF PollWaiting, tuiVars
    <3>4. PollTrustDismissed => attached' = attached
      BY <3>1, Zenon DEF PollTrustDismissed
    <3>5. Query \/ Paint \/ NextFrame \/ Quiet => attached' = attached
      BY Zenon DEF Query, Paint, NextFrame, Quiet, tuiVars
    <3>6. PassCeiling \/ PassHardTimeout \/ UNCHANGED vars => attached' = attached
      BY Zenon DEF PassCeiling, PassHardTimeout, vars, tuiVars
    <3>7. Attach => attached' = TRUE
      BY Zenon DEF Attach
    <3> QED
      BY Steps, <3>3, <3>4, <3>5, <3>6, <3>7, Zenon
  <2> QED
    BY <2>1, Zenon DEF Typed
<1> QED
  BY <1>1, <1>2, <1>4, <1>5, <1>6, <1>7, <1>8, <1>9, <1>10, Zenon DEF Typed

-----------------------------------------------------------------------------
(***************************************************************************)
(* Refusals.                                                               *)
(***************************************************************************)
LEMMA NoRefusalAtOnce ==
  ASSUME NEW c, Refuses(c, 0)
  PROVE  Ceiling
BY DEF Refuses, Rungs

LEMMA CeilingStays ==
  ASSUME Ceiling, [HNext]_hvars
  PROVE  Ceiling'
BY Steps DEF Query, Paint, NextFrame, Attach, PollWaiting, PollTrustDismissed, Quiet,
             PassCeiling, PassHardTimeout, vars, tuiVars, clockVars, seqVars,
             tuiNature, Ceiling, detected_at

LEMMA StalledStays ==
  ASSUME [HNext]_hvars, ~stalled'
  PROVE  ~stalled /\ (Quiet => AtRest)
<1>1. Query \/ Paint \/ NextFrame \/ Attach => stalled' = stalled
  BY Zenon DEF Query, Paint, NextFrame, Attach, tuiNature
<1>2. PollWaiting \/ PollTrustDismissed \/ PassCeiling \/ PassHardTimeout
        => stalled' = stalled
  BY DEF PollWaiting, PollTrustDismissed, PassCeiling, PassHardTimeout, tuiNature
<1>3. UNCHANGED vars => stalled' = stalled
  BY DEF vars, tuiNature
<1>4. Quiet => (stalled' <=> (stalled \/ ~AtRest))
  BY Zenon DEF Quiet
<1>5. (stalled' = stalled) \/ Quiet
  BY Steps, <1>1, <1>2, <1>3, Zenon
<1>6. CASE Quiet
  BY <1>4, <1>6, Zenon
<1>7. CASE ~Quiet
  <2>1. stalled' = stalled
    BY <1>5, <1>7, Zenon
  <2> QED
    BY <1>7, <2>1
<1> QED
  BY <1>6, <1>7, Zenon

(* A dialog that is up and quiet is captured whole: it is seen, and if an  *)
(* entry of it trusts, the scan finds one.                                 *)
LEMMA QuietDialog ==
  ASSUME Typed, OnScreen, screen = "dialog", ended # "refuse", quiet > 0
  PROVE  /\ attached = TRUE
         /\ sel \in Options
         /\ EndsWith(capture, Frame, Len(layout))
         /\ dialog_present(capture)
         /\ Trustable => Identified(capture)
         /\ Trusting(capture) # {} => Trustable
<1>1. /\ attached = TRUE /\ EndsWith(capture, Frame, Len(layout))
      /\ sel \in Options
  BY Zenon DEF OnScreen, Captured
<1>2. layout \in Seq(Words) /\ capture \in Seq(Shown)
  BY LayoutWords DEF Typed
<1>3. /\ dialog_present(capture) /\ Carets(capture) # {}
      /\ Trustable => Trusting(capture) # {}
  BY <1>1, <1>2, ScanOfFrame DEF Trustable
<1>4. Trusting(capture) # {} => Trustable
  <2> SUFFICES ASSUME NEW i \in Trusting(capture) PROVE Trustable
    OBVIOUS
  <2>1. capture[i] \in Shown /\ capture[i].word = "yes"
    BY <1>2 DEF Trusting
  <2> QED
    BY <2>1, Zenon DEF Shown
<1> QED
  BY <1>1, <1>3, <1>4, Zenon DEF Identified

LEMMA RefusalStep ==
  ASSUME HandshakeInv, [HNext]_hvars
  PROVE  TrustableIsNotRefused'
<1> SUFFICES ASSUME ended' = "refuse", ~stalled', Trustable, ~Ceiling'
             PROVE  FALSE
  <2>1. Trustable' = Trustable
    BY TypedStep DEF HandshakeInv
  <2> QED
    BY <2>1, Zenon DEF TrustableIsNotRefused, Trustable
<1>1. Typed /\ OnScreen /\ ~Ceiling /\ ended # "refuse"
  <2>1. ~stalled /\ ~Ceiling
    BY StalledStays, CeilingStays
  <2> QED
    BY <2>1, Zenon DEF HandshakeInv, TrustableIsNotRefused, Trustable
<1>2. ASSUME Query PROVE FALSE
  <2>1. Refuses(capture, 0)
    BY <1>1, <1>2 DEF Query, verdict
  <2> QED
    BY <1>1, <2>1, NoRefusalAtOnce
<1>3. ASSUME Paint PROVE FALSE
  <2>1. Refuses(capture', 0)
    BY <1>1, <1>3 DEF Paint, verdict
  <2> QED
    BY <1>1, <2>1, NoRefusalAtOnce
<1>4. ASSUME PollWaiting PROVE FALSE
  <2>1. phase = "Waiting" /\ Refuses(capture, quiet)
    BY <1>1, <1>4 DEF PollWaiting, verdict
  <2>2. ~Identified(capture) /\ quiet >= Rungs.settle
    BY <1>1, <2>1, Zenon DEF Refuses
  <2>3. quiet > 0
    BY <1>1, <2>2 DEF Rungs, Typed
  <2>4. screen = "dialog"
    <3>1. screen # "banner" /\ screen # "exited"
      BY <1>1, <2>3 DEF OnScreen, Typed
    <3>2. screen # "repl"
      BY <1>1, <2>1 DEF OnScreen, Trustable
    <3> QED
      BY <1>1, <3>1, <3>2 DEF Typed
  <2> QED
    BY <1>1, <2>2, <2>3, <2>4, QuietDialog
<1>5. ~(Query \/ Paint \/ PollWaiting) => ended' = ended
  BY Steps DEF NextFrame, Attach, PollTrustDismissed, Quiet, PassCeiling,
               PassHardTimeout, vars, seqVars
<1> QED
  BY <1>1, <1>2, <1>3, <1>4, <1>5

-----------------------------------------------------------------------------
(***************************************************************************)
(* The screen.                                                             *)
(***************************************************************************)
(* Every step but those of Press, Paint and Quiet, and the banner's end.   *)
LEMMA OnScreenKept ==
  ASSUME Typed, OnScreen, layout' = layout,
         phase' = phase, screen' = screen, sel' = sel, capture' = capture,
         drawn' \in {drawn, 0}, quiet' \in {quiet, 0},
         attached' = attached \/ attached' = TRUE,
         ended' # "refuse" => ended # "refuse"
  PROVE  OnScreen'
<1>1. Options' = Options /\ Frame' = Frame /\ Len(layout') = Len(layout)
  BY Zenon DEF Options, Frame
<1>2. /\ screen' # "exited"
      /\ phase' # "Waiting" => screen' = "repl"
      /\ (phase' = "Waiting" /\ screen' = "repl") => layout' = <<>>
      /\ screen' = "banner" => quiet' = 0
      /\ (screen' \in {"banner", "dialog"} /\ layout' # <<>>) => sel' \in Options'
      /\ screen' = "dialog" => layout' # <<>>
  BY <1>1 DEF OnScreen
<1>3. screen' = "dialog" => drawn' <= Len(layout')
  BY <1>1, LayoutWords DEF OnScreen
<1>4. ASSUME screen' = "dialog", ended' # "refuse" PROVE Captured'
  <2>1. Captured
    BY <1>4, Zenon DEF OnScreen
  <2>2. EndsWith(capture, Frame, drawn')
    <3>1. EndsWith(capture, Frame, 0)
      BY DEF EndsWith, Typed
    <3> QED
      BY <2>1, <3>1 DEF Captured
  <2>3. quiet' > 0 => quiet > 0
    BY DEF Typed
  <2>4. quiet' > 0 => attached' = TRUE /\ EndsWith(capture, Frame, Len(layout))
    BY <2>1, <2>3, Zenon DEF Captured
  <2>5. /\ EndsWith(capture', Frame', drawn')
        /\ quiet' > 0 => attached' = TRUE /\ EndsWith(capture', Frame', Len(layout'))
    BY <1>1, <2>2, <2>4, Zenon
  <2> QED
    BY <2>5, Zenon DEF Captured
<1> QED
  BY <1>2, <1>3, <1>4, Zenon DEF OnScreen

(* The REPL reads keys and stays.                                          *)
LEMMA InRepl ==
  ASSUME screen' = "repl", phase' = "Waiting" => layout' = <<>>
  PROVE  OnScreen'
BY DEF OnScreen

LEMMA PaintStep ==
  ASSUME DialogFits, Typed, OnScreen, Paint
  PROVE  OnScreen'
<1>1. PICK n \in drawn + 1..Len(Lines) :
        /\ drawn' = n
        /\ IF phase = "Waiting" /\ ended # "refuse"
           THEN /\ capture' = Retained(capture \o SubSeq(Lines, drawn + 1, n))
                /\ ended' = verdict(capture', 0, bytes_received')
           ELSE capture' = capture /\ ended' = ended
  BY DEF Paint
<1>2. /\ quiet' = 0 /\ phase' = phase /\ screen' = screen /\ layout' = layout
      /\ sel' = sel
  BY DEF Paint
<1>3. Options' = Options /\ Frame' = Frame /\ Len(layout') = Len(layout)
  BY <1>2, Zenon DEF Options, Frame
<1>4. /\ screen' # "exited"
      /\ phase' # "Waiting" => screen' = "repl"
      /\ (phase' = "Waiting" /\ screen' = "repl") => layout' = <<>>
      /\ screen' = "banner" => quiet' = 0
      /\ (screen' \in {"banner", "dialog"} /\ layout' # <<>>) => sel' \in Options'
      /\ screen' = "dialog" => layout' # <<>>
  BY <1>2, <1>3 DEF OnScreen
<1>5. ASSUME screen = "dialog"
      PROVE  /\ Lines = Frame /\ Len(Frame) = Len(layout) /\ Frame \in Seq(Shown)
             /\ n \in Nat /\ drawn <= n /\ n <= Len(layout)
  <2>1. Lines = Frame /\ Len(Frame) = Len(layout) /\ Frame \in Seq(Shown)
    BY <1>5, LinesShown
  <2> QED
    BY <1>1, <2>1 DEF Typed
<1>6. screen' = "dialog" => drawn' <= Len(layout')
  BY <1>1, <1>2, <1>3, <1>5
<1>7. ASSUME screen' = "dialog", ended' # "refuse" PROVE Captured'
  <2>1. screen = "dialog" /\ phase = "Waiting" /\ ended # "refuse"
    BY <1>1, <1>2, <1>7 DEF OnScreen
  <2>2. EndsWith(capture, Frame, drawn)
    BY <2>1, Zenon DEF OnScreen, Captured
  <2>3. Len(layout) <= CaptureLines /\ CaptureLines \in Nat /\ Len(layout) \in Nat
    <3>1. layout \in Layouts
      BY <2>1, LayoutWords DEF OnScreen
    <3> QED
      BY <3>1, LayoutWords, StartupSeqAssumption DEF DialogFits
  <2>4. EndsWith(Retained(capture \o SubSeq(Frame, drawn + 1, n)), Frame, n)
    <3>1. drawn \in Nat /\ capture \in Seq(Shown)
      BY DEF Typed
    <3>2. n <= Len(Frame) /\ n <= CaptureLines
      BY <1>5, <2>1, <2>3
    <3> QED
      BY <1>5, <2>1, <2>2, <3>1, <3>2, PaintedEnd
  <2>5. capture' = Retained(capture \o SubSeq(Frame, drawn + 1, n))
    BY <1>1, <1>5, <2>1
  <2>6. EndsWith(capture', Frame', drawn') /\ ~(quiet' > 0)
    <3>1. ~(quiet' > 0)
      BY <1>2
    <3> QED
      BY <1>1, <1>3, <2>4, <2>5, <3>1, Zenon
  <2> QED
    BY <2>6, Zenon DEF Captured
<1> QED
  BY <1>4, <1>6, <1>7, Zenon DEF OnScreen

(* The keys computed from the capture choose, in the dialog on the screen, *)
(* an entry that trusts.                                                   *)
LEMMA KeysChoose ==
  ASSUME Typed, OnScreen, screen = "dialog", ended # "refuse", quiet > 0,
         Trusting(capture) # {}, Press(plan_dismiss(capture))
  PROVE  screen' = "repl"
<1>1. attached = TRUE /\ sel \in Options /\ EndsWith(capture, Frame, Len(layout))
      /\ Trustable
  BY QuietDialog, Zenon
<1>2. layout \in Seq(Words) /\ capture \in Seq(Shown)
  BY LayoutWords DEF Typed
<1>3. PICK m \in Options :
        layout[m] = "yes" /\ Place(m) = Place(sel) + plan_dismiss(capture)
  BY <1>1, <1>2, ScanOfFrame DEF Trustable
<1>4. Landing(plan_dismiss(capture))
        = {i \in Options : Place(i) = Place(sel) + plan_dismiss(capture)}
  BY <1>3 DEF Landing
<1>5. /\ sel' \in Landing(plan_dismiss(capture))
      /\ screen' = IF layout[sel'] = "yes" THEN "repl" ELSE "exited"
  BY <1>1 DEF Press
<1>6. sel' = m
  BY <1>2, <1>3, <1>4, <1>5, PlaceInjective
<1> QED
  BY <1>3, <1>5, <1>6

LEMMA OnScreenStep ==
  ASSUME DialogFits, HandshakeInv, [HNext]_hvars, ~stalled'
  PROVE  OnScreen'
<1>1. Typed /\ OnScreen /\ layout' = layout /\ (Quiet => AtRest)
  BY StalledStays, TypedStep, Zenon DEF HandshakeInv
<1>2. CASE Query
  BY <1>1, <1>2, OnScreenKept DEF Query, tuiVars
<1>3. CASE Paint
  BY <1>1, <1>3, PaintStep
<1>4. CASE NextFrame
  <2>1. screen = "banner" => phase = "Waiting" /\ quiet = 0
    BY <1>1 DEF OnScreen
  <2>2. CASE screen # "banner"
    BY <1>1, <1>4, <2>2, OnScreenKept DEF NextFrame, LeaveBanner, Repaint, seqVars, clockVars
  <2>3. CASE screen = "banner" /\ layout = <<>>
    BY <1>1, <1>4, <2>3, InRepl DEF NextFrame, LeaveBanner, Repaint
  <2>4. CASE screen = "banner" /\ layout # <<>>
    <3>1. /\ screen' = "dialog" /\ phase' = "Waiting" /\ quiet' = 0 /\ drawn' = 0
          /\ capture' = capture /\ sel' = sel
      BY <1>4, <2>1, <2>4 DEF NextFrame, LeaveBanner, Repaint, seqVars, clockVars
    <3>2. sel' \in Options' /\ Len(layout') \in Nat
      BY <1>1, <2>4, <3>1, LayoutWords DEF OnScreen, Options
    <3>3. Captured'
      <4>1. EndsWith(capture', Frame', 0)
        BY <1>1, <3>1 DEF EndsWith, Typed
      <4>2. ~(quiet' > 0)
        BY <3>1
      <4> QED
        BY <3>1, <4>1, <4>2, Zenon DEF Captured
    <3>4. drawn' <= Len(layout') /\ layout' # <<>>
      BY <1>1, <2>4, <3>1, <3>2
    <3> QED
      BY <3>1, <3>2, <3>3, <3>4 DEF OnScreen
  <2> QED
    BY <2>2, <2>3, <2>4
<1>5. CASE Attach
  BY <1>1, <1>5, OnScreenKept DEF Attach, seqVars, clockVars
<1>6. CASE PollWaiting
  <2>1. CASE UNCHANGED <<phase, quiet, tuiVars>>
    BY <1>1, <1>6, <2>1, OnScreenKept DEF PollWaiting, tuiVars
  <2>2. CASE /\ Dismisses(capture, quiet)
             /\ SendKeys(plan_dismiss(capture))
    <3>1. /\ quiet > 0 /\ ended # "refuse" /\ Trusting(capture) # {}
          /\ phase = "Waiting"
      BY <1>1, <1>6, <2>2 DEF PollWaiting, Dismisses, Identified, Rungs, Typed
    <3>2. screen # "banner" /\ screen # "exited"
      BY <1>1, <3>1 DEF OnScreen, Typed
    <3>3. CASE screen = "dialog"
      <4>1. screen' = "repl" /\ phase' = "TrustDismissed"
        BY <1>1, <2>2, <3>1, <3>3, KeysChoose DEF SendKeys
      <4> QED
        BY <4>1, InRepl
    <3>4. CASE screen = "repl"
      BY <2>2, <3>4, InRepl DEF SendKeys, Press, tuiVars
    <3> QED
      BY <1>1, <3>2, <3>3, <3>4 DEF Typed
  <2>3. CASE /\ FallsBack(capture, quiet, bytes_received)
             /\ SendKeys(0)
    <3>1. /\ quiet > 0 /\ ended # "refuse" /\ ~dialog_present(capture)
          /\ phase = "Waiting"
      BY <1>1, <1>6, <2>3 DEF PollWaiting, FallsBack, Rungs, Typed
    <3>2. screen # "banner" /\ screen # "exited"
      BY <1>1, <3>1 DEF OnScreen, Typed
    <3>3. screen # "dialog"
      BY <1>1, <3>1, QuietDialog
    <3>4. screen = "repl"
      BY <1>1, <3>2, <3>3 DEF Typed
    <3> QED
      BY <2>3, <3>4, InRepl DEF SendKeys, Press, tuiVars
  <2> QED
    BY <1>6, <2>1, <2>2, <2>3 DEF PollWaiting
<1>7. CASE PollTrustDismissed
  <2>1. screen = "repl" /\ phase' = "PromptInjected"
    BY <1>1, <1>7 DEF PollTrustDismissed, OnScreen
  <2>2. screen' = "repl"
    BY <1>7, <2>1 DEF PollTrustDismissed, Press, tuiVars
  <2> QED
    BY <2>1, <2>2, InRepl
<1>8. CASE Quiet
  <2>1. /\ phase' = phase /\ screen' = screen /\ sel' = sel /\ capture' = capture
        /\ drawn' = drawn /\ ended' = ended
    BY <1>8 DEF Quiet, seqVars, tuiVars
  <2>0. attached' = attached
    BY <1>8, Zenon DEF Quiet, tuiVars
  <2>2. screen # "banner"
    BY <1>1, <1>8 DEF AtRest
  <2>3. Options' = Options /\ Frame' = Frame /\ Len(layout') = Len(layout)
    BY <1>1, <2>1, Zenon DEF Options, Frame
  <2>4. ASSUME screen' = "dialog", ended' # "refuse" PROVE Captured'
    <3>1. screen = "dialog" /\ Captured
      BY <1>1, <2>1, <2>4, Zenon DEF OnScreen
    <3>2. attached /\ drawn = Len(Lines)
      BY <1>1, <1>8, <3>1 DEF AtRest
    <3>3. Len(Lines) = Len(layout) /\ EndsWith(capture, Frame, drawn)
      BY <1>1, <3>1, LinesShown DEF Captured
    <3>4. EndsWith(capture', Frame', drawn') /\ EndsWith(capture', Frame', Len(layout'))
      BY <2>1, <2>3, <3>2, <3>3, Zenon
    <3>5. attached' = TRUE
      BY <1>1, <2>0, <3>2, Zenon DEF Typed
    <3> QED
      BY <3>4, <3>5, Zenon DEF Captured
  <2>5. /\ screen' # "exited"
        /\ phase' # "Waiting" => screen' = "repl"
        /\ (phase' = "Waiting" /\ screen' = "repl") => layout' = <<>>
        /\ screen' = "banner" => quiet' = 0
        /\ (screen' \in {"banner", "dialog"} /\ layout' # <<>>) => sel' \in Options'
        /\ screen' = "dialog" => layout' # <<>> /\ drawn' <= Len(layout')
    BY <1>1, <2>1, <2>2, <2>3 DEF OnScreen
  <2> QED
    BY <2>4, <2>5, Zenon DEF OnScreen
<1>9. CASE PassCeiling
  BY <1>1, <1>9, OnScreenKept DEF PassCeiling, seqVars, tuiVars
<1>10. CASE PassHardTimeout
  BY <1>1, <1>10, OnScreenKept DEF PassHardTimeout, seqVars, tuiVars
<1>11. CASE UNCHANGED vars
  BY <1>1, <1>11, OnScreenKept DEF vars, seqVars, tuiVars, clockVars
<1> QED
  BY Steps, <1>2, <1>3, <1>4, <1>5, <1>6, <1>7, <1>8, <1>9, <1>10, <1>11

-----------------------------------------------------------------------------
(***************************************************************************)
(* The theorems.                                                           *)
(***************************************************************************)
LEMMA HandshakeInvHolds ==
  ASSUME DialogFits
  PROVE  HSpec => []HandshakeInv
<1>1. HInit => HandshakeInv
  <2> SUFFICES ASSUME HInit PROVE HandshakeInv
    OBVIOUS
  <2>1. Typed
    <3>1. <<>> \in Seq(Shown)
      OBVIOUS
    <3>2. attached \in BOOLEAN
      BY Zenon DEF HInit, Init
    <3> QED
      BY <3>1, <3>2, StartupSeqAssumption DEF HInit, Init, Typed
  <2>2. TrustableIsNotRefused
    BY DEF HInit, Init, TrustableIsNotRefused
  <2>3. layout # <<>> => sel \in Options
    BY DEF HInit, Init, Options
  <2>4. OnScreen
    BY <2>3 DEF HInit, Init, OnScreen
  <2> QED
    BY <2>1, <2>2, <2>4, Zenon DEF HandshakeInv
<1>2. HandshakeInv /\ [HNext]_hvars => HandshakeInv'
  <2> SUFFICES ASSUME HandshakeInv, [HNext]_hvars PROVE HandshakeInv'
    OBVIOUS
  <2>1. Typed'
    BY TypedStep DEF HandshakeInv
  <2>2. ~stalled' => OnScreen'
    BY OnScreenStep
  <2>3. TrustableIsNotRefused'
    BY RefusalStep
  <2> QED
    BY <2>1, <2>2, <2>3, Zenon DEF HandshakeInv
<1> QED
  BY <1>1, <1>2, PTL DEF HSpec

(* startup.rs: of a TUI that was not held up, whatever its dialog, banner  *)
(* and burst, no key refuses the dialog and the prompt goes into the REPL. *)
THEOREM KeysLandAsMeantTheorem ==
  ASSUME DialogFits
  PROVE  HSpec => []KeysLandAsMeant
<1>1. HandshakeInv => KeysLandAsMeant
  BY Zenon DEF HandshakeInv, OnScreen, Typed, KeysLandAsMeant
<1> QED
  BY <1>1, HandshakeInvHolds, PTL

(* waiting_step: a dialog with a trusting entry is refused only past the   *)
(* ceiling, or if its TUI was held up.                                     *)
THEOREM TrustableIsNotRefusedTheorem ==
  ASSUME DialogFits
  PROVE  HSpec => []TrustableIsNotRefused
<1>1. HandshakeInv => TrustableIsNotRefused
  BY DEF HandshakeInv
<1> QED
  BY <1>1, HandshakeInvHolds, PTL

-----------------------------------------------------------------------------
(***************************************************************************)
(* The terminal emulator.  What it holds back is the sequence that the     *)
(* burst has open; so what ends a probe in the burst ends it there, and    *)
(* what ends there and is a probe is one of the burst.                     *)
(***************************************************************************)
Bytes == Final \cup Body \cup Others \cup {"["}

(* From i, the first n bytes have begun a sequence that has not ended.     *)
Opens(i, n) ==
  /\ Burst[i] = "ESC"
  /\ i < n => Burst[i + 1] = "["
  /\ \A k \in (i + 2)..n : Burst[k] \in Body

(* feed clears an overlong sequence with the byte that makes it so: no     *)
(* probe begins with that byte.                                            *)
NoneSwallowed ==
  \A i \in 1..Len(Burst) :
    i > MAX_PROBE_LEN /\ Opens(i - MAX_PROBE_LEN, i - 1) => Burst[i] # "ESC"

EndsAt(n) == {kind \in ProbeKind : \E i \in 1..n : Probe(kind, i, n)}

Follows(partial, n) ==
  /\ partial \in Seq(Bytes)
  /\ Len(partial) <= n /\ Len(partial) <= MAX_PROBE_LEN
  /\ \A k \in 1..Len(partial) : partial[k] = Burst[n - Len(partial) + k]
  /\ Len(partial) > 0 => Opens(n - Len(partial) + 1, n)
  /\ \A i \in 1..n : Opens(i, n) /\ n - i + 1 <= MAX_PROBE_LEN => Len(partial) = n - i + 1

Replied(replies, kinds) ==
  /\ replies \in Seq(ProbeKind)
  /\ IsInjective(replies)
  /\ ToSet(replies) = kinds

Knows(e, n) ==
  /\ e = [partial |-> e.partial, answered |-> e.answered, replies |-> e.replies]
  /\ Follows(e.partial, n)
  /\ e.answered = Asked[n]
  /\ Replied(e.replies, Asked[n])

LEMMA SpellsShape ==
  ASSUME NEW kind \in ProbeKind, NEW s \in Spells(kind)
  PROVE  /\ Len(s) \in 1..3 /\ s[Len(s)] \in Final
         /\ \A k \in 1..(Len(s) - 1) : s[k] \in Body
         /\ \A other \in ProbeKind : s \in Spells(other) => other = kind
<1>1. s \in {<<"c">>, <<"0", "c">>, <<">", "c">>, <<">", "0", "c">>, <<"6", "n">>,
             <<">", "q">>, <<">", "0", "q">>, <<"1", "8", "t">>}
  BY DEF Spells, ProbeKind
<1>2. /\ Len(s) \in 1..3 /\ s[Len(s)] \in Final
      /\ \A k \in 1..(Len(s) - 1) : s[k] \in Body
  <2>1. CASE s = <<"c">>
    BY <2>1 DEF Final
  <2>2. CASE s \in {<<"0", "c">>, <<">", "c">>, <<"6", "n">>, <<">", "q">>}
    <3>1. /\ Len(s) = 2 /\ s[2] \in {"c", "n", "q"} /\ s[1] \in {"0", ">", "6"}
      BY <2>2
    <3>2. {"c", "n", "q"} \subseteq Final /\ {"0", ">", "6"} \subseteq Body
      BY DEF Final, Body
    <3>3. \A k \in 1..(Len(s) - 1) : k = 1
      BY <3>1
    <3> QED
      BY <3>1, <3>2, <3>3
  <2>3. CASE s \in {<<">", "0", "c">>, <<">", "0", "q">>, <<"1", "8", "t">>}
    <3>1. /\ Len(s) = 3 /\ s[3] \in {"c", "q", "t"}
          /\ s[1] \in {">", "1"} /\ s[2] \in {"0", "8"}
      BY <2>3
    <3>2. {"c", "q", "t"} \subseteq Final /\ {">", "1", "0", "8"} \subseteq Body
      BY DEF Final, Body
    <3>3. \A k \in 1..(Len(s) - 1) : k = 1 \/ k = 2
      BY <3>1
    <3> QED
      BY <3>1, <3>2, <3>3
  <2> QED
    BY <1>1, <2>1, <2>2, <2>3
<1>3. \A other \in ProbeKind : s \in Spells(other) => other = kind
  BY DEF Spells, ProbeKind
<1> QED
  BY <1>2, <1>3

LEMMA BytesApart ==
  /\ "ESC" \notin Body /\ "ESC" \notin Final
  /\ "[" \notin Body /\ "[" \notin Final /\ "ESC" # "["
  /\ \A b \in Final : b \notin Body
BY DEF Body, Final

LEMMA BurstBytes ==
  ASSUME NEW i \in 1..Len(Burst)
  PROVE  Burst[i] \in Bytes /\ Len(Burst) \in Nat
BY HandshakeAssumption DEF Bytes

(* Of the burst from i to j that is a probe, all but the last byte is open. *)
LEMMA ProbeShape ==
  ASSUME NEW kind \in ProbeKind, NEW j \in 1..Len(Burst), NEW i \in 1..j,
         Probe(kind, i, j)
  PROVE  /\ i + 2 <= j /\ j <= i + 4
         /\ Burst[j] \in Final
         /\ Opens(i, j - 1)
<1> DEFINE s == SubSeq(Burst, i + 2, j)
<1>1. /\ Burst[i] = "ESC" /\ i + 2 <= j /\ Burst[i + 1] = "[" /\ s \in Spells(kind)
  BY DEF Probe
<1>2. i + 2 \in Int /\ j \in Int /\ i \in Nat /\ Len(Burst) \in Nat
  BY BurstBytes
<1>3. \A k \in (i + 2)..j : Burst[k] \in Bytes
  BY <1>2, BurstBytes
<1>4. Len(s) = j - (i + 2) + 1 /\ \A k \in 1..(j - (i + 2) + 1) : s[k] = Burst[i + 2 + k - 1]
  BY <1>1, <1>2, <1>3, SubSeqProperties
<1> HIDE DEF s
<1>5. /\ Len(s) \in 1..3 /\ s[Len(s)] \in Final
      /\ \A k \in 1..(Len(s) - 1) : s[k] \in Body
  BY <1>1, SpellsShape
<1>6. Burst[j] \in Final
  <2>1. Len(s) \in 1..(j - (i + 2) + 1) /\ i + 2 + Len(s) - 1 = j
    BY <1>1, <1>2, <1>4
  <2> QED
    BY <1>4, <1>5, <2>1
<1>7. \A k \in (i + 2)..(j - 1) : Burst[k] \in Body
  <2> SUFFICES ASSUME NEW k \in (i + 2)..(j - 1) PROVE Burst[k] \in Body
    OBVIOUS
  <2>1. /\ k - (i + 2) + 1 \in 1..(Len(s) - 1)
        /\ k - (i + 2) + 1 \in 1..(j - (i + 2) + 1)
        /\ i + 2 + (k - (i + 2) + 1) - 1 = k
    BY <1>2, <1>4
  <2> QED
    BY <1>4, <1>5, <2>1
<1> QED
  BY <1>1, <1>2, <1>4, <1>5, <1>6, <1>7 DEF Opens

LEMMA OpensBack ==
  ASSUME NEW n \in Nat, NEW i \in 1..n, Opens(i, n + 1)
  PROVE  /\ Opens(i, n)
         /\ i = n => Burst[n + 1] = "["
         /\ i < n => Burst[n + 1] \in Body
<1>1. i \in Nat
  OBVIOUS
<1>2. \A k \in (i + 2)..n : k \in (i + 2)..(n + 1)
  BY <1>1
<1>3. i < n => n + 1 \in (i + 2)..(n + 1)
  BY <1>1
<1> QED
  BY <1>1, <1>2, <1>3 DEF Opens

LEMMA AskedGrows ==
  ASSUME NEW n \in Nat, n < Len(Burst)
  PROVE  Asked[n + 1] = Asked[n] \cup EndsAt(n + 1)
<1>1. Len(Burst) \in Nat
  BY HandshakeAssumption
<1>2. n \in 0..Len(Burst) /\ n + 1 \in 0..Len(Burst)
  BY <1>1
<1>3. /\ Asked[n] = {kind \in ProbeKind : \E i \in 1..n : \E j \in i..n : Probe(kind, i, j)}
      /\ Asked[n + 1] =
           {kind \in ProbeKind : \E i \in 1..(n + 1) : \E j \in i..(n + 1) : Probe(kind, i, j)}
  BY <1>2 DEF Asked
<1>4. ASSUME NEW kind \in ProbeKind, NEW i \in 1..(n + 1), NEW j \in i..(n + 1),
             Probe(kind, i, j)
      PROVE  kind \in Asked[n] \/ kind \in EndsAt(n + 1)
  <2>1. CASE j = n + 1
    BY <1>4, <2>1 DEF EndsAt
  <2>2. CASE j # n + 1
    <3>1. i \in 1..n /\ j \in i..n
      BY <2>2
    <3> QED
      BY <1>3, <1>4, <3>1
  <2> QED
    BY <2>1, <2>2
<1>5. ASSUME NEW kind \in ProbeKind, NEW i \in 1..n, NEW j \in i..n, Probe(kind, i, j)
      PROVE  kind \in Asked[n + 1]
  <2>1. i \in 1..(n + 1) /\ j \in i..(n + 1)
    OBVIOUS
  <2> QED
    BY <1>3, <1>5, <2>1
<1>6. ASSUME NEW kind \in EndsAt(n + 1)
      PROVE  kind \in Asked[n + 1]
  <2>1. PICK i \in 1..(n + 1) : Probe(kind, i, n + 1)
    BY DEF EndsAt
  <2>2. n + 1 \in i..(n + 1) /\ kind \in ProbeKind
    BY DEF EndsAt
  <2> QED
    BY <1>3, <2>1, <2>2
<1>7. Asked[n + 1] \subseteq Asked[n] \cup EndsAt(n + 1)
  BY <1>3, <1>4
<1>8. Asked[n] \subseteq Asked[n + 1]
  BY <1>3, <1>5
<1> QED
  BY <1>6, <1>7, <1>8

(* A probe that the next byte ends is the sequence held back. *)
LEMMA EndsHeld ==
  ASSUME NEW n \in Nat, n < Len(Burst), NEW partial, Follows(partial, n),
         NEW kind \in ProbeKind, NEW i \in 1..(n + 1), Probe(kind, i, n + 1)
  PROVE  /\ Len(partial) = n - i + 1 /\ Len(partial) >= 2
         /\ Len(partial) < MAX_PROBE_LEN
         /\ Burst[n + 1] \in Final
<1>1. n + 1 \in 1..Len(Burst) /\ n + 1 - 1 = n
  BY BurstBytes, HandshakeAssumption
<1>2. i + 2 <= n + 1 /\ n + 1 <= i + 4 /\ Burst[n + 1] \in Final /\ Opens(i, n)
  BY <1>1, ProbeShape
<1>3. i \in 1..n /\ n - i + 1 <= 4 /\ n - i + 1 >= 2
  BY <1>2
<1>4. Len(partial) = n - i + 1
  BY <1>2, <1>3, TerminalEmuAssumption DEF Follows
<1> QED
  BY <1>2, <1>3, <1>4, TerminalEmuAssumption

(* And what is held back and ended is identified as what the burst has.    *)
LEMMA IdentifiesEnded ==
  ASSUME NEW n \in Nat, n < Len(Burst), NEW partial, Follows(partial, n),
         Len(partial) >= 2
  PROVE  identify(Append(partial, Burst[n + 1])) = EndsAt(n + 1)
<1> DEFINE p == Len(partial)
           b == Burst[n + 1]
           buf == Append(partial, b)
           i == n - p + 1
<1>1. /\ partial \in Seq(Bytes) /\ p \in Nat /\ p <= n /\ p >= 2
      /\ \A k \in 1..p : partial[k] = Burst[n - p + k]
      /\ Opens(i, n)
  BY DEF Follows
<1>2. n + 1 \in 1..Len(Burst) /\ b \in Bytes /\ Len(Burst) \in Nat
  <2>1. n + 1 \in 1..Len(Burst)
    BY HandshakeAssumption
  <2> QED
    BY <2>1, BurstBytes
<1>3. /\ buf \in Seq(Bytes) /\ Len(buf) = p + 1
      /\ \A k \in 1..p : buf[k] = partial[k]
      /\ buf[p + 1] = b
  BY <1>1, <1>2
<1>4. i \in 1..n /\ i + 2 <= n + 1
  BY <1>1
<1>5. Burst[i] = "ESC" /\ Burst[i + 1] = "["
  BY <1>1, <1>4 DEF Opens
<1>6. \A k \in 1..(p + 1) : buf[k] = Burst[n - p + k]
  BY <1>1, <1>3
<1> HIDE DEF buf, b
<1>7. SubSeq(buf, 3, Len(buf)) = SubSeq(Burst, i + 2, n + 1)
  <2> DEFINE s == SubSeq(buf, 3, p + 1)
             t == SubSeq(Burst, i + 2, n + 1)
  <2>1. /\ s \in Seq(Bytes) /\ Len(s) = p - 1
        /\ \A k \in 1..(p - 1) : s[k] = buf[k + 2]
    <3>1. \A k \in 3..(p + 1) : buf[k] \in Bytes
      BY <1>1, <1>3
    <3>2. 3 \in Int /\ p + 1 \in Int
      BY <1>1
    <3>3. /\ s \in Seq(Bytes) /\ Len(s) = IF 3 <= p + 1 THEN p + 1 - 3 + 1 ELSE 0
          /\ \A k \in 1..(p + 1 - 3 + 1) : s[k] = buf[3 + k - 1]
      BY <3>1, <3>2, SubSeqProperties
    <3> HIDE DEF s, p
    <3> QED
      BY <1>1, <3>3
  <2>2. /\ t \in Seq(Bytes) /\ Len(t) = p - 1
        /\ \A k \in 1..(p - 1) : t[k] = Burst[n - p + k + 2]
    <3>1. \A k \in (i + 2)..(n + 1) : Burst[k] \in Bytes
      BY <1>2, <1>4, BurstBytes
    <3>2. i + 2 \in Int /\ n + 1 \in Int
      BY <1>1
    <3>3. /\ t \in Seq(Bytes)
          /\ Len(t) = IF i + 2 <= n + 1 THEN n + 1 - (i + 2) + 1 ELSE 0
          /\ \A k \in 1..(n + 1 - (i + 2) + 1) : t[k] = Burst[i + 2 + k - 1]
      BY <3>1, <3>2, SubSeqProperties
    <3> HIDE DEF t, p
    <3> QED
      BY <1>1, <3>3
  <2>3. \A k \in 1..(p - 1) : buf[k + 2] = Burst[n - p + k + 2]
    BY <1>1, <1>6
  <2> HIDE DEF s, t, p
  <2>4. \A k \in 1..Len(s) : s[k] = t[k]
    BY <2>1, <2>2, <2>3
  <2>5. s = t
    BY <2>1, <2>2, <2>4, SeqEqual
  <2> QED
    BY <1>3, <2>5 DEF s, t
<1>8. ASSUME NEW kind \in EndsAt(n + 1)
      PROVE  kind \in identify(buf)
  <2>1. PICK j \in 1..(n + 1) : Probe(kind, j, n + 1)
    BY DEF EndsAt
  <2>2. kind \in ProbeKind
    BY DEF EndsAt
  <2>3. p = n - j + 1
    BY <2>1, <2>2, EndsHeld
  <2>4. j = i
    BY <1>1, <2>3
  <2> QED
    BY <1>7, <2>1, <2>2, <2>4 DEF Probe, identify
<1>9. ASSUME NEW kind \in identify(buf)
      PROVE  kind \in EndsAt(n + 1)
  <2>1. Probe(kind, i, n + 1)
    BY <1>4, <1>5, <1>7 DEF Probe, identify
  <2>2. kind \in ProbeKind /\ i \in 1..(n + 1)
    BY <1>4 DEF identify
  <2> QED
    BY <2>1, <2>2 DEF EndsAt
<1> QED
  BY <1>8, <1>9 DEF buf, b

LEMMA HeldGrows ==
  ASSUME NEW n \in Nat, n < Len(Burst), NEW partial, Follows(partial, n),
         Len(partial) > 0, Len(partial) < MAX_PROBE_LEN,
         Len(partial) = 1 => Burst[n + 1] = "[",
         Len(partial) > 1 => Burst[n + 1] \in Body
  PROVE  Follows(Append(partial, Burst[n + 1]), n + 1)
<1> DEFINE p == Len(partial)
           b == Burst[n + 1]
           buf == Append(partial, b)
           i == n - p + 1
<1>1. /\ partial \in Seq(Bytes) /\ p \in Nat /\ p <= n
      /\ \A k \in 1..p : partial[k] = Burst[n - p + k]
      /\ Opens(i, n)
      /\ p > 0 /\ p < MAX_PROBE_LEN
      /\ p = 1 => b = "["
      /\ p > 1 => b \in Body
  BY DEF Follows
<1>2. b \in Bytes
  <2>1. n + 1 \in 1..Len(Burst)
    BY HandshakeAssumption
  <2> QED
    BY <2>1, BurstBytes
<1>3. /\ buf \in Seq(Bytes) /\ Len(buf) = p + 1
      /\ \A k \in 1..p : buf[k] = partial[k]
      /\ buf[p + 1] = b
  BY <1>1, <1>2
<1>0. p = Len(partial)
  OBVIOUS
<1> HIDE DEF buf, p, b
<1>4. \A k \in 1..(p + 1) : buf[k] = Burst[n + 1 - (p + 1) + k]
  <2> SUFFICES ASSUME NEW k \in 1..(p + 1)
               PROVE  buf[k] = Burst[n + 1 - (p + 1) + k]
    OBVIOUS
  <2>1. CASE k = p + 1
    BY <1>1, <1>3, <2>1 DEF b
  <2>2. CASE k # p + 1
    BY <1>1, <1>3, <2>2
  <2> QED
    BY <2>1, <2>2
<1>5. Opens(i, n + 1)
  <2>1. i \in 1..n
    BY <1>1
  <2>2. Burst[i] = "ESC" /\ \A k \in (i + 2)..n : Burst[k] \in Body
    BY <1>1 DEF Opens
  <2>3. Burst[i + 1] = "["
    <3>1. CASE i = n
      <4>1. p = 1
        BY <1>1, <3>1
      <4> QED
        BY <1>1, <3>1, <4>1 DEF b
    <3>2. CASE i # n
      BY <1>1, <2>1, <3>2 DEF Opens
    <3> QED
      BY <3>1, <3>2
  <2>4. ASSUME NEW k \in (i + 2)..(n + 1) PROVE Burst[k] \in Body
    <3>1. CASE k = n + 1
      <4>1. p > 1
        BY <1>1, <3>1
      <4> QED
        BY <1>1, <3>1, <4>1 DEF b
    <3>2. CASE k # n + 1
      <4>1. k \in (i + 2)..n
        BY <1>1, <3>2
      <4> QED
        BY <2>2, <4>1
    <3> QED
      BY <3>1, <3>2
  <2> QED
    BY <2>2, <2>3, <2>4 DEF Opens
<1>6. ASSUME NEW j \in 1..(n + 1), Opens(j, n + 1)
      PROVE  p + 1 = n + 1 - j + 1 \/ ~(n + 1 - j + 1 <= MAX_PROBE_LEN)
  <2>1. CASE j = n + 1
    <3>1. b = "ESC"
      BY <1>6, <2>1 DEF Opens, b
    <3>2. b \in Body \/ b = "["
      <4>1. p = 1 \/ p > 1
        BY <1>1
      <4> QED
        BY <1>1, <4>1
    <3> QED
      BY <3>1, <3>2, BytesApart
  <2>2. CASE j # n + 1
    <3>1. j \in 1..n
      BY <2>2
    <3>2. Opens(j, n)
      BY <1>6, <3>1, OpensBack
    <3>3. n - j + 1 <= MAX_PROBE_LEN => p = n - j + 1
      BY <1>0, <3>1, <3>2 DEF Follows
    <3> QED
      BY <3>1, <3>3, TerminalEmuAssumption
  <2> QED
    BY <2>1, <2>2
<1>7. i = n + 1 - (p + 1) + 1 /\ p + 1 > 0 /\ p + 1 <= n + 1 /\ p + 1 <= MAX_PROBE_LEN
  BY <1>1, TerminalEmuAssumption
<1>8. /\ Len(buf) <= n + 1 /\ Len(buf) <= MAX_PROBE_LEN
      /\ \A k \in 1..Len(buf) : buf[k] = Burst[n + 1 - Len(buf) + k]
      /\ Opens(n + 1 - Len(buf) + 1, n + 1)
  <2> HIDE DEF i
  <2> QED
    BY <1>3, <1>4, <1>5, <1>7
<1>9. \A j \in 1..(n + 1) :
        Opens(j, n + 1) /\ n + 1 - j + 1 <= MAX_PROBE_LEN => Len(buf) = n + 1 - j + 1
  <2> HIDE DEF i
  <2> QED
    BY <1>3, <1>6, Zenon
<1>10. Follows(buf, n + 1)
  BY <1>3, <1>8, <1>9 DEF Follows
<1> QED
  BY <1>10 DEF buf, b

(* Where the next byte does not go on with what is held back, the burst
   goes on with nothing either, but for an ESC.                            *)
LEMMA HeldEnds ==
  ASSUME NEW n \in Nat, n < Len(Burst), NEW partial, Follows(partial, n),
         \/ Len(partial) = 0
         \/ Len(partial) = 1 /\ Burst[n + 1] # "["
         \/ Len(partial) > 1 /\ Burst[n + 1] \notin Body
         \/ Len(partial) >= MAX_PROBE_LEN
  PROVE  Follows(IF Burst[n + 1] = "ESC" THEN <<"ESC">> ELSE <<>>, n + 1)
<1> DEFINE b == Burst[n + 1]
<1>1. Len(partial) \in Nat
  BY DEF Follows
<1>2. ASSUME NEW i \in 1..n, Opens(i, n + 1), n + 1 - i + 1 <= MAX_PROBE_LEN
      PROVE  FALSE
  <2>1. Opens(i, n) /\ (i = n => b = "[") /\ (i < n => b \in Body)
    BY <1>2, OpensBack
  <2>2. n - i + 1 <= MAX_PROBE_LEN
    BY <1>2, TerminalEmuAssumption
  <2>3. Len(partial) = n - i + 1
    BY <2>1, <2>2 DEF Follows
  <2> QED
    BY <1>1, <1>2, <2>1, <2>3, TerminalEmuAssumption
<1>3. CASE b = "ESC"
  <2> DEFINE one == <<"ESC">>
  <2>1. /\ one \in Seq(Bytes) /\ Len(one) = 1 /\ one[1] = "ESC"
    BY DEF Bytes, Others
  <2> HIDE DEF one
  <2>2. Opens(n + 1, n + 1)
    BY <1>3 DEF Opens
  <2>3. \A i \in 1..(n + 1) : i \in 1..n \/ i = n + 1
    OBVIOUS
  <2>4. \A i \in 1..(n + 1) :
          Opens(i, n + 1) /\ n + 1 - i + 1 <= MAX_PROBE_LEN => Len(one) = n + 1 - i + 1
    BY <1>2, <2>1, <2>3
  <2>5. /\ Len(one) <= n + 1 /\ Len(one) <= MAX_PROBE_LEN
        /\ n + 1 - Len(one) + 1 = n + 1
        /\ \A k \in 1..Len(one) : one[k] = Burst[n + 1 - Len(one) + k]
    BY <1>3, <2>1, TerminalEmuAssumption
  <2>6. Follows(one, n + 1)
    BY <2>1, <2>2, <2>4, <2>5 DEF Follows
  <2> QED
    BY <1>3, <2>6 DEF one
<1>4. CASE b # "ESC"
  <2>1. <<>> \in Seq(Bytes) /\ Len(<<>>) = 0
    OBVIOUS
  <2>2. \A i \in 1..(n + 1) : i \in 1..n \/ i = n + 1
    OBVIOUS
  <2>3. ~Opens(n + 1, n + 1)
    BY <1>4 DEF Opens
  <2>4. \A i \in 1..(n + 1) : ~(Opens(i, n + 1) /\ n + 1 - i + 1 <= MAX_PROBE_LEN)
    BY <1>2, <2>2, <2>3
  <2>5. Follows(<<>>, n + 1)
    BY <2>1, <2>4, TerminalEmuAssumption DEF Follows
  <2> QED
    BY <1>4, <2>5
<1> QED
  BY <1>3, <1>4

LEMMA SequenceOfOne ==
  /\ SetToSeq({}) = <<>>
  /\ \A k : SetToSeq({k}) = <<k>>
<1>1. SetToSeq({}) = <<>>
  <2>1. Cardinality({}) = 0
    BY FS_EmptySet
  <2>2. \A f \in [1..0 -> {}] : f = <<>>
    OBVIOUS
  <2>3. <<>> \in [1..0 -> {}] /\ IsInjective(<<>>)
    BY DEF IsInjective
  <2> QED
    BY <2>1, <2>2, <2>3 DEF SetToSeq
<1>2. ASSUME NEW k PROVE SetToSeq({k}) = <<k>>
  <2>1. Cardinality({k}) = 1
    BY FS_Singleton
  <2>2. \A f \in [1..1 -> {k}] : f = <<k>>
    OBVIOUS
  <2>3. <<k>> \in [1..1 -> {k}] /\ IsInjective(<<k>>)
    BY DEF IsInjective
  <2> QED
    BY <2>1, <2>2, <2>3 DEF SetToSeq
<1> QED
  BY <1>1, <1>2

(* One kind more, or none, is replied to, once. *)
LEMMA RepliesGrow ==
  ASSUME NEW kinds, NEW replies, Replied(replies, kinds),
         NEW S \in SUBSET ProbeKind, \A k, l \in S : k = l
  PROVE  Replied(replies \o SetToSeq(S \ kinds), kinds \cup S)
<1>1. replies \in Seq(ProbeKind)
  BY DEF Replied
<1>2. CASE S \ kinds = {}
  <2>1. replies \o SetToSeq(S \ kinds) = replies
    BY <1>1, <1>2, SequenceOfOne, ConcatEmptySeq
  <2>2. kinds \cup S = kinds
    BY <1>2
  <2> QED
    BY <2>1, <2>2
<1>3. CASE S \ kinds # {}
  <2>1. PICK k : k \in S \ kinds
    BY <1>3
  <2>2. S \ kinds = {k} /\ kinds \cup S = kinds \cup {k} /\ k \in ProbeKind
    BY <2>1
  <2>3. replies \o SetToSeq(S \ kinds) = Append(replies, k)
    <3>1. SetToSeq(S \ kinds) = <<k>>
      BY <2>2, SequenceOfOne
    <3>2. Append(replies, k) = replies \o <<k>>
      BY <1>1, <2>2, AppendIsConcat
    <3> QED
      BY <3>1, <3>2, Zenon
  <2> DEFINE more == Append(replies, k)
  <2>4. /\ more \in Seq(ProbeKind) /\ DOMAIN more = 1..(Len(replies) + 1)
        /\ DOMAIN replies = 1..Len(replies) /\ Len(replies) \in Nat
        /\ \A i \in 1..Len(replies) : more[i] = replies[i]
        /\ more[Len(replies) + 1] = k
    BY <1>1, <2>2
  <2>5. \A i \in DOMAIN replies : replies[i] \in kinds
    BY DEF Replied, ToSet
  <2> HIDE DEF more
  <2>6. IsInjective(more)
    <3> SUFFICES ASSUME NEW i \in DOMAIN more, NEW j \in DOMAIN more, more[i] = more[j]
                 PROVE  i = j
      BY DEF IsInjective
    <3>1. CASE i \in DOMAIN replies /\ j \in DOMAIN replies
      BY <2>4, <3>1 DEF Replied, IsInjective
    <3>2. CASE i \notin DOMAIN replies \/ j \notin DOMAIN replies
      BY <2>1, <2>4, <2>5, <3>2
    <3> QED
      BY <3>1, <3>2
  <2>7. ToSet(more) = kinds \cup {k}
    <3>1. ToSet(replies) = kinds
      BY DEF Replied
    <3>2. \A x \in ToSet(more) : x \in kinds \cup {k}
      BY <2>4, <2>5 DEF ToSet
    <3>3. \A x \in kinds \cup {k} : x \in ToSet(more)
      BY <2>4, <3>1 DEF ToSet
    <3> QED
      BY <3>2, <3>3
  <2> QED
    BY <2>2, <2>3, <2>4, <2>6, <2>7 DEF Replied, more
<1> QED
  BY <1>2, <1>3

LEMMA Held ==
  ASSUME NEW e, NEW bytes,
         e = [partial |-> e.partial, answered |-> e.answered, replies |-> e.replies]
  PROVE  Reset(e, bytes)
           = [partial |-> bytes, answered |-> e.answered, replies |-> e.replies]
BY DEF Reset

LEMMA EndsOne ==
  ASSUME NEW n \in Nat, n < Len(Burst), NEW partial, Follows(partial, n),
         NEW k \in EndsAt(n + 1), NEW l \in EndsAt(n + 1)
  PROVE  k = l
<1>1. Len(partial) >= 2
  <2>1. PICK i \in 1..(n + 1) : Probe(k, i, n + 1)
    BY DEF EndsAt
  <2> QED
    BY <2>1, EndsHeld DEF EndsAt
<1>2. {k, l} \subseteq identify(Append(partial, Burst[n + 1]))
  BY <1>1, IdentifiesEnded
<1> DEFINE s == SubSeq(Append(partial, Burst[n + 1]), 3, Len(Append(partial, Burst[n + 1])))
<1>3. k \in ProbeKind /\ l \in ProbeKind /\ s \in Spells(k) /\ s \in Spells(l)
  BY <1>2 DEF identify
<1> HIDE DEF s
<1> QED
  BY <1>3, SpellsShape

LEMMA StartsNone ==
  ASSUME NoneSwallowed, NEW n \in Nat, NEW i \in 1..Len(Burst), i = n + 1,
         i > MAX_PROBE_LEN, Opens(i - MAX_PROBE_LEN, i - 1)
  PROVE  Burst[n + 1] # "ESC"
<1>1. Burst[i] # "ESC"
  BY DEF NoneSwallowed
<1> QED
  BY <1>1, Zenon

(* feed, a byte at a time: what it holds and what it answered are those of *)
(* one byte more.                                                          *)
LEMMA ByteFed ==
  ASSUME NoneSwallowed, NEW n \in Nat, n < Len(Burst), NEW e, Knows(e, n)
  PROVE  Knows(feed_byte(e, Burst[n + 1]), n + 1)
<1> DEFINE b == Burst[n + 1]
           p == Len(e.partial)
           buf == Append(e.partial, b)
           after == IF b = "ESC" THEN <<"ESC">> ELSE <<>>
<1>1. /\ e = [partial |-> e.partial, answered |-> e.answered, replies |-> e.replies]
      /\ Follows(e.partial, n)
      /\ e.answered = Asked[n]
      /\ Replied(e.replies, Asked[n])
  BY DEF Knows
<1>2. /\ e.partial \in Seq(Bytes) /\ p \in Nat /\ p <= n /\ p <= MAX_PROBE_LEN
      /\ p > 0 => Opens(n - p + 1, n)
  BY <1>1 DEF Follows
<1>3. b \in Bytes /\ n + 1 \in 1..Len(Burst)
  <2>1. n + 1 \in 1..Len(Burst)
    BY HandshakeAssumption
  <2> QED
    BY <2>1, BurstBytes
<1>4. /\ Len(buf) = p + 1 /\ buf[p + 1] = b /\ Last(buf) = b
      /\ e.partial = <<>> <=> p = 0
  <2>1. Len(buf) = p + 1 /\ buf[p + 1] = b
    BY <1>2, <1>3
  <2>2. e.partial = <<>> <=> p = 0
    BY <1>2, EmptySeq
  <2> QED
    BY <2>1, <2>2 DEF Last
<1>5. MAX_PROBE_LEN \in Nat /\ MAX_PROBE_LEN >= 5
  BY TerminalEmuAssumption
<1>6. ASSUME NEW bytes, Follows(bytes, n + 1), EndsAt(n + 1) = {}
      PROVE  Knows(Reset(e, bytes), n + 1)
  <2>1. Asked[n + 1] = Asked[n]
    BY <1>6, AskedGrows
  <2> DEFINE r == Reset(e, bytes)
  <2>2. r = [partial |-> bytes, answered |-> e.answered, replies |-> e.replies]
    BY <1>1, Held
  <2> HIDE DEF r
  <2>3. /\ r.partial = bytes /\ r.answered = e.answered /\ r.replies = e.replies
        /\ r = [partial |-> r.partial, answered |-> r.answered, replies |-> r.replies]
    BY <2>2
  <2>4. Knows(r, n + 1)
    BY <1>1, <1>6, <2>1, <2>3 DEF Knows
  <2> QED
    BY <2>4 DEF r
<1>7. ASSUME p < 2 \/ p >= MAX_PROBE_LEN \/ b \notin Final
      PROVE  EndsAt(n + 1) = {}
  <2> SUFFICES ASSUME NEW kind \in EndsAt(n + 1) PROVE FALSE
    OBVIOUS
  <2>1. PICK i \in 1..(n + 1) : Probe(kind, i, n + 1)
    BY DEF EndsAt
  <2>2. p >= 2 /\ p < MAX_PROBE_LEN /\ b \in Final
    BY <1>1, <2>1, EndsHeld DEF EndsAt
  <2> QED
    BY <1>2, <1>5, <1>7, <2>2
<1>8. ASSUME \/ p = 0
             \/ p = 1 /\ b # "["
             \/ p > 1 /\ b \notin Body
             \/ p >= MAX_PROBE_LEN
      PROVE  Follows(after, n + 1)
  BY <1>1, <1>8, HeldEnds
<1> DEFINE byte == feed_byte(e, b)
<1>9. /\ p = 0 => byte = Reset(e, IF b = "ESC" THEN buf ELSE <<>>)
      /\ p # 0 /\ ~(p + 1 <= MAX_PROBE_LEN) => byte = Reset(e, <<>>)
      /\ p # 0 /\ p + 1 <= MAX_PROBE_LEN =>
           /\ check_state(buf) = "Incomplete" => byte = Reset(e, buf)
           /\ check_state(buf) = "Complete" => byte = emit_response(e, buf)
           /\ check_state(buf) = "Invalid" => byte = Reset(e, after)
  <2> HIDE DEF p
  <2> QED
    BY <1>4 DEF feed_byte
<1>10. p # 0 =>
         /\ p = 1 => check_state(buf) = IF b = "[" THEN "Incomplete" ELSE "Invalid"
         /\ p > 1 => check_state(buf) =
              IF b \in Final \cup {"["} THEN "Complete"
              ELSE IF b \in Body THEN "Incomplete" ELSE "Invalid"
  <2> HIDE DEF buf, p, b
  <2> QED
    BY <1>2, <1>4, BytesApart DEF check_state
<1> HIDE DEF byte
<1>11. CASE p = 0
  <2>1. byte = Reset(e, after)
    <3>1. b = "ESC" => buf = <<"ESC">>
      <4>1. e.partial = <<>>
        BY <1>4, <1>11
      <4>2. Append(<<>>, "ESC") = <<"ESC">>
        OBVIOUS
      <4> QED
        BY <4>1, <4>2, Zenon
    <3> QED
      BY <1>9, <1>11, <3>1
  <2>2. Follows(after, n + 1) /\ EndsAt(n + 1) = {}
    BY <1>7, <1>8, <1>11
  <2> HIDE DEF after
  <2> QED
    BY <1>6, <2>1, <2>2 DEF byte
<1>12. CASE p # 0 /\ ~(p + 1 <= MAX_PROBE_LEN)
  <2>1. p = MAX_PROBE_LEN
    BY <1>2, <1>5, <1>12
  <2>2. after = <<>>
    <3>1. PICK i \in 1..Len(Burst) : i = n + 1
      BY <1>3
    <3>2. i - MAX_PROBE_LEN = n - p + 1 /\ i - 1 = n /\ i > MAX_PROBE_LEN /\ p > 0
      <4> HIDE DEF p
      <4> QED
        BY <1>2, <1>5, <2>1, <3>1
    <3>3. Opens(i - MAX_PROBE_LEN, i - 1)
      <4>1. Opens(n - p + 1, n)
        BY <1>2, <3>2, Zenon
      <4> QED
        BY <3>2, <4>1, Zenon
    <3>4. Burst[n + 1] # "ESC"
      BY <3>1, <3>2, <3>3, StartsNone, Zenon
    <3> QED
      BY <3>4
  <2>3. Follows(after, n + 1) /\ EndsAt(n + 1) = {}
    BY <1>5, <1>7, <1>8, <2>1
  <2>4. byte = Reset(e, after)
    BY <1>9, <1>12, <2>2
  <2> HIDE DEF after
  <2> QED
    BY <1>6, <2>3, <2>4 DEF byte
<1>13. CASE /\ p # 0 /\ p + 1 <= MAX_PROBE_LEN
            /\ (p = 1 /\ b = "[") \/ (p > 1 /\ b \in Body)
  <2>1. check_state(buf) = "Incomplete"
    BY <1>10, <1>13, BytesApart
  <2>2. Follows(buf, n + 1)
    <3>1. /\ p > 0 /\ p < MAX_PROBE_LEN
          /\ p = 1 => b = "["
          /\ p > 1 => b \in Body
      <4> HIDE DEF p, b
      <4> QED
        BY <1>2, <1>5, <1>13
    <3> QED
      BY <1>1, <3>1, HeldGrows
  <2>3. EndsAt(n + 1) = {}
    BY <1>7, <1>13, BytesApart
  <2>4. byte = Reset(e, buf)
    BY <1>9, <1>13, <2>1
  <2> HIDE DEF buf
  <2> QED
    BY <1>6, <2>2, <2>3, <2>4 DEF byte
<1>14. CASE /\ p # 0 /\ p + 1 <= MAX_PROBE_LEN
            /\ p > 1 /\ b \in Final \cup {"["}
  <2>1. byte = emit_response(e, buf)
    BY <1>9, <1>10, <1>14
  <2>2. b \notin Body /\ b # "ESC"
    BY <1>14, BytesApart
  <2>3. Follows(<<>>, n + 1)
    BY <1>8, <1>14, <2>2
  <2>4. identify(buf) = EndsAt(n + 1)
    BY <1>1, <1>2, <1>14, IdentifiesEnded
  <2>5. /\ EndsAt(n + 1) \in SUBSET ProbeKind
        /\ \A k, l \in EndsAt(n + 1) : k = l
    BY <1>1, EndsOne DEF EndsAt
  <2> DEFINE S == EndsAt(n + 1)
             more == e.replies \o SetToSeq(S \ Asked[n])
  <2> HIDE DEF S
  <2>6. Replied(more, Asked[n] \cup S)
    BY <1>1, <2>5, RepliesGrow DEF S
  <2>7. Asked[n + 1] = Asked[n] \cup S
    BY AskedGrows DEF S
  <2>8. byte = [partial |-> <<>>, answered |-> Asked[n] \cup (S \ Asked[n]), replies |-> more]
    <3> HIDE DEF buf
    <3> QED
      BY <1>1, <2>1, <2>4 DEF emit_response, S
  <2> HIDE DEF more
  <2>9. /\ byte.partial = <<>> /\ byte.answered = Asked[n] \cup S /\ byte.replies = more
        /\ byte = [partial |-> byte.partial, answered |-> byte.answered,
                   replies |-> byte.replies]
    <3>1. Asked[n] \cup (S \ Asked[n]) = Asked[n] \cup S
      OBVIOUS
    <3> QED
      BY <2>8, <3>1
  <2>10. Knows(byte, n + 1)
    BY <2>3, <2>6, <2>7, <2>9 DEF Knows
  <2> QED
    BY <2>10 DEF byte
<1>15. CASE /\ p # 0 /\ p + 1 <= MAX_PROBE_LEN
            /\ \/ p = 1 /\ b # "["
               \/ p > 1 /\ b \notin Body /\ b \notin Final \cup {"["}
  <2>1. check_state(buf) = "Invalid"
    BY <1>10, <1>15
  <2>2. Follows(after, n + 1)
    BY <1>8, <1>15
  <2>3. EndsAt(n + 1) = {}
    <3> HIDE DEF p, b
    <3>1. p < 2 \/ b \notin Final
      BY <1>15
    <3> QED
      BY <1>7, <3>1
  <2>4. byte = Reset(e, after)
    BY <1>9, <1>15, <2>1
  <2> HIDE DEF after
  <2> QED
    BY <1>6, <2>2, <2>3, <2>4 DEF byte
<1> HIDE DEF p, byte, b
<1>16. p = 0 \/ p = 1 \/ p > 1
  BY <1>2
<1> QED
  BY <1>11, <1>12, <1>13, <1>14, <1>15, <1>16 DEF byte, b

(* A chunk is its bytes, wherever it is cut. *)
LEMMA ChunkFed ==
  ASSUME NoneSwallowed, NEW q \in Nat, NEW n \in Nat, q < n, n <= Len(Burst),
         NEW e, Knows(e, q)
  PROVE  Knows(feed(e, SubSeq(Burst, q + 1, n)), n)
<1> DEFINE chunk == SubSeq(Burst, q + 1, n)
           size == n - q
           Fed(g, m) == IF m = 0 THEN e ELSE feed_byte(g[m - 1], chunk[m])
           Upto(k) == \E g : g = [m \in 0..k |-> Fed(g, m)]
<1>1. /\ Len(chunk) = size /\ size \in Nat
      /\ \A m \in 1..size : chunk[m] = Burst[q + m]
  <2>1. \A m \in (q + 1)..n : Burst[m] \in Bytes
    BY BurstBytes, HandshakeAssumption
  <2>2. q + 1 \in Int /\ n \in Int
    OBVIOUS
  <2>3. /\ Len(chunk) = IF q + 1 <= n THEN n - (q + 1) + 1 ELSE 0
        /\ \A m \in 1..(n - (q + 1) + 1) : chunk[m] = Burst[q + 1 + m - 1]
    BY <2>1, <2>2, SubSeqProperties
  <2> HIDE DEF chunk
  <2> QED
    BY <2>3
<1> HIDE DEF chunk, size
<1>2. Upto(0)
  <2> DEFINE g == [m \in 0..0 |-> e]
  <2>1. g = [m \in 0..0 |-> Fed(g, m)]
    OBVIOUS
  <2> QED
    BY <2>1
<1>3. ASSUME NEW k \in Nat, Upto(k)
      PROVE  Upto(k + 1)
  <2>1. PICK h : h = [m \in 0..k |-> Fed(h, m)]
    BY <1>3
  <2> DEFINE g == [m \in 0..(k + 1) |->
                     IF m = k + 1 THEN feed_byte(h[k], chunk[k + 1]) ELSE h[m]]
  <2>2. \A m \in 0..(k + 1) : g[m] = Fed(g, m)
    <3> SUFFICES ASSUME NEW m \in 0..(k + 1) PROVE g[m] = Fed(g, m)
      OBVIOUS
    <3>1. CASE m = k + 1
      <4>1. g[k] = h[k] /\ g[k + 1] = feed_byte(h[k], chunk[k + 1])
        OBVIOUS
      <4>2. k + 1 # 0 /\ k + 1 - 1 = k
        OBVIOUS
      <4> HIDE DEF g
      <4> QED
        BY <3>1, <4>1, <4>2
    <3>2. CASE m # k + 1
      <4>1. m \in 0..k /\ g[m] = h[m] /\ (m # 0 => g[m - 1] = h[m - 1])
        BY <3>2
      <4>2. h[m] = Fed(h, m)
        <5> HIDE DEF g, Fed
        <5> QED
          BY <2>1, <4>1
      <4> HIDE DEF g
      <4> QED
        BY <4>1, <4>2
    <3> QED
      BY <3>1, <3>2
  <2>3. g = [m \in 0..(k + 1) |-> g[m]]
    OBVIOUS
  <2> HIDE DEF g, Fed
  <2>4. g = [m \in 0..(k + 1) |-> Fed(g, m)]
    BY <2>2, <2>3
  <2> QED
    BY <2>4
<1>4. Upto(size)
  <2> HIDE DEF Upto
  <2> SUFFICES ASSUME ~Upto(size) PROVE FALSE
    OBVIOUS
  <2> DEFINE T == {k \in Nat : ~Upto(k)}
  <2>1. PICK k \in T : \A l \in T : k <= l
    <3>1. T \in SUBSET Nat /\ size \in T
      BY <1>1
    <3> HIDE DEF T
    <3> QED
      BY <3>1, LeastNumber
  <2>2. k # 0
    BY <1>2
  <2>3. k - 1 \in Nat /\ Upto(k - 1)
    BY <2>1, <2>2
  <2>4. Upto(k - 1 + 1)
    BY <1>3, <2>3
  <2>5. k - 1 + 1 = k
    OBVIOUS
  <2> QED
    BY <2>4, <2>5
<1> DEFINE fed == CHOOSE g : g = [m \in 0..Len(chunk) |->
                                    IF m = 0 THEN e ELSE feed_byte(g[m - 1], chunk[m])]
<1>5. /\ feed(e, chunk) = fed[size]
      /\ fed = [m \in 0..size |-> Fed(fed, m)]
  <2>1. \E g : g = [m \in 0..Len(chunk) |->
                      IF m = 0 THEN e ELSE feed_byte(g[m - 1], chunk[m])]
    BY <1>1, <1>4
  <2>2. feed(e, chunk) = fed[Len(chunk)]
    BY DEF feed
  <2>3. fed = [m \in 0..Len(chunk) |->
                 IF m = 0 THEN e ELSE feed_byte(fed[m - 1], chunk[m])]
    BY <2>1
  <2> HIDE DEF fed
  <2> QED
    BY <1>1, <2>2, <2>3
<1> HIDE DEF fed
<1>6. ASSUME NEW m \in 0..size PROVE Knows(fed[m], q + m)
  <2> SUFFICES ASSUME ~Knows(fed[m], q + m) PROVE FALSE
    OBVIOUS
  <2> DEFINE T == {k \in Nat : k <= size /\ ~Knows(fed[k], q + k)}
  <2>1. PICK k \in T : \A l \in T : k <= l
    <3>1. T \in SUBSET Nat /\ m \in T
      BY <1>1
    <3> HIDE DEF T
    <3> QED
      BY <3>1, LeastNumber
  <2>2. k \in 0..size /\ fed[k] = Fed(fed, k) /\ ~Knows(fed[k], q + k)
    <3>1. k \in 0..size /\ ~Knows(fed[k], q + k)
      BY <1>1
    <3> HIDE DEF Fed, T
    <3> QED
      BY <1>5, <3>1
  <2>3. CASE k = 0
    <3>1. fed[k] = e /\ q + k = q
      BY <2>2, <2>3
    <3> QED
      BY <2>2, <3>1
  <2>4. CASE k # 0
    <3>1. k - 1 \in Nat /\ k - 1 <= size /\ k - 1 \notin T
      BY <1>1, <2>1, <2>4
    <3>2. Knows(fed[k - 1], q + (k - 1))
      BY <3>1
    <3>3. fed[k] = feed_byte(fed[k - 1], Burst[q + k])
      BY <1>1, <2>2, <2>4
    <3>4. /\ q + (k - 1) \in Nat /\ q + (k - 1) + 1 = q + k
          /\ q + (k - 1) < Len(Burst)
      <4>1. k <= size /\ size = n - q /\ Len(Burst) \in Nat
        BY HandshakeAssumption DEF size
      <4> QED
        BY <3>1, <4>1
    <3>5. Knows(feed_byte(fed[k - 1], Burst[q + (k - 1) + 1]), q + (k - 1) + 1)
      BY <3>2, <3>4, ByteFed
    <3> QED
      BY <2>2, <3>3, <3>4, <3>5
  <2> QED
    BY <2>3, <2>4
<1>7. Knows(fed[size], q + size)
  <2>1. size \in 0..size
    BY <1>1
  <2> QED
    BY <1>6, <2>1
<1>8. q + size = n
  BY DEF size
<1> QED
  BY <1>5, <1>7, <1>8 DEF chunk

EmuInv == queried \in 0..Len(Burst) /\ Knows(emu, queried)

LEMMA EmuInit == HInit => EmuInv
<1> SUFFICES ASSUME HInit PROVE EmuInv
  OBVIOUS
<1>1. queried = 0 /\ emu = [partial |-> <<>>, answered |-> {}, replies |-> <<>>]
  BY DEF HInit, NewEmu
<1>2. Len(Burst) \in Nat
  BY HandshakeAssumption
<1>3. 0 \in 0..Len(Burst)
  BY <1>2
<1>4. Asked[0] = {}
  BY <1>3 DEF Asked
<1>5. Follows(<<>>, 0)
  <2>1. <<>> \in Seq(Bytes) /\ Len(<<>>) = 0
    OBVIOUS
  <2> QED
    BY <2>1, TerminalEmuAssumption DEF Follows
<1>6. Replied(<<>>, {})
  <2>1. <<>> \in Seq(ProbeKind) /\ ToSet(<<>>) = {} /\ IsInjective(<<>>)
    BY DEF ToSet, IsInjective
  <2> QED
    BY <2>1 DEF Replied
<1>7. /\ emu.partial = <<>> /\ emu.answered = {} /\ emu.replies = <<>>
      /\ emu = [partial |-> emu.partial, answered |-> emu.answered,
                replies |-> emu.replies]
  BY <1>1
<1>8. Knows(emu, 0)
  BY <1>4, <1>5, <1>6, <1>7 DEF Knows
<1> QED
  BY <1>1, <1>3, <1>8 DEF EmuInv

LEMMA EmuStep ==
  ASSUME NoneSwallowed, EmuInv, [HNext]_hvars
  PROVE  EmuInv'
<1>1. CASE Query
  <2>1. PICK n \in {queried + 1, Len(Burst)} :
          emu' = feed(emu, SubSeq(Burst, queried + 1, n)) /\ queried' = n
    BY <1>1 DEF Query
  <2>2. /\ queried \in Nat /\ queried < Len(Burst) /\ Len(Burst) \in Nat
        /\ Knows(emu, queried)
    BY <1>1, HandshakeAssumption DEF Query, EmuInv
  <2>3. n \in Nat /\ queried < n /\ n <= Len(Burst) /\ n \in 0..Len(Burst)
    BY <2>1, <2>2
  <2>4. Knows(feed(emu, SubSeq(Burst, queried + 1, n)), n)
    BY <2>2, <2>3, ChunkFed
  <2>5. Knows(emu', queried')
    BY <2>1, <2>4
  <2>6. Knows(emu, queried)'
    BY <2>5 DEF Knows, Follows, Opens, Asked, Replied
  <2> QED
    BY <2>1, <2>3, <2>6 DEF EmuInv
<1>2. CASE TuiGoesOn \/ Polls \/ Time \/ HOver \/ UNCHANGED hvars
  <2>1. queried' = queried /\ emu' = emu
    BY <1>2 DEF TuiGoesOn, Polls, Time, HOver, hvars, queryVars
  <2> QED
    BY <2>1 DEF EmuInv
<1> QED
  BY <1>1, <1>2 DEF HNext

(* TerminalEmu::feed: for any burst, cut anywhere, the kinds replied to    *)
(* are those the bytes so far spell, once each, whatever stands between    *)
(* them; unless an overlong sequence runs into the ESC of the next.        *)
THEOREM ProbesAnsweredTheorem ==
  ASSUME NoneSwallowed
  PROVE  HSpec => []ProbesAnswered
<1>1. EmuInv => ProbesAnswered
  BY DEF EmuInv, Knows, Replied, ProbesAnswered
<1>2. EmuInv /\ [HNext]_hvars => EmuInv'
  BY EmuStep
<1> QED
  BY <1>1, <1>2, EmuInit, PTL DEF HSpec
=============================================================================
