---------------------------- MODULE AnswerProofs ----------------------------
(***************************************************************************)
(* What Answer's runs show of three lines, of every transcript: that the   *)
(* fold of parse_transcript keeps the last turn's text and counts every    *)
(* turn once, and that the exit agrees with what became of the turn.       *)
(*                                                                         *)
(* The fold is taken line by line: parse_transcript[n + 1] is one Step     *)
(* from parse_transcript[n] (ParseUnfolds), and what Told says of n lines  *)
(* it says of n + 1.  The induction is over the least n at which it fails. *)
(*                                                                         *)
(* A message that stands in for the text is scanned part by part           *)
(* (ScannedOn): what strip_ansi leaves of text and of a whole escape       *)
(* sequence is what it leaves of a message of them.                        *)
(***************************************************************************)
EXTENDS Answer, FiniteSetTheorems, SequenceTheorems, WellFoundedInduction, TLAPS

(* A set of numbers has a least. *)
LEMMA LeastNumber ==
  ASSUME NEW T \in SUBSET Nat, T # {}
  PROVE  \E m \in T : \A n \in T : m <= n
<1>1. PICK m \in T : \A n \in T : <<n, m>> \notin OpToRel(<, Nat)
  BY WFMin, NatLessThanWellFounded
<1>2. \A n \in T : ~(n < m)
  BY <1>1 DEF OpToRel
<1> QED
  BY <1>2

-----------------------------------------------------------------------------
(***************************************************************************)
(* The fold.  Each number of lines has a table of what is read of fewer,   *)
(* the tables agree, and together they are parse_transcript.               *)
(***************************************************************************)
Entry(g, m) == IF m = 0 THEN Empty ELSE Step(g[m - 1], m)

Table(g, n) == g = [m \in 0..n |-> Entry(g, m)]

LEMMA TablesExist == \A n \in Nat : \E g : Table(g, n)
<1> SUFFICES ASSUME NEW n \in Nat, ~\E g : Table(g, n) PROVE FALSE
  OBVIOUS
<1> DEFINE T == {k \in Nat : ~\E g : Table(g, k)}
<1>1. PICK k \in T : \A m \in T : k <= m
  <2>1. T \in SUBSET Nat /\ n \in T
    OBVIOUS
  <2> HIDE DEF T
  <2> QED
    BY <2>1, LeastNumber
<1>2. CASE k = 0
  <2> DEFINE g == [m \in 0..0 |-> Empty]
  <2>1. g = [m \in 0..0 |-> Entry(g, m)]
    BY DEF Entry
  <2>2. Table(g, k)
    BY <1>2, <2>1 DEF Table
  <2> QED
    BY <2>2
<1>3. CASE k # 0
  <2>1. k - 1 \in Nat /\ k - 1 \notin T
    BY <1>1, <1>3
  <2>2. PICK h : Table(h, k - 1)
    BY <2>1
  <2> DEFINE g == [m \in 0..k |-> IF m = k THEN Step(h[k - 1], k) ELSE h[m]]
  <2>3. \A m \in 0..k : g[m] = Entry(g, m)
    <3> SUFFICES ASSUME NEW m \in 0..k PROVE g[m] = Entry(g, m)
      OBVIOUS
    <3>1. CASE m = k
      <4>1. k - 1 \in 0..k /\ k - 1 # k /\ g[k - 1] = h[k - 1]
        BY <2>1
      <4> QED
        BY <1>3, <3>1, <4>1 DEF Entry
    <3>2. CASE m # k
      <4>1. m \in 0..(k - 1) /\ g[m] = h[m]
        BY <3>2
      <4>2. h[m] = Entry(h, m)
        BY <2>2, <4>1 DEF Table
      <4>3. m # 0 => m - 1 \in 0..k /\ m - 1 # k
        BY <4>1
      <4> QED
        BY <4>1, <4>2, <4>3 DEF Entry
    <3> QED
      BY <3>1, <3>2
  <2> HIDE DEF g
  <2>4. g = [m \in 0..k |-> Entry(g, m)]
    <3>1. g = [m \in 0..k |-> g[m]]
      BY DEF g
    <3> QED
      BY <2>3, <3>1
  <2> QED
    BY <2>4 DEF Table
<1> QED
  BY <1>2, <1>3

LEMMA TablesAgree ==
  ASSUME NEW m \in Nat, NEW g, NEW h, NEW a \in Nat, NEW b \in Nat,
         Table(g, a), Table(h, b), m <= a, m <= b
  PROVE  g[m] = h[m]
<1> SUFFICES ASSUME g[m] # h[m] PROVE FALSE
  OBVIOUS
<1> DEFINE T == {k \in Nat : k <= a /\ k <= b /\ g[k] # h[k]}
<1>1. PICK k \in T : \A l \in T : k <= l
  <2>1. T \in SUBSET Nat /\ m \in T
    OBVIOUS
  <2> HIDE DEF T
  <2> QED
    BY <2>1, LeastNumber
<1>2. g[k] = Entry(g, k) /\ h[k] = Entry(h, k)
  BY DEF Table
<1>3. CASE k = 0
  BY <1>2, <1>3 DEF Entry
<1>4. CASE k # 0
  <2>1. k - 1 \in Nat /\ k - 1 \notin T
    BY <1>1, <1>4
  <2>2. g[k - 1] = h[k - 1]
    BY <2>1
  <2> QED
    BY <1>2, <1>4, <2>2 DEF Entry
<1> QED
  BY <1>3, <1>4

LEMMA ParseUnfolds ==
  /\ parse_transcript[0] = Empty
  /\ \A n \in Nat : parse_transcript[n + 1] = Step(parse_transcript[n], n + 1)
<1> DEFINE table(n) == CHOOSE g : Table(g, n)
           f == [n \in Nat |-> table(n)[n]]
<1>1. \A n \in Nat : Table(table(n), n)
  BY TablesExist
<1> HIDE DEF table
<1>2. \A n \in Nat : f[n] = IF n = 0 THEN Empty ELSE Step(f[n - 1], n)
  <2> SUFFICES ASSUME NEW n \in Nat
               PROVE  f[n] = IF n = 0 THEN Empty ELSE Step(f[n - 1], n)
    OBVIOUS
  <2>1. table(n)[n] = Entry(table(n), n)
    <3>1. n \in 0..n /\ Table(table(n), n)
      BY <1>1
    <3> QED
      BY <3>1 DEF Table
  <2>2. CASE n = 0
    BY <2>1, <2>2 DEF Entry
  <2>3. CASE n # 0
    <3>1. n - 1 \in Nat /\ n - 1 <= n /\ n - 1 <= n - 1
      BY <2>3
    <3>2. Table(table(n), n) /\ Table(table(n - 1), n - 1)
      BY <1>1, <3>1
    <3>3. table(n)[n - 1] = table(n - 1)[n - 1]
      BY <3>1, <3>2, TablesAgree
    <3> QED
      BY <2>1, <2>3, <3>1, <3>3 DEF Entry
  <2> QED
    BY <2>2, <2>3
<1>3. f = [n \in Nat |-> IF n = 0 THEN Empty ELSE Step(f[n - 1], n)]
  <2>1. f = [n \in Nat |-> f[n]]
    OBVIOUS
  <2> HIDE DEF f
  <2> QED
    BY <1>2, <2>1
<1> HIDE DEF f
<1>4. parse_transcript
        = [n \in Nat |-> IF n = 0 THEN Empty ELSE Step(parse_transcript[n - 1], n)]
  BY <1>3 DEF parse_transcript
<1> QED
  BY <1>4

LEMMA GreatestOf ==
  ASSUME NEW T \in SUBSET Nat, T # {}, NEW b \in Nat, \A n \in T : n <= b
  PROVE  Max(T) \in T /\ \A n \in T : n <= Max(T)
<1> DEFINE D == {d \in Nat : b - d \in T}
<1>1. \A n \in T : b - n \in D /\ b - (b - n) = n
  OBVIOUS
<1>2. PICK d \in D : \A e \in D : d <= e
  BY <1>1, LeastNumber
<1>3. b - d \in T /\ \A n \in T : n <= b - d
  BY <1>1, <1>2
<1>4. \A x \in T : (\A y \in T : x >= y) => x = b - d
  BY <1>3
<1>5. \A y \in T : b - d >= y
  BY <1>3
<1>6. Max(T) = b - d
  BY <1>3, <1>4, <1>5 DEF Max
<1> QED
  BY <1>3, <1>6

-----------------------------------------------------------------------------
(***************************************************************************)
(* What the fold knows of the lines it has passed.                         *)
(***************************************************************************)
Names ==
  {NoId} \cup {script[i].id : i \in DOMAIN script}
         \cup {script[i].usage : i \in DOMAIN script}

Typed(acc) ==
  /\ acc = [ids |-> acc.ids, prev |-> acc.prev, text |-> acc.text,
            turns |-> acc.turns, usage |-> acc.usage, error |-> acc.error]
  /\ acc.text \in Seq(Nat) /\ acc.turns \in Nat /\ acc.usage \in Seq(Names)

Usages(n) == {script[i].usage : i \in Assistants(n)}

WithId(n) == \A i \in Assistants(n) : script[i].id # NoId
WithoutId(n) == \A i \in Assistants(n) : script[i].id = NoId

Told(acc, n) ==
  /\ WithId(n) => acc.ids = Identities(n)
  /\ Assistants(n) = {} => acc.prev = NoId
  /\ WithoutId(n) /\ Assistants(n) # {} => acc.prev = Identity(Max(Assistants(n)))
  /\ InOrder(acc.text, Spoken(n))
  /\ acc.turns = Cardinality(Identities(n))
  /\ ToSet(acc.usage) = Usages(n)
  /\ Len(acc.usage) = acc.turns
  /\ Results(n) = {} => acc.error = FALSE
  /\ Results(n) # {} => acc.error = script[Max(Results(n))].error

Sound(s) == s \in Scripts /\ Unmixed(s)

LEMMA Appended ==
  ASSUME NEW S, NEW s \in Seq(S), NEW x \in S
  PROVE  /\ Append(s, x) \in Seq(S)
         /\ Len(Append(s, x)) = Len(s) + 1
         /\ ToSet(Append(s, x)) = ToSet(s) \cup {x}
<1>1. /\ Append(s, x) \in Seq(S) /\ Len(Append(s, x)) = Len(s) + 1 /\ Len(s) \in Nat
      /\ \A i \in 1..Len(s) : Append(s, x)[i] = s[i]
      /\ Append(s, x)[Len(s) + 1] = x
      /\ DOMAIN s = 1..Len(s) /\ DOMAIN Append(s, x) = 1..(Len(s) + 1)
  OBVIOUS
<1>2. \A y \in ToSet(Append(s, x)) : y \in ToSet(s) \cup {x}
  BY <1>1 DEF ToSet
<1>3. \A y \in ToSet(s) \cup {x} : y \in ToSet(Append(s, x))
  BY <1>1 DEF ToSet
<1> QED
  BY <1>1, <1>2, <1>3

LEMMA InOrderAppended ==
  ASSUME NEW s \in Seq(Nat), NEW T, InOrder(s, T), NEW x \in Nat, \A t \in T : t < x
  PROVE  InOrder(Append(s, x), T \cup {x})
<1>1. ToSet(Append(s, x)) = T \cup {x}
  BY Appended DEF InOrder
<1>2. ASSUME NEW i \in DOMAIN Append(s, x), NEW j \in DOMAIN Append(s, x), i < j
      PROVE  Append(s, x)[i] < Append(s, x)[j]
  <2>1. /\ DOMAIN s = 1..Len(s) /\ DOMAIN Append(s, x) = 1..(Len(s) + 1)
        /\ Len(s) \in Nat
    OBVIOUS
  <2>2. i \in DOMAIN s /\ Append(s, x)[i] = s[i] /\ s[i] \in T
    BY <1>2, <2>1 DEF InOrder, ToSet
  <2>3. CASE j = Len(s) + 1
    BY <2>2, <2>3
  <2>4. CASE j # Len(s) + 1
    <3>1. j \in DOMAIN s /\ Append(s, x)[j] = s[j]
      BY <2>1, <2>4
    <3> QED
      BY <1>2, <2>2, <3>1 DEF InOrder
  <2> QED
    BY <2>3, <2>4
<1> QED
  BY <1>1, <1>2 DEF InOrder

(* What a line adds to the text. *)
LEMMA ChunkAdds ==
  ASSUME NEW s \in Seq(Nat), NEW T, InOrder(s, T), NEW i \in Nat, \A t \in T : t < i,
         NEW l
  PROVE  /\ s \o Chunk(l, i) \in Seq(Nat)
         /\ InOrder(s \o Chunk(l, i), IF l.text THEN T \cup {i} ELSE T)
<1>1. CASE l.text
  <2>1. s \o Chunk(l, i) = Append(s, i)
    BY <1>1 DEF Chunk
  <2>2. InOrder(Append(s, i), T \cup {i}) /\ Append(s, i) \in Seq(Nat)
    BY InOrderAppended, Appended
  <2> QED
    BY <1>1, <2>1, <2>2, Zenon
<1>2. CASE ~l.text
  <2>1. s \o Chunk(l, i) = s
    BY <1>2 DEF Chunk
  <2> QED
    BY <1>2, <2>1, Zenon
<1> QED
  BY <1>1, <1>2

-----------------------------------------------------------------------------
(* The lines before and with the next.                                     *)
LEMMA Lines ==
  ASSUME Sound(script), NEW n \in Nat, n < Len(script)
  PROVE  /\ Assistants(n) \in SUBSET Nat /\ \A i \in Assistants(n) : i <= n
         /\ Results(n) \in SUBSET Nat /\ \A i \in Results(n) : i <= n
         /\ n + 1 \in DOMAIN script
         /\ Assistants(n + 1) = IF script[n + 1].type = "assistant"
                                THEN Assistants(n) \cup {n + 1} ELSE Assistants(n)
         /\ Results(n + 1) = IF script[n + 1].type = "result"
                             THEN Results(n) \cup {n + 1} ELSE Results(n)
         /\ \A i \in Assistants(n) : i \in DOMAIN script
<1>1. Len(script) \in Nat /\ DOMAIN script = 1..Len(script)
  BY TranscriptReadAssumption DEF Sound
<1>2. 1..(n + 1) = (1..n) \cup {n + 1}
  OBVIOUS
<1> QED
  BY <1>1, <1>2 DEF Assistants, Results

LEMMA LastAssistant ==
  ASSUME Sound(script), NEW n \in Nat, n < Len(script), Assistants(n) # {}
  PROVE  /\ Max(Assistants(n)) \in Assistants(n)
         /\ \A i \in Assistants(n) : i <= Max(Assistants(n))
BY Lines, GreatestOf

(* A line begins a turn to the fold if it does to the reference; one that  *)
(* does not belongs to the last turn there is.                             *)
LEMMA BeginsTurn ==
  ASSUME Sound(script), NEW n \in Nat, n < Len(script), NEW acc, Told(acc, n),
         script[n + 1].type = "assistant"
  PROVE  /\ is_new_turn(acc, script[n + 1]) <=> Identity(n + 1) \notin Identities(n)
         /\ Identity(n + 1) \in Identities(n) =>
              Identity(Max(Assistants(n))) = Identity(n + 1)
<1> DEFINE A == {k \in DOMAIN script : script[k].type = "assistant"}
<1>1. n + 1 \in A /\ \A i \in Assistants(n) : i \in A /\ i < n + 1
  BY Lines DEF Assistants
<1>2. \A i, j, k \in A :
        /\ script[i].usage # NoId
        /\ script[i].id = NoId <=> script[k].id = NoId
        /\ Turn(script[i]) = Turn(script[k]) /\ i < j /\ j < k =>
             Turn(script[j]) = Turn(script[i])
  BY DEF Sound, Unmixed
<1> HIDE DEF A
<1>3. ASSUME Identity(n + 1) \in Identities(n)
      PROVE  Identity(Max(Assistants(n))) = Identity(n + 1)
  <2>1. PICK i \in Assistants(n) : Identity(i) = Identity(n + 1)
    BY <1>3 DEF Identities
  <2>2. Max(Assistants(n)) \in Assistants(n) /\ i <= Max(Assistants(n))
    BY LastAssistant
  <2>3. i \in Nat /\ Max(Assistants(n)) \in Nat
    BY <2>2, Lines
  <2>4. CASE i = Max(Assistants(n))
    BY <2>1, <2>4
  <2>5. CASE i < Max(Assistants(n))
    BY <1>1, <1>2, <2>1, <2>2, <2>5 DEF Identity
  <2> QED
    BY <2>2, <2>3, <2>4, <2>5
<1>4. CASE script[n + 1].id # NoId
  <2>1. WithId(n)
    BY <1>1, <1>2, <1>4 DEF WithId
  <2>2. acc.ids = Identities(n)
    BY <2>1 DEF Told
  <2>3. Identity(n + 1) = script[n + 1].id
    BY <1>4 DEF Identity, Turn
  <2> QED
    BY <1>3, <1>4, <2>2, <2>3 DEF is_new_turn
<1>5. CASE script[n + 1].id = NoId
  <2>1. WithoutId(n)
    BY <1>1, <1>2, <1>5 DEF WithoutId
  <2>2. Identity(n + 1) = script[n + 1].usage /\ script[n + 1].usage # NoId
    BY <1>1, <1>2, <1>5 DEF Identity, Turn
  <2>3. is_new_turn(acc, script[n + 1]) <=> Identity(n + 1) # acc.prev
    BY <1>5, <2>2 DEF is_new_turn
  <2>4. CASE Assistants(n) = {}
    <3>1. Identities(n) = {} /\ acc.prev = NoId
      BY <2>4 DEF Identities, Told
    <3> QED
      BY <2>2, <2>3, <3>1
  <2>5. CASE Assistants(n) # {}
    <3>1. acc.prev = Identity(Max(Assistants(n)))
      BY <2>1, <2>5 DEF Told
    <3>2. acc.prev \in Identities(n)
      BY <2>5, <3>1, LastAssistant DEF Identities
    <3> QED
      BY <1>3, <2>3, <3>1, <3>2
  <2> QED
    BY <2>4, <2>5
<1> QED
  BY <1>4, <1>5

(* The final turn with one more of its lines, or with another turn's.      *)
LEMMA TurnGrows ==
  ASSUME Sound(script), NEW n \in Nat, n < Len(script),
         script[n + 1].type = "assistant"
  PROVE  /\ Max(Assistants(n + 1)) = n + 1
         /\ Identities(n + 1) = Identities(n) \cup {Identity(n + 1)}
         /\ Usages(n + 1) = Usages(n) \cup {script[n + 1].usage}
         /\ Identity(n + 1) \notin Identities(n) => FinalTurn(n + 1) = {n + 1}
         /\ Identity(n + 1) \in Identities(n) =>
              /\ FinalTurn(n + 1) = FinalTurn(n) \cup {n + 1}
              /\ script[n + 1].usage \in Usages(n)
<1>1. Assistants(n + 1) = Assistants(n) \cup {n + 1}
  BY Lines
<1>2. Max(Assistants(n + 1)) = n + 1
  <2>1. Assistants(n + 1) \in SUBSET Nat /\ \A i \in Assistants(n + 1) : i <= n + 1
    <3>1. Assistants(n) \in SUBSET Nat /\ \A i \in Assistants(n) : i <= n
      BY Lines
    <3> QED
      BY <1>1, <3>1
  <2>2. /\ Max(Assistants(n + 1)) \in Assistants(n + 1)
        /\ \A i \in Assistants(n + 1) : i <= Max(Assistants(n + 1))
    BY <1>1, <2>1, GreatestOf
  <2> QED
    BY <1>1, <2>1, <2>2
<1>3. /\ Identities(n + 1) = Identities(n) \cup {Identity(n + 1)}
      /\ Usages(n + 1) = Usages(n) \cup {script[n + 1].usage}
  BY <1>1 DEF Identities, Usages
<1>4. FinalTurn(n + 1) = {i \in Assistants(n) : Identity(i) = Identity(n + 1)} \cup {n + 1}
  BY <1>1, <1>2 DEF FinalTurn
<1>5. Identity(n + 1) \notin Identities(n) => FinalTurn(n + 1) = {n + 1}
  BY <1>4 DEF Identities
<1>6. ASSUME Identity(n + 1) \in Identities(n)
      PROVE  /\ FinalTurn(n + 1) = FinalTurn(n) \cup {n + 1}
             /\ script[n + 1].usage \in Usages(n)
  <2>1. PICK i \in Assistants(n) : Identity(i) = Identity(n + 1)
    BY <1>6 DEF Identities
  <2>2. Identity(Max(Assistants(n))) = Identity(n + 1)
    <3> DEFINE A == {k \in DOMAIN script : script[k].type = "assistant"}
    <3>1. n + 1 \in A /\ \A k \in Assistants(n) : k \in A /\ k < n + 1
      BY Lines DEF Assistants
    <3>2. Max(Assistants(n)) \in Assistants(n) /\ i <= Max(Assistants(n))
      BY LastAssistant
    <3>3. i \in Nat /\ Max(Assistants(n)) \in Nat
      BY <3>2, Lines
    <3>4. \A a, b, c \in A :
            Turn(script[a]) = Turn(script[c]) /\ a < b /\ b < c =>
              Turn(script[b]) = Turn(script[a])
      BY DEF Sound, Unmixed
    <3> HIDE DEF A
    <3>5. CASE i = Max(Assistants(n))
      BY <2>1, <3>5
    <3>6. CASE i < Max(Assistants(n))
      BY <2>1, <3>1, <3>2, <3>4, <3>6 DEF Identity
    <3> QED
      BY <3>2, <3>3, <3>5, <3>6
  <2>3. FinalTurn(n + 1) = FinalTurn(n) \cup {n + 1}
    BY <1>4, <2>2 DEF FinalTurn
  <2>4. script[i].usage = script[n + 1].usage
    <3>1. /\ i \in DOMAIN script /\ script[i].type = "assistant"
          /\ n + 1 \in DOMAIN script
      BY Lines DEF Assistants
    <3> QED
      BY <2>1, <3>1 DEF Sound, Unmixed, Identity
  <2> QED
    BY <2>3, <2>4 DEF Usages
<1> QED
  BY <1>2, <1>3, <1>5, <1>6

LEMMA TurnsFinite ==
  ASSUME NEW n \in Nat
  PROVE  IsFiniteSet(Identities(n))
<1>1. IsFiniteSet(1..n)
  <2>1. 1 \in Int /\ n \in Int
    OBVIOUS
  <2> QED
    BY <2>1, FS_Interval
<1>2. IsFiniteSet(Assistants(n))
  BY <1>1, FS_Subset DEF Assistants
<1> DEFINE f == [i \in Assistants(n) |-> Identity(i)]
<1>3. f \in Surjection(Assistants(n), Identities(n))
  BY DEF Surjection, Identities
<1> QED
  BY <1>2, <1>3, FS_Surjection

LEMMA AnswerIsRead ==
  ASSUME Sound(script), NEW n \in Nat, n < Len(script), NEW acc,
         Typed(acc), Told(acc, n), script[n + 1].type = "assistant"
  PROVE  Typed(Step(acc, n + 1)) /\ Told(Step(acc, n + 1), n + 1)
<1> DEFINE l == script[n + 1]
           new == is_new_turn(acc, l)
           r == Step(acc, n + 1)
<1>1. r = [ids |-> acc.ids \cup ({l.id} \ {NoId}),
           prev |-> IF l.id = NoId THEN l.usage ELSE acc.prev,
           text |-> (IF new THEN <<>> ELSE acc.text) \o Chunk(l, n + 1),
           turns |-> IF new THEN acc.turns + 1 ELSE acc.turns,
           usage |-> IF new THEN Append(acc.usage, l.usage) ELSE acc.usage,
           error |-> acc.error]
  BY DEF Step, Assistant
<1>2. /\ r.ids = acc.ids \cup ({l.id} \ {NoId})
      /\ r.prev = IF l.id = NoId THEN l.usage ELSE acc.prev
      /\ r.text = (IF new THEN <<>> ELSE acc.text) \o Chunk(l, n + 1)
      /\ r.turns = IF new THEN acc.turns + 1 ELSE acc.turns
      /\ r.usage = IF new THEN Append(acc.usage, l.usage) ELSE acc.usage
      /\ r.error = acc.error
      /\ r = [ids |-> r.ids, prev |-> r.prev, text |-> r.text,
              turns |-> r.turns, usage |-> r.usage, error |-> r.error]
  <2> HIDE DEF r, new, l
  <2> QED
    BY <1>1
<1>3. new <=> Identity(n + 1) \notin Identities(n)
  BY BeginsTurn
<1>4. /\ Max(Assistants(n + 1)) = n + 1
      /\ Identities(n + 1) = Identities(n) \cup {Identity(n + 1)}
      /\ Usages(n + 1) = Usages(n) \cup {l.usage}
      /\ new => FinalTurn(n + 1) = {n + 1}
      /\ ~new => FinalTurn(n + 1) = FinalTurn(n) \cup {n + 1} /\ l.usage \in Usages(n)
  BY <1>3, TurnGrows
<1>5. /\ Assistants(n + 1) = Assistants(n) \cup {n + 1}
      /\ Results(n + 1) = Results(n)
      /\ \A i \in Assistants(n) : i \in Nat /\ i <= n
      /\ n + 1 \in DOMAIN script
  BY Lines
<1> HIDE DEF r, new
<1>6. WithId(n + 1) => r.ids = Identities(n + 1)
  <2> SUFFICES ASSUME WithId(n + 1) PROVE r.ids = Identities(n + 1)
    OBVIOUS
  <2>1. WithId(n) /\ l.id # NoId
    BY <1>5 DEF WithId
  <2>2. acc.ids = Identities(n) /\ Identity(n + 1) = l.id
    BY <2>1 DEF Told, Identity, Turn
  <2> QED
    BY <1>2, <1>4, <2>1, <2>2
<1>7. WithoutId(n + 1) => r.prev = Identity(Max(Assistants(n + 1)))
  <2> SUFFICES ASSUME WithoutId(n + 1)
               PROVE  r.prev = Identity(Max(Assistants(n + 1)))
    OBVIOUS
  <2>1. l.id = NoId
    BY <1>5 DEF WithoutId
  <2>2. Identity(n + 1) = l.usage
    BY <2>1 DEF Identity, Turn
  <2> QED
    BY <1>2, <1>4, <2>1, <2>2
<1>8. r.text \in Seq(Nat) /\ InOrder(r.text, Spoken(n + 1))
  <2>1. CASE new
    <3>1. <<>> \in Seq(Nat) /\ InOrder(<<>>, {})
      BY DEF InOrder, ToSet
    <3>2. Spoken(n + 1) = IF l.text THEN {} \cup {n + 1} ELSE {}
      BY <1>4, <2>1 DEF Spoken
    <3>3. r.text = <<>> \o Chunk(l, n + 1)
      BY <1>2, <2>1
    <3>4. /\ <<>> \o Chunk(l, n + 1) \in Seq(Nat)
          /\ InOrder(<<>> \o Chunk(l, n + 1), IF l.text THEN {} \cup {n + 1} ELSE {})
      <4>1. n + 1 \in Nat /\ \A t \in {} : t < n + 1
        OBVIOUS
      <4> QED
        BY <3>1, <4>1, ChunkAdds
    <3> QED
      BY <3>2, <3>3, <3>4, Zenon
  <2>2. CASE ~new
    <3>1. acc.text \in Seq(Nat) /\ InOrder(acc.text, Spoken(n))
      BY DEF Typed, Told
    <3>2. Spoken(n + 1) = IF l.text THEN Spoken(n) \cup {n + 1} ELSE Spoken(n)
      BY <1>4, <2>2 DEF Spoken
    <3>3. r.text = acc.text \o Chunk(l, n + 1)
      BY <1>2, <2>2
    <3>4. n + 1 \in Nat /\ \A t \in Spoken(n) : t < n + 1
      BY <1>5 DEF Spoken, FinalTurn
    <3>5. /\ acc.text \o Chunk(l, n + 1) \in Seq(Nat)
          /\ InOrder(acc.text \o Chunk(l, n + 1),
                     IF l.text THEN Spoken(n) \cup {n + 1} ELSE Spoken(n))
      BY <3>1, <3>4, ChunkAdds
    <3> QED
      BY <3>2, <3>3, <3>5, Zenon
  <2> QED
    BY <2>1, <2>2
<1>9. r.turns \in Nat /\ r.turns = Cardinality(Identities(n + 1))
  <2>1. /\ acc.turns \in Nat /\ acc.turns = Cardinality(Identities(n))
        /\ IsFiniteSet(Identities(n))
    BY TurnsFinite DEF Typed, Told
  <2>2. CASE new
    <3>1. Cardinality(Identities(n + 1)) = Cardinality(Identities(n)) + 1
      BY <1>3, <1>4, <2>1, <2>2, FS_AddElement
    <3> QED
      BY <1>2, <2>1, <2>2, <3>1
  <2>3. CASE ~new
    <3>1. Identities(n + 1) = Identities(n)
      BY <1>3, <1>4, <2>3
    <3> QED
      BY <1>2, <2>1, <2>3, <3>1
  <2> QED
    BY <2>2, <2>3
<1>10. /\ r.usage \in Seq(Names)
       /\ ToSet(r.usage) = Usages(n + 1)
       /\ Len(r.usage) = r.turns
  <2>1. /\ acc.usage \in Seq(Names) /\ ToSet(acc.usage) = Usages(n)
        /\ Len(acc.usage) = acc.turns
    BY DEF Typed, Told
  <2>2. CASE new
    <3>1. l.usage \in Names
      BY <1>5 DEF Names
    <3>2. /\ Append(acc.usage, l.usage) \in Seq(Names)
          /\ Len(Append(acc.usage, l.usage)) = Len(acc.usage) + 1
          /\ ToSet(Append(acc.usage, l.usage)) = ToSet(acc.usage) \cup {l.usage}
      BY <2>1, <3>1, Appended
    <3>3. r.usage = Append(acc.usage, l.usage) /\ r.turns = acc.turns + 1
      BY <1>2, <2>2
    <3> HIDE DEF l
    <3> QED
      BY <1>4, <2>1, <3>2, <3>3
  <2>3. CASE ~new
    <3>1. r.usage = acc.usage /\ r.turns = acc.turns
      BY <1>2, <2>3
    <3>2. Usages(n + 1) = Usages(n)
      BY <1>4, <2>3
    <3> QED
      BY <2>1, <3>1, <3>2
  <2> QED
    BY <2>2, <2>3
<1>11. /\ Results(n + 1) = {} => r.error = FALSE
       /\ Results(n + 1) # {} => r.error = script[Max(Results(n + 1))].error
  <2>1. /\ Results(n) = {} => acc.error = FALSE
        /\ Results(n) # {} => acc.error = script[Max(Results(n))].error
    BY DEF Told
  <2> QED
    BY <1>2, <1>5, <2>1, Zenon
<1>12. Assistants(n + 1) # {}
  BY <1>5
<1>13. Typed(r)
  BY <1>2, <1>8, <1>9, <1>10, Zenon DEF Typed
<1>14. Told(r, n + 1)
  BY <1>6, <1>7, <1>8, <1>9, <1>10, <1>11, <1>12, Zenon DEF Told
<1> QED
  BY <1>13, <1>14 DEF r

LEMMA ResultIsRead ==
  ASSUME Sound(script), NEW n \in Nat, n < Len(script), NEW acc,
         Typed(acc), Told(acc, n), script[n + 1].type = "result"
  PROVE  Typed(Step(acc, n + 1)) /\ Told(Step(acc, n + 1), n + 1)
<1> DEFINE l == script[n + 1]
           r == Step(acc, n + 1)
<1>1. acc = [ids |-> acc.ids, prev |-> acc.prev, text |-> acc.text,
             turns |-> acc.turns, usage |-> acc.usage, error |-> acc.error]
  BY DEF Typed
<1>2. r = [acc EXCEPT !.error = l.error]
  BY DEF Step
<1>3. /\ r.ids = acc.ids /\ r.prev = acc.prev /\ r.text = acc.text
      /\ r.turns = acc.turns /\ r.usage = acc.usage /\ r.error = l.error
      /\ r = [ids |-> r.ids, prev |-> r.prev, text |-> r.text,
              turns |-> r.turns, usage |-> r.usage, error |-> r.error]
  <2> HIDE DEF l, r
  <2> QED
    BY <1>1, <1>2
<1>4. /\ Assistants(n + 1) = Assistants(n)
      /\ Results(n + 1) = Results(n) \cup {n + 1}
      /\ Results(n) \in SUBSET Nat /\ \A i \in Results(n) : i <= n
  BY Lines
<1>5. Max(Results(n + 1)) = n + 1
  <2>1. /\ Results(n + 1) \in SUBSET Nat /\ Results(n + 1) # {}
        /\ \A i \in Results(n + 1) : i <= n + 1
        /\ n + 1 \in Nat /\ n + 1 \in Results(n + 1)
    <3> HIDE DEF l, r
    <3> QED
      BY <1>4
  <2>2. /\ Max(Results(n + 1)) \in Results(n + 1)
        /\ \A i \in Results(n + 1) : i <= Max(Results(n + 1))
    <3> HIDE DEF l, r
    <3> QED
      BY <2>1, GreatestOf
  <2> HIDE DEF l, r
  <2> QED
    BY <2>1, <2>2
<1>6. /\ Identities(n + 1) = Identities(n) /\ Usages(n + 1) = Usages(n)
      /\ Spoken(n + 1) = Spoken(n)
      /\ WithId(n + 1) <=> WithId(n)
      /\ WithoutId(n + 1) <=> WithoutId(n)
  BY <1>4 DEF Identities, Usages, Spoken, FinalTurn, WithId, WithoutId
<1> HIDE DEF r
<1>7. Typed(r)
  BY <1>3 DEF Typed
<1>8. Results(n + 1) # {} /\ r.error = script[Max(Results(n + 1))].error
  BY <1>3, <1>4, <1>5
<1>9. Told(r, n + 1)
  BY <1>3, <1>4, <1>6, <1>8, Zenon DEF Told
<1> QED
  BY <1>7, <1>9 DEF r

LEMMA OtherIsPassed ==
  ASSUME Sound(script), NEW n \in Nat, n < Len(script), NEW acc,
         Typed(acc), Told(acc, n), script[n + 1].type = "user"
  PROVE  Typed(Step(acc, n + 1)) /\ Told(Step(acc, n + 1), n + 1)
<1>1. Step(acc, n + 1) = acc
  BY DEF Step
<1>2. Assistants(n + 1) = Assistants(n) /\ Results(n + 1) = Results(n)
  BY Lines
<1>3. Told(acc, n + 1)
  BY <1>2, Zenon DEF Told, Identities, Usages, Spoken, FinalTurn, WithId, WithoutId
<1> QED
  BY <1>1, <1>3

(* What parse_transcript knows after n lines: the ids it met, the last     *)
(* turn's text, one usage a turn and the flag of the last result.          *)
THEOREM ParseTells ==
  ASSUME Sound(script), NEW n \in Nat, n <= Len(script)
  PROVE  Typed(parse_transcript[n]) /\ Told(parse_transcript[n], n)
<1> DEFINE Good(k) == Typed(parse_transcript[k]) /\ Told(parse_transcript[k], k)
           T == {k \in Nat : k <= Len(script) /\ ~Good(k)}
<1> SUFFICES ASSUME ~Good(n) PROVE FALSE
  OBVIOUS
<1>1. PICK k \in T : \A m \in T : k <= m
  <2>1. T \in SUBSET Nat /\ n \in T
    OBVIOUS
  <2> HIDE DEF T
  <2> QED
    BY <2>1, LeastNumber
<1>2. Len(script) \in Nat /\ DOMAIN script = 1..Len(script)
  BY TranscriptReadAssumption DEF Sound
<1>3. k \in Nat /\ k <= Len(script) /\ ~Good(k)
  OBVIOUS
<1>4. CASE k = 0
  <2>1. parse_transcript[0] = Empty
    BY ParseUnfolds
  <2>2. /\ Assistants(0) = {} /\ Results(0) = {} /\ Identities(0) = {}
        /\ Usages(0) = {} /\ Spoken(0) = {}
    BY DEF Assistants, Results, Identities, Usages, Spoken, FinalTurn
  <2>3. /\ <<>> \in Seq(Nat) /\ <<>> \in Seq(Names)
        /\ ToSet(<<>>) = {} /\ Len(<<>>) = 0 /\ InOrder(<<>>, {})
    BY DEF InOrder, ToSet
  <2>4. /\ Empty.ids = {} /\ Empty.prev = NoId /\ Empty.text = <<>>
        /\ Empty.turns = 0 /\ Empty.usage = <<>> /\ Empty.error = FALSE
        /\ Empty = [ids |-> Empty.ids, prev |-> Empty.prev, text |-> Empty.text,
                    turns |-> Empty.turns, usage |-> Empty.usage,
                    error |-> Empty.error]
    BY DEF Empty
  <2>5. Cardinality({}) = 0
    BY FS_EmptySet
  <2>6. Typed(Empty)
    BY <2>3, <2>4 DEF Typed
  <2>7. Told(Empty, 0)
    BY <2>2, <2>3, <2>4, <2>5, Zenon DEF Told
  <2> QED
    BY <1>3, <1>4, <2>1, <2>6, <2>7
<1>5. CASE k # 0
  <2> DEFINE m == k - 1
  <2>1. m \in Nat /\ m < Len(script) /\ m + 1 = k /\ m \notin T
    BY <1>1, <1>2, <1>3, <1>5
  <2>2. Good(m)
    BY <1>2, <2>1
  <2>3. parse_transcript[m + 1] = Step(parse_transcript[m], m + 1)
    BY <2>1, ParseUnfolds
  <2>4. script[m + 1].type \in {"assistant", "result", "user"}
    BY <1>2, <2>1, TranscriptReadAssumption DEF Sound
  <2> HIDE DEF m
  <2>5. /\ Typed(Step(parse_transcript[m], m + 1))
        /\ Told(Step(parse_transcript[m], m + 1), m + 1)
    BY <2>1, <2>2, <2>4, AnswerIsRead, ResultIsRead, OtherIsPassed
  <2> QED
    BY <1>3, <2>1, <2>3, <2>5
<1> QED
  BY <1>4, <1>5

-----------------------------------------------------------------------------
(***************************************************************************)
(* What every state keeps.                                                 *)
(***************************************************************************)
Outcomes ==
  {"pending", "ok", "assistant error", "internal error", "fallback", "failed fallback"}

BoundsInv ==
  /\ script \in Scripts
  /\ written \in 0..Len(script) /\ seen \in 0..Len(script)
  /\ attempt \in Nat /\ attempt <= MaxRetries + 1
  /\ result = [outcome |-> result.outcome, text |-> result.text,
               turns |-> result.turns, usage |-> result.usage]
  /\ result.outcome \in Outcomes

(* What the last read found stays what the lines it saw say. *)
FoundInv ==
  /\ ~HasPath => seen = 0
  /\ Results(seen) = {} => last_is_error = FALSE
  /\ Results(seen) # {} => last_is_error = script[Max(Results(seen))].error
  /\ result.outcome \in {"ok", "fallback"} => last_is_error = FALSE
  /\ result.outcome \in {"pending"} \cup Fallbacks => Spoken(seen) = {}
  /\ result.outcome \in Fallbacks /\ HasPath => attempt = MaxRetries + 1

PlaceInv ==
  /\ place \in {"poll", "reading", "resolve", "read", "exited"}
  /\ place \in {"poll", "reading", "resolve"} => result.outcome = "pending"
  /\ place = "read" => taken = pieces

ExitInv == BoundsInv /\ PlaceInv /\ ExitTells
FoldInv == FoundInv /\ FinalTurnText

-----------------------------------------------------------------------------
(***************************************************************************)
(* The exit.                                                               *)
(***************************************************************************)
Agrees(words, code) ==
  /\ Len(words.stdout) + Len(words.stderr) <= 1
  /\ code = 0 => words.stderr = <<>>
  /\ \A l \in ToSet(words.stdout) :
       /\ l.type = "result" => (l.is_error <=> code # 0)
       /\ l.type = "line" => code = 0

(* Nothing said, one line to stderr, one object or line to stdout. *)
LEMMA OneWord ==
  ASSUME NEW words, NEW code, NEW l,
         \/ words.stdout = <<>> /\ words.stderr = <<>>
         \/ words.stdout = <<>> /\ words.stderr = <<l>> /\ code # 0
         \/ /\ words.stdout = <<l>> /\ words.stderr = <<>>
            /\ l.type = "result" => (l.is_error <=> code # 0)
            /\ l.type = "line" => code = 0
  PROVE  Agrees(words, code)
<1>1. /\ Len(<<>>) = 0 /\ Len(<<l>>) = 1
      /\ ToSet(<<>>) = {} /\ ToSet(<<l>>) = {l}
  BY DEF ToSet
<1>2. CASE words.stdout = <<>> /\ words.stderr = <<>>
  BY <1>1, <1>2 DEF Agrees
<1>3. CASE words.stdout = <<>> /\ words.stderr = <<l>> /\ code # 0
  BY <1>1, <1>3 DEF Agrees
<1>4. CASE /\ words.stdout = <<l>> /\ words.stderr = <<>>
           /\ l.type = "result" => (l.is_error <=> code # 0)
           /\ l.type = "line" => code = 0
  <2>1. \A x \in ToSet(words.stdout) : x = l
    BY <1>1, <1>4
  <2>2. Len(words.stdout) + Len(words.stderr) <= 1
    BY <1>1, <1>4
  <2> QED
    BY <1>4, <2>1, <2>2, Zenon DEF Agrees
<1> QED
  BY <1>2, <1>3, <1>4

LEMMA ErrorExits ==
  ASSUME NEW e \in SessionError, ExitError(e)
  PROVE  /\ place' = "exited" /\ Agrees(said', exit')
         /\ exit' \notin {0, 134}
         /\ exit' = 1 <=> e = "AssistantError"
<1> DEFINE u == user_error(e)
           code == exit_code(u)
<1>1. PICK format \in Format :
        LET words == emit_error(u, format)
        IN Leave(code, words) \/ Leave(code, Mute(words))
  BY DEF ExitError
<1> DEFINE words == emit_error(u, format)
<1>2. place' = "exited" /\ exit' = code /\ said' \in {words, Mute(words)}
  BY <1>1 DEF Leave
<1>3. u \in {"Setup", "Timeout", "Interrupted", "AssistantError"}
  BY DEF SessionError, user_error
<1>4. u = "AssistantError" <=> e = "AssistantError"
  BY DEF SessionError, user_error
<1>5. code \in {1, 2, 124, 130} /\ (code = 1 <=> u = "AssistantError")
  BY <1>3 DEF exit_code
<1>6. \/ words = [stdout |-> <<>>, stderr |-> <<Line>>]
      \/ words = [stdout |-> <<Result(subtype(u), TRUE)>>, stderr |-> <<>>]
  BY <1>3 DEF emit_error, Said, Format
<1> HIDE DEF words, code, u
<1>7. Agrees(words, code) /\ Agrees(Mute(words), code)
  <2>1. CASE words = [stdout |-> <<>>, stderr |-> <<Line>>]
    <3>1. /\ words.stdout = <<>> /\ words.stderr = <<Line>>
          /\ Mute(words).stdout = <<>> /\ Mute(words).stderr = <<Line>>
      BY <2>1 DEF Mute
    <3>2. code # 0
      BY <1>5
    <3>3. Agrees(words, code)
      BY <3>1, <3>2, OneWord, Zenon
    <3>4. Agrees(Mute(words), code)
      BY <3>1, <3>2, OneWord, Zenon
    <3> QED
      BY <3>3, <3>4
  <2>2. CASE words = [stdout |-> <<Result(subtype(u), TRUE)>>, stderr |-> <<>>]
    <3> DEFINE l == Result(subtype(u), TRUE)
    <3>1. /\ words.stdout = <<l>> /\ words.stderr = <<>>
          /\ Mute(words).stdout = <<>> /\ Mute(words).stderr = <<>>
      BY <2>2 DEF Mute
    <3>2. l.type = "result" /\ l.type # "line" /\ l.is_error
      BY DEF Result
    <3>3. code # 0
      BY <1>5
    <3> HIDE DEF l
    <3>4. Agrees(words, code)
      BY <3>1, <3>2, <3>3, OneWord, Zenon
    <3>5. Agrees(Mute(words), code)
      BY <3>1, OneWord, Zenon
    <3> QED
      BY <3>4, <3>5
  <2> QED
    BY <1>6, <2>1, <2>2
<1>8. Agrees(said', exit')
  BY <1>2, <1>7, Zenon
<1> QED
  BY <1>2, <1>4, <1>5, <1>8

LEMMA SuccessExits ==
  ASSUME ExitSuccess
  PROVE  place' = "exited" /\ Agrees(said', exit') /\ exit' \in {0, 2}
<1>1. PICK format \in Format :
        \/ Leave(0, emit_success(format))
        \/ Leave(2, [Said EXCEPT !.stderr = <<Line>>])
  BY DEF ExitSuccess
<1>2. CASE Leave(0, emit_success(format))
  <2>1. \E l : /\ \/ emit_success(format) = [stdout |-> <<l>>, stderr |-> <<>>]
                  \/ emit_success(format) = [stdout |-> <<>>, stderr |-> <<>>]
               /\ l.type = "result" => (l.is_error <=> 0 # 0)
    <3>1. CASE format = "json"
      <4> DEFINE l == Result("success", FALSE)
      <4>1. emit_success(format) = [stdout |-> <<l>>, stderr |-> <<>>]
        BY <3>1 DEF emit_success, Said
      <4>2. ~l.is_error
        BY DEF Result
      <4> HIDE DEF l
      <4> QED
        BY <4>1, <4>2
    <3>2. CASE format # "json"
      <4>1. \/ emit_success(format) = [stdout |-> <<Line>>, stderr |-> <<>>]
            \/ emit_success(format) = [stdout |-> <<>>, stderr |-> <<>>]
        BY <3>2 DEF emit_success, Said, Format
      <4>2. Line.type = "line"
        BY DEF Line
      <4> QED
        BY <4>1, <4>2
    <3> QED
      BY <3>1, <3>2
  <2>2. PICK l : /\ \/ emit_success(format) = [stdout |-> <<l>>, stderr |-> <<>>]
                    \/ emit_success(format) = [stdout |-> <<>>, stderr |-> <<>>]
                 /\ l.type = "result" => (l.is_error <=> 0 # 0)
    BY <2>1
  <2> DEFINE words == emit_success(format)
  <2>3. \/ words.stdout = <<>> /\ words.stderr = <<>>
        \/ words.stdout = <<l>> /\ words.stderr = <<>>
    BY <2>2
  <2> HIDE DEF words
  <2>4. Agrees(words, 0)
    BY <2>2, <2>3, OneWord, Zenon
  <2>5. place' = "exited" /\ said' = words /\ exit' = 0
    BY <1>2 DEF Leave, words
  <2> QED
    BY <2>4, <2>5
<1>3. CASE Leave(2, [Said EXCEPT !.stderr = <<Line>>])
  <2> DEFINE words == [Said EXCEPT !.stderr = <<Line>>]
  <2>1. words.stdout = <<>> /\ words.stderr = <<Line>>
    BY DEF Said
  <2>2. place' = "exited" /\ said' = words /\ exit' = 2
    BY <1>3 DEF Leave
  <2> HIDE DEF words
  <2>3. Agrees(words, 2)
    <3>1. 2 # 0
      OBVIOUS
    <3> QED
      BY <2>1, <3>1, OneWord, Zenon
  <2> QED
    BY <2>2, <2>3
<1> QED
  BY <1>1, <1>2, <1>3

(* What an exit owes: an agreement, and the code of the outcome. *)
LEMMA ExitTold ==
  ASSUME place' = "exited", Agrees(said', exit'),
         exit' = 0 => result'.outcome \in {"ok", "fallback"} /\ taken' = pieces',
         exit' = 1 <=> exit' # 134 /\ result'.outcome \in Failed,
         exit' = 134 => result'.outcome \in Fallbacks /\ said' = Said
  PROVE  ExitTells'
BY Zenon DEF Agrees, ExitTells

-----------------------------------------------------------------------------
(***************************************************************************)
(* The exit tells what became of the turn.                                 *)
(***************************************************************************)
LEMMA LinesOfScript ==
  ASSUME BoundsInv
  PROVE  /\ Len(script) \in Nat /\ DOMAIN script = 1..Len(script)
         /\ written \in Nat /\ written <= Len(script)
         /\ seen \in Nat /\ seen <= Len(script)
BY TranscriptReadAssumption DEF BoundsInv

(* A read leaves a result of the same shape, pending or done. *)
LEMMA ReadBounds ==
  ASSUME BoundsInv, ReadAttempt
  PROVE  BoundsInv'
<1> DEFINE r == parse_transcript[written]
<1>1. /\ script' = script /\ written' = written /\ seen' = written
      /\ attempt' = attempt + 1
      /\ result' = IF r.text # <<>> THEN Returned(r, r.error) ELSE result
  BY DEF ReadAttempt, childVars
<1> HIDE DEF r
<1>2. attempt' \in Nat /\ attempt' <= MaxRetries + 1
  BY <1>1, TranscriptReadAssumption DEF BoundsInv, ReadAttempt, Exhausted
<1>3. CASE result' = result
  BY <1>1, <1>2, <1>3 DEF BoundsInv
<1>4. CASE result' = Returned(r, r.error)
  <2>1. result'.outcome \in Outcomes
    BY <1>4 DEF Returned, Outcomes
  <2>2. result' = [outcome |-> result'.outcome, text |-> result'.text,
                   turns |-> result'.turns, usage |-> result'.usage]
    BY <1>4 DEF Returned
  <2> QED
    BY <1>1, <1>2, <2>1, <2>2 DEF BoundsInv
<1> QED
  BY <1>1, <1>3, <1>4

LEMMA GivesUpBounds ==
  ASSUME BoundsInv, GiveUp \/ SparsePayload
  PROVE  BoundsInv'
<1>1. /\ script' = script /\ written' = written /\ seen' = seen
      /\ attempt' = attempt
      /\ \E o \in {"internal error"} \cup Fallbacks :
           result' = FallBack(o)
  BY DEF GiveUp, SparsePayload, childVars, from_fallback, Fallbacks
<1>2. PICK o \in {"internal error"} \cup Fallbacks :
        result' = FallBack(o)
  BY <1>1
<1>3. result' = [outcome |-> o, text |-> <<>>, turns |-> 0, usage |-> <<>>]
  BY <1>2 DEF FallBack, Pending
<1>4. /\ result'.outcome \in Outcomes
      /\ result' = [outcome |-> result'.outcome, text |-> result'.text,
                    turns |-> result'.turns, usage |-> result'.usage]
  BY <1>3 DEF Outcomes, Fallbacks
<1> QED
  BY <1>1, <1>4 DEF BoundsInv

LEMMA ExitInit ==
  ASSUME AInit
  PROVE  ExitInv
<1>1. /\ script \in Scripts /\ written = 0 /\ seen = 0 /\ attempt = 0
      /\ result = [outcome |-> "pending", text |-> <<>>, turns |-> 0, usage |-> <<>>]
      /\ place = "poll"
  BY DEF AInit, Init, Pending
<1>2. /\ result.outcome = "pending"
      /\ result = [outcome |-> result.outcome, text |-> result.text,
                   turns |-> result.turns, usage |-> result.usage]
  BY <1>1
<1>3. Len(script) \in Nat /\ MaxRetries \in Nat
  BY <1>1, TranscriptReadAssumption
<1>4. BoundsInv
  BY <1>1, <1>2, <1>3 DEF BoundsInv, Outcomes
<1>5. PlaceInv /\ ExitTells
  BY <1>1, <1>2 DEF PlaceInv, ExitTells
<1> QED
  BY <1>4, <1>5 DEF ExitInv

LEMMA ExitStep ==
  ASSUME ExitInv, [ANext]_avars
  PROVE  ExitInv'
<1> USE DEF ExitInv
<1>1. ASSUME UNCHANGED vars
      PROVE  BoundsInv'
  BY <1>1 DEF vars, childVars, readVars, BoundsInv
<1>2. CASE ChildWrites
  <2>1. /\ place # "exited" /\ place' = place
        /\ written < Len(script) /\ written' = written + 1
        /\ script' = script /\ seen' = seen /\ attempt' = attempt /\ result' = result
        /\ pieces' = pieces /\ taken' = taken
    BY <1>2 DEF ChildWrites, WriteLine, loopVars, readVars
  <2>2. written' \in 0..Len(script)'
    BY <2>1, LinesOfScript
  <2>3. BoundsInv'
    BY <2>1, <2>2 DEF BoundsInv
  <2>4. PlaceInv' /\ ExitTells'
    BY <2>1 DEF PlaceInv, ExitTells
  <2> QED
    BY <2>3, <2>4
<1>3. CASE HookWrites
  <2>1. BoundsInv' /\ result' = result
    BY <1>1, <1>3 DEF HookWrites, vars, readVars
  <2>2. /\ place' = place /\ pieces' = pieces /\ taken' = taken
        /\ said' = said /\ exit' = exit
    BY <1>3 DEF HookWrites, exitVars
  <2>3. PlaceInv'
    BY <2>1, <2>2 DEF PlaceInv
  <2>4. ExitTells'
    BY <2>1, <2>2, Zenon DEF ExitTells
  <2> QED
    BY <2>1, <2>3, <2>4
<1>4. CASE ReadsFifo \/ WouldBlock
  <2>1. BoundsInv' /\ result' = result
    BY <1>1, <1>4 DEF ReadsFifo, WouldBlock, vars, readVars
  <2>2. /\ place \in {"poll", "reading"} /\ place' \in {"reading", "resolve"}
    BY <1>4 DEF ReadsFifo, WouldBlock
  <2>3. PlaceInv' /\ ExitTells'
    BY <2>1, <2>2 DEF PlaceInv, ExitTells
  <2> QED
    BY <2>1, <2>3
<1>5. ASSUME UNCHANGED vars, result.outcome = "pending",
             NEW e \in SessionError \ {"AssistantError"}, ExitError(e)
      PROVE  ExitInv'
  <2>1. BoundsInv' /\ result' = result
    BY <1>1, <1>5 DEF vars, readVars
  <2>2. place' = "exited" /\ Agrees(said', exit') /\ exit' \notin {0, 1, 134}
    BY <1>5, ErrorExits
  <2>3. result'.outcome \notin Failed
    BY <1>5, <2>1 DEF Failed
  <2>4. exit' # 0 /\ exit' # 1 /\ exit' # 134
    BY <2>2
  <2>5. ExitTells'
    BY <2>2, <2>3, <2>4, ExitTold, Zenon
  <2>6. PlaceInv'
    BY <2>2 DEF PlaceInv
  <2> QED
    BY <2>1, <2>5, <2>6
<1>6. CASE OtherEnd
  <2>1. /\ UNCHANGED vars /\ result.outcome = "pending"
        /\ \E e \in SessionError \ {"AssistantError"} : ExitError(e)
    BY <1>6 DEF OtherEnd, PlaceInv
  <2> QED
    BY <1>5, <2>1
<1>7. CASE Unparsable \/ HomeGone
  <2>1. /\ UNCHANGED vars /\ result.outcome = "pending"
        /\ ExitError("Internal") \/ ExitError("Config")
    BY <1>7 DEF Unparsable, HomeGone, PlaceInv
  <2>2. {"Internal", "Config"} \subseteq SessionError \ {"AssistantError"}
    BY DEF SessionError
  <2> QED
    BY <1>5, <2>1, <2>2
<1>8. CASE Resolves
  <2>1. /\ place = "resolve" /\ place' = "read" /\ taken = pieces
        /\ taken' = taken /\ pieces' = pieces
        /\ script' = script /\ written' = written
        /\ attempt' = attempt /\ seen' = seen /\ result' = result
    BY <1>8 DEF Resolves, Whole, StopFires, readVars
  <2>2. BoundsInv'
    BY <2>1 DEF BoundsInv
  <2>3. PlaceInv' /\ ExitTells'
    BY <2>1 DEF PlaceInv, ExitTells
  <2> QED
    BY <2>2, <2>3
<1>9. CASE Reads \/ GivesUp
  <2>1. BoundsInv'
    BY <1>9, ReadBounds, GivesUpBounds DEF Reads, GivesUp
  <2>2. place = "read" /\ place' = place /\ taken' = taken /\ pieces' = pieces
    BY <1>9 DEF Reads, GivesUp, loopVars
  <2>3. PlaceInv' /\ ExitTells'
    BY <2>2 DEF PlaceInv, ExitTells
  <2> QED
    BY <2>1, <2>3
<1>10. CASE ReadsNothing
  <2>1. /\ place = "read" /\ place' = place /\ taken' = taken /\ pieces' = pieces
        /\ script' = script /\ written' = written /\ seen' = seen /\ result' = result
        /\ attempt' = attempt + 1 /\ ~Exhausted
    BY <1>10 DEF ReadsNothing, childVars, loopVars
  <2>2. attempt' \in Nat /\ attempt' <= MaxRetries + 1
    BY <2>1, TranscriptReadAssumption DEF BoundsInv, Exhausted
  <2>3. BoundsInv'
    BY <2>1, <2>2 DEF BoundsInv
  <2>4. PlaceInv' /\ ExitTells'
    BY <2>1 DEF PlaceInv, ExitTells
  <2> QED
    BY <2>3, <2>4
<1>11. CASE Emits
  <2>1. /\ UNCHANGED vars /\ place = "read"
        /\ taken' = taken /\ pieces' = pieces /\ taken = pieces
    BY <1>11 DEF Emits, PlaceInv
  <2>2. BoundsInv' /\ result' = result
    BY <1>1, <2>1 DEF vars, readVars
  <2>3. \/ result.outcome = "ok" /\ ExitSuccess
        \/ result.outcome = "assistant error" /\ ExitError("AssistantError")
        \/ result.outcome = "internal error" /\ ExitError("Internal")
    BY <1>11 DEF Emits
  <2>4. {"AssistantError", "Internal"} \subseteq SessionError
    BY DEF SessionError
  <2>5. /\ place' = "exited" /\ Agrees(said', exit')
        /\ exit' = 0 => result.outcome = "ok"
        /\ exit' # 134
        /\ exit' = 1 <=> result.outcome = "assistant error"
        /\ result.outcome \notin Fallbacks
    <3> USE DEF Fallbacks
    <3>1. CASE result.outcome = "ok" /\ ExitSuccess
      BY <3>1, SuccessExits
    <3>2. CASE result.outcome = "assistant error" /\ ExitError("AssistantError")
      BY <2>4, <3>2, ErrorExits
    <3>3. CASE result.outcome = "internal error" /\ ExitError("Internal")
      BY <2>4, <3>3, ErrorExits
    <3> QED
      BY <2>3, <3>1, <3>2, <3>3
  <2>6. ExitTells'
    <3>1. /\ exit' = 0 => result'.outcome \in {"ok", "fallback"} /\ taken' = pieces'
          /\ exit' = 1 <=> exit' # 134 /\ result'.outcome \in Failed
          /\ exit' # 134
      BY <2>1, <2>2, <2>5 DEF Failed, Fallbacks
    <3> QED
      BY <2>5, <3>1, ExitTold, Zenon
  <2>7. PlaceInv'
    BY <2>5 DEF PlaceInv
  <2> QED
    BY <2>2, <2>6, <2>7
<1>12. CASE EmitsFallback
  <2>1. PICK m \in Messages :
          LET text == strip_ansi(FlattenSeq(m))
          IN \/ Reported /\ result' = [result EXCEPT !.text = text]
             \/ Leave(134, Said) /\ UNCHANGED result
    BY <1>12 DEF EmitsFallback
  <2>2. /\ result.outcome \in Fallbacks /\ place = "read"
        /\ taken' = taken /\ pieces' = pieces /\ taken = pieces
        /\ script' = script /\ written' = written /\ attempt' = attempt /\ seen' = seen
    BY <1>12 DEF EmitsFallback, PlaceInv, childVars
  <2>3. /\ place' = "exited" /\ Agrees(said', exit')
        /\ exit' = 0 => result.outcome = "fallback"
        /\ exit' = 1 <=> exit' # 134 /\ result.outcome = "failed fallback"
        /\ exit' = 134 => said' = Said
        /\ \/ result' = result
           \/ result' = [result EXCEPT !.text = strip_ansi(FlattenSeq(m))]
    <3>1. CASE Reported /\ result' = [result EXCEPT !.text = strip_ansi(FlattenSeq(m))]
      <4>1. CASE result.outcome = "fallback" /\ ExitSuccess
        <5>1. place' = "exited" /\ Agrees(said', exit') /\ exit' \in {0, 2}
          BY <4>1, SuccessExits
        <5>2. exit' # 1 /\ exit' # 134
          BY <5>1
        <5>3. result.outcome # "failed fallback"
          BY <4>1
        <5> QED
          BY <3>1, <4>1, <5>1, <5>2, <5>3, Zenon
      <4>2. CASE result.outcome = "failed fallback" /\ ExitError("AssistantError")
        <5>1. "AssistantError" \in SessionError
          BY DEF SessionError
        <5>2. /\ place' = "exited" /\ Agrees(said', exit')
              /\ exit' \notin {0, 134} /\ exit' = 1
          BY <4>2, <5>1, ErrorExits
        <5>3. exit' # 0 /\ exit' # 134
          BY <5>2
        <5> QED
          BY <3>1, <4>2, <5>2, <5>3, Zenon
      <4> QED
        BY <3>1, <4>1, <4>2, Zenon DEF Reported
    <3>2. CASE Leave(134, Said) /\ UNCHANGED result
      <4>1. Said.stdout = <<>> /\ Said.stderr = <<>>
        BY DEF Said
      <4>2. Agrees(Said, 134)
        BY <4>1, OneWord, Zenon
      <4>3. 134 # 1 /\ 134 # 0
        OBVIOUS
      <4> QED
        BY <3>2, <4>2, <4>3, Zenon DEF Leave
    <3> QED
      BY <2>1, <3>1, <3>2, Zenon
  <2> DEFINE text == strip_ansi(FlattenSeq(m))
  <2>4. /\ result'.outcome = result.outcome
        /\ result' = [outcome |-> result'.outcome, text |-> result'.text,
                      turns |-> result'.turns, usage |-> result'.usage]
    <3>1. result = [outcome |-> result.outcome, text |-> result.text,
                    turns |-> result.turns, usage |-> result.usage]
      BY DEF BoundsInv
    <3>2. result' = result \/ result' = [result EXCEPT !.text = text]
      BY <2>3
    <3> HIDE DEF text
    <3>3. CASE result' = result
      BY <2>2, <3>1, <3>3
    <3>4. CASE result' = [result EXCEPT !.text = text]
      BY <2>2, <3>1, <3>4
    <3> QED
      BY <3>2, <3>3, <3>4
  <2>5. BoundsInv'
    BY <2>2, <2>4 DEF BoundsInv, Outcomes, Fallbacks
  <2>6. ExitTells'
    <3>1. /\ exit' = 0 => result'.outcome \in {"ok", "fallback"} /\ taken' = pieces'
          /\ exit' = 1 <=> exit' # 134 /\ result'.outcome \in Failed
          /\ exit' = 134 => result'.outcome \in Fallbacks /\ said' = Said
      <4> HIDE DEF text
      <4>1. taken' = pieces' /\ result'.outcome \in {"fallback", "failed fallback"}
        BY <2>2, <2>4 DEF Fallbacks
      <4>2. exit' = 0 => result'.outcome = "fallback"
        BY <2>3, <2>4
      <4>3. exit' = 1 <=> exit' # 134 /\ result'.outcome = "failed fallback"
        BY <2>3, <2>4
      <4>4. exit' = 134 => said' = Said
        BY <2>3
      <4> QED
        BY <4>1, <4>2, <4>3, <4>4 DEF Failed, Fallbacks
    <3> QED
      BY <2>3, <3>1, ExitTold, Zenon
  <2>7. PlaceInv'
    BY <2>3 DEF PlaceInv
  <2> QED
    BY <2>5, <2>6, <2>7
<1>13. CASE Exited \/ UNCHANGED avars
  <2>1. UNCHANGED vars /\ UNCHANGED loopVars /\ UNCHANGED exitVars
    BY <1>13 DEF Exited, avars
  <2>2. /\ BoundsInv' /\ result' = result
        /\ place' = place /\ pieces' = pieces /\ taken' = taken
        /\ said' = said /\ exit' = exit
    BY <1>1, <2>1 DEF vars, readVars, loopVars, exitVars
  <2>3. PlaceInv'
    BY <2>2 DEF PlaceInv
  <2>4. ExitTells'
    BY <2>2, Zenon DEF ExitTells
  <2> QED
    BY <2>2, <2>3, <2>4
<1> QED
  BY <1>2, <1>3, <1>4, <1>6, <1>7, <1>8, <1>9, <1>10, <1>11, <1>12, <1>13 DEF ANext

LEMMA ExitInvariant == ASpec => []ExitInv
<1>1. AInit => ExitInv
  BY ExitInit
<1>2. ExitInv /\ [ANext]_avars => ExitInv'
  BY ExitStep
<1> QED
  BY <1>1, <1>2, PTL DEF ASpec

(* However the Stop payload was cut, resolved and read, and whatever of    *)
(* stdout is left, the exit code and the one object or line that is said   *)
(* tell what became of the turn (main's match on run_session's result).    *)
THEOREM ExitTellsTheorem == ASpec => []ExitTells
<1>1. ExitInv => ExitTells
  BY DEF ExitInv
<1> QED
  BY <1>1, ExitInvariant, PTL

-----------------------------------------------------------------------------
(***************************************************************************)
(* What is reported is what the transcript says.                           *)
(***************************************************************************)
LEMMA FoldKept ==
  ASSUME FoldInv,
         script' = script, seen' = seen, result' = result,
         last_is_error' = last_is_error, payload' = payload,
         \/ attempt' = attempt
         \/ result.outcome = "pending"
  PROVE  FoldInv'
<1>1. Assistants(seen)' = Assistants(seen) /\ Results(seen)' = Results(seen)
  BY DEF Assistants, Results
<1>2. /\ Identities(seen)' = Identities(seen) /\ Spoken(seen)' = Spoken(seen)
  BY <1>1 DEF Identities, Identity, Spoken, FinalTurn
<1>3. FoundInv'
  <2>1. /\ ~HasPath => seen = 0
        /\ Results(seen) = {} => last_is_error = FALSE
        /\ Results(seen) # {} => last_is_error = script[Max(Results(seen))].error
        /\ result.outcome \in {"ok", "fallback"} => last_is_error = FALSE
        /\ result.outcome \in {"pending"} \cup Fallbacks => Spoken(seen) = {}
        /\ result.outcome \in Fallbacks /\ HasPath => attempt = MaxRetries + 1
    BY DEF FoldInv, FoundInv
  <2>2. HasPath' <=> HasPath
    BY DEF HasPath
  <2>3. result'.outcome \in Fallbacks /\ HasPath' => attempt' = MaxRetries + 1
    BY <2>1, <2>2 DEF Fallbacks
  <2> QED
    BY <1>1, <1>2, <2>1, <2>2, <2>3, Zenon DEF FoundInv
<1>4. FinalTurnText'
  <2>1. /\ Answered' <=> Answered
        /\ {script'[i].usage : i \in Assistants(seen)'}
             = {script[i].usage : i \in Assistants(seen)}
    BY <1>1 DEF Answered
  <2> QED
    BY <1>1, <1>2, <2>1, Zenon DEF FoldInv, FinalTurnText
<1> QED
  BY <1>3, <1>4 DEF FoldInv

LEMMA FoldInit ==
  ASSUME AInit
  PROVE  FoldInv
<1>1. /\ payload = "none" /\ seen = 0 /\ last_is_error = FALSE
      /\ result.outcome = "pending"
  BY DEF AInit, Init, Pending
<1>2. Results(seen) = {} /\ Spoken(seen) = {}
  BY <1>1 DEF Results, Assistants, FinalTurn, Spoken
<1> QED
  BY <1>1, <1>2 DEF FoldInv, FoundInv, FinalTurnText, Answered, HasPath

LEMMA ReadFolds ==
  ASSUME Sound(script), BoundsInv, ReadAttempt
  PROVE  FoldInv'
<1> DEFINE r == parse_transcript[written]
<1>1. /\ script' = script /\ payload' = payload /\ HasPath
      /\ seen' = written /\ last_is_error' = r.error
      /\ result.outcome = "pending"
      /\ result' = IF r.text # <<>> THEN Returned(r, r.error) ELSE result
  BY DEF ReadAttempt, childVars
<1>2. Typed(r) /\ Told(r, written)
  BY LinesOfScript, ParseTells
<1>3. /\ InOrder(r.text, Spoken(written)) /\ r.text \in Seq(Nat)
      /\ r.turns = Cardinality(Identities(written))
      /\ ToSet(r.usage) = {script[i].usage : i \in Assistants(written)}
      /\ Len(r.usage) = r.turns
      /\ Results(written) = {} => r.error = FALSE
      /\ Results(written) # {} => r.error = script[Max(Results(written))].error
  BY <1>2 DEF Typed, Told, Usages
<1> HIDE DEF r
<1>4. /\ Results(seen)' = Results(written) /\ Assistants(seen)' = Assistants(written)
  BY <1>1 DEF Results, Assistants
<1>5. /\ Identities(seen)' = Identities(written) /\ Spoken(seen)' = Spoken(written)
  BY <1>1, <1>4 DEF Identities, Identity, Spoken, FinalTurn
<1>6. r.error \in BOOLEAN
  <2>1. CASE Results(written) = {}
    BY <1>3, <2>1
  <2>2. CASE Results(written) # {}
    <3>1. /\ Results(written) \in SUBSET Nat /\ \A i \in Results(written) : i <= written
          /\ Results(written) \subseteq DOMAIN script /\ written \in Nat
      BY LinesOfScript DEF Results
    <3>2. Max(Results(written)) \in DOMAIN script
      BY <2>2, <3>1, GreatestOf
    <3>3. script[Max(Results(written))].error \in BOOLEAN
      BY <3>2, TranscriptReadAssumption DEF Sound
    <3> QED
      BY <1>3, <2>2, <3>3
  <2> QED
    BY <2>1, <2>2
<1>7. HasPath'
  BY <1>1 DEF HasPath
<1>8. CASE r.text = <<>>
  <2>1. result' = result
    BY <1>1, <1>8
  <2>2. Spoken(written) = {}
    BY <1>3, <1>8 DEF InOrder, ToSet
  <2>3. result'.outcome = "pending"
    BY <1>1, <2>1
  <2>4. result'.outcome \notin {"ok", "fallback"} /\ result'.outcome \notin Fallbacks
    BY <2>3 DEF Fallbacks
  <2>5. FoundInv'
    BY <1>1, <1>3, <1>4, <1>5, <1>7, <2>2, <2>4, Zenon DEF FoundInv
  <2>6. FinalTurnText'
    BY <2>3 DEF FinalTurnText, Answered
  <2> QED
    BY <2>5, <2>6 DEF FoldInv
<1>9. CASE r.text # <<>>
  <2>1. /\ result'.outcome = IF r.error THEN "assistant error" ELSE "ok"
        /\ result'.text = r.text /\ result'.turns = r.turns /\ result'.usage = r.usage
    BY <1>1, <1>9 DEF Returned
  <2>2. /\ result'.outcome \notin {"pending", "fallback"} \cup Fallbacks
        /\ result'.outcome = "ok" => r.error = FALSE
    BY <1>6, <2>1 DEF Fallbacks
  <2>3. FoundInv'
    BY <1>1, <1>3, <1>4, <1>5, <1>7, <2>2, Zenon DEF FoundInv
  <2>4. {script'[i].usage : i \in Assistants(seen)'}
          = {script[i].usage : i \in Assistants(written)}
    BY <1>1, <1>4
  <2>5. FinalTurnText'
    BY <1>3, <1>4, <1>5, <2>1, <2>4, Zenon DEF FinalTurnText
  <2> QED
    BY <2>3, <2>5 DEF FoldInv
<1> QED
  BY <1>8, <1>9

LEMMA GiveUpFolds ==
  ASSUME FoldInv, BoundsInv, GiveUp \/ SparsePayload
  PROVE  FoldInv'
<1>1. /\ script' = script /\ payload' = payload /\ seen' = seen
      /\ attempt' = attempt /\ last_is_error' = last_is_error
      /\ result.outcome = "pending"
  BY DEF GiveUp, SparsePayload, childVars
<1>2. /\ ~HasPath => seen = 0
      /\ Results(seen) = {} => last_is_error = FALSE
      /\ Results(seen) # {} => last_is_error = script[Max(Results(seen))].error
      /\ Spoken(seen) = {}
  BY <1>1 DEF FoldInv, FoundInv
<1>3. /\ Results(seen)' = Results(seen) /\ Spoken(seen)' = Spoken(seen)
      /\ HasPath' <=> HasPath
  BY <1>1 DEF Results, Assistants, Identity, Spoken, FinalTurn, HasPath
<1>4. /\ result'.text = <<>>
      /\ result'.outcome \in {"internal error"} \cup Fallbacks
      /\ result'.outcome = "fallback" => last_is_error = FALSE
      /\ result'.outcome \in Fallbacks /\ HasPath => attempt = MaxRetries + 1
  <2> USE DEF Fallbacks
  <2>1. CASE GiveUp
    <3>1. HasPath /\ attempt = MaxRetries + 1
      <4>1. HasPath /\ attempt > MaxRetries
        BY <2>1 DEF GiveUp, Exhausted
      <4>2. attempt \in Nat /\ attempt <= MaxRetries + 1 /\ MaxRetries \in Nat
        BY TranscriptReadAssumption DEF BoundsInv
      <4> HIDE DEF HasPath
      <4> QED
        BY <4>1, <4>2
    <3>2. result' = FallBack("internal error") \/ result' = from_fallback(last_is_error)
      BY <2>1 DEF GiveUp
    <3>3. result' = FallBack("internal error") =>
            result'.text = <<>> /\ result'.outcome = "internal error"
      BY DEF FallBack, Pending
    <3>4. CASE last_is_error
      <4>1. from_fallback(last_is_error) = FallBack("failed fallback")
        BY <3>4 DEF from_fallback
      <4>2. FallBack("failed fallback").text = <<>>
            /\ FallBack("failed fallback").outcome = "failed fallback"
        BY DEF FallBack, Pending
      <4> QED
        BY <3>1, <3>2, <3>3, <4>1, <4>2
    <3>5. CASE ~last_is_error
      <4>1. from_fallback(last_is_error) = FallBack("fallback")
        BY <3>5 DEF from_fallback
      <4>2. FallBack("fallback").text = <<>> /\ FallBack("fallback").outcome = "fallback"
        BY DEF FallBack, Pending
      <4>3. last_is_error = FALSE
        BY <1>2, <3>5
      <4> QED
        BY <3>1, <3>2, <3>3, <4>1, <4>2, <4>3
    <3> QED
      BY <3>4, <3>5
  <2>2. CASE SparsePayload
    <3>1. ~HasPath /\ (result' = FallBack("internal error") \/ result' = FallBack("fallback"))
      BY <2>2 DEF SparsePayload, HasPath, from_fallback
    <3>2. Results(seen) = {}
      <4>1. seen = 0
        BY <1>2, <3>1, Zenon
      <4> QED
        BY <4>1 DEF Results
    <3> QED
      BY <1>2, <3>1, <3>2 DEF FallBack, Pending
  <2> QED
    BY <2>1, <2>2
<1>5. FoundInv'
  <2>1. /\ result'.outcome \in {"ok", "fallback"} => last_is_error = FALSE
        /\ result'.outcome \in Fallbacks /\ HasPath => attempt = MaxRetries + 1
    BY <1>4 DEF Fallbacks
  <2> QED
    BY <1>1, <1>2, <1>3, <2>1, Zenon DEF FoundInv
<1>6. FinalTurnText'
  BY <1>4 DEF FinalTurnText, Answered, Fallbacks
<1> QED
  BY <1>5, <1>6 DEF FoldInv

LEMMA FoldStep ==
  ASSUME \A s \in Scripts : Unmixed(s), ExitInv, FoldInv, [ANext]_avars
  PROVE  FoldInv'
<1>1. Sound(script) /\ BoundsInv
  BY DEF ExitInv, BoundsInv, Sound
<1>2. ASSUME UNCHANGED vars
      PROVE  FoldInv'
  BY <1>2, FoldKept DEF vars, childVars, readVars
<1>3. CASE ChildWrites
  BY <1>3, FoldKept DEF ChildWrites, WriteLine, readVars
<1>4. CASE Resolves
  <2>1. /\ script' = script /\ seen' = seen /\ last_is_error' = last_is_error
        /\ attempt' = attempt /\ result' = result
        /\ payload = "none" /\ result.outcome = "pending"
    BY <1>4 DEF Resolves, StopFires, readVars, ExitInv, PlaceInv
  <2>2. seen = 0
    BY <2>1 DEF FoldInv, FoundInv, HasPath
  <2>3. /\ Results(seen)' = Results(seen) /\ Spoken(seen)' = Spoken(seen)
        /\ Results(seen) = {}
    BY <2>1, <2>2 DEF Results, Assistants, Identity, Spoken, FinalTurn
  <2>4. last_is_error = FALSE /\ Spoken(seen) = {}
    BY <2>1, <2>3 DEF FoldInv, FoundInv
  <2>5. FoundInv'
    BY <2>1, <2>2, <2>3, <2>4 DEF FoundInv, Fallbacks
  <2>6. FinalTurnText'
    BY <2>1 DEF FinalTurnText, Answered
  <2> QED
    BY <2>5, <2>6 DEF FoldInv
<1>5. CASE Reads
  BY <1>1, <1>5, ReadFolds DEF Reads
<1>6. CASE ReadsNothing
  BY <1>6, FoldKept DEF ReadsNothing, childVars
<1>7. CASE GivesUp
  BY <1>1, <1>7, GiveUpFolds DEF GivesUp
<1>8. CASE EmitsFallback
  <2>1. /\ script' = script /\ seen' = seen /\ last_is_error' = last_is_error
        /\ attempt' = attempt /\ payload' = payload /\ result.outcome \in Fallbacks
    BY <1>8 DEF EmitsFallback, childVars
  <2>2. result'.outcome = result.outcome
    <3>1. PICK m \in Messages :
            result' = result \/ result' = [result EXCEPT !.text = strip_ansi(FlattenSeq(m))]
      BY <1>8 DEF EmitsFallback
    <3> DEFINE text == strip_ansi(FlattenSeq(m))
    <3>2. result = [outcome |-> result.outcome, text |-> result.text,
                    turns |-> result.turns, usage |-> result.usage]
      BY <1>1 DEF BoundsInv
    <3>3. result' = result \/ result' = [result EXCEPT !.text = text]
      BY <3>1
    <3> HIDE DEF text
    <3> QED
      BY <2>1, <3>2, <3>3
  <2>3. /\ Results(seen)' = Results(seen) /\ Spoken(seen)' = Spoken(seen)
        /\ HasPath' <=> HasPath
    BY <2>1 DEF Results, Assistants, Identity, Spoken, FinalTurn, HasPath
  <2>4. FoundInv'
    <3>1. /\ ~HasPath => seen = 0
          /\ Spoken(seen) = {}
          /\ Results(seen) = {} => last_is_error = FALSE
          /\ result.outcome \in {"ok", "fallback"} => last_is_error = FALSE
          /\ Results(seen) # {} => last_is_error = script[Max(Results(seen))].error
          /\ HasPath => attempt = MaxRetries + 1
      BY <2>1 DEF FoldInv, FoundInv
    <3> QED
      BY <2>1, <2>2, <2>3, <3>1, Zenon DEF FoundInv
  <2>5. FinalTurnText'
    BY <2>1, <2>2 DEF FinalTurnText, Answered, Fallbacks
  <2> QED
    BY <2>4, <2>5 DEF FoldInv
<1>9. CASE \/ HookWrites \/ ReadsFifo \/ WouldBlock \/ OtherEnd \/ Unparsable
           \/ HomeGone \/ Emits \/ Exited \/ UNCHANGED avars
  <2>1. UNCHANGED vars
    BY <1>9 DEF HookWrites, ReadsFifo, WouldBlock, OtherEnd, Unparsable, HomeGone,
                Emits, Exited, avars
  <2> QED
    BY <1>2, <2>1
<1> QED
  BY <1>3, <1>4, <1>5, <1>6, <1>7, <1>8, <1>9 DEF ANext

LEMMA FoldInvariant ==
  ASSUME \A s \in Scripts : Unmixed(s)
  PROVE  ASpec => []FoldInv
<1>1. AInit => FoldInv
  BY FoldInit
<1>2. ExitInv /\ FoldInv /\ [ANext]_avars => FoldInv'
  BY FoldStep
<1> QED
  BY <1>1, <1>2, ExitInvariant, PTL DEF ASpec

(* Of every transcript, read at any length, whose turns do not mix, what   *)
(* parse_transcript reports is the last turn's text, and its tokens, once  *)
(* a turn.                                                                 *)
THEOREM FinalTurnTextTheorem ==
  ASSUME \A s \in Scripts : Unmixed(s)
  PROVE  ASpec => []FinalTurnText
<1>1. FoldInv => FinalTurnText
  BY DEF FoldInv
<1> QED
  BY <1>1, FoldInvariant, PTL

(* And what its last result flags as failed is no success, nor is the      *)
(* payload's message put in the place of a text that was there, for an     *)
(* answer or for what went wrong (read_transcript_after_stop).             *)
THEOREM ErrorReportedTheorem ==
  ASSUME \A s \in Scripts : Unmixed(s)
  PROVE  ASpec => []ErrorReported
<1>1. FoldInv => ErrorReported
  <2> SUFFICES ASSUME FoldInv PROVE ErrorReported
    OBVIOUS
  <2>1. result.outcome \in {"ok", "fallback"} /\ Results(seen) # {} =>
          ~script[Max(Results(seen))].error
    BY Zenon DEF FoldInv, FoundInv
  <2>2. result.outcome \in Fallbacks /\ HasPath =>
          attempt = MaxRetries + 1 /\ Spoken(seen) = {}
    BY DEF FoldInv, FoundInv
  <2> QED
    BY <2>1, <2>2 DEF ErrorReported
<1> QED
  BY <1>1, FoldInvariant, PTL

-----------------------------------------------------------------------------
(***************************************************************************)
(* strip_ansi.  A message is scanned part by part: a text leaves the scan  *)
(* in text with the text appended, a whole escape sequence leaves it there *)
(* with nothing appended.                                                  *)
(***************************************************************************)
(* From 0, a step at a time, to N. *)
LEMMA Climb ==
  ASSUME NEW N \in Nat, NEW P, 0 \in P,
         \A k \in 0..N : k \in P /\ k < N => k + 1 \in P
  PROVE  \A k \in 0..N : k \in P
<1> SUFFICES ASSUME NEW n \in 0..N, n \notin P PROVE FALSE
  OBVIOUS
<1> DEFINE T == {k \in Nat : k <= N /\ k \notin P}
<1>1. PICK k \in T : \A l \in T : k <= l
  <2>1. T \in SUBSET Nat /\ n \in T
    OBVIOUS
  <2> HIDE DEF T
  <2> QED
    BY <2>1, LeastNumber
<1>2. k # 0
  OBVIOUS
<1>3. k - 1 \in 0..N /\ k - 1 < N /\ k - 1 \notin T
  BY <1>1, <1>2
<1>4. k - 1 \in P
  BY <1>3
<1>5. k - 1 + 1 = k
  OBVIOUS
<1> QED
  BY <1>3, <1>4, <1>5

(* From a base in S, a step at a time in S: a table has it all.            *)
Runs(g, S, N, base, F) ==
  /\ g \in [0..N -> S] /\ g[0] = base
  /\ \A k \in 1..N : g[k] = F[k][g[k - 1]]

LEMMA Recursion ==
  ASSUME NEW S, NEW N \in Nat, NEW base \in S, NEW F \in [1..N -> [S -> S]]
  PROVE  \E g : Runs(g, S, N, base, F)
<1> DEFINE Upto(n) == \E g \in [0..n -> S] :
             g[0] = base /\ \A k \in 1..n : g[k] = F[k][g[k - 1]]
           P == {n \in 0..N : Upto(n)}
<1>1. Upto(0)
  <2> DEFINE g == [k \in 0..0 |-> base]
  <2>1. g \in [0..0 -> S] /\ g[0] = base /\ 1..0 = {}
    OBVIOUS
  <2> QED
    BY <2>1
<1>2. ASSUME NEW n \in 0..N, Upto(n), n < N
      PROVE  Upto(n + 1)
  <2>1. PICK h \in [0..n -> S] :
          h[0] = base /\ \A k \in 1..n : h[k] = F[k][h[k - 1]]
    BY <1>2
  <2> DEFINE next == F[n + 1][h[n]]
             g == [k \in 0..(n + 1) |-> IF k = n + 1 THEN next ELSE h[k]]
  <2>2. next \in S
    <3>1. n + 1 \in 1..N /\ h[n] \in S
      BY <1>2
    <3> QED
      BY <3>1
  <2> HIDE DEF next
  <2>3. g \in [0..(n + 1) -> S]
    BY <2>2
  <2>4. g[0] = base
    BY <2>1
  <2>5. ASSUME NEW k \in 1..(n + 1) PROVE g[k] = F[k][g[k - 1]]
    <3>1. CASE k = n + 1
      <4>1. g[k] = next /\ g[k - 1] = h[n]
        BY <3>1
      <4> QED
        BY <3>1, <4>1 DEF next
    <3>2. CASE k # n + 1
      <4>1. k \in 1..n /\ g[k] = h[k] /\ g[k - 1] = h[k - 1]
        BY <3>2
      <4> HIDE DEF g
      <4> QED
        BY <2>1, <4>1
    <3> QED
      BY <3>1, <3>2
  <2> HIDE DEF g
  <2> QED
    BY <2>3, <2>4, <2>5
<1> HIDE DEF Upto
<1>3. \A n \in 0..N : n \in P
  <2>1. 0 \in P /\ \A n \in 0..N : n \in P /\ n < N => n + 1 \in P
    BY <1>1, <1>2
  <2> HIDE DEF P
  <2> QED
    BY <2>1, Climb
<1>4. Upto(N)
  <2>1. N \in 0..N
    OBVIOUS
  <2> QED
    BY <1>3, <2>1
<1> QED
  BY <1>4 DEF Upto, Runs

(* The scan, from a state of its own. *)
Modes == {"text", "esc", "csi", "osc", "osc esc", "intermediate"}
At(mode, out) == [mode |-> mode, out |-> out]
States == [mode : Modes, out : Seq(Byte)]

LEMMA ScanAt ==
  ASSUME NEW b \in Byte, NEW o \in Seq(Byte)
  PROVE  /\ Scan(At("text", o), b) =
              IF b = "esc" THEN At("esc", o) ELSE At("text", Append(o, b))
         /\ Scan(At("esc", o), b) =
              At(CASE b = "[" -> "csi"
                   [] b = "]" -> "osc"
                   [] b = "intermediate" -> "intermediate"
                   [] OTHER -> "text", o)
         /\ b \in Finals => Scan(At("csi", o), b) = At("text", o)
         /\ b \in {"param", "intermediate"} => Scan(At("csi", o), b) = At("csi", o)
         /\ b \notin Finals \cup {"param", "intermediate"} =>
              Scan(At("csi", o), b) = Scan(At("text", o), b)
         /\ Scan(At("osc", o), b) =
              At(CASE b = "bel" -> "text" [] b = "esc" -> "osc esc" [] OTHER -> "osc", o)
         /\ b = "\\" => Scan(At("osc esc", o), b) = At("text", o)
         /\ b # "\\" => Scan(At("osc esc", o), b) = Scan(At("esc", o), b)
         /\ b = "intermediate" => Scan(At("intermediate", o), b) = At("intermediate", o)
         /\ b \in Finals \cup {"param"} => Scan(At("intermediate", o), b) = At("text", o)
         /\ b \notin Finals \cup {"param", "intermediate"} =>
              Scan(At("intermediate", o), b) = Scan(At("text", o), b)
<1> USE DEF At, Finals
<1>1. Scan(At("text", o), b) = Copy(At("text", o), b)
  BY DEF Scan
<1>2. Copy(At("text", o), b) = IF b = "esc" THEN At("esc", o) ELSE At("text", Append(o, b))
  BY DEF Copy
<1>3. ASSUME NEW mode \in Modes
      PROVE  Behind(At(mode, o), b) =
               At(CASE b = "[" -> "csi"
                    [] b = "]" -> "osc"
                    [] b = "intermediate" -> "intermediate"
                    [] OTHER -> "text", o)
  BY DEF Behind
<1>4. ASSUME NEW mode \in Modes
      PROVE  Copy(At(mode, o), b) = Copy(At("text", o), b)
  BY DEF Copy
<1>5. Scan(At("esc", o), b) = Behind(At("esc", o), b)
  BY DEF Scan
<1>6. /\ b \in Finals => Scan(At("csi", o), b) = At("text", o)
      /\ b \in {"param", "intermediate"} => Scan(At("csi", o), b) = At("csi", o)
      /\ b \notin Finals \cup {"param", "intermediate"} =>
           Scan(At("csi", o), b) = Copy(At("csi", o), b)
  BY DEF Scan
<1>7. Scan(At("osc", o), b) =
        At(CASE b = "bel" -> "text" [] b = "esc" -> "osc esc" [] OTHER -> "osc", o)
  BY DEF Scan
<1>8. /\ b = "\\" => Scan(At("osc esc", o), b) = At("text", o)
      /\ b # "\\" => Scan(At("osc esc", o), b) = Behind(At("osc esc", o), b)
  BY DEF Scan
<1>9. /\ b = "intermediate" => Scan(At("intermediate", o), b) = At("intermediate", o)
      /\ b \in Finals \cup {"param"} => Scan(At("intermediate", o), b) = At("text", o)
      /\ b \notin Finals \cup {"param", "intermediate"} =>
           Scan(At("intermediate", o), b) = Copy(At("intermediate", o), b)
  BY DEF Scan
<1>10. {"text", "esc", "csi", "osc", "osc esc", "intermediate"} \subseteq Modes
  BY DEF Modes
<1> HIDE DEF At, Finals
<1> QED
  BY <1>1, <1>2, <1>3, <1>4, <1>5, <1>6, <1>7, <1>8, <1>9, <1>10

LEMMA ScanStays ==
  ASSUME NEW acc \in States, NEW b \in Byte
  PROVE  Scan(acc, b) \in States
<1>1. PICK mode \in Modes, o \in Seq(Byte) : acc = At(mode, o)
  BY DEF States, At
<1>2. \A m \in Modes : At(m, o) \in States /\ At(m, Append(o, b)) \in States
  <2>1. o \in Seq(Byte) /\ Append(o, b) \in Seq(Byte)
    OBVIOUS
  <2> QED
    BY <2>1 DEF States, At
<1>3. {"text", "esc", "csi", "osc", "osc esc", "intermediate"} = Modes
  BY DEF Modes
<1>4. Scan(At("text", o), b) \in States
  BY <1>2, <1>3, ScanAt
<1>5. Scan(At("esc", o), b) \in States
  <2> DEFINE m == CASE b = "[" -> "csi"
                    [] b = "]" -> "osc"
                    [] b = "intermediate" -> "intermediate"
                    [] OTHER -> "text"
  <2>1. m \in Modes
    BY <1>3
  <2>2. Scan(At("esc", o), b) = At(m, o)
    BY ScanAt
  <2> HIDE DEF m
  <2> QED
    BY <1>2, <2>1, <2>2
<1>6. Scan(At("osc", o), b) \in States
  <2> DEFINE m == CASE b = "bel" -> "text" [] b = "esc" -> "osc esc" [] OTHER -> "osc"
  <2>1. m \in Modes
    BY <1>3
  <2>2. Scan(At("osc", o), b) = At(m, o)
    BY ScanAt
  <2> HIDE DEF m
  <2> QED
    BY <1>2, <2>1, <2>2
<1>7. Scan(At("csi", o), b) \in States
  <2>1. Scan(At("csi", o), b) \in {At("text", o), At("csi", o), Scan(At("text", o), b)}
    BY ScanAt
  <2> QED
    BY <1>2, <1>3, <1>4, <2>1
<1>8. Scan(At("osc esc", o), b) \in States
  <2>1. Scan(At("osc esc", o), b) \in {At("text", o), Scan(At("esc", o), b)}
    BY ScanAt
  <2> QED
    BY <1>2, <1>3, <1>5, <2>1
<1>9. Scan(At("intermediate", o), b) \in States
  <2>1. Scan(At("intermediate", o), b) \in
          {At("text", o), At("intermediate", o), Scan(At("text", o), b)}
    BY ScanAt
  <2> QED
    BY <1>2, <1>3, <1>4, <2>1
<1>10. mode \in {"text", "esc", "csi", "osc", "osc esc", "intermediate"}
  BY <1>3
<1> QED
  BY <1>1, <1>4, <1>5, <1>6, <1>7, <1>8, <1>9, <1>10

(* All the states of a scan. *)
Scans(acc, s) ==
  CHOOSE scan : scan = [n \in 0..Len(s) |->
                          IF n = 0 THEN acc ELSE Scan(scan[n - 1], s[n])]
Scanned(acc, s) == Scans(acc, s)[Len(s)]

LEMMA ScansUnfold ==
  ASSUME NEW acc \in States, NEW s \in Seq(Byte)
  PROVE  /\ Scans(acc, s)[0] = acc
         /\ \A n \in 1..Len(s) : Scans(acc, s)[n] = Scan(Scans(acc, s)[n - 1], s[n])
<1> DEFINE N == Len(s)
           F == [k \in 1..N |-> [a \in States |-> Scan(a, s[k])]]
<1>1. N \in Nat /\ \A n \in 1..N : s[n] \in Byte
  OBVIOUS
<1>2. F \in [1..N -> [States -> States]]
  BY <1>1, ScanStays
<1>3. PICK g \in [0..N -> States] : g[0] = acc /\ \A k \in 1..N : g[k] = F[k][g[k - 1]]
  <2>1. N \in Nat
    OBVIOUS
  <2> HIDE DEF F, N
  <2>2. \E g : Runs(g, States, N, acc, F)
    BY <1>2, <2>1, Recursion, Zenon
  <2> QED
    BY <2>2 DEF Runs
<1>4. \A k \in 1..N : g[k] = Scan(g[k - 1], s[k])
  <2> SUFFICES ASSUME NEW k \in 1..N PROVE g[k] = Scan(g[k - 1], s[k])
    OBVIOUS
  <2>1. g[k - 1] \in States
    BY <1>1
  <2>2. F[k][g[k - 1]] = Scan(g[k - 1], s[k])
    BY <2>1
  <2> HIDE DEF F
  <2> QED
    BY <1>3, <2>2
<1> HIDE DEF F
<1>5. g = [n \in 0..N |-> IF n = 0 THEN acc ELSE Scan(g[n - 1], s[n])]
  <2>1. \A n \in 0..N : g[n] = IF n = 0 THEN acc ELSE Scan(g[n - 1], s[n])
    BY <1>1, <1>3, <1>4
  <2>2. g = [n \in 0..N |-> g[n]]
    OBVIOUS
  <2> QED
    BY <2>1, <2>2
<1>6. Scans(acc, s) = [n \in 0..Len(s) |->
                         IF n = 0 THEN acc ELSE Scan(Scans(acc, s)[n - 1], s[n])]
  BY <1>5 DEF Scans
<1> DEFINE scan == Scans(acc, s)
<1>7. scan = [n \in 0..N |-> IF n = 0 THEN acc ELSE Scan(scan[n - 1], s[n])]
  BY <1>6
<1> HIDE DEF scan
<1>8. scan[0] = acc /\ \A n \in 1..N : scan[n] = Scan(scan[n - 1], s[n])
  BY <1>1, <1>7
<1> QED
  BY <1>8 DEF scan

LEMMA ScansStay ==
  ASSUME NEW acc \in States, NEW s \in Seq(Byte)
  PROVE  \A n \in 0..Len(s) : Scans(acc, s)[n] \in States
<1> DEFINE scan == Scans(acc, s)
           N == Len(s)
           P == {n \in 0..N : scan[n] \in States}
<1>1. N \in Nat /\ \A n \in 1..N : s[n] \in Byte
  OBVIOUS
<1>2. scan[0] = acc /\ \A n \in 1..N : scan[n] = Scan(scan[n - 1], s[n])
  BY ScansUnfold
<1> HIDE DEF scan, N
<1>3. 0 \in P
  BY <1>1, <1>2
<1>4. ASSUME NEW n \in 0..N, n \in P, n < N PROVE n + 1 \in P
  <2>1. n + 1 \in 1..N /\ n + 1 - 1 = n /\ n + 1 \in 0..N
    BY <1>1, <1>4
  <2>2. scan[n + 1] = Scan(scan[n], s[n + 1])
    BY <1>2, <2>1
  <2>3. scan[n + 1] \in States
    BY <1>1, <1>4, <2>1, <2>2, ScanStays
  <2> QED
    BY <2>1, <2>3
<1>5. \A n \in 0..N : n \in P
  <2> HIDE DEF P
  <2> QED
    BY <1>1, <1>3, <1>4, Climb
<1> QED
  BY <1>5 DEF scan, N

(* The scan of a beginning is the beginning of the scan. *)
LEMMA ScansBegin ==
  ASSUME NEW acc \in States, NEW s \in Seq(Byte), NEW t \in Seq(Byte)
  PROVE  Scanned(acc, s) = Scans(acc, s \o t)[Len(s)]
<1> DEFINE u == s \o t
           M == Len(s)
           N == Len(t)
           first == Scans(acc, s)
           whole == Scans(acc, u)
<1>1. /\ M \in Nat /\ N \in Nat /\ u \in Seq(Byte) /\ Len(u) = M + N
      /\ \A n \in 1..M : u[n] = s[n]
  OBVIOUS
<1>3. first[0] = acc /\ \A n \in 1..M : first[n] = Scan(first[n - 1], s[n])
  BY ScansUnfold
<1>4. whole[0] = acc /\ \A n \in 1..(M + N) : whole[n] = Scan(whole[n - 1], u[n])
  <2>1. u \in Seq(Byte) /\ Len(u) = M + N
    BY <1>1
  <2> HIDE DEF u, M, N
  <2>2. whole[0] = acc /\ \A n \in 1..Len(u) : whole[n] = Scan(whole[n - 1], u[n])
    BY <2>1, ScansUnfold
  <2> HIDE DEF whole
  <2> QED
    BY <2>1, <2>2
<1> HIDE DEF u, M, N, first, whole
<1>7. whole[M] = first[M]
  <2> DEFINE P == {n \in 0..M : whole[n] = first[n]}
  <2>1. 0 \in P
    BY <1>1, <1>3, <1>4
  <2>2. ASSUME NEW n \in 0..M, n \in P, n < M PROVE n + 1 \in P
    <3>1. n + 1 \in 1..M /\ n + 1 \in 1..(M + N) /\ n + 1 - 1 = n
      BY <1>1, <2>2
    <3>2. whole[n + 1] = Scan(whole[n], u[n + 1]) /\ first[n + 1] = Scan(first[n], s[n + 1])
      BY <1>3, <1>4, <3>1
    <3> QED
      BY <1>1, <2>2, <3>1, <3>2
  <2>3. \A n \in 0..M : n \in P
    <3> HIDE DEF P
    <3> QED
      BY <1>1, <2>1, <2>2, Climb
  <2>4. M \in 0..M
    BY <1>1
  <2> QED
    BY <2>3, <2>4
<1> QED
  BY <1>7 DEF Scanned, u, M, first, whole

(* Behind s, t is scanned as from the state s was left in. *)
LEMMA ScannedOn ==
  ASSUME NEW acc \in States, NEW s \in Seq(Byte), NEW t \in Seq(Byte)
  PROVE  Scanned(acc, s \o t) = Scanned(Scanned(acc, s), t)
<1> DEFINE u == s \o t
           M == Len(s)
           N == Len(t)
           mid == Scanned(acc, s)
           whole == Scans(acc, u)
           then == Scans(mid, t)
<1>1. /\ M \in Nat /\ N \in Nat /\ u \in Seq(Byte) /\ Len(u) = M + N
      /\ \A n \in 1..M : u[n] = s[n]
      /\ \A n \in 1..N : u[M + n] = t[n]
  OBVIOUS
<1>2. mid \in States
  <2>1. M \in 0..M
    BY <1>1
  <2> QED
    BY <2>1, ScansStay DEF Scanned
<1>4. whole[0] = acc /\ \A n \in 1..(M + N) : whole[n] = Scan(whole[n - 1], u[n])
  <2>1. u \in Seq(Byte) /\ Len(u) = M + N
    BY <1>1
  <2> HIDE DEF u, M, N
  <2>2. whole[0] = acc /\ \A n \in 1..Len(u) : whole[n] = Scan(whole[n - 1], u[n])
    BY <2>1, ScansUnfold
  <2> HIDE DEF whole
  <2> QED
    BY <2>1, <2>2
<1>5. then[0] = mid /\ \A n \in 1..N : then[n] = Scan(then[n - 1], t[n])
  BY <1>2, ScansUnfold
<1>6. Scanned(acc, u) = whole[M + N] /\ Scanned(mid, t) = then[N]
  BY <1>1 DEF Scanned
<1> HIDE DEF u, M, N, mid, whole, then
<1>7. whole[M] = mid
  BY ScansBegin DEF whole, mid, u, M
<1>8. whole[M + N] = then[N]
  <2> DEFINE P == {n \in 0..N : whole[M + n] = then[n]}
  <2>1. 0 \in P
    BY <1>1, <1>5, <1>6, <1>7
  <2>2. ASSUME NEW n \in 0..N, n \in P, n < N PROVE n + 1 \in P
    <3>1. n + 1 \in 1..N /\ M + (n + 1) \in 1..(M + N) /\ n + 1 - 1 = n
          /\ M + (n + 1) - 1 = M + n
      BY <1>1, <2>2
    <3>2. whole[M + (n + 1)] = Scan(whole[M + n], u[M + (n + 1)])
          /\ then[n + 1] = Scan(then[n], t[n + 1])
      <4>1. PICK q \in 1..(M + N) : q = M + (n + 1) /\ q - 1 = M + n
        BY <1>1, <3>1
      <4>2. whole[q] = Scan(whole[q - 1], u[q])
        BY <1>4
      <4>3. then[n + 1] = Scan(then[n + 1 - 1], t[n + 1])
        BY <1>5, <3>1
      <4> QED
        BY <3>1, <4>1, <4>2, <4>3
    <3>3. whole[M + (n + 1)] = then[n + 1]
      BY <1>1, <2>2, <3>1, <3>2
    <3> QED
      BY <3>1, <3>3
  <2>3. \A n \in 0..N : n \in P
    <3> HIDE DEF P
    <3> QED
      BY <1>1, <2>1, <2>2, Climb
  <2>4. N \in 0..N
    BY <1>1
  <2> QED
    BY <2>3, <2>4
<1>9. Scanned(acc, u) = Scanned(mid, t)
  BY <1>6, <1>8
<1> QED
  BY <1>9 DEF u, mid

-----------------------------------------------------------------------------
(***************************************************************************)
(* The escape sequences that strip_ansi recognizes.                        *)
(***************************************************************************)
Csi(s) ==
  /\ Len(s) >= 3 /\ s[1] = "esc" /\ s[2] = "["
  /\ \A k \in 3..(Len(s) - 1) : s[k] \in {"param", "intermediate"}
  /\ s[Len(s)] \in Finals

Osc(s) ==
  /\ Len(s) >= 3 /\ s[1] = "esc" /\ s[2] = "]"
  /\ \A k \in 3..(Len(s) - 1) : s[k] \notin {"bel", "esc"}
  /\ s[Len(s)] = "bel"

OscString(s) ==                \* ended by ESC \
  /\ Len(s) >= 4 /\ s[1] = "esc" /\ s[2] = "]"
  /\ \A k \in 3..(Len(s) - 2) : s[k] \notin {"bel", "esc"}
  /\ s[Len(s) - 1] = "esc" /\ s[Len(s)] = "\\"

Designator(s) ==
  /\ Len(s) >= 3 /\ s[1] = "esc"
  /\ \A k \in 2..(Len(s) - 1) : s[k] = "intermediate"
  /\ s[Len(s)] \in Finals \cup {"param"}

TwoBytes(s) ==
  Len(s) = 2 /\ s[1] = "esc" /\ s[2] \in {"\\", "param", "final"}

Escape(s) ==
  s \in Seq(Byte) /\ (Csi(s) \/ Osc(s) \/ OscString(s) \/ Designator(s) \/ TwoBytes(s))

CutShort(s) == s \in Seq(Byte) /\ \E rest \in Seq(Byte) : Escape(s \o rest)

(* A message whose escape sequences are whole, but for one that ends it.   *)
WholeSequences(m) ==
  /\ m \in Seq(Seq(Byte))
  /\ \A i \in 1..Len(m) :
       IsText(m[i]) \/ Escape(m[i]) \/ (i = Len(m) /\ CutShort(m[i]))

(* Within a sequence, up to its last bytes, the scan appends nothing. *)
LEMMA WithinSequence ==
  ASSUME NEW s \in Seq(Byte), NEW o \in Seq(Byte), NEW mode \in Modes,
         NEW n \in 2..Len(s), s[1] = "esc",
         Scan(At("esc", o), s[2]) = At(mode, o),
         \A k \in 3..n : Scan(At(mode, o), s[k]) = At(mode, o)
  PROVE  /\ Scans(At("text", o), s)[0] = At("text", o)
         /\ Scans(At("text", o), s)[1] = At("esc", o)
         /\ \A k \in 2..n : Scans(At("text", o), s)[k] = At(mode, o)
<1> DEFINE scan == Scans(At("text", o), s)
           P == {k \in 0..(n - 2) : scan[k + 2] = At(mode, o)}
<1>1. At("text", o) \in States /\ s[1] \in Byte /\ Len(s) \in Nat
  <2>1. At("text", o) \in States
    BY DEF At, States, Modes
  <2>2. Len(s) \in Nat /\ 1 \in 1..Len(s)
    OBVIOUS
  <2> QED
    BY <2>1, <2>2
<1>2. scan[0] = At("text", o) /\ \A k \in 1..Len(s) : scan[k] = Scan(scan[k - 1], s[k])
  BY <1>1, ScansUnfold
<1> HIDE DEF scan
<1>3. scan[1] = At("esc", o)
  <2>1. scan[1] = Scan(At("text", o), s[1])
    <3>1. 1 \in 1..Len(s) /\ 1 - 1 = 0
      BY <1>1
    <3> QED
      BY <1>2, <3>1
  <2> QED
    BY <1>1, <2>1, ScanAt
<1>4. scan[2] = At(mode, o)
  <2>1. scan[2] = Scan(scan[1], s[2])
    <3>1. 2 \in 1..Len(s) /\ 2 - 1 = 1
      BY <1>1
    <3> QED
      BY <1>2, <3>1
  <2> QED
    BY <1>3, <2>1
<1>5. \A k \in 0..(n - 2) : k \in P
  <2>1. n - 2 \in Nat /\ 0 \in P
    BY <1>4
  <2>2. ASSUME NEW k \in 0..(n - 2), k \in P, k < n - 2 PROVE k + 1 \in P
    <3>1. k + 3 \in 3..n /\ k + 3 \in 1..Len(s) /\ k + 3 - 1 = k + 2 /\ k + 1 + 2 = k + 3
          /\ k + 1 \in 0..(n - 2)
      BY <2>2
    <3>2. scan[k + 3] = Scan(scan[k + 3 - 1], s[k + 3])
      BY <1>2, <3>1
    <3>3. scan[k + 3] = At(mode, o)
      BY <2>2, <3>1, <3>2
    <3> QED
      BY <3>1, <3>3
  <2> HIDE DEF P
  <2> QED
    BY <2>1, <2>2, Climb
<1>6. ASSUME NEW k \in 2..n PROVE scan[k] = At(mode, o)
  <2>1. k - 2 \in 0..(n - 2) /\ k - 2 + 2 = k
    OBVIOUS
  <2> QED
    BY <1>5, <2>1
<1> QED
  BY <1>2, <1>3, <1>6 DEF scan

(* A whole sequence is taken out, and of one that is cut short nothing is  *)
(* left either.                                                            *)
LEMMA EscapeScanned ==
  ASSUME NEW s, Escape(s), NEW o \in Seq(Byte)
  PROVE  /\ Scanned(At("text", o), s) = At("text", o)
         /\ \A k \in 0..Len(s) : Scans(At("text", o), s)[k].out = o
<1> DEFINE scan == Scans(At("text", o), s)
           N == Len(s)
<1>1. At("text", o) \in States /\ s \in Seq(Byte) /\ N \in Nat /\ \A k \in 1..N : s[k] \in Byte
  BY DEF At, States, Modes, Escape
<1>2. \A k \in 1..N : scan[k] = Scan(scan[k - 1], s[k])
  BY <1>1, ScansUnfold
<1>3. \A mode \in Modes : At(mode, o).out = o
  BY DEF At
<1>4. Modes = {"text", "esc", "csi", "osc", "osc esc", "intermediate"}
  BY DEF Modes
<1>5. SUFFICES scan[N] = At("text", o) /\ \A k \in 0..N : \E mode \in Modes : scan[k] = At(mode, o)
  BY <1>3 DEF Scanned
<1> HIDE DEF scan
<1>6. ASSUME NEW mode \in Modes, N >= 3, s[1] = "esc",
             Scan(At("esc", o), s[2]) = At(mode, o),
             \A k \in 3..(N - 1) : Scan(At(mode, o), s[k]) = At(mode, o),
             Scan(At(mode, o), s[N]) = At("text", o)
      PROVE  scan[N] = At("text", o) /\ \A k \in 0..N : \E m \in Modes : scan[k] = At(m, o)
  <2>1. N - 1 \in 2..N
    BY <1>1, <1>6
  <2>2. /\ scan[0] = At("text", o) /\ scan[1] = At("esc", o)
        /\ \A k \in 2..(N - 1) : scan[k] = At(mode, o)
    BY <1>1, <1>6, <2>1, WithinSequence DEF scan
  <2>3. scan[N] = At("text", o)
    <3>1. N \in 1..N /\ N - 1 \in 2..(N - 1)
      BY <1>1, <2>1
    <3> QED
      BY <1>2, <1>6, <2>2, <3>1
  <2>4. \A k \in 0..N : k = 0 \/ k = 1 \/ k = N \/ k \in 2..(N - 1)
    BY <1>1
  <2> QED
    BY <1>4, <2>2, <2>3, <2>4
<1>7. CASE Csi(s)
  <2> USE <1>7 DEF Csi
  <2>1. /\ s[1] \in Byte /\ s[2] \in Byte /\ s[N] \in Byte
        /\ \A k \in 3..(N - 1) : s[k] \in Byte
    BY <1>1
  <2>2. Scan(At("esc", o), s[2]) = At("csi", o)
    BY <2>1, ScanAt
  <2>3. \A k \in 3..(N - 1) : Scan(At("csi", o), s[k]) = At("csi", o)
    BY <2>1, ScanAt
  <2>4. Scan(At("csi", o), s[N]) = At("text", o)
    BY <2>1, ScanAt
  <2> QED
    BY <1>4, <1>6, <2>2, <2>3, <2>4
<1>8. CASE Osc(s)
  <2> USE <1>8 DEF Osc
  <2>1. /\ s[1] \in Byte /\ s[2] \in Byte /\ s[N] \in Byte
        /\ \A k \in 3..(N - 1) : s[k] \in Byte
    BY <1>1
  <2>2. Scan(At("esc", o), s[2]) = At("osc", o)
    BY <2>1, ScanAt
  <2>3. \A k \in 3..(N - 1) : Scan(At("osc", o), s[k]) = At("osc", o)
    BY <2>1, ScanAt
  <2>4. Scan(At("osc", o), s[N]) = At("text", o)
    BY <2>1, ScanAt
  <2> QED
    BY <1>4, <1>6, <2>2, <2>3, <2>4
<1>9. CASE Designator(s)
  <2> USE <1>9 DEF Designator
  <2>1. /\ s[1] \in Byte /\ s[2] \in Byte /\ s[N] \in Byte /\ 2 \in 2..(N - 1)
        /\ \A k \in 3..(N - 1) : s[k] \in Byte /\ k \in 2..(N - 1)
    BY <1>1
  <2>2. Scan(At("esc", o), s[2]) = At("intermediate", o)
    BY <2>1, ScanAt
  <2>3. \A k \in 3..(N - 1) : Scan(At("intermediate", o), s[k]) = At("intermediate", o)
    BY <2>1, ScanAt
  <2>4. Scan(At("intermediate", o), s[N]) = At("text", o)
    BY <2>1, ScanAt
  <2> QED
    BY <1>4, <1>6, <2>2, <2>3, <2>4
<1>10. CASE TwoBytes(s)
  <2> USE <1>10 DEF TwoBytes
  <2>1. s[1] \in Byte /\ s[2] \in Byte
    BY <1>1
  <2>2. Scan(At("esc", o), s[2]) = At("text", o)
    BY <2>1, ScanAt
  <2>3. /\ scan[0] = At("text", o) /\ scan[1] = At("esc", o)
        /\ \A k \in 2..2 : scan[k] = At("text", o)
    <3>1. 2 \in 2..N /\ "text" \in Modes
      <4>1. N = 2
        OBVIOUS
      <4>2. "text" \in Modes
        BY DEF Modes
      <4>3. 2 \in 2..2
        OBVIOUS
      <4> HIDE DEF N
      <4> QED
        BY <4>1, <4>2, <4>3, Zenon
    <3>2. \A k \in 3..2 : Scan(At("text", o), s[k]) = At("text", o)
      OBVIOUS
    <3> QED
      BY <1>1, <2>2, <3>1, <3>2, WithinSequence DEF scan
  <2>4. N = 2 /\ 2 \in 2..2 /\ \A k \in 0..N : k = 0 \/ k = 1 \/ k = 2
    OBVIOUS
  <2> HIDE DEF N
  <2> QED
    BY <1>4, <2>3, <2>4
<1>11. CASE OscString(s)
  <2> USE <1>11 DEF OscString
  <2>1. /\ s[1] \in Byte /\ s[2] \in Byte /\ s[N - 1] \in Byte /\ s[N] \in Byte
        /\ \A k \in 3..(N - 2) : s[k] \in Byte
        /\ N - 2 \in 2..N
    BY <1>1
  <2>2. Scan(At("esc", o), s[2]) = At("osc", o)
    BY <2>1, ScanAt
  <2>3. \A k \in 3..(N - 2) : Scan(At("osc", o), s[k]) = At("osc", o)
    BY <2>1, ScanAt
  <2>4. Scan(At("osc", o), s[N - 1]) = At("osc esc", o) /\ Scan(At("osc esc", o), s[N]) = At("text", o)
    BY <2>1, ScanAt
  <2>5. /\ scan[0] = At("text", o) /\ scan[1] = At("esc", o)
        /\ \A k \in 2..(N - 2) : scan[k] = At("osc", o)
    BY <1>1, <1>4, <2>1, <2>2, <2>3, WithinSequence DEF scan
  <2>6. scan[N - 1] = At("osc esc", o)
    <3>1. N - 1 \in 1..N /\ N - 1 - 1 = N - 2 /\ N - 2 \in 2..(N - 2)
      BY <1>1
    <3> QED
      BY <1>2, <2>4, <2>5, <3>1
  <2>7. scan[N] = At("text", o)
    <3>1. N \in 1..N
      BY <1>1
    <3> QED
      BY <1>2, <2>4, <2>6, <3>1
  <2>8. \A k \in 0..N : k = 0 \/ k = 1 \/ k = N \/ k = N - 1 \/ k \in 2..(N - 2)
    BY <1>1
  <2> QED
    BY <1>4, <2>5, <2>6, <2>7, <2>8
<1> QED
  BY <1>7, <1>8, <1>9, <1>10, <1>11 DEF Escape

LEMMA CutShortScanned ==
  ASSUME NEW s, CutShort(s), NEW o \in Seq(Byte)
  PROVE  Scanned(At("text", o), s).out = o
<1>1. PICK rest \in Seq(Byte) : Escape(s \o rest)
  BY DEF CutShort
<1>2. s \in Seq(Byte) /\ At("text", o) \in States
  BY DEF CutShort, At, States, Modes
<1>3. Len(s) \in 0..Len(s \o rest)
  BY <1>2
<1>4. Scanned(At("text", o), s) = Scans(At("text", o), s \o rest)[Len(s)]
  BY <1>2, ScansBegin
<1> DEFINE u == s \o rest
<1>5. Escape(u) /\ Len(s) \in 0..Len(u) /\ Scanned(At("text", o), s) = Scans(At("text", o), u)[Len(s)]
  BY <1>1, <1>3, <1>4
<1> HIDE DEF u
<1> QED
  BY <1>5, EscapeScanned

(* Text is copied. *)
LEMMA TextScanned ==
  ASSUME NEW s \in Seq(Byte), IsText(s), NEW o \in Seq(Byte)
  PROVE  Scanned(At("text", o), s) = At("text", o \o s)
<1> DEFINE scan == Scans(At("text", o), s)
           M == Len(o)
           N == Len(s)
           Holds(n, p) ==
             /\ p \in Seq(Byte) /\ Len(p) = M + n
             /\ \A k \in 1..M : p[k] = o[k]
             /\ \A k \in 1..n : p[M + k] = s[k]
           P == {n \in 0..N : \E p : Holds(n, p) /\ scan[n] = At("text", p)}
<1>1. /\ M \in Nat /\ N \in Nat
      /\ \A k \in 1..N : s[k] \in Byte /\ s[k] # "esc"
  <2>1. M \in Nat /\ N \in Nat /\ \A k \in 1..N : s[k] \in Byte
    OBVIOUS
  <2>2. \A k \in 1..N : s[k] \in ToSet(s)
    BY DEF ToSet
  <2> QED
    BY <2>1, <2>2 DEF IsText
<1>2. scan[0] = At("text", o) /\ \A n \in 1..N : scan[n] = Scan(scan[n - 1], s[n])
  <2>1. At("text", o) \in States
    BY DEF At, States, Modes
  <2> QED
    BY <2>1, ScansUnfold
<1> HIDE DEF scan
<1>3. 0 \in P
  <2>1. Holds(0, o)
    BY <1>1
  <2> HIDE DEF Holds
  <2> QED
    BY <1>1, <1>2, <2>1
<1>4. ASSUME NEW n \in 0..N, n \in P, n < N PROVE n + 1 \in P
  <2>1. PICK p : Holds(n, p) /\ scan[n] = At("text", p)
    BY <1>4
  <2> DEFINE q == Append(p, s[n + 1])
  <2>2. n + 1 \in 0..N /\ n + 1 \in 1..N /\ n + 1 - 1 = n /\ s[n + 1] \in Byte /\ s[n + 1] # "esc"
    BY <1>1, <1>4
  <2>3. p \in Seq(Byte)
    BY <2>1
  <2>4. scan[n + 1] = At("text", q)
    <3>1. scan[n + 1] = Scan(scan[n], s[n + 1])
      BY <1>2, <2>2
    <3>2. Scan(At("text", p), s[n + 1]) = At("text", q)
      BY <2>2, <2>3, ScanAt
    <3> QED
      BY <2>1, <3>1, <3>2
  <2>5. Holds(n + 1, q)
    <3>1. /\ q \in Seq(Byte) /\ Len(q) = Len(p) + 1 /\ q[Len(p) + 1] = s[n + 1]
          /\ \A k \in 1..Len(p) : q[k] = p[k]
      BY <2>2, <2>3
    <3>2. Len(p) = M + n /\ (\A k \in 1..M : p[k] = o[k]) /\ \A k \in 1..n : p[M + k] = s[k]
      BY <2>1
    <3> HIDE DEF q, M, N
    <3>3. Len(q) = M + (n + 1) /\ \A k \in 1..M : q[k] = o[k]
      BY <1>1, <3>1, <3>2
    <3>4. ASSUME NEW k \in 1..(n + 1) PROVE q[M + k] = s[k]
      <4>1. CASE k = n + 1
        <5>1. M + k = Len(p) + 1
          BY <1>1, <3>2, <4>1
        <5> QED
          BY <3>1, <4>1, <5>1
      <4>2. CASE k # n + 1
        <5>1. k \in 1..n /\ M + k \in 1..Len(p)
          BY <1>1, <3>2, <4>2
        <5> QED
          BY <3>1, <3>2, <5>1
      <4> QED
        BY <4>1, <4>2
    <3> QED
      BY <3>1, <3>3, <3>4
  <2> HIDE DEF Holds, q
  <2> QED
    BY <2>2, <2>4, <2>5
<1>5. \A n \in 0..N : n \in P
  <2> HIDE DEF P
  <2> QED
    BY <1>1, <1>3, <1>4, Climb
<1>6. PICK p : Holds(N, p) /\ scan[N] = At("text", p)
  <2>1. N \in 0..N
    BY <1>1
  <2> HIDE DEF Holds
  <2> QED
    BY <1>5, <2>1
<1>7. p = o \o s
  <2>1. /\ o \o s \in Seq(Byte) /\ Len(o \o s) = M + N
        /\ \A k \in 1..M : (o \o s)[k] = o[k]
        /\ \A k \in 1..N : (o \o s)[M + k] = s[k]
    OBVIOUS
  <2>2. /\ p \in Seq(Byte) /\ Len(p) = M + N
        /\ \A k \in 1..M : p[k] = o[k]
        /\ \A k \in 1..N : p[M + k] = s[k]
    BY <1>6
  <2> DEFINE u == o \o s
  <2>3. /\ u \in Seq(Byte) /\ Len(u) = M + N
        /\ \A k \in 1..M : u[k] = o[k]
        /\ \A k \in 1..N : u[M + k] = s[k]
    BY <2>1
  <2> HIDE DEF u, M, N
  <2>4. ASSUME NEW k \in 1..(M + N) PROVE p[k] = u[k]
    <3>1. CASE k <= M
      <4>1. k \in 1..M
        BY <1>1, <3>1
      <4> QED
        BY <2>2, <2>3, <4>1
    <3>2. CASE ~(k <= M)
      <4>1. k - M \in 1..N /\ M + (k - M) = k
        BY <1>1, <3>2
      <4> QED
        BY <2>2, <2>3, <4>1
    <3> QED
      BY <3>1, <3>2
  <2>5. p = u
    BY <2>2, <2>3, <2>4, SeqEqual
  <2> QED
    BY <2>5 DEF u
<1> QED
  BY <1>6, <1>7 DEF scan, Scanned

(* FlattenSeq, a part at a time. *)
Joins(m) ==
  CHOOSE join : join = [i \in 1..Len(m) |->
                          IF i = 1 THEN m[i] ELSE join[i - 1] \o m[i]]

LEMMA JoinsUnfold ==
  ASSUME NEW m \in Seq(Seq(Byte)), Len(m) # 0
  PROVE  /\ FlattenSeq(m) = Joins(m)[Len(m)]
         /\ Joins(m)[1] = m[1]
         /\ \A i \in 1..Len(m) : Joins(m)[i] \in Seq(Byte)
         /\ \A i \in 2..Len(m) : Joins(m)[i] = Joins(m)[i - 1] \o m[i]
<1> DEFINE S == Seq(Byte)
           N == Len(m)
           F == [k \in 1..(N - 1) |-> [a \in S |-> a \o m[k + 1]]]
<1>1. N \in Nat /\ N # 0 /\ N - 1 \in Nat /\ \A i \in 1..N : m[i] \in S
  OBVIOUS
<1>2. F \in [1..(N - 1) -> [S -> S]]
  <2>1. \A k \in 1..(N - 1) : k + 1 \in 1..N
    BY <1>1
  <2>2. \A k \in 1..(N - 1) : \A a \in S : a \o m[k + 1] \in S
    BY <1>1, <2>1
  <2> HIDE DEF S, N
  <2> QED
    BY <2>2
<1>3. PICK g : Runs(g, S, N - 1, m[1], F)
  <2>1. m[1] \in S /\ N - 1 \in Nat
    BY <1>1
  <2> HIDE DEF S, N, F
  <2> QED
    BY <1>2, <2>1, Recursion, Zenon
<1>4. /\ g \in [0..(N - 1) -> S] /\ g[0] = m[1]
      /\ \A k \in 1..(N - 1) : g[k] = g[k - 1] \o m[k + 1]
  <2>1. g \in [0..(N - 1) -> S] /\ g[0] = m[1] /\ \A k \in 1..(N - 1) : g[k] = F[k][g[k - 1]]
    <3> HIDE DEF S, N, F
    <3> QED
      BY <1>3 DEF Runs
  <2>2. ASSUME NEW k \in 1..(N - 1) PROVE g[k] = g[k - 1] \o m[k + 1]
    <3>1. k - 1 \in 0..(N - 1) /\ g[k - 1] \in S
      <4> HIDE DEF S, N, F
      <4> QED
        BY <1>1, <2>1
    <3>2. F[k][g[k - 1]] = g[k - 1] \o m[k + 1]
      <4> HIDE DEF S, N
      <4> QED
        BY <3>1
    <3> HIDE DEF F
    <3> QED
      BY <2>1, <3>2
  <2> HIDE DEF F
  <2> QED
    BY <2>1, <2>2
<1> HIDE DEF F, S
<1> DEFINE h == [i \in 1..N |-> g[i - 1]]
<1>5. h = [i \in 1..N |-> IF i = 1 THEN m[i] ELSE h[i - 1] \o m[i]]
  <2>1. ASSUME NEW i \in 1..N
        PROVE  h[i] = IF i = 1 THEN m[i] ELSE h[i - 1] \o m[i]
    <3>1. CASE i = 1
      <4>1. h[i] = g[0]
        BY <1>1, <3>1
      <4> QED
        BY <1>4, <3>1, <4>1
    <3>2. CASE i # 1
      <4>1. /\ i - 1 \in 1..(N - 1) /\ i - 1 \in 1..N /\ i - 1 + 1 = i
            /\ h[i] = g[i - 1] /\ h[i - 1] = g[i - 1 - 1]
        BY <1>1, <3>2
      <4>2. g[i - 1] = g[i - 1 - 1] \o m[i - 1 + 1]
        BY <1>4, <4>1
      <4> HIDE DEF h
      <4> QED
        BY <3>2, <4>1, <4>2
    <3> QED
      BY <3>1, <3>2
  <2>2. h = [i \in 1..N |-> h[i]]
    OBVIOUS
  <2> HIDE DEF h
  <2> QED
    BY <2>1, <2>2
<1> HIDE DEF h
<1> DEFINE join == Joins(m)
<1>6. join = [i \in 1..N |-> IF i = 1 THEN m[i] ELSE join[i - 1] \o m[i]]
  BY <1>5 DEF Joins
<1>7. FlattenSeq(m) = join[N]
  BY <1>1 DEF FlattenSeq, Joins
<1> HIDE DEF join
<1>8. join[1] = m[1] /\ \A i \in 2..N : join[i] = join[i - 1] \o m[i]
  <2>1. \A i \in 1..N : join[i] = IF i = 1 THEN m[i] ELSE join[i - 1] \o m[i]
    BY <1>6
  <2>2. 1 \in 1..N /\ \A i \in 2..N : i \in 1..N /\ i # 1
    BY <1>1
  <2> QED
    BY <2>1, <2>2
<1>9. \A i \in 1..N : join[i] \in S
  <2> DEFINE P == {k \in 0..(N - 1) : join[k + 1] \in S}
  <2>1. 0 \in P
    BY <1>1, <1>8
  <2>2. ASSUME NEW k \in 0..(N - 1), k \in P, k < N - 1 PROVE k + 1 \in P
    <3>1. k + 1 + 1 \in 2..N /\ k + 1 + 1 \in 1..N /\ k + 1 + 1 - 1 = k + 1 /\ k + 1 \in 0..(N - 1)
      BY <1>1, <2>2
    <3>2. join[k + 1 + 1] = join[k + 1] \o m[k + 1 + 1]
      <4>1. PICK q \in 2..N : q = k + 1 + 1 /\ q - 1 = k + 1
        BY <3>1
      <4>2. join[q] = join[q - 1] \o m[q]
        BY <1>8
      <4> QED
        BY <4>1, <4>2
    <3>3. join[k + 1] \in Seq(Byte) /\ m[k + 1 + 1] \in Seq(Byte)
      BY <1>1, <2>2, <3>1 DEF S
    <3>4. join[k + 1 + 1] \in S
      BY <3>2, <3>3 DEF S
    <3> QED
      BY <3>1, <3>4
  <2>3. \A k \in 0..(N - 1) : k \in P
    <3> HIDE DEF P
    <3> QED
      BY <1>1, <2>1, <2>2, Climb
  <2> SUFFICES ASSUME NEW i \in 1..N PROVE join[i] \in S
    OBVIOUS
  <2>4. i - 1 \in 0..(N - 1) /\ i - 1 + 1 = i
    BY <1>1
  <2> QED
    BY <2>3, <2>4
<1> QED
  BY <1>7, <1>8, <1>9 DEF S, N, join

LEMMA PartScanned ==
  ASSUME NEW part \in Seq(Byte), NEW o \in Seq(Byte),
         NEW kept, kept = IF IsText(part) THEN part ELSE <<>>
  PROVE  /\ IsText(part) \/ Escape(part) =>
              Scanned(At("text", o), part) = At("text", o \o kept)
         /\ CutShort(part) => Scanned(At("text", o), part).out = o \o kept
<1>1. o \o <<>> = o
  OBVIOUS
<1>2. CASE IsText(part)
  <2>1. Scanned(At("text", o), part) = At("text", o \o part)
    BY <1>2, TextScanned
  <2>2. At("text", o \o part).out = o \o part
    BY DEF At
  <2> QED
    BY <1>2, <2>1, <2>2
<1>3. CASE ~IsText(part)
  <2>1. Escape(part) => Scanned(At("text", o), part) = At("text", o)
    BY EscapeScanned
  <2>2. CutShort(part) => Scanned(At("text", o), part).out = o
    BY CutShortScanned
  <2> QED
    BY <1>1, <1>3, <2>1, <2>2
<1> QED
  BY <1>2, <1>3

(* Of a message of whole sequences its text is left. *)
LEMMA StripsSequences ==
  ASSUME NEW m, WholeSequences(m)
  PROVE  strip_ansi(FlattenSeq(m)) = TextOf(m)
<1> DEFINE N == Len(m)
           t == [i \in DOMAIN m |-> IF IsText(m[i]) THEN m[i] ELSE <<>>]
           join == Joins(m)
           kept == Joins(t)
           left(i) == Scanned(At("text", <<>>), join[i])
           P == {k \in 0..(N - 1) :
                   /\ left(k + 1).out = kept[k + 1]
                   /\ k + 1 < N => left(k + 1) = At("text", kept[k + 1])}
<1>1. /\ m \in Seq(Seq(Byte)) /\ N \in Nat
      /\ \A i \in 1..N : m[i] \in Seq(Byte)
      /\ \A i \in 1..N : IsText(m[i]) \/ Escape(m[i]) \/ (i = N /\ CutShort(m[i]))
  BY DEF WholeSequences
<1>2. /\ t \in Seq(Seq(Byte)) /\ Len(t) = N
      /\ \A i \in 1..N : t[i] = IF IsText(m[i]) THEN m[i] ELSE <<>>
  <2>1. <<>> \in Seq(Byte) /\ DOMAIN m = 1..N
    BY <1>1
  <2> DEFINE S == Seq(Byte)
  <2>2. t \in [1..N -> S]
    BY <1>1, <2>1
  <2>3. \A i \in 1..N : t[i] = IF IsText(m[i]) THEN m[i] ELSE <<>>
    BY <2>1
  <2>4. t \in Seq(S) /\ Len(t) = N
    <3> HIDE DEF S, t, N
    <3> QED
      BY <1>1, <2>2
  <2> QED
    BY <2>3, <2>4
<1>3. strip_ansi(FlattenSeq(m)) = Scanned(At("text", <<>>), FlattenSeq(m)).out
  BY DEF strip_ansi, Scanned, Scans, Text, At
<1>4. TextOf(m) = FlattenSeq(t)
  BY DEF TextOf
<1>5. At("text", <<>>) \in States /\ <<>> \in Seq(Byte)
  BY DEF At, States, Modes
<1> HIDE DEF t
<1>6. CASE N = 0
  <2>1. m = <<>> /\ t = <<>>
    BY <1>1, <1>2, <1>6
  <2>2. FlattenSeq(m) = <<>> /\ FlattenSeq(t) = <<>>
    BY <2>1 DEF FlattenSeq
  <2>3. IsText(<<>>) /\ <<>> \o <<>> = <<>>
    BY DEF IsText, ToSet
  <2>4. Scanned(At("text", <<>>), <<>>) = At("text", <<>>)
    BY <1>5, <2>3, TextScanned
  <2>5. At("text", <<>>).out = <<>>
    BY DEF At
  <2> QED
    BY <1>3, <1>4, <2>2, <2>4, <2>5
<1>7. CASE N # 0
  <2>1. /\ FlattenSeq(m) = join[N] /\ join[1] = m[1]
        /\ \A i \in 1..N : join[i] \in Seq(Byte)
        /\ \A i \in 2..N : join[i] = join[i - 1] \o m[i]
    BY <1>1, <1>7, JoinsUnfold
  <2>2. /\ FlattenSeq(t) = kept[N] /\ kept[1] = t[1]
        /\ \A i \in 1..N : kept[i] \in Seq(Byte)
        /\ \A i \in 2..N : kept[i] = kept[i - 1] \o t[i]
    <3>1. t \in Seq(Seq(Byte)) /\ Len(t) = N
      BY <1>2
    <3> HIDE DEF N
    <3> QED
      BY <1>7, <3>1, JoinsUnfold
  <2> HIDE DEF join, kept, N
  <2>3. ASSUME NEW i \in 1..N, NEW o \in Seq(Byte)
        PROVE  /\ Scanned(At("text", o), m[i]).out = o \o t[i]
               /\ i < N => Scanned(At("text", o), m[i]) = At("text", o \o t[i])
    <3>1. m[i] \in Seq(Byte) /\ t[i] = IF IsText(m[i]) THEN m[i] ELSE <<>>
      BY <1>1, <1>2
    <3>2. /\ IsText(m[i]) \/ Escape(m[i]) =>
               Scanned(At("text", o), m[i]) = At("text", o \o t[i])
          /\ CutShort(m[i]) => Scanned(At("text", o), m[i]).out = o \o t[i]
      BY <3>1, PartScanned
    <3>3. At("text", o \o t[i]).out = o \o t[i]
      BY DEF At
    <3>4. i < N => i # N
      BY <1>1
    <3> QED
      BY <1>1, <3>2, <3>3, <3>4
  <2>4. 0 \in P
    <3>1. 1 \in 1..N /\ 0 \in 0..(N - 1) /\ 0 + 1 = 1
      BY <1>1, <1>7
    <3>2. <<>> \o t[1] = t[1]
      BY <1>2, <3>1
    <3>3. /\ Scanned(At("text", <<>>), m[1]).out = t[1]
          /\ 1 < N => Scanned(At("text", <<>>), m[1]) = At("text", t[1])
      BY <1>5, <2>3, <3>1, <3>2
    <3> QED
      BY <2>1, <2>2, <3>1, <3>3
  <2>5. ASSUME NEW k \in 0..(N - 1), k \in P, k < N - 1 PROVE k + 1 \in P
    <3>1. PICK q \in 2..N : q = k + 1 + 1 /\ q - 1 = k + 1
      BY <1>1, <2>5
    <3>2. /\ q \in 1..N /\ k + 1 \in 1..N /\ k + 1 \in 0..(N - 1) /\ k + 1 < N
      BY <1>1, <2>5, <3>1
    <3>3. /\ join[q] = join[k + 1] \o m[q] /\ join[k + 1] \in Seq(Byte) /\ m[q] \in Seq(Byte)
          /\ kept[q] = kept[k + 1] \o t[q] /\ kept[k + 1] \in Seq(Byte)
      BY <1>1, <2>1, <2>2, <3>1, <3>2
    <3>4. left(k + 1) = At("text", kept[k + 1])
      BY <2>5, <3>2
    <3>5. left(q) = Scanned(At("text", kept[k + 1]), m[q])
      BY <1>5, <3>3, <3>4, ScannedOn
    <3>6. /\ left(q).out = kept[q]
          /\ q < N => left(q) = At("text", kept[q])
      BY <2>3, <3>2, <3>3, <3>5
    <3> HIDE DEF left
    <3> QED
      BY <3>1, <3>2, <3>6
  <2>6. \A k \in 0..(N - 1) : k \in P
    <3>1. N - 1 \in Nat
      BY <1>1, <1>7
    <3> HIDE DEF P
    <3> QED
      BY <2>4, <2>5, <3>1, Climb
  <2>7. left(N).out = kept[N]
    <3>1. N - 1 \in 0..(N - 1) /\ N - 1 + 1 = N
      BY <1>1, <1>7
    <3> HIDE DEF left
    <3> QED
      BY <2>6, <3>1
  <2> QED
    BY <1>3, <1>4, <2>1, <2>2, <2>7
<1> QED
  BY <1>6, <1>7

-----------------------------------------------------------------------------
(***************************************************************************)
(* What is left of a message is what the caller gets, and is UTF-8 if its  *)
(* text was.                                                               *)
(***************************************************************************)
WholeCharacters(m) == \A i \in 1..Len(m) : IsText(m[i]) => Utf8(m[i])

LEMMA CharactersJoin ==
  ASSUME NEW s \in Seq(Byte), NEW t \in Seq(Byte), Utf8(s), Utf8(t)
  PROVE  Utf8(s \o t)
<1> DEFINE u == s \o t
           M == Len(s)
           N == Len(t)
<1>1. /\ M \in Nat /\ N \in Nat /\ DOMAIN s = 1..M /\ DOMAIN t = 1..N
      /\ Len(u) = M + N /\ DOMAIN u = 1..(M + N)
      /\ \A k \in 1..M : u[k] = s[k]
      /\ \A k \in 1..N : u[M + k] = t[k]
  OBVIOUS
<1>2. \A i \in 1..M : /\ s[i] = "lead" => i < M /\ s[i + 1] = "cont"
                      /\ s[i] = "cont" => i > 1 /\ s[i - 1] = "lead"
  BY <1>1 DEF Utf8
<1>3. \A i \in 1..N : /\ t[i] = "lead" => i < N /\ t[i + 1] = "cont"
                      /\ t[i] = "cont" => i > 1 /\ t[i - 1] = "lead"
  BY <1>1 DEF Utf8
<1> HIDE DEF u, M, N
<1>4. ASSUME NEW i \in 1..(M + N)
      PROVE  /\ u[i] = "lead" => i < M + N /\ u[i + 1] = "cont"
             /\ u[i] = "cont" => i > 1 /\ u[i - 1] = "lead"
  <2>1. CASE i <= M
    <3>1. i \in 1..M /\ (i < M => i + 1 \in 1..M) /\ (i > 1 => i - 1 \in 1..M) /\ (i < M => i < M + N)
      BY <1>1, <2>1
    <3> QED
      BY <1>1, <1>2, <3>1
  <2>2. CASE ~(i <= M)
    <3> DEFINE k == i - M
    <3>1. /\ k \in 1..N /\ M + k = i /\ M + (k + 1) = i + 1 /\ M + (k - 1) = i - 1
          /\ (k < N => k + 1 \in 1..N /\ i < M + N)
          /\ (k > 1 => k - 1 \in 1..N /\ i > 1)
      BY <1>1, <2>2
    <3> HIDE DEF k
    <3>2. u[i] = t[k] /\ (k < N => u[i + 1] = t[k + 1]) /\ (k > 1 => u[i - 1] = t[k - 1])
      <4>1. u[M + k] = t[k] /\ (k < N => u[M + (k + 1)] = t[k + 1]) /\ (k > 1 => u[M + (k - 1)] = t[k - 1])
        BY <1>1, <3>1
      <4> QED
        BY <3>1, <4>1
    <3> QED
      BY <1>3, <3>1, <3>2
  <2> QED
    BY <2>1, <2>2
<1>5. Utf8(u)
  BY <1>1, <1>4 DEF Utf8
<1> QED
  BY <1>5 DEF u

LEMMA TextIsUtf8 ==
  ASSUME NEW m \in Seq(Seq(Byte)), WholeCharacters(m)
  PROVE  Utf8(TextOf(m))
<1> DEFINE N == Len(m)
           t == [i \in DOMAIN m |-> IF IsText(m[i]) THEN m[i] ELSE <<>>]
           kept == Joins(t)
           P == {k \in 0..(N - 1) : Utf8(kept[k + 1])}
<1>1. Utf8(<<>>)
  BY DEF Utf8
<1>2. /\ t \in Seq(Seq(Byte)) /\ Len(t) = N
      /\ \A i \in 1..N : t[i] \in Seq(Byte) /\ Utf8(t[i])
  <2>1. <<>> \in Seq(Byte) /\ DOMAIN m = 1..N /\ N \in Nat /\ \A i \in 1..N : m[i] \in Seq(Byte)
    OBVIOUS
  <2> DEFINE S == Seq(Byte)
  <2>2. t \in [1..N -> S]
    BY <2>1
  <2>3. \A i \in 1..N : Utf8(t[i])
    BY <1>1, <2>1 DEF WholeCharacters
  <2>4. t \in Seq(S) /\ Len(t) = N
    <3> HIDE DEF S, t, N
    <3> QED
      BY <2>1, <2>2
  <2>5. \A i \in 1..N : t[i] \in S
    <3> HIDE DEF S, t, N
    <3> QED
      BY <2>2
  <2> QED
    BY <2>3, <2>4, <2>5
<1>3. TextOf(m) = FlattenSeq(t) /\ N \in Nat
  BY DEF TextOf
<1> HIDE DEF t
<1>4. CASE N = 0
  <2>1. t = <<>>
    BY <1>2, <1>4
  <2>2. FlattenSeq(t) = <<>>
    BY <2>1 DEF FlattenSeq
  <2> QED
    BY <1>1, <1>3, <2>2
<1>5. CASE N # 0
  <2>1. /\ FlattenSeq(t) = kept[N] /\ kept[1] = t[1]
        /\ \A i \in 1..N : kept[i] \in Seq(Byte)
        /\ \A i \in 2..N : kept[i] = kept[i - 1] \o t[i]
    <3>1. t \in Seq(Seq(Byte)) /\ Len(t) = N
      BY <1>2
    <3> HIDE DEF N
    <3> QED
      BY <1>5, <3>1, JoinsUnfold
  <2> HIDE DEF kept, N
  <2>2. 0 \in P
    <3>1. 1 \in 1..N /\ 0 \in 0..(N - 1) /\ 0 + 1 = 1
      BY <1>3, <1>5
    <3> QED
      BY <1>2, <2>1, <3>1
  <2>3. ASSUME NEW k \in 0..(N - 1), k \in P, k < N - 1 PROVE k + 1 \in P
    <3>1. PICK q \in 2..N : q = k + 1 + 1 /\ q - 1 = k + 1
      BY <1>3, <2>3
    <3>2. q \in 1..N /\ k + 1 \in 1..N /\ k + 1 \in 0..(N - 1)
      BY <1>3, <2>3, <3>1
    <3>3. kept[q] = kept[k + 1] \o t[q] /\ Utf8(kept[k + 1]) /\ Utf8(t[q])
          /\ kept[k + 1] \in Seq(Byte) /\ t[q] \in Seq(Byte)
      BY <1>2, <2>1, <2>3, <3>1, <3>2
    <3>4. Utf8(kept[q])
      BY <3>3, CharactersJoin
    <3> QED
      BY <3>1, <3>2, <3>4
  <2>4. \A k \in 0..(N - 1) : k \in P
    <3>1. N - 1 \in Nat
      BY <1>3, <1>5
    <3> HIDE DEF P
    <3> QED
      BY <2>2, <2>3, <3>1, Climb
  <2>5. Utf8(kept[N])
    <3>1. N - 1 \in 0..(N - 1) /\ N - 1 + 1 = N
      BY <1>3, <1>5
    <3> QED
      BY <2>4, <3>1
  <2> QED
    BY <1>3, <2>1, <2>5
<1> QED
  BY <1>4, <1>5

(* The exit of a fallback: what is said is the message without what        *)
(* strip_ansi takes out, and an abort is one of what is left.              *)
StripInv ==
  /\ place # "exited" => exit = Running
  /\ result.outcome \in Fallbacks /\ exit \in {0, 1} =>
       result.text = strip_ansi(FlattenSeq(message))
  /\ exit = 134 => ~Utf8(strip_ansi(FlattenSeq(message)))

LEMMA StripStep ==
  ASSUME ExitInv, StripInv, [ANext]_avars
  PROVE  StripInv'
<1>1. CASE \/ ChildWrites \/ ReadsFifo \/ WouldBlock \/ Resolves
           \/ Reads \/ ReadsNothing \/ GivesUp
  <2>1. exit' = exit /\ place # "exited"
    BY <1>1 DEF ChildWrites, ReadsFifo, WouldBlock, Resolves, Reads, ReadsNothing,
                GivesUp, exitVars
  <2>2. exit' = Running
    BY <2>1 DEF StripInv
  <2> QED
    BY <2>2 DEF StripInv, Running
<1>2. CASE HookWrites \/ Exited \/ UNCHANGED avars
  <2>1. exit' = exit /\ place' = place /\ result' = result /\ message' = message
    BY <1>2 DEF HookWrites, Exited, avars, vars, readVars, loopVars, exitVars
  <2> QED
    BY <2>1, Zenon DEF StripInv
<1>3. ASSUME NEW e \in SessionError, ExitError(e),
             e # "AssistantError" \/ result'.outcome \notin Fallbacks
      PROVE  StripInv'
  <2>1. /\ place' = "exited" /\ exit' \notin {0, 134}
        /\ exit' # 1 \/ result'.outcome \notin Fallbacks
    BY <1>3, ErrorExits
  <2> QED
    BY <2>1 DEF StripInv
<1>4. CASE OtherEnd \/ Unparsable \/ HomeGone
  BY <1>3, <1>4 DEF OtherEnd, Unparsable, HomeGone, SessionError
<1>5. CASE Emits
  <2>1. CASE result.outcome = "ok" /\ ExitSuccess
    <3>1. place' = "exited" /\ exit' \in {0, 2}
      BY <2>1, SuccessExits
    <3>2. result' = result
      BY <1>5 DEF Emits, vars, readVars
    <3>3. result'.outcome \notin Fallbacks
      BY <2>1, <3>2 DEF Fallbacks
    <3>4. place' = "exited" /\ exit' # 134
      BY <3>1
    <3> QED
      BY <3>3, <3>4, Zenon DEF StripInv
  <2>2. CASE result.outcome = "assistant error" /\ ExitError("AssistantError")
    <3>1. result' = result
      BY <1>5 DEF Emits, vars, readVars
    <3>2. result'.outcome \notin Fallbacks
      BY <2>2, <3>1 DEF Fallbacks
    <3> QED
      BY <1>3, <2>2, <3>2 DEF SessionError
  <2>3. CASE ExitError("Internal")
    BY <1>3, <2>3 DEF SessionError
  <2> QED
    BY <1>5, <2>1, <2>2, <2>3 DEF Emits
<1>6. CASE EmitsFallback
  <2> DEFINE text(m) == strip_ansi(FlattenSeq(m))
  <2>1. PICK m \in Messages :
          /\ message' = m
          /\ IF Utf8(text(m))
             THEN Reported /\ result' = [result EXCEPT !.text = text(m)]
             ELSE Leave(134, Said) /\ UNCHANGED result
    BY <1>6 DEF EmitsFallback
  <2>2. result = [outcome |-> result.outcome, text |-> result.text,
                  turns |-> result.turns, usage |-> result.usage]
    BY DEF ExitInv, BoundsInv
  <2>3. text(message)' = text(m)
    BY <2>1
  <2> HIDE DEF text
  <2>4. CASE Utf8(text(m))
    <3>1. place' = "exited" /\ exit' # 134
      <4>1. "AssistantError" \in SessionError
        BY DEF SessionError
      <4>2. ExitSuccess => place' = "exited" /\ exit' # 134
        BY SuccessExits
      <4>3. ExitError("AssistantError") => place' = "exited" /\ exit' # 134
        BY <4>1, ErrorExits
      <4> QED
        BY <2>1, <2>4, <4>2, <4>3 DEF Reported
    <3>2. result'.text = text(m)
      BY <2>1, <2>2, <2>4
    <3>3. StripInv'
      BY <2>3, <3>1, <3>2 DEF StripInv, text
    <3> QED
      BY <3>3
  <2>5. CASE ~Utf8(text(m))
    <3>1. place' = "exited" /\ exit' = 134
      BY <2>1, <2>5 DEF Leave
    <3> QED
      BY <2>3, <2>5, <3>1 DEF StripInv, text
  <2> QED
    BY <2>4, <2>5
<1> QED
  BY <1>1, <1>2, <1>4, <1>5, <1>6 DEF ANext

LEMMA StripInvariant == ASpec => []StripInv
<1>1. AInit => StripInv
  BY DEF AInit, StripInv, Running
<1>2. ExitInv /\ StripInv /\ [ANext]_avars => StripInv'
  BY StripStep
<1> QED
  BY <1>1, <1>2, ExitInvariant, PTL DEF ASpec

(* strip_ansi (EC-9): of any message made of text and whole escape         *)
(* sequences, one of which may be cut short at its end, the caller gets    *)
(* the text.                                                               *)
THEOREM StripTakesEscapesTheorem ==
  ASpec => [](WholeSequences(message) => StripTakesEscapes)
<1>1. StripInv => (WholeSequences(message) => StripTakesEscapes)
  <2> SUFFICES ASSUME StripInv, WholeSequences(message) PROVE StripTakesEscapes
    OBVIOUS
  <2>1. strip_ansi(FlattenSeq(message)) = TextOf(message)
    BY StripsSequences
  <2> QED
    BY <2>1 DEF StripInv, StripTakesEscapes
<1> QED
  BY <1>1, StripInvariant, PTL

(* And of such a message no turn is lost to the strip: the comment of      *)
(* strip_ansi is right where no ESC stands alone before a character of     *)
(* several bytes, which is where the run answer_strip refutes it.          *)
THEOREM StripKeepsUtf8Theorem ==
  ASpec => [](WholeSequences(message) /\ WholeCharacters(message) => StripKeepsUtf8)
<1>1. StripInv => (WholeSequences(message) /\ WholeCharacters(message) => StripKeepsUtf8)
  <2> SUFFICES ASSUME StripInv, WholeSequences(message), WholeCharacters(message)
               PROVE  StripKeepsUtf8
    OBVIOUS
  <2>1. strip_ansi(FlattenSeq(message)) = TextOf(message)
    BY StripsSequences
  <2>2. Utf8(TextOf(message))
    BY TextIsUtf8 DEF WholeSequences
  <2> QED
    BY <2>1, <2>2 DEF StripInv, StripKeepsUtf8
<1> QED
  BY <1>1, StripInvariant, PTL
=============================================================================
