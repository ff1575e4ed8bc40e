----------------------- MODULE TranscriptReaderProofs -----------------------
(***************************************************************************)
(* What a reader forwards and what it has forwarded once it drained, for   *)
(* any files and any number of lines, if the Stop payload names the file   *)
(* that the identity file named.  (Where it does not, the identity wins    *)
(* over it again: tail_loop polls it for ever.)                            *)
(*                                                                         *)
(* The session sends first the retarget, then the drain value, on two      *)
(* channels; the reader looks at them in that order, in a loop that a      *)
(* value may enter between the two looks.  AimedInv is why the order of    *)
(* sending suffices: from the retarget on the reader tails the file, opens *)
(* it, or has the retarget still to take.  LateInv: once draining, a look  *)
(* at the retarget has come after its sending.                             *)
(***************************************************************************)
EXTENDS TranscriptReader, TLAPS

SameFile == StopFile = Own

Draining == drain \/ draining

(* claude is killed with its transcript on disk before anything is sent.   *)
SentInv ==
  /\ size \in [Files -> Int]
  /\ Draining => session \in {"signalled", "dropped"}
  /\ session \in {"stopped", "retargeted", "signalled"} \/ Draining
       => size[StopFile] # Absent

(* Before the first file is open nothing is tailed and no drain value has
   been taken; every later open is of the session's own file.              *)
FirstInv ==
  /\ pc \in {"binding", "unbound"} \/ (pc = "opening" /\ target.why = "first")
       => path = NoFile /\ ~draining
  /\ pc = "opening" => target.why \in {"first", "retarget", "identity", "failed"}
  /\ pc = "opening" /\ target.why # "first" => target.file = StopFile

Aimed ==
  \/ retarget
  \/ pc = "opening" /\ target.file = StopFile
  \/ pc # "opening" /\ path = StopFile

AimedInv ==
  (session \in {"retargeted", "signalled"} \/ Draining) /\ ~sparse
    /\ (pc # "exited" \/ draining) => Aimed

LateInv ==
  draining /\ pc \in {"idle_identity", "idle_drain", "failed_drain", "exited"} => ~retarget

IInv == SameFile /\ SentInv /\ FirstInv /\ AimedInv /\ LateInv

LEMMA InitLemma == SameFile /\ Init => IInv
BY TranscriptReaderAssumption
   DEF Init, IInv, SentInv, FirstInv, AimedInv, LateInv, Draining, Aimed, Absent

(* Binding: a retarget outranks all, and the identity names the same file. *)
LEMMA BindLemma ==
  ASSUME IInv, BindRetarget \/ BindIdentity \/ BindFallback \/ BindNothing \/ Unbound
  PROVE  IInv'
<1> USE TranscriptReaderAssumption
        DEF IInv, SameFile, SentInv, FirstInv, AimedInv, LateInv, Draining, Aimed,
            sessionVars, driveVars, readerVars, Open
<1>1. CASE BindRetarget
  BY <1>1 DEF BindRetarget
<1>2. CASE BindIdentity
  BY <1>2 DEF BindIdentity
<1>3. CASE BindFallback
  <2>1. PICK f \in Files : target' = [file |-> f, why |-> "first"]
    BY <1>3 DEF BindFallback, Candidates
  <2> QED
    BY <1>3, <2>1 DEF BindFallback
<1>4. CASE BindNothing
  BY <1>4 DEF BindNothing
<1>5. CASE Unbound
  <2>1. CASE drain \/ disconnected
    BY <1>5, <2>1 DEF Unbound
  <2>2. CASE ~(drain \/ disconnected)
    BY <1>5, <2>2 DEF Unbound
  <2> QED
    BY <2>1, <2>2
<1> QED
  BY <1>1, <1>2, <1>3, <1>4, <1>5

(* Opening: what fails to open was never the session's own once killed.    *)
LEMMA OpenLemma ==
  ASSUME IInv, Opened \/ OpenFails
  PROVE  IInv'
<1> USE TranscriptReaderAssumption
        DEF IInv, SameFile, SentInv, FirstInv, AimedInv, LateInv, Draining, Aimed,
            sessionVars, driveVars, readerVars
<1>1. CASE Opened
  BY <1>1 DEF Opened
<1>2. CASE OpenFails
  <2>1. /\ pc = "opening" /\ size[target.file] = Absent /\ drain' = FALSE /\ pc' = GiveUp
        /\ UNCHANGED <<path, pos, target, draining, size, session, retarget, sparse>>
    BY <1>2 DEF OpenFails
  <2>2. ~Draining \/ target.why = "first"
    BY <2>1
  <2>3. ~draining
    BY <2>1, <2>2
  <2>4. CASE target.why = "first"
    BY <2>1, <2>3, <2>4 DEF GiveUp
  <2>5. CASE target.why # "first"
    BY <2>1, <2>3, <2>5 DEF GiveUp
  <2> QED
    BY <2>4, <2>5
<1> QED
  BY <1>1, <1>2

(* The tail.                                                               *)
LEMMA TailLemma ==
  ASSUME IInv, ReadLine \/ ReadFails \/ ReadNothing \/ TakeRetarget \/ NoRetarget
               \/ PollIdentity \/ SkipIdentity
  PROVE  IInv'
<1> USE TranscriptReaderAssumption
        DEF IInv, SameFile, SentInv, FirstInv, AimedInv, LateInv, Draining, Aimed,
            sessionVars, driveVars, readerVars, Open
<1>1. CASE ReadLine \/ ReadFails
  <2>1. /\ pc = "reading" /\ pc' \in {"reading", "failed"}
        /\ UNCHANGED <<path, target, draining, size, sessionVars, driveVars>>
    BY <1>1 DEF ReadLine, ReadFails, ReadTo, HasMore
  <2> QED
    BY <2>1
<1>3. CASE ReadNothing
  BY <1>3 DEF ReadNothing
<1>4. CASE TakeRetarget
  <2>1. CASE path = StopFile
    BY <1>4, <2>1 DEF TakeRetarget
  <2>2. CASE path # StopFile
    BY <1>4, <2>2 DEF TakeRetarget
  <2> QED
    BY <2>1, <2>2
<1>5. CASE NoRetarget
  BY <1>5 DEF NoRetarget
<1>6. CASE PollIdentity
  BY <1>6 DEF PollIdentity
<1>7. CASE SkipIdentity
  BY <1>7 DEF SkipIdentity
<1> QED
  BY <1>1, <1>3, <1>4, <1>5, <1>6, <1>7

(* The look at the drain channel: the value is taken once, and the reader
   goes round once more.                                                   *)
LEMMA DrainLemma ==
  ASSUME IInv, CheckDrain
  PROVE  IInv'
<1>1. /\ pc \in {"idle_drain", "failed_drain"}
      /\ UNCHANGED <<path, pos, target, size, session, retarget, sparse>>
  BY DEF CheckDrain, driveVars
<1>2. CASE draining
  <2>1. pc' = "exited" /\ draining' /\ (drain' => drain)
    BY <1>2, Zenon DEF CheckDrain
  <2> QED
    BY <1>1, <1>2, <2>1
    DEF IInv, SameFile, SentInv, FirstInv, AimedInv, LateInv, Draining, Aimed
<1>3. CASE ~draining /\ drain
  <2>1. pc' = "reading" /\ draining' /\ ~drain'
    BY <1>3, Zenon DEF CheckDrain
  <2> QED
    BY <1>1, <1>3, <2>1
    DEF IInv, SameFile, SentInv, FirstInv, AimedInv, LateInv, Draining, Aimed
<1>4. CASE ~draining /\ ~drain
  <2>1. pc' \in {"reading", "exited"} /\ ~draining' /\ ~drain'
    BY <1>4, Zenon DEF CheckDrain
  <2> QED
    BY <1>1, <1>4, <2>1
    DEF IInv, SameFile, SentInv, FirstInv, AimedInv, LateInv, Draining, Aimed
<1> QED
  BY <1>2, <1>3, <1>4

(* The session's half, and the files.                                      *)
LEMMA WorldLemma ==
  ASSUME IInv, Session \/ World \/ UNCHANGED vars
  PROVE  IInv'
<1> USE TranscriptReaderAssumption
        DEF IInv, SameFile, SentInv, FirstInv, AimedInv, LateInv, Draining, Aimed,
            sessionVars, driveVars, readerVars, SessionStep
<1>1. CASE Stop
  BY <1>1 DEF Stop
<1>2. CASE Retarget
  BY <1>2 DEF Retarget
<1>3. CASE SignalDrain
  BY <1>3 DEF SignalDrain
<1>4. CASE DropHandle
  BY <1>4 DEF DropHandle
<1>5. CASE GraceElapses \/ WriteIdentity
  BY <1>5 DEF GraceElapses, WriteIdentity
<1>6. ASSUME NEW f \in Files, Grow(f) PROVE IInv'
  <2>1. size' \in [Files -> Int] /\ \A g \in Files \ {f} : size'[g] = size[g]
    BY <1>6 DEF Grow
  <2>2. f = StopFile => session = "driving"
    BY <1>6 DEF Grow
  <2>3. UNCHANGED <<readerVars, sessionVars, driveVars>>
    BY <1>6 DEF Grow
  <2> QED
    BY <2>1, <2>2, <2>3
<1>7. CASE UNCHANGED vars
  BY <1>7 DEF vars
<1> QED
  BY <1>1, <1>2, <1>3, <1>4, <1>5, <1>6, <1>7 DEF Session, World
-----------------------------------------------------------------------------
(***************************************************************************)
(* Each event once.  A file is tailed from its snapshot offset each time   *)
(* it is opened, so what matters is that none is opened twice: the first   *)
(* binding may be of another file, and every later one is of the session's *)
(* own, which is left no more.                                             *)
(***************************************************************************)
Bound == ~(pc \in {"binding", "unbound"} \/ (pc = "opening" /\ target.why = "first"))

Records == [file : Files, from : Int, to : Int]

TailInv ==
  /\ Old \subseteq pre_existing
  /\ forwarded \in Seq(Records)
  /\ pos \in Int
  /\ pc = "opening" => target.file \in Files \ Old /\ path # target.file
  /\ path = NoFile => forwarded = <<>>
  /\ Bound /\ pc # "exited" => path # NoFile
  /\ path # NoFile => path \in Files \ Old /\ pos >= snapshot_offset(path)

OnceInv ==
  /\ \A i \in DOMAIN forwarded :
       /\ forwarded[i].file = Own => path = Own
       /\ forwarded[i].file = path => forwarded[i].to <= pos
  /\ pc = "opening" => \A i \in DOMAIN forwarded : forwarded[i].file # target.file

StreamInv == IInv /\ TailInv /\ OnceInv /\ ForwardedOnce

LEMMA InitStream == SameFile /\ Init => StreamInv
<1> SUFFICES ASSUME SameFile, Init PROVE StreamInv
  OBVIOUS
<1>1. IInv
  BY InitLemma
<1>2. pc = "binding" /\ path = NoFile /\ pos = 0 /\ forwarded = <<>> /\ Old \subseteq pre_existing
  BY DEF Init
<1> QED
  BY <1>1, <1>2 DEF StreamInv, TailInv, OnceInv, ForwardedOnce, Bound

(* What is forwarded stays, and so does its order.                         *)
LEMMA ForwardedStays ==
  ASSUME ForwardedOnce, UNCHANGED <<forwarded, pre_existing>>
  PROVE  ForwardedOnce'
BY DEF ForwardedOnce, snapshot_offset

(* A step that opens nothing and reads nothing.                            *)
LEMMA StreamFrame ==
  ASSUME StreamInv, IInv', UNCHANGED <<path, pos, forwarded, pre_existing>>,
         pc' = "opening" => pc = "opening" /\ UNCHANGED target,
         Bound' /\ pc' # "exited" => Bound /\ pc # "exited"
  PROVE  StreamInv'
BY ForwardedStays DEF StreamInv, TailInv, OnceInv, snapshot_offset

(* A step that goes to open a file none of whose records was forwarded.    *)
LEMMA GoesToOpen ==
  ASSUME StreamInv, IInv', UNCHANGED <<path, pos, forwarded, pre_existing>>,
         NEW f \in Files \ Old, NEW why, Open(f, why),
         path # f, path = NoFile \/ f = Own, why # "first" => path # NoFile
  PROVE  StreamInv'
<1>1. target'.file = f /\ pc' = "opening" /\ (Bound' => path # NoFile)
  BY DEF Open, Bound
<1>2. \A i \in DOMAIN forwarded : forwarded[i].file # f
  <2>1. CASE path = NoFile
    BY <2>1 DEF StreamInv, TailInv
  <2>2. CASE f = Own
    BY <2>2 DEF StreamInv, OnceInv
  <2> QED
    BY <2>1, <2>2
<1> QED
  BY <1>1, <1>2, ForwardedStays DEF StreamInv, TailInv, OnceInv, snapshot_offset

LEMMA ReadsOnce ==
  ASSUME StreamInv, IInv', ReadLine
  PROVE  StreamInv'
<1> DEFINE end == ReadEnd
           r == [file |-> path, from |-> pos, to |-> end]
<1>1. /\ pc = "reading" /\ pc' = pc /\ pos < size[path] /\ pos' = end
      /\ forwarded' = Append(forwarded, r)
      /\ UNCHANGED <<path, target, pre_existing>>
  BY DEF ReadLine, ReadTo, HasMore, driveVars
<1>2. path # NoFile
  BY <1>1 DEF StreamInv, TailInv, Bound
<1>3. path \in Files \ Old /\ pos \in Int /\ pos >= snapshot_offset(path)
      /\ size[path] \in Int
  BY <1>2 DEF StreamInv, TailInv, IInv, SentInv
<1>4. end \in Int /\ pos <= end
  BY <1>1, <1>3 DEF ReadEnd, LineEnd
<1> HIDE DEF end
<1>5. r \in Records /\ r.file = path /\ r.from = pos /\ r.to = end
  BY <1>3, <1>4 DEF Records
<1> HIDE DEF r
<1>6. /\ forwarded' \in Seq(Records)
      /\ Len(forwarded') = Len(forwarded) + 1
      /\ forwarded'[Len(forwarded) + 1] = r
      /\ \A i \in DOMAIN forwarded : forwarded'[i] = forwarded[i]
      /\ DOMAIN forwarded' = DOMAIN forwarded \cup {Len(forwarded) + 1}
      /\ \A i \in DOMAIN forwarded : i < Len(forwarded) + 1 /\ i \in Nat
  BY <1>1, <1>5 DEF StreamInv, TailInv
<1>7. TailInv'
  BY <1>1, <1>2, <1>3, <1>4, <1>6 DEF StreamInv, TailInv, snapshot_offset, Bound
<1>8. OnceInv'
  <2>1. ASSUME NEW i \in DOMAIN forwarded
        PROVE  /\ forwarded'[i].file = Own => path = Own
               /\ forwarded'[i].file = path => forwarded'[i].to <= end
    <3>1. forwarded[i] \in Records
      BY <2>1 DEF StreamInv, TailInv
    <3>2. forwarded[i].file = path => forwarded[i].to <= pos
      BY <2>1 DEF StreamInv, OnceInv
    <3>3. forwarded[i].file = Own => path = Own
      BY <2>1 DEF StreamInv, OnceInv
    <3>4. forwarded[i].to \in Int
      BY <3>1 DEF Records
    <3> QED
      BY <1>3, <1>4, <1>6, <3>2, <3>3, <3>4
  <2> QED
    BY <1>1, <1>4, <1>5, <1>6, <2>1 DEF OnceInv
<1>9. ForwardedOnce'
  BY <1>1, <1>3, <1>5, <1>6 DEF StreamInv, ForwardedOnce, OnceInv, snapshot_offset
<1> QED
  BY <1>7, <1>8, <1>9 DEF StreamInv

LEMMA BindStream ==
  ASSUME StreamInv, IInv',
         BindRetarget \/ BindIdentity \/ BindFallback \/ BindNothing \/ Unbound
  PROVE  StreamInv'
<1>1. pc \in {"binding", "unbound"}
  BY DEF BindRetarget, BindIdentity, BindFallback, BindNothing, Unbound
<1>2. path = NoFile /\ ~Bound /\ Own = StopFile /\ Own \in Files \ Old /\ path # Own
  BY <1>1, TranscriptReaderAssumption
  DEF StreamInv, IInv, FirstInv, SameFile, Bound
<1>3. UNCHANGED <<path, pos, forwarded, pre_existing>>
  BY DEF BindRetarget, BindIdentity, BindFallback, BindNothing, Unbound, driveVars
<1>4. CASE BindRetarget \/ BindIdentity
  <2>1. Open(Own, "first")
    BY <1>2, <1>4 DEF BindRetarget, BindIdentity
  <2> QED
    BY <1>2, <1>3, <2>1, GoesToOpen
<1>5. CASE BindFallback
  <2>1. PICK f \in Candidates : Open(f, "first")
    BY <1>5 DEF BindFallback
  <2>2. f \in Files \ Old /\ path # f
    BY <1>2, <2>1, TranscriptReaderAssumption DEF Candidates, StreamInv, TailInv
  <2> QED
    BY <1>2, <1>3, <2>1, <2>2, GoesToOpen
<1>6. CASE BindNothing
  <2>1. pc' = "unbound" /\ UNCHANGED target
    BY <1>6 DEF BindNothing
  <2> QED
    BY <1>3, <2>1, StreamFrame DEF Bound
<1>7. CASE Unbound
  <2>1. CASE Open(Own, "first")
    BY <1>2, <1>3, <2>1, GoesToOpen
  <2>2. CASE ~Open(Own, "first")
    <3>1. pc' \in {"exited", "binding"}
      BY <1>2, <1>7, <2>2 DEF Unbound
    <3> QED
      BY <1>3, <3>1, StreamFrame DEF Bound
  <2> QED
    BY <2>1, <2>2
<1> QED
  BY <1>4, <1>5, <1>6, <1>7

(* The file that opens is at its snapshot offset, and nothing of it was    *)
(* forwarded.                                                              *)
LEMMA OpenStream ==
  ASSUME StreamInv, IInv', Opened \/ OpenFails
  PROVE  StreamInv'
<1>1. CASE Opened
  <2>1. /\ pc = "opening" /\ pc' = "reading"
        /\ path' = target.file /\ pos' = snapshot_offset(target.file)
        /\ UNCHANGED <<forwarded, pre_existing>>
    BY <1>1 DEF Opened, driveVars
  <2>2. /\ target.file \in Files \ Old
        /\ \A i \in DOMAIN forwarded : forwarded[i].file # target.file
        /\ target.file # NoFile
    BY <2>1, TranscriptReaderAssumption DEF StreamInv, TailInv, OnceInv
  <2>3. pos' \in Int /\ pos' = IF path' \in pre_existing' THEN 2 ELSE 0
    BY <2>1 DEF snapshot_offset
  <2>4. TailInv'
    BY <2>1, <2>2, <2>3 DEF StreamInv, TailInv, snapshot_offset
  <2>5. OnceInv'
    <3>1. CASE path = NoFile
      BY <2>1, <2>2, <3>1 DEF StreamInv, TailInv, OnceInv
    <3>2. CASE path # NoFile
      <4>1. target.file = Own
        BY <2>1, <3>2 DEF StreamInv, IInv, FirstInv, SameFile
      <4> QED
        BY <2>1, <2>2, <4>1 DEF StreamInv, OnceInv
    <3> QED
      BY <3>1, <3>2
  <2> QED
    BY <2>1, <2>4, <2>5, ForwardedStays DEF StreamInv
<1>2. CASE OpenFails
  <2>1. /\ pc = "opening" /\ pc' = GiveUp
        /\ UNCHANGED <<path, pos, target, forwarded, pre_existing>>
    BY <1>2 DEF OpenFails, driveVars
  <2>2. pc' # "opening" /\ (pc' = "exited" \/ target.why # "first")
    BY <2>1 DEF GiveUp, StreamInv, IInv, FirstInv
  <2> QED
    BY <2>1, <2>2, StreamFrame DEF Bound
<1> QED
  BY <1>1, <1>2

LEMMA TailStream ==
  ASSUME StreamInv, IInv',
         ReadFails \/ ReadNothing \/ TakeRetarget \/ NoRetarget
         \/ PollIdentity \/ SkipIdentity \/ CheckDrain
  PROVE  StreamInv'
<1>1. pc \in {"reading", "idle", "failed", "idle_identity", "idle_drain", "failed_drain"}
  BY DEF ReadFails, ReadNothing, TakeRetarget, NoRetarget, PollIdentity, SkipIdentity,
         CheckDrain, HasMore
<1>2. Bound /\ pc # "exited" /\ pc # "opening" /\ path # NoFile
  BY <1>1 DEF Bound, StreamInv, TailInv
<1>3. Own = StopFile /\ Own \in Files \ Old
  BY TranscriptReaderAssumption DEF StreamInv, IInv, SameFile
<1>4. CASE ReadFails
  <2>1. /\ pos < size[path] /\ pos' = ReadEnd /\ pc' = "failed"
        /\ UNCHANGED <<path, target, forwarded, pre_existing>>
    BY <1>4 DEF ReadFails, ReadTo, HasMore, driveVars
  <2>2. /\ path \in Files \ Old /\ size[path] \in Int /\ pos \in Int
        /\ pos' \in Int /\ pos <= pos'
    <3>1. path \in Files \ Old /\ size[path] \in Int /\ pos \in Int
      BY <1>2 DEF StreamInv, TailInv, IInv, SentInv
    <3> QED
      BY <2>1, <3>1 DEF ReadEnd, LineEnd
  <2>3. TailInv'
    BY <1>2, <2>1, <2>2 DEF StreamInv, TailInv, snapshot_offset
  <2>4. \A i \in DOMAIN forwarded : forwarded[i].to \in Int
    <3>1. \A i \in DOMAIN forwarded : forwarded[i] \in Records
      BY DEF StreamInv, TailInv
    <3> QED
      BY <3>1 DEF Records
  <2>5. OnceInv'
    BY <2>1, <2>2, <2>4 DEF StreamInv, OnceInv
  <2> QED
    BY <2>1, <2>3, <2>5, ForwardedStays DEF StreamInv
<1>5. CASE ReadNothing \/ NoRetarget \/ SkipIdentity \/ CheckDrain
  <2>1. /\ UNCHANGED <<path, pos, forwarded, pre_existing>>
        /\ pc' # "opening"
    BY <1>5
    DEF ReadNothing, NoRetarget, SkipIdentity, CheckDrain, driveVars
  <2> QED
    BY <1>2, <2>1, StreamFrame
<1>6. CASE TakeRetarget \/ PollIdentity
  <2>1. UNCHANGED <<path, pos, forwarded, pre_existing>>
    BY <1>6 DEF TakeRetarget, PollIdentity, driveVars
  <2>2. CASE path = Own
    <3>1. pc' # "opening"
      BY <1>3, <1>6, <2>2 DEF TakeRetarget, PollIdentity
    <3> QED
      BY <1>2, <2>1, <3>1, StreamFrame
  <2>3. CASE path # Own
    <3>1. PICK why \in {"retarget", "failed", "identity"} : Open(Own, why)
      BY <1>3, <1>6, <2>3 DEF TakeRetarget, PollIdentity
    <3> QED
      BY <1>2, <1>3, <2>1, <2>3, <3>1, GoesToOpen
  <2> QED
    BY <2>2, <2>3
<1> QED
  BY <1>4, <1>5, <1>6

LEMMA WorldStream ==
  ASSUME StreamInv, IInv', Session \/ World \/ UNCHANGED vars
  PROVE  StreamInv'
<1>1. UNCHANGED <<pc, path, pos, target, forwarded, pre_existing>>
  <2>1. CASE Session
    BY <2>1 DEF Session, Stop, Retarget, SignalDrain, DropHandle, SessionStep, readerVars,
                driveVars
  <2>2. CASE World
    BY <2>2 DEF World, GraceElapses, WriteIdentity, Grow, readerVars, driveVars
  <2>3. CASE UNCHANGED vars
    BY <2>3 DEF vars, readerVars, driveVars
  <2> QED
    BY <2>1, <2>2, <2>3
<1> QED
  BY <1>1, StreamFrame DEF Bound

LEMMA StreamStep ==
  ASSUME StreamInv, [Next]_vars
  PROVE  StreamInv'
<1>1. IInv'
  BY BindLemma, OpenLemma, TailLemma, DrainLemma, WorldLemma
  DEF StreamInv, Next, Reader, Over
<1> QED
  BY <1>1, BindStream, OpenStream, ReadsOnce, TailStream, WorldStream
  DEF Next, Reader, Over

(* emitter.rs, snapshot_offset and rebind: however the reader comes to its *)
(* files, the stream has each record once, in order, from the snapshot on, *)
(* and none of a session that was going before.                            *)
THEOREM ForwardedOnceTheorem ==
  ASSUME StopFile = Own
  PROVE  Spec => []ForwardedOnce
<1>0. Init => StreamInv
  BY InitStream DEF SameFile
<1>1. StreamInv /\ [Next]_vars => StreamInv'
  BY StreamStep
<1>2. StreamInv => ForwardedOnce
  BY DEF StreamInv
<1> QED
  BY <1>0, <1>1, <1>2, PTL DEF Spec
-----------------------------------------------------------------------------
(***************************************************************************)
(* The drain.  What of the tailed file is behind the position was forwarded *)
(* or was taken by a read that failed; and once the reader has the drain   *)
(* value a read to the end, or one that failed, has come after the child   *)
(* was killed.                                                             *)
(***************************************************************************)
Behind == \A p \in snapshot_offset(path)..(pos - 1) : Carried(p) \/ p \in lost

AtEnd == pos = size[path] \/ pos - 1 \in lost

Looking ==
  pc \in {"idle", "idle_identity", "idle_drain", "failed", "failed_drain", "exited"}

WholeInv ==
  /\ StreamInv
  /\ path # NoFile => Behind
  /\ draining /\ path = StopFile /\ Looking => AtEnd

LEMMA InitWhole == SameFile /\ Init => WholeInv
BY InitStream DEF WholeInv, Init

(* A step that reads nothing: all it could do is to begin a look.          *)
LEMMA WholeFrame ==
  ASSUME WholeInv, StreamInv', UNCHANGED <<path, pos, lost, forwarded, pre_existing>>,
         draining' /\ path = StopFile /\ Looking' =>
           /\ size'[path] = size[path]
           /\ (draining /\ Looking) \/ pos = size[path]
  PROVE  WholeInv'
<1>1. path # NoFile => Behind'
  BY DEF WholeInv, Behind, Carried, snapshot_offset
<1> QED
  BY <1>1 DEF WholeInv, AtEnd

LEMMA ReadsWhole ==
  ASSUME WholeInv, StreamInv', ReadLine \/ ReadFails
  PROVE  WholeInv'
<1>1. /\ pc = "reading" /\ pos < size[path] /\ pos' = ReadEnd
      /\ UNCHANGED <<path, size, pre_existing>>
  BY DEF ReadLine, ReadFails, ReadTo, HasMore, driveVars
<1>2. path # NoFile /\ path \in Files /\ pos \in Int /\ size[path] \in Int
  <2>1. Bound
    BY <1>1 DEF Bound
  <2> QED
    BY <1>1, <2>1 DEF WholeInv, StreamInv, TailInv, IInv, SentInv
<1>3. ReadEnd \in Int /\ pos < ReadEnd
  BY <1>1, <1>2 DEF ReadEnd, LineEnd
<1>4. snapshot_offset(path)' = snapshot_offset(path) /\ snapshot_offset(path) \in Int
  BY <1>1 DEF snapshot_offset
<1>5. CASE ReadLine
  <2> DEFINE r == [file |-> path, from |-> pos, to |-> ReadEnd]
  <2>1. forwarded' = Append(forwarded, r) /\ pc' = pc /\ lost' = lost
    BY <1>5 DEF ReadLine
  <2>2. forwarded \in Seq(Records) /\ r \in Records
    BY <1>2, <1>3 DEF WholeInv, StreamInv, TailInv, Records
  <2>3. /\ \A i \in DOMAIN forwarded : i \in DOMAIN forwarded' /\ forwarded'[i] = forwarded[i]
        /\ Len(forwarded) + 1 \in DOMAIN forwarded'
        /\ forwarded'[Len(forwarded) + 1] = r
    <3> HIDE DEF r
    <3> QED
      BY <2>1, <2>2
  <2>4. ASSUME NEW p \in snapshot_offset(path)..(ReadEnd - 1)
        PROVE  Carried(p)' \/ p \in lost
    <3>1. CASE p <= pos - 1
      <4>1. Carried(p) \/ p \in lost
        BY <1>2, <1>4, <2>4, <3>1 DEF WholeInv, Behind
      <4> QED
        BY <1>1, <2>3, <4>1 DEF Carried
    <3>2. CASE p >= pos
      <4>1. p \in pos..(ReadEnd - 1)
        BY <1>2, <1>3, <1>4, <2>4, <3>2
      <4>2. /\ forwarded'[Len(forwarded) + 1].file = path'
            /\ p \in forwarded'[Len(forwarded) + 1].from..(forwarded'[Len(forwarded) + 1].to - 1)
        BY <1>1, <2>3, <4>1
      <4> QED
        BY <2>3, <4>2 DEF Carried
    <3> QED
      BY <1>2, <1>4, <2>4, <3>1, <3>2
  <2>5. Behind'
    BY <1>1, <1>4, <2>1, <2>4 DEF Behind
  <2>6. ~Looking'
    BY <1>1, <2>1 DEF Looking
  <2> QED
    BY <2>5, <2>6 DEF WholeInv
<1>6. CASE ReadFails
  <2>1. lost' = lost \cup (pos..(ReadEnd - 1)) /\ forwarded' = forwarded
    BY <1>6 DEF ReadFails
  <2>2. ASSUME NEW p \in snapshot_offset(path)..(ReadEnd - 1)
        PROVE  Carried(p)' \/ p \in lost'
    <3>1. CASE p <= pos - 1
      <4>1. Carried(p) \/ p \in lost
        BY <1>2, <1>4, <2>2, <3>1 DEF WholeInv, Behind
      <4> QED
        BY <1>1, <2>1, <4>1 DEF Carried
    <3>2. CASE p >= pos
      BY <1>2, <1>3, <1>4, <2>1, <2>2, <3>2
    <3> QED
      BY <1>2, <1>4, <2>2, <3>1, <3>2
  <2>3. Behind'
    BY <1>1, <1>4, <2>1, <2>2 DEF Behind
  <2>4. ReadEnd - 1 \in lost'
    BY <1>2, <1>3, <2>1
  <2> QED
    BY <1>1, <2>3, <2>4 DEF WholeInv, AtEnd
<1> QED
  BY <1>5, <1>6

LEMMA OpensWhole ==
  ASSUME WholeInv, StreamInv', Opened \/ OpenFails
  PROVE  WholeInv'
<1>1. CASE Opened
  <2>1. /\ pc' = "reading" /\ path' = target.file /\ pos' = snapshot_offset(target.file)
        /\ UNCHANGED pre_existing
    BY <1>1 DEF Opened, driveVars
  <2>2. snapshot_offset(path)' = pos' /\ pos' \in {0, 2}
    BY <2>1 DEF snapshot_offset
  <2>3. snapshot_offset(path)'..(pos' - 1) = {}
    <3>1. \A n \in {0, 2} : \A p \in n..(n - 1) : FALSE
      OBVIOUS
    <3> QED
      BY <2>2, <3>1
  <2>4. Behind'
    BY <2>3 DEF Behind
  <2> QED
    BY <2>1, <2>4 DEF WholeInv, Looking
<1>2. CASE OpenFails                (* never while draining: ours is there *)
  <2>1. /\ pc = "opening" /\ size[target.file] = Absent
        /\ UNCHANGED <<path, pos, lost, draining, forwarded, pre_existing>>
    BY <1>2 DEF OpenFails, driveVars
  <2>2. ~draining
    BY <2>1 DEF WholeInv, StreamInv, IInv, SentInv, FirstInv, Draining
  <2> QED
    BY <2>1, <2>2, WholeFrame
<1> QED
  BY <1>1, <1>2

LEMMA LooksWhole ==
  ASSUME WholeInv, StreamInv',
         \/ BindRetarget \/ BindIdentity \/ BindFallback \/ BindNothing \/ Unbound
         \/ ReadNothing \/ TakeRetarget \/ NoRetarget \/ PollIdentity \/ SkipIdentity
         \/ CheckDrain
  PROVE  WholeInv'
<1>1. UNCHANGED <<path, pos, lost, size, forwarded, pre_existing>>
  BY DEF BindRetarget, BindIdentity, BindFallback, BindNothing, Unbound, ReadNothing,
         TakeRetarget, NoRetarget, PollIdentity, SkipIdentity, CheckDrain, driveVars
<1>2. CASE BindRetarget \/ BindIdentity \/ BindFallback \/ BindNothing \/ Unbound
  <2>1. pc \in {"binding", "unbound"} /\ UNCHANGED draining
    BY <1>2 DEF BindRetarget, BindIdentity, BindFallback, BindNothing, Unbound
  <2>2. ~draining
    BY <2>1 DEF WholeInv, StreamInv, IInv, FirstInv
  <2> QED
    BY <1>1, <2>1, <2>2, WholeFrame
<1>3. CASE ReadNothing
  <2>1. pos = size[path]
    BY <1>3 DEF ReadNothing
  <2> QED
    BY <1>1, <2>1, WholeFrame
<1>4. CASE TakeRetarget \/ NoRetarget \/ PollIdentity \/ SkipIdentity
  <2>1. Looking /\ UNCHANGED draining
    BY <1>4 DEF TakeRetarget, NoRetarget, PollIdentity, SkipIdentity, Looking
  <2> QED
    BY <1>1, <2>1, WholeFrame
<1>5. CASE CheckDrain
  <2>1. Looking
    BY <1>5 DEF CheckDrain, Looking
  <2>2. draining \/ ~(draining' /\ Looking')
    <3>1. CASE ~draining /\ drain
      <4>1. pc' = "reading"
        BY <1>5, <3>1, Zenon DEF CheckDrain
      <4> QED
        BY <4>1 DEF Looking
    <3>2. CASE ~draining /\ ~drain
      <4>1. ~draining'
        BY <1>5, <3>2, Zenon DEF CheckDrain
      <4> QED
        BY <4>1
    <3> QED
      BY <3>1, <3>2
  <2> QED
    BY <1>1, <2>1, <2>2, WholeFrame
<1> QED
  BY <1>2, <1>3, <1>4, <1>5

(* Once the drain value is sent the session's own file grows no more.      *)
LEMMA WorldWhole ==
  ASSUME WholeInv, StreamInv', Session \/ World \/ UNCHANGED vars
  PROVE  WholeInv'
<1>1. UNCHANGED <<pc, path, pos, lost, draining, forwarded, pre_existing>>
  <2>1. CASE Session
    BY <2>1 DEF Session, Stop, Retarget, SignalDrain, DropHandle, SessionStep, readerVars,
                driveVars
  <2>2. CASE World
    BY <2>2 DEF World, GraceElapses, WriteIdentity, Grow, readerVars, driveVars
  <2>3. CASE UNCHANGED vars
    BY <2>3 DEF vars, readerVars, driveVars
  <2> QED
    BY <2>1, <2>2, <2>3
<1>2. draining => size'[StopFile] = size[StopFile]
  <2>1. ASSUME NEW f \in Files, Grow(f), draining PROVE size'[StopFile] = size[StopFile]
    <3>1. session \in {"signalled", "dropped"} /\ size \in [Files -> Int]
      BY <2>1 DEF WholeInv, StreamInv, IInv, SentInv, Draining
    <3>2. f # StopFile
      BY <2>1, <3>1 DEF Grow
    <3> QED
      BY <2>1, <3>1, <3>2, TranscriptReaderAssumption DEF Grow
  <2>2. (\E f \in Files : Grow(f)) \/ UNCHANGED size
    BY DEF Session, Stop, Retarget, SignalDrain, DropHandle, World, GraceElapses,
           WriteIdentity, vars
  <2> QED
    BY <2>1, <2>2
<1> QED
  BY <1>1, <1>2, WholeFrame DEF Looking

(* emitter.rs 962 and tail_loop: the retarget is sent before the drain value *)
(* and honoured before it, so the drained tail is the session's own; it is   *)
(* whole but for lines that were read torn within a character, and it ends   *)
(* early only at such a line.                                                *)
THEOREM DrainedTheorem ==
  ASSUME StopFile = Own
  PROVE  Spec => []DrainedWhole
<1>0. Init => WholeInv
  BY InitWhole DEF SameFile
<1>1. WholeInv /\ [Next]_vars => WholeInv'
  <2> SUFFICES ASSUME WholeInv, [Next]_vars PROVE WholeInv'
    OBVIOUS
  <2>1. StreamInv'
    BY StreamStep DEF WholeInv
  <2> QED
    BY <2>1, LooksWhole, OpensWhole, ReadsWhole, WorldWhole DEF Next, Reader, Over
<1>2. WholeInv => DrainedWhole
  <2> SUFFICES ASSUME WholeInv, pc = "exited", draining
               PROVE  /\ ~sparse => path = StopFile
                      /\ path = StopFile => Behind /\ AtEnd
    BY DEF DrainedWhole, Behind, AtEnd
  <2>1. ~sparse => path = StopFile
    BY DEF WholeInv, StreamInv, IInv, LateInv, AimedInv, Draining, Aimed
  <2>2. StopFile # NoFile
    BY TranscriptReaderAssumption
  <2> QED
    BY <2>1, <2>2 DEF WholeInv, Looking
<1> QED
  BY <1>0, <1>1, <1>2, PTL DEF Spec
=============================================================================
