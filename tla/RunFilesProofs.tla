--------------------------- MODULE RunFilesProofs ---------------------------
(***************************************************************************)
(* For any number of invocations, process numbers and casts of RunFiles: a *)
(* sweep takes nobody's directory but that of a run which has ended, and a *)
(* drive on a serving daemon's worker keeps its FIFO unless --check        *)
(* --clean is about.                                                       *)
(*                                                                         *)
(* The sweep looks once and removes twice, later.  What makes this safe is *)
(* not the look alone: a directory whose owner is found dead has been made *)
(* by a run that has ended, for a live run answers to the number its       *)
(* directory carries (OwnerInv), and a run that has made a directory never *)
(* starts again (TreeInv), so that the verdict of the look cannot go stale *)
(* (VictimInv).  ServingInv is the other half: nobody but such a sweep and *)
(* --clean takes a directory from a run that has not begun to clean up.    *)
(***************************************************************************)
EXTENDS RunFiles, TLAPS

Places ==
  Ended \cup Stages
    \cup {"sweep", "fifo", "tree", "dispatch", "furnish", "version", "read",
          "write", "rename", "running", "serving", "driving"}

Shape ==
  /\ kind \in [Run -> Kind]
  /\ pc \in [Run -> Places]
  /\ pid \in [Run -> Pid \cup {NoPid}]
  /\ tree \in [Run -> TreeForms]
  /\ owner \in [Run -> Pid \cup {NoPid}]
  /\ todo \in [Run -> SUBSET Run]
  /\ victim \in [Run -> Run \cup {NoRun}]
  /\ borrowed \in [Run -> Run \cup {NoRun}]

Cleaned == \E c \in Run : kind[c] = "clean"

TreeInv ==
  \A d \in Run : tree[d] # "none" => kind[d] # "sweeper" /\ pc[d] # "absent"

OwnerInv == \A d \in Run : Alive(d) /\ Present(d) => owner[d] = pid[d]

VictimInv ==
  \A r \in Run : pc[r] \in {"fifo", "tree"} =>
    victim[r] \in Run /\ tree[victim[r]] # "none" /\ ~Alive(victim[r])

ServingInv ==
  \A s \in Run :
    /\ pc[s] = "furnish" => tree[s] = "bare" \/ Cleaned
    /\ pc[s] = "serving" => tree[s] = "whole" \/ Cleaned

DrivingInv == \A r \in Run : pc[r] = "driving" => borrowed[r] \in Run

IInv == Shape /\ TreeInv /\ OwnerInv /\ VictimInv /\ ServingInv /\ DrivingInv

LEMMA InitLemma == Init => IInv
BY RunFilesAssumption
   DEF Init, IInv, Shape, TreeInv, OwnerInv, VictimInv, ServingInv, DrivingInv,
       Present, TreeForms, Alive, Ended, Places

(* The end of a process, whatever ends it: nothing it made changes.        *)
LEMMA EndLemma ==
  ASSUME IInv, NEW r \in Run, NEW how \in {"exited", "killed", "signalled"},
         Ends(r, how), UNCHANGED trees
  PROVE  IInv'
<1>1. Shape'
  BY DEF IInv, Shape, Ends, Goto, trees, Places, Stages, Ended
<1>2. /\ \A d \in Run \ {r} : pc'[d] = pc[d] /\ pid'[d] = pid[d]
                              /\ victim'[d] = victim[d] /\ borrowed'[d] = borrowed[d]
      /\ pc'[r] = how /\ tree' = tree /\ owner' = owner /\ kind' = kind
  BY DEF IInv, Shape, Ends, Goto, trees
<1> QED
  BY <1>1, <1>2 DEF IInv, TreeInv, OwnerInv, VictimInv, ServingInv, DrivingInv,
     Cleaned, Present, Alive, Ended

(* What the invariant reads besides the places of the runs stays.          *)
Steady ==
  /\ kind' = kind /\ pid' = pid /\ tree' = tree /\ owner' = owner
  /\ todo' = todo /\ victim' = victim /\ borrowed' = borrowed

Quiet == Stages \cup {"dispatch", "read", "write", "rename", "running"}

(* A live run goes from place to place and touches no directory.           *)
LEMMA GotoLemma ==
  ASSUME IInv, NEW r \in Run, Alive(r), NEW at \in Quiet, Goto(r, at), Steady
  PROVE  IInv'
<1>1. Shape'
  BY DEF IInv, Shape, Goto, Steady, Quiet, Stages, Places, Ended
<1>2. /\ \A d \in Run \ {r} : pc'[d] = pc[d]
      /\ pc'[r] = at
  BY DEF IInv, Shape, Goto
<1> QED
  BY <1>1, <1>2 DEF IInv, TreeInv, OwnerInv, VictimInv, ServingInv, DrivingInv,
     Cleaned, Present, Alive, Ended, Steady, Quiet, Stages

(* A directory goes that no serving or furnishing run needs, or with
   --clean about; nobody's place changes.                                  *)
LEMMA TakeLemma ==
  ASSUME IInv, NEW d \in Run, Takes(d), tree[d] # "none",
         Cleaned \/ pc[d] \notin {"furnish", "serving"},
         UNCHANGED <<kind, pc, pid, victim, borrowed>>,
         todo' \in [Run -> SUBSET Run]
  PROVE  IInv'
<1>1. Shape'
  BY DEF IInv, Shape, Takes, TreeForms, Places, Stages, Ended
<1>2. /\ \A e \in Run \ {d} : tree'[e] = tree[e] /\ owner'[e] = owner[e]
      /\ tree'[d] = "gone" /\ pc' = pc /\ pid' = pid /\ kind' = kind
      /\ victim' = victim /\ borrowed' = borrowed
  BY DEF IInv, Shape, Takes
<1> QED
  BY <1>1, <1>2 DEF IInv, TreeInv, OwnerInv, VictimInv, ServingInv, DrivingInv,
     Cleaned, Present, Alive, Ended

(* Only a run that made nothing starts.                                    *)
LEMMA StartLemma ==
  ASSUME IInv, NEW r \in Run, Start(r) PROVE IInv'
<1>1. tree[r] = "none" /\ ~Alive(r)
  BY DEF IInv, TreeInv, Start, Alive, Ended
<1>2. PICK p \in Given : pid' = [pid EXCEPT ![r] = p]
  BY DEF Start
<1>3. p \in Pid
  BY <1>2 DEF Given, Free, Unused
<1>4. PICK at \in {"dispatch", "sweep"} : pc' = [pc EXCEPT ![r] = at]
  BY DEF Start, Goto
<1>5. Shape'
  BY <1>2, <1>3, <1>4 DEF IInv, Shape, Start, trees, sweeps, cleanups, files, Present, Places, Stages, Ended
<1>6. /\ \A d \in Run \ {r} : pc'[d] = pc[d] /\ pid'[d] = pid[d]
      /\ pc'[r] = at /\ tree' = tree /\ owner' = owner /\ kind' = kind
      /\ victim' = victim /\ borrowed' = borrowed
  BY <1>2, <1>4 DEF IInv, Shape, Start, trees
<1>7. \A q \in Run : pc'[q] \in {"fifo", "tree"} =>
        victim[q] # r
  BY <1>1, <1>4, <1>6 DEF IInv, VictimInv
<1> QED
  BY <1>1, <1>5, <1>6, <1>7 DEF IInv, TreeInv, OwnerInv, VictimInv, ServingInv,
     DrivingInv, Cleaned, Present, Alive, Ended

(* The look: an owner that is no live process has ended, and its run with
   it, since a live run answers to the number in its directory's name.     *)
LEMMA ClaimLemma ==
  ASSUME IInv, NEW r \in Run, NEW d \in Run, SweepClaims(r, d) PROVE IInv'
<1>1. Present(d) /\ ~is_live_process(owner[d])
  BY DEF SweepClaims, Reclaimable
<1>2. ~Alive(d)
  BY <1>1 DEF IInv, OwnerInv, is_live_process
<1>3. tree[d] # "none"
  BY <1>1 DEF Present
<1>4. Shape'
  BY DEF IInv, Shape, SweepClaims, Goto, trees, Places, Stages, Ended
<1>5. /\ \A q \in Run \ {r} : pc'[q] = pc[q] /\ victim'[q] = victim[q]
      /\ pc[r] = "sweep" /\ pc'[r] = "fifo" /\ victim'[r] = d
      /\ tree' = tree /\ owner' = owner /\ kind' = kind /\ pid' = pid
      /\ borrowed' = borrowed
  BY DEF IInv, Shape, SweepClaims, Goto, trees
<1> QED
  BY <1>2, <1>3, <1>4, <1>5 DEF IInv, TreeInv, OwnerInv, VictimInv, ServingInv,
     DrivingInv, Cleaned, Present, Alive, Ended

(* The removals: what they take is still what the look found.              *)
LEMMA FifoLemma ==
  ASSUME IInv, NEW r \in Run, SweepRemovesFifo(r) PROVE IInv'
<1> DEFINE d == victim[r]
<1>1. d \in Run /\ tree[d] # "none" /\ ~Alive(d) /\ pc[r] = "fifo"
  BY DEF IInv, VictimInv, SweepRemovesFifo
<1>2. Shape'
  BY <1>1 DEF IInv, Shape, SweepRemovesFifo, Goto, TreeForms, sweeps, Places, Stages, Ended
<1>3. /\ \A q \in Run \ {r} : pc'[q] = pc[q]
      /\ pc'[r] = "tree" /\ victim' = victim /\ pid' = pid /\ kind' = kind
      /\ owner' = owner /\ borrowed' = borrowed
      /\ \A e \in Run \ {d} : tree'[e] = tree[e]
      /\ tree'[d] # "none"
  BY <1>1 DEF IInv, Shape, SweepRemovesFifo, Goto, sweeps
<1>4. r # d
  BY <1>1 DEF Alive, Ended
<1> QED
  BY <1>1, <1>2, <1>3, <1>4 DEF IInv, TreeInv, OwnerInv, VictimInv, ServingInv,
     DrivingInv, Cleaned, Present, Alive, Ended

LEMMA TreeLemma ==
  ASSUME IInv, NEW r \in Run, SweepRemovesTree(r) PROVE IInv'
<1> DEFINE d == victim[r]
<1>1. d \in Run /\ tree[d] # "none" /\ ~Alive(d) /\ pc[r] = "tree"
  BY DEF IInv, VictimInv, SweepRemovesTree
<1>2. Shape'
  BY <1>1 DEF IInv, Shape, SweepRemovesTree, Takes, trees, Goto, TreeForms, Places,
     Stages, Ended
<1>3. /\ \A q \in Run \ {r} : pc'[q] = pc[q] /\ victim'[q] = victim[q]
      /\ pc'[r] = "sweep" /\ pid' = pid /\ kind' = kind /\ borrowed' = borrowed
      /\ \A e \in Run \ {d} : tree'[e] = tree[e] /\ owner'[e] = owner[e]
      /\ tree'[d] \in {"gone", tree[d]}
  BY <1>1 DEF IInv, Shape, SweepRemovesTree, Takes, trees, Goto
<1>4. r # d
  BY <1>1 DEF Alive, Ended
<1> QED
  BY <1>1, <1>2, <1>3, <1>4 DEF IInv, TreeInv, OwnerInv, VictimInv, ServingInv,
     DrivingInv, Cleaned, Present, Alive, Ended

LEMMA ScanLemma ==
  ASSUME IInv, NEW r \in Run, NEW d \in Run, Scans(r, d) PROVE IInv'
<1>1. todo' \in [Run -> SUBSET Run]
  BY DEF IInv, Shape, Scans
<1>2. CASE Present(d) /\ kind[r] = "clean" /\ Takes(d)
  <2>1. tree[d] # "none" /\ Cleaned
    BY <1>2 DEF Present, Cleaned
  <2> QED
    BY <1>1, <1>2, <2>1, TakeLemma DEF Scans
<1>3. CASE UNCHANGED trees
  BY <1>1, <1>3 DEF Scans, trees, IInv, Shape, TreeInv, OwnerInv, VictimInv,
     ServingInv, DrivingInv, Cleaned, Present, Alive
<1> QED
  BY <1>2, <1>3 DEF Scans

LEMMA InstallLemma ==
  ASSUME IInv, NEW r \in Run, Install(r) PROVE IInv'
<1>1. Shape'
  BY DEF IInv, Shape, Install, Goto, TreeForms, sweeps, Places, Stages, Ended
<1>2. /\ \A d \in Run \ {r} : pc'[d] = pc[d] /\ tree'[d] = tree[d] /\ owner'[d] = owner[d]
      /\ pc[r] = "dispatch" /\ pc'[r] = "furnish" /\ tree'[r] = "bare"
      /\ owner'[r] = pid[r] /\ kind[r] # "sweeper"
      /\ pid' = pid /\ kind' = kind /\ victim' = victim /\ borrowed' = borrowed
  BY DEF IInv, Shape, Install, Goto, sweeps
<1> QED
  BY <1>1, <1>2 DEF IInv, TreeInv, OwnerInv, VictimInv, ServingInv, DrivingInv,
     Cleaned, Present, Alive, Ended

LEMMA FurnishLemma ==
  ASSUME IInv, NEW r \in Run, Furnish(r) PROVE IInv'
<1>1. Shape'
  BY DEF IInv, Shape, Furnish, Goto, TreeForms, sweeps, Places, Stages, Ended
<1>2. PICK at \in {"serving", "version"} : pc' = [pc EXCEPT ![r] = at]
  BY DEF Furnish, Goto
<1>3. /\ \A d \in Run \ {r} : pc'[d] = pc[d] /\ tree'[d] = tree[d]
      /\ pc[r] = "furnish" /\ pc'[r] = at
      /\ tree[r] = "bare" => tree'[r] = "whole"
      /\ tree[r] # "bare" => tree'[r] = tree[r]
      /\ owner' = owner /\ pid' = pid /\ kind' = kind /\ victim' = victim
      /\ borrowed' = borrowed
  BY <1>2 DEF IInv, Shape, Furnish, sweeps
<1> QED
  BY <1>1, <1>2, <1>3 DEF IInv, TreeInv, OwnerInv, VictimInv, ServingInv, DrivingInv,
     Cleaned, Present, Alive, Ended

LEMMA BorrowLemma ==
  ASSUME IInv, NEW r \in Run, Borrow(r) PROVE IInv'
<1>1. PICK s \in Run : borrowed' = [borrowed EXCEPT ![r] = s] /\ UNCHANGED trees
  BY DEF Borrow, Kept
<1>2. Shape'
  BY <1>1 DEF IInv, Shape, Borrow, Goto, trees, sweeps, Places, Stages, Ended
<1>3. /\ \A q \in Run \ {r} : pc'[q] = pc[q] /\ borrowed'[q] = borrowed[q]
      /\ pc[r] = "dispatch" /\ pc'[r] = "driving" /\ borrowed'[r] = s
      /\ tree' = tree /\ owner' = owner /\ pid' = pid /\ kind' = kind /\ victim' = victim
  BY <1>1 DEF IInv, Shape, Borrow, Goto, trees, sweeps
<1> QED
  BY <1>2, <1>3 DEF IInv, TreeInv, OwnerInv, VictimInv, ServingInv, DrivingInv,
     Cleaned, Present, Alive, Ended

(* What leaves all that the invariant reads alone.                         *)
LEMMA ElsewhereLemma ==
  ASSUME IInv, pc' = pc, kind' = kind, pid' = pid, tree' = tree, owner' = owner,
         victim' = victim, borrowed' = borrowed, todo' \in [Run -> SUBSET Run]
  PROVE  IInv'
BY DEF IInv, Shape, TreeInv, OwnerInv, VictimInv, ServingInv, DrivingInv, Cleaned,
       Present, Alive

LEMMA StepsLemma ==
  ASSUME IInv, NEW r \in Run, Steps(r) PROVE IInv'
<1> USE DEF sweeps, trees
<1>0. todo \in [Run -> SUBSET Run]
  BY DEF IInv, Shape
<1>1. ASSUME NEW d \in Run, SweepPasses(r, d) PROVE IInv'
  BY <1>0, <1>1, ElsewhereLemma DEF SweepPasses
<1>2. CASE SweepEnds(r)
  <2>1. Alive(r) /\ Goto(r, "dispatch") /\ Steady
    BY <1>2 DEF SweepEnds, Alive, Ended, Steady
  <2> QED
    BY <2>1, GotoLemma DEF Quiet
<1>3. CASE Done(r) \/ ClientEnds(r) \/ ServeFails(r)
  BY <1>3, EndLemma DEF Done, ClientEnds, ServeFails
<1>4. CASE FurnishFails(r)
  <2>1. Alive(r) /\ Goto(r, "tempdir") /\ Steady
    BY <1>4 DEF FurnishFails, Alive, Ended, Steady
  <2> QED
    BY <2>1, GotoLemma DEF Quiet, Stages
<1>5. CASE Version(r)
  <2>1. PICK at \in {"read", "running", "drop"} : Goto(r, at)
    BY <1>5 DEF Version, Unwind
  <2>2. Alive(r) /\ Steady
    BY <1>5 DEF Version, Unwind, Alive, Ended, Steady
  <2> QED
    BY <2>1, <2>2, GotoLemma DEF Quiet, Stages
<1>6. CASE ReadTrust(r)
  <2>1. PICK at \in {"running", "drop", "write"} : Goto(r, at)
    BY <1>6 DEF ReadTrust
  <2>2. Alive(r) /\ Steady
    BY <1>6 DEF ReadTrust, Alive, Ended, Steady
  <2> QED
    BY <2>1, <2>2, GotoLemma DEF Quiet, Stages
<1>7. CASE WriteTmp(r) \/ Rename(r)
  <2>1. PICK at \in {"running", "drop", "rename"} : Goto(r, at)
    BY <1>7 DEF WriteTmp, Rename
  <2>2. Alive(r) /\ Steady
    BY <1>7 DEF WriteTmp, Rename, Alive, Ended, Steady
  <2> QED
    BY <2>1, <2>2, GotoLemma DEF Quiet, Stages
<1>8. CASE SessionEnds(r) \/ ServeEnds(r)
  <2>1. Alive(r) /\ Goto(r, "drop") /\ Steady
    BY <1>8 DEF SessionEnds, ServeEnds, Alive, Ended, Steady
  <2> QED
    BY <2>1, GotoLemma DEF Quiet, Stages
<1>9. CASE Removes(r)
  <2>1. Takes(r) /\ tree[r] # "none" /\ pc[r] \notin {"furnish", "serving"}
    BY <1>9 DEF Removes, Present, Stages
  <2>2. /\ kind' = kind /\ pc' = pc /\ pid' = pid /\ victim' = victim
        /\ borrowed' = borrowed /\ todo' \in [Run -> SUBSET Run]
    BY <1>0, <1>9 DEF Removes
  <2> QED
    BY <2>1, <2>2, TakeLemma
<1>10. CASE RemoveFails(r)
  BY <1>0, <1>10, ElsewhereLemma DEF RemoveFails
<1>11. CASE StageEnds(r)
  <2>1. CASE After(r) = "exited"
    BY <1>11, <2>1, EndLemma DEF StageEnds
  <2>2. CASE After(r) # "exited"
    <3>1. After(r) \in {"tempdir", "global"}
      BY <2>2 DEF After
    <3>2. Alive(r) /\ Goto(r, After(r)) /\ Steady
      BY <1>11, <2>2 DEF StageEnds, Alive, Ended, Stages, Steady
    <3> QED
      BY <3>1, <3>2, GotoLemma DEF Quiet, Stages
  <2> QED
    BY <2>1, <2>2
<1> QED
  BY <1>1, <1>2, <1>3, <1>4, <1>5, <1>6, <1>7, <1>8, <1>9, <1>10, <1>11, ClaimLemma,
     FifoLemma, TreeLemma, ScanLemma, InstallLemma, FurnishLemma, BorrowLemma
  DEF Steps

LEMMA NextLemma == IInv /\ [Next]_vars => IInv'
<1> SUFFICES ASSUME IInv, [Next]_vars PROVE IInv'
  OBVIOUS
<1> USE DEF trees, sweeps
<1>0. todo \in [Run -> SUBSET Run]
  BY DEF IInv, Shape
<1>1. CASE UNCHANGED vars
  BY <1>0, <1>1, ElsewhereLemma DEF vars
<1>2. ASSUME NEW r \in Run, Killed(r) \/ Signalled(r) PROVE IInv'
  BY <1>2, EndLemma DEF Killed, Signalled
<1>3. ASSUME NEW d \in Run, Ages(d) PROVE IInv'
  BY <1>0, <1>3, ElsewhereLemma DEF Ages
<1>4. ASSUME NEW p \in Pid, ForeignStarts(p) \/ ForeignEnds(p) PROVE IInv'
  BY <1>0, <1>4, ElsewhereLemma DEF ForeignStarts, ForeignEnds
<1>5. CASE ClaudeWrites
  BY <1>0, <1>5, ElsewhereLemma DEF ClaudeWrites
<1> QED
  BY <1>1, <1>2, <1>3, <1>4, <1>5, StartLemma, StepsLemma DEF Next

(* The inductive invariant holds of every behaviour of the invocations and
   the sweeps of cleanup_orphans_in, whatever process numbers they reuse.  *)
THEOREM Inductive == Spec => []IInv
BY InitLemma, NextLemma, PTL DEF Spec

(* EC-1: the sweep of one invocation takes no directory of another that is
   alive, and a pooled drive keeps its FIFO while its daemon serves.       *)
THEOREM SparesTheorem == Spec => SweepSparesLive
<1>1. IInv => DriveKeepsFifo
  BY DEF IInv, DrivingInv, ServingInv, DriveKeepsFifo, Cleaned
<1>2. IInv => [\A d \in Run : TakenBySweep(d) => ~Alive(d)]_vars
  BY DEF IInv, VictimInv, TakenBySweep
<1> QED
  BY <1>1, <1>2, Inductive, PTL DEF SweepSparesLive
-----------------------------------------------------------------------------
(***************************************************************************)
(* The exit: a run that reaches it with its directory still there has been *)
(* refused every attempt of every stage it went through.                   *)
(***************************************************************************)
Spent == MaxErrors - errors

ExitShape ==
  /\ known \in [Run -> BOOLEAN]
  /\ tries \in [Run -> Nat]
  /\ errors \in Int /\ errors <= MaxErrors

Opening == {"absent", "sweep", "fifo", "tree", "dispatch", "furnish"}
Midway == {"version", "read", "write", "rename", "running"}

(* The refusals a run must have met to be where it is.                     *)
ExitOf(r) ==
  /\ pc[r] = "serving" => kind[r] = "serve"
  /\ kind[r] \in {"session", "pretrust"} =>
       /\ pc[r] \in Midway \cup {"drop", "global"} => known[r]
       /\ pc[r] \in Opening => ~known[r]
       /\ pc[r] \in Opening \cup Midway => tries[r] = 0
       /\ Present(r) =>
            /\ pc[r] = "drop" => tries[r] <= Spent
            /\ pc[r] = "tempdir" => (IF known[r] THEN 3 ELSE 0) + tries[r] <= Spent
            /\ pc[r] = "global" => 4 + tries[r] <= Spent
            /\ pc[r] = "exited" => Attempts(r) <= Spent

ExitInv == ExitShape /\ \A r \in Run : ExitOf(r)

(* A run that does not step keeps what it had: refusals only add up, and a
   directory does not come back.                                           *)
LEMMA ExitFrame ==
  ASSUME ExitInv, NEW r \in Run, errors' \in Int, errors' <= errors,
         pc'[r] = pc[r], kind'[r] = kind[r], known'[r] = known[r], tries'[r] = tries[r],
         Present(r)' => Present(r)
  PROVE  ExitOf(r)'
<1>1. ExitOf(r) /\ ExitShape
  BY DEF ExitInv
<1>2. Spent' >= Spent
  BY <1>1, RunFilesAssumption DEF Spent, ExitShape
<1>3. Spent \in Int /\ Spent' \in Int /\ tries[r] \in Nat
  BY <1>1, RunFilesAssumption DEF Spent, ExitShape
<1>4. Attempts(r)' = Attempts(r) /\ Attempts(r) \in Nat
  BY DEF Attempts
<1> QED
  BY <1>1, <1>2, <1>3, <1>4 DEF ExitOf

(* Nobody's place, tries or knowledge changes.                             *)
LEMMA ExitStays ==
  ASSUME ExitInv, kind' = kind, pc' = pc, known' = known, tries' = tries,
         errors' = errors, \A r \in Run : Present(r)' => Present(r)
  PROVE  ExitInv'
<1>1. ExitShape'
  BY DEF ExitInv, ExitShape
<1>2. errors' \in Int /\ errors' <= errors
  BY DEF ExitInv, ExitShape
<1> QED
  BY <1>1, <1>2, ExitFrame DEF ExitInv

(* One run steps to another place and leaves all else to the frame.        *)
LEMMA ExitGoto ==
  ASSUME IInv, ExitInv, NEW r \in Run, NEW at, Goto(r, at), kind' = kind, known' = known,
         tries' = tries, errors' = errors, tree' = tree, ExitOf(r)'
  PROVE  ExitInv'
<1>1. ExitShape'
  BY DEF ExitInv, ExitShape
<1>2. errors' \in Int /\ errors' <= errors
  BY DEF ExitInv, ExitShape
<1>3. ASSUME NEW q \in Run, q # r PROVE ExitOf(q)'
  <2>1. pc'[q] = pc[q]
    BY <1>3 DEF Goto, IInv, Shape
  <2>2. Present(q)' => Present(q)
    BY DEF Present
  <2> QED
    BY <1>2, <2>1, <2>2, ExitFrame
<1> QED
  BY <1>1, <1>3 DEF ExitInv

(* The end of a run that is not at its exit, or whose exit is clean.       *)
LEMMA ExitEnds ==
  ASSUME IInv, ExitInv, NEW r \in Run, NEW how \in {"exited", "killed", "signalled"},
         Ends(r, how), UNCHANGED trees,
         how = "exited" /\ kind[r] \in {"session", "pretrust"} /\ Present(r)
           => Attempts(r) <= Spent
  PROVE  ExitInv'
<1>1. ExitShape'
  BY DEF ExitInv, ExitShape, Ends
<1>2. /\ errors' = errors /\ known' = known /\ kind' = kind /\ tree' = tree
      /\ pc'[r] = how
  BY DEF Ends, trees, Goto, IInv, Shape
<1>3. ASSUME NEW q \in Run, q # r PROVE ExitOf(q)'
  <2>1. pc'[q] = pc[q] /\ tries'[q] = tries[q]
    BY <1>3 DEF Ends, Goto, IInv, Shape, ExitInv, ExitShape
  <2>2. Present(q)' => Present(q)
    BY <1>2 DEF Present
  <2>3. errors' \in Int /\ errors' <= errors
    BY <1>2 DEF ExitInv, ExitShape
  <2> QED
    BY <1>2, <2>1, <2>2, <2>3, ExitFrame
<1>4. ExitOf(r)'
  <2>1. Attempts(r)' = Attempts(r) /\ Spent' = Spent /\ (Present(r)' <=> Present(r))
    BY <1>2 DEF Attempts, Spent, Present
  <2>2. pc'[r] \notin Opening \cup Midway \cup {"drop", "tempdir", "global", "serving"}
    BY <1>2 DEF Opening, Midway
  <2> QED
    BY <1>2, <2>1, <2>2 DEF ExitOf
<1> QED
  BY <1>1, <1>3, <1>4 DEF ExitInv

LEMMA ExitSteps ==
  ASSUME IInv, ExitInv, NEW r \in Run, Steps(r)
  PROVE  ExitInv'
<1> USE DEF sweeps, cleanups, files
<1>0. Shape /\ ExitShape /\ ExitOf(r)
  BY DEF IInv, ExitInv
<1>1. ASSUME NEW d \in Run, SweepPasses(r, d) PROVE ExitInv'
  BY <1>1, ExitStays DEF SweepPasses, trees, Present
<1>2. ASSUME NEW d \in Run, Scans(r, d) PROVE ExitInv'
  <2>1. \A q \in Run : Present(q)' => Present(q)
    BY <1>0, <1>2 DEF Scans, Present, Takes, trees, Shape
  <2> QED
    BY <1>2, <2>1, ExitStays DEF Scans
<1>3. ASSUME NEW d \in Run, SweepClaims(r, d) PROVE ExitInv'
  <2>1. ExitOf(r)'
    BY <1>0, <1>3 DEF SweepClaims, Goto, ExitOf, Shape, Opening, Midway, trees
  <2> QED
    BY <1>3, <2>1, ExitGoto DEF SweepClaims, trees
<1>4. CASE SweepEnds(r)
  <2>1. ExitOf(r)'
    BY <1>0, <1>4 DEF SweepEnds, Goto, ExitOf, Shape, Opening, Midway, trees
  <2> QED
    BY <1>4, <2>1, ExitGoto DEF SweepEnds, trees
<1>5. CASE SweepRemovesFifo(r) \/ SweepRemovesTree(r)
  <2>1. /\ \A q \in Run \ {r} : pc'[q] = pc[q]
        /\ pc[r] \in Opening /\ pc'[r] \in Opening
    BY <1>0, <1>5 DEF SweepRemovesFifo, SweepRemovesTree, Goto, Opening, Shape
  <2>2. /\ kind' = kind /\ known' = known /\ tries' = tries /\ errors' = errors
    BY <1>5 DEF SweepRemovesFifo, SweepRemovesTree
  <2>3. \A q \in Run : Present(q)' => Present(q)
    BY <1>0, <1>5 DEF SweepRemovesFifo, SweepRemovesTree, Takes, trees, Present, Shape
  <2>4. errors' \in Int /\ errors' <= errors /\ ExitShape'
    BY <1>0, <2>2 DEF ExitShape
  <2>5. \A q \in Run \ {r} : ExitOf(q)'
    BY <2>1, <2>2, <2>3, <2>4, ExitFrame
  <2>6. ExitOf(r)'
    BY <1>0, <2>1, <2>2 DEF ExitOf, Opening, Midway
  <2> QED
    BY <2>4, <2>5, <2>6 DEF ExitInv
<1>6. CASE Done(r) \/ ClientEnds(r) \/ ServeFails(r)
  <2>1. kind[r] \notin {"session", "pretrust"}
    BY <1>0, <1>6 DEF Done, ClientEnds, ServeFails, ExitOf
  <2> QED
    BY <1>6, <2>1, ExitEnds DEF Done, ClientEnds, ServeFails
<1>7. CASE Borrow(r)
  <2>1. tree' = tree /\ kind[r] = "client" /\ Goto(r, "driving")
    BY <1>7 DEF Borrow, Kept, trees
  <2>2. ExitOf(r)'
    BY <1>0, <1>7, <2>1 DEF Borrow, Goto, ExitOf, Shape
  <2> QED
    BY <1>7, <2>1, <2>2, ExitGoto DEF Borrow
<1>8. CASE Install(r)
  <2>1. /\ \A q \in Run \ {r} : pc'[q] = pc[q] /\ (Present(q)' => Present(q))
        /\ pc[r] = "dispatch" /\ pc'[r] = "furnish"
    BY <1>0, <1>8 DEF Install, Goto, Shape, Present
  <2>2. kind' = kind /\ known' = known /\ tries' = tries /\ errors' = errors
    BY <1>8 DEF Install
  <2>3. errors' \in Int /\ errors' <= errors /\ ExitShape'
    BY <1>0, <2>2 DEF ExitShape
  <2>4. \A q \in Run \ {r} : ExitOf(q)'
    BY <2>1, <2>2, <2>3, ExitFrame
  <2>5. ExitOf(r)'
    BY <1>0, <2>1, <2>2 DEF ExitOf, Opening, Midway
  <2> QED
    BY <2>3, <2>4, <2>5 DEF ExitInv
<1>9. CASE Furnish(r)
  <2>1. /\ \A q \in Run \ {r} : pc'[q] = pc[q] /\ (Present(q)' => Present(q))
                                 /\ known'[q] = known[q]
        /\ pc[r] = "furnish"
        /\ kind[r] = "serve" => pc'[r] = "serving"
        /\ kind[r] # "serve" => pc'[r] = "version"
    BY <1>0, <1>9 DEF Furnish, Goto, Shape, Present, ExitShape
  <2>2. kind' = kind /\ tries' = tries /\ errors' = errors
    BY <1>9 DEF Furnish
  <2>3. known' \in [Run -> BOOLEAN] /\ (kind[r] # "serve" => known'[r])
    BY <1>0, <1>9, Zenon DEF Furnish, ExitShape
  <2>4. errors' \in Int /\ errors' <= errors /\ ExitShape'
    BY <1>0, <2>2, <2>3 DEF ExitShape
  <2>5. \A q \in Run \ {r} : ExitOf(q)'
    BY <2>1, <2>2, <2>4, ExitFrame
  <2>6. ExitOf(r)'
    BY <1>0, <2>1, <2>2, <2>3 DEF ExitOf, Opening, Midway
  <2> QED
    BY <2>4, <2>5, <2>6 DEF ExitInv
<1>10. CASE FurnishFails(r)
  <2>1. ExitOf(r)'
    BY <1>0, <1>10, RunFilesAssumption
    DEF FurnishFails, Goto, ExitOf, Shape, ExitShape, Opening, Midway, trees, Present, Spent
  <2> QED
    BY <1>10, <2>1, ExitGoto DEF FurnishFails, trees
<1>11. CASE Version(r) \/ ReadTrust(r) \/ WriteTmp(r) \/ Rename(r) \/ SessionEnds(r)
  <2>1. PICK at \in Midway \cup {"drop"} : Goto(r, at)
    BY <1>11 DEF Version, Unwind, ReadTrust, WriteTmp, Rename, SessionEnds, Midway
  <2>2. /\ kind' = kind /\ known' = known /\ tries' = tries /\ errors' = errors
        /\ tree' = tree /\ pc[r] \in Midway
    BY <1>11 DEF Version, Unwind, ReadTrust, WriteTmp, Rename, SessionEnds, Midway, trees
  <2>3. pc'[r] = at
    BY <1>0, <2>1 DEF Goto, Shape
  <2>4. Spent' = Spent /\ Spent \in Nat /\ Present(r)' = Present(r)
    BY <1>0, <2>2, RunFilesAssumption DEF Spent, ExitShape, Present
  <2>5. ExitOf(r)'
    BY <1>0, <2>2, <2>3, <2>4 DEF ExitOf, Opening, Midway
  <2> QED
    BY <2>1, <2>2, <2>5, ExitGoto
<1>12. CASE ServeEnds(r)
  <2>1. ExitOf(r)'
    BY <1>0, <1>12 DEF ServeEnds, Goto, ExitOf, Shape
  <2> QED
    BY <1>12, <2>1, ExitGoto DEF ServeEnds, trees
<1>13. CASE Removes(r)
  <2>1. \A q \in Run : Present(q)' => Present(q)
    BY <1>0, <1>13 DEF Removes, Takes, Present, Shape
  <2> QED
    BY <1>13, <2>1, ExitStays DEF Removes
<1>14. CASE RemoveFails(r)
  <2>1. /\ errors' = errors - 1 /\ errors' \in Int /\ errors' <= errors
        /\ pc' = pc /\ kind' = kind /\ known' = known /\ tree' = tree
        /\ \A q \in Run \ {r} : tries'[q] = tries[q]
        /\ tries'[r] = tries[r] + 1
    BY <1>0, <1>14 DEF RemoveFails, ExitShape, trees
  <2>2. ExitShape'
    <3>1. tries' = [tries EXCEPT ![r] = tries[r] + 1] /\ tries[r] + 1 \in Nat
      BY <1>0, <1>14 DEF RemoveFails, ExitShape
    <3>2. tries' \in [Run -> Nat]
      BY <1>0, <3>1 DEF ExitShape
    <3>3. known' \in [Run -> BOOLEAN]
      BY <1>0, <2>1 DEF ExitShape
    <3>4. errors' <= MaxErrors
      BY <1>0, <2>1, RunFilesAssumption DEF ExitShape
    <3> QED
      BY <2>1, <3>2, <3>3, <3>4 DEF ExitShape
  <2>3. \A q \in Run \ {r} : ExitOf(q)'
    BY <2>1, ExitFrame DEF Present
  <2>4. Spent' = Spent + 1 /\ Spent \in Int
    BY <1>0, <2>1, RunFilesAssumption DEF Spent, ExitShape
  <2>5. pc[r] \in Stages /\ tries[r] \in Nat
    BY <1>0, <1>14 DEF RemoveFails, ExitShape
  <2>6. ExitOf(r)'
    BY <1>0, <2>1, <2>4, <2>5 DEF ExitOf, Opening, Midway, Stages, Present
  <2> QED
    BY <2>2, <2>3, <2>6 DEF ExitInv
<1>15. CASE StageEnds(r)
  <2>1. tree' = tree /\ pc[r] \in Stages /\ (Present(r) => tries[r] = Tries(pc[r]))
    BY <1>15 DEF StageEnds, trees
  <2>2. CASE After(r) = "exited"
    <3>1. kind[r] \in {"session", "pretrust"} /\ Present(r) => Attempts(r) <= Spent
      BY <1>0, <2>1, <2>2 DEF After, Stages, Tries, ExitOf, Attempts
    <3> QED
      BY <1>15, <2>2, <3>1, ExitEnds DEF StageEnds
  <2>3. CASE After(r) # "exited"
    <3>1. /\ Goto(r, After(r)) /\ tries' = [tries EXCEPT ![r] = 0]
          /\ kind' = kind /\ known' = known /\ errors' = errors
      BY <1>15, <2>3 DEF StageEnds
    <3>2. /\ \A q \in Run \ {r} : pc'[q] = pc[q] /\ tries'[q] = tries[q]
          /\ pc'[r] = After(r) /\ tries'[r] = 0
      BY <1>0, <3>1 DEF Goto, Shape, ExitShape
    <3>3. errors' \in Int /\ errors' <= errors /\ ExitShape'
      BY <1>0, <3>1 DEF ExitShape
    <3>4. \A q \in Run \ {r} : ExitOf(q)'
      BY <2>1, <3>1, <3>2, <3>3, ExitFrame DEF Present
    <3>5. Spent' = Spent
      BY <3>1 DEF Spent
    <3>6. ExitOf(r)'
      BY <1>0, <2>1, <2>3, <3>1, <3>2, <3>5
      DEF ExitOf, After, Stages, Tries, Opening, Midway, Present
    <3> QED
      BY <3>3, <3>4, <3>6 DEF ExitInv
  <2> QED
    BY <2>2, <2>3
<1> QED
  BY <1>1, <1>2, <1>3, <1>4, <1>5, <1>6, <1>7, <1>8, <1>9, <1>10, <1>11, <1>12, <1>13,
     <1>14, <1>15 DEF Steps

LEMMA ExitNext == IInv /\ ExitInv /\ [Next]_vars => ExitInv'
<1> SUFFICES ASSUME IInv, ExitInv, [Next]_vars PROVE ExitInv'
  OBVIOUS
<1> USE DEF trees, sweeps, cleanups, files
<1>0. Shape /\ ExitShape
  BY DEF IInv, ExitInv
<1>1. CASE UNCHANGED vars
  BY <1>1, ExitStays DEF vars, Present
<1>2. ASSUME NEW r \in Run, Killed(r) \/ Signalled(r) PROVE ExitInv'
  BY <1>2, ExitEnds DEF Killed, Signalled
<1>3. ASSUME NEW d \in Run, Ages(d) PROVE ExitInv'
  BY <1>3, ExitStays DEF Ages, Present
<1>4. ASSUME NEW p \in Pid, ForeignStarts(p) \/ ForeignEnds(p) PROVE ExitInv'
  BY <1>4, ExitStays DEF ForeignStarts, ForeignEnds, Present
<1>5. CASE ClaudeWrites
  BY <1>5, ExitStays DEF ClaudeWrites, Present
<1>6. ASSUME NEW r \in Run, Start(r) PROVE ExitInv'
  <2>1. PICK at \in {"dispatch", "sweep"} : Goto(r, at)
    BY <1>6 DEF Start
  <2>2. /\ kind' = kind /\ known' = known /\ tries' = tries /\ errors' = errors /\ tree' = tree
        /\ pc'[r] = at
        /\ pc[r] = "absent" \/ kind[r] = "sweeper"
    BY <1>0, <1>6, <2>1 DEF Start, Goto, Shape
  <2>3. ExitOf(r)'
    BY <2>2 DEF ExitInv, ExitOf, Opening, Midway
  <2> QED
    BY <2>1, <2>2, <2>3, ExitGoto
<1> QED
  BY <1>1, <1>2, <1>3, <1>4, <1>5, <1>6, ExitSteps DEF Next

(* INV-1: whatever a run's course, at its exit its directory is gone, or
   every attempt of HookInstaller::cleanup, of the TempDir and of
   cleanup_temp_dir was refused.                                           *)
THEOREM ExitTheorem == Spec => []ExitRemoves
<1>1. Init => ExitInv
  BY RunFilesAssumption
  DEF Init, ExitInv, ExitShape, ExitOf, Opening, Midway, Present
<1>2. ExitInv => ExitRemoves
  BY RunFilesAssumption DEF ExitInv, ExitShape, ExitOf, ExitRemoves, Attempts, Spent
<1> QED
  BY <1>1, <1>2, ExitNext, Inductive, PTL DEF Spec
-----------------------------------------------------------------------------
(***************************************************************************)
(* The trust file: what a run renames into place is its own merge.  The    *)
(* tmp file is named after a process number, and no two runs that live     *)
(* have the same; a file that is no object of the expected shape stops the *)
(* run at the read, and none becomes so later.                             *)
(***************************************************************************)
Sound == trust.form \in {"missing", "object"}
Merge(c, r) == c \in Content /\ c.form = "object" /\ r \in c.grants

TrustInv ==
  /\ trust \in Content
  /\ read \in [Run -> Content]
  /\ tmp \in [Pid -> Content]
  /\ \A r \in Run :
       /\ Alive(r) => pid[r] \in Pid
       /\ \A q \in Run \ {r} : Alive(r) /\ Alive(q) => pid[r] # pid[q]
       /\ pc[r] = "write" => Sound /\ Merge(read[r], r)
       /\ pc[r] = "rename" => Sound /\ Merge(tmp[pid[r]], r)

LEMMA GrantedIsMerge ==
  ASSUME NEW c \in Content, NEW r \in Run
  PROVE  /\ Merge(Granted(c, r), r)
         /\ Granted(c, r).grants = c.grants \cup {r}
         /\ Granted(c, r).theirs = c.theirs
BY DEF Content, Forms, Granted, Merge

(* A run in the middle of its merge keeps what it has when another steps.  *)
LEMMA TrustFrame ==
  ASSUME TrustInv, pid' = pid, kind' = kind, trust' = trust, read' = read, tmp' = tmp,
         \A r \in Run : /\ (Alive(r)' => Alive(r))
                        /\ (pc'[r] \in {"write", "rename"} => pc'[r] = pc[r])
  PROVE  TrustInv'
BY DEF TrustInv, Sound, Merge

LEMMA TrustEnds ==
  ASSUME IInv, TrustInv, NEW r \in Run, NEW how \in {"exited", "killed", "signalled"},
         Ends(r, how)
  PROVE  TrustInv'
<1>1. /\ \A q \in Run \ {r} : pc'[q] = pc[q] /\ pid'[q] = pid[q] /\ read'[q] = read[q]
      /\ pc'[r] = how /\ trust' = trust /\ tmp' = tmp
  BY DEF IInv, Shape, Ends, Goto, TrustInv
<1>2. read' \in [Run -> Content]
  <2>1. Absent \in Content
    BY DEF Absent, Content, Forms
  <2> QED
    BY <2>1 DEF Ends, TrustInv
<1>3. ~Alive(r)' /\ pc'[r] \notin {"write", "rename"}
  BY <1>1 DEF Alive, Ended
<1>4. \A q \in Run \ {r} : Alive(q)' <=> Alive(q)
  BY <1>1 DEF Alive
<1> QED
  BY <1>1, <1>2, <1>3, <1>4 DEF TrustInv, Sound, Merge

LEMMA TrustStart ==
  ASSUME IInv, TrustInv, NEW r \in Run, Start(r)
  PROVE  TrustInv'
<1>1. PICK p \in Given : pid' = [pid EXCEPT ![r] = p]
  BY DEF Start
<1>2. p \in Pid /\ ~is_live_process(p)
  BY <1>1 DEF Given, Free, Unused
<1>3. PICK at \in {"dispatch", "sweep"} : pc' = [pc EXCEPT ![r] = at]
  BY DEF Start, Goto
<1>4. /\ \A q \in Run \ {r} : pc'[q] = pc[q] /\ pid'[q] = pid[q]
      /\ pc'[r] = at /\ pid'[r] = p /\ trust' = trust /\ tmp' = tmp /\ read' = read
  BY <1>1, <1>3 DEF IInv, Shape, Start, files
<1>5. \A q \in Run \ {r} : (Alive(q)' <=> Alive(q)) /\ (Alive(q) => pid[q] # p)
  BY <1>2, <1>4 DEF Alive, is_live_process
<1> QED
  BY <1>2, <1>3, <1>4, <1>5 DEF TrustInv, Sound, Merge

LEMMA TrustReads ==
  ASSUME IInv, TrustInv, NEW r \in Run, ReadTrust(r)
  PROVE  TrustInv'
<1>1. pid' = pid /\ trust' = trust /\ tmp' = tmp /\ kind' = kind /\ pc[r] = "read"
  BY DEF ReadTrust
<1>2. CASE trust.form \in {"broken", "clash"}
  <2>1. PICK at \in {"running", "drop"} : Goto(r, at)
    BY <1>2 DEF ReadTrust, Unreadable
  <2>2. read' = read
    BY <1>2 DEF ReadTrust, Unreadable
  <2>3. \A q \in Run : /\ (Alive(q)' => Alive(q))
                       /\ (pc'[q] \in {"write", "rename"} => pc'[q] = pc[q])
    BY <1>1, <2>1 DEF Goto, IInv, Shape, Alive, Ended
  <2> QED
    BY <1>1, <2>2, <2>3, TrustFrame
<1>3. CASE trust.form \notin {"broken", "clash"}
  <2>1. Goto(r, "write") /\ read' = [read EXCEPT ![r] = Granted(trust, r)]
    BY <1>3 DEF ReadTrust, Unreadable
  <2>2. /\ \A q \in Run \ {r} : pc'[q] = pc[q] /\ read'[q] = read[q]
        /\ pc'[r] = "write" /\ read'[r] = Granted(trust, r)
    BY <2>1 DEF Goto, IInv, Shape, TrustInv
  <2>3. Merge(Granted(trust, r), r) /\ Sound
    BY <1>3, GrantedIsMerge DEF TrustInv, Sound, Content, Forms
  <2>4. read' \in [Run -> Content]
    BY <2>1, <2>3 DEF TrustInv, Merge
  <2>5. \A q \in Run : Alive(q)' <=> Alive(q)
    BY <1>1, <2>2 DEF Alive, Ended
  <2>6. Sound'
    BY <1>1, <2>3 DEF Sound
  <2>7. ASSUME NEW q \in Run, q # r
        PROVE  /\ pc'[q] = "write" => Merge(read'[q], q)
               /\ pc'[q] = "rename" => Merge(tmp'[pid'[q]], q)
    BY <1>1, <2>2, <2>7 DEF TrustInv
  <2>8. Merge(read'[r], r)
    BY <2>2, <2>3
  <2> QED
    BY <1>1, <2>2, <2>4, <2>5, <2>6, <2>7, <2>8 DEF TrustInv, Merge
<1> QED
  BY <1>2, <1>3

LEMMA TrustWrites ==
  ASSUME IInv, TrustInv, NEW r \in Run, WriteTmp(r)
  PROVE  TrustInv'
<1>1. /\ pid' = pid /\ trust' = trust /\ kind' = kind /\ pc[r] = "write"
      /\ read' = [read EXCEPT ![r] = Absent]
  BY DEF WriteTmp
<1>2. PICK at \in {"rename", "drop"} :
        /\ Goto(r, at)
        /\ \/ at = "rename" /\ tmp' = [tmp EXCEPT ![pid[r]] = read[r]]
           \/ at = "drop" /\ tmp' = tmp
  BY DEF WriteTmp
<1>3. /\ \A q \in Run \ {r} : pc'[q] = pc[q] /\ read'[q] = read[q]
      /\ pc'[r] = at
  BY <1>1, <1>2 DEF Goto, IInv, Shape, TrustInv
<1>4. read' \in [Run -> Content]
  <2>1. Absent \in Content
    BY DEF Absent, Content, Forms
  <2> QED
    BY <1>1, <2>1 DEF TrustInv
<1>5. \A q \in Run : Alive(q)' <=> Alive(q)
  BY <1>1, <1>2, <1>3 DEF Alive, Ended
<1>6. pid[r] \in Pid /\ Sound /\ Merge(read[r], r) /\ Alive(r)
  BY <1>1 DEF TrustInv, Alive, Ended
<1>7. tmp' \in [Pid -> Content]
  BY <1>2, <1>6 DEF TrustInv, Merge
<1>8. ASSUME NEW q \in Run, q # r, pc'[q] = "rename"
      PROVE  Merge(tmp'[pid'[q]], q)
  <2>1. Alive(q) /\ pid[q] # pid[r] /\ pid[q] \in Pid /\ Merge(tmp[pid[q]], q)
    BY <1>3, <1>6, <1>8 DEF TrustInv, Alive, Ended
  <2>2. tmp'[pid[q]] = tmp[pid[q]]
    BY <1>2, <2>1 DEF TrustInv
  <2> QED
    BY <1>1, <2>1, <2>2
<1>9. pc'[r] = "rename" => Merge(tmp'[pid'[r]], r)
  BY <1>1, <1>2, <1>3, <1>6 DEF TrustInv
<1>10. Sound'
  BY <1>1, <1>6 DEF Sound
<1>11. ASSUME NEW q \in Run, pc'[q] = "write" PROVE Merge(read'[q], q)
  BY <1>2, <1>3, <1>11 DEF TrustInv
<1> QED
  BY <1>1, <1>4, <1>5, <1>7, <1>8, <1>9, <1>10, <1>11 DEF TrustInv, Merge

LEMMA TrustRenames ==
  ASSUME IInv, TrustInv, NEW r \in Run, Rename(r)
  PROVE  /\ TrustInv' /\ Merge(tmp[pid[r]], r) /\ Sound
         /\ pc'[r] = "running" => trust' = tmp[pid[r]]
<1>0. PICK at \in {"running", "drop"} :
        /\ Goto(r, at)
        /\ \/ at = "running" /\ trust' = tmp[pid[r]]
           \/ at = "drop" /\ trust' = trust
  BY DEF Rename
<1>1. /\ pid' = pid /\ read' = read /\ kind' = kind /\ pc[r] = "rename"
      /\ tmp' = [tmp EXCEPT ![pid[r]] = Absent]
  BY DEF Rename
<1>2. pid[r] \in Pid /\ Sound /\ Merge(tmp[pid[r]], r) /\ Alive(r)
  BY <1>1 DEF TrustInv, Alive, Ended
<1>3. trust' \in Content /\ Sound'
  BY <1>0, <1>2 DEF Merge, Sound, TrustInv
<1>4. \A q \in Run \ {r} : pc'[q] = pc[q]
  BY <1>0 DEF Goto, IInv, Shape
<1>5. pc'[r] = at
  BY <1>0 DEF Goto, IInv, Shape
<1>6. tmp' \in [Pid -> Content]
  <2>1. Absent \in Content
    BY DEF Absent, Content, Forms
  <2> QED
    BY <1>1, <2>1 DEF TrustInv
<1>7. \A q \in Run : Alive(q)' <=> Alive(q)
  BY <1>1, <1>4, <1>5 DEF Alive, Ended
<1>8. ASSUME NEW q \in Run, pc'[q] = "rename"
      PROVE  Merge(tmp'[pid'[q]], q)
  <2>0. q # r /\ pc[q] = "rename"
    BY <1>4, <1>5, <1>8
  <2>1. Alive(q) /\ pid[q] # pid[r] /\ pid[q] \in Pid /\ Merge(tmp[pid[q]], q)
    BY <1>2, <2>0 DEF TrustInv, Alive, Ended
  <2>2. tmp'[pid[q]] = tmp[pid[q]]
    BY <1>1, <2>1 DEF TrustInv
  <2> QED
    BY <1>1, <2>1, <2>2
<1>9. ASSUME NEW q \in Run, pc'[q] = "write" PROVE Merge(read'[q], q)
  BY <1>1, <1>4, <1>5, <1>9 DEF TrustInv
<1>10. TrustInv'
  BY <1>1, <1>3, <1>6, <1>7, <1>8, <1>9 DEF TrustInv, Merge
<1> QED
  BY <1>0, <1>2, <1>5, <1>10

LEMMA TrustClaude ==
  ASSUME TrustInv, ClaudeWrites
  PROVE  TrustInv' /\ Sound
<1>1. /\ pid' = pid /\ read' = read /\ tmp' = tmp /\ pc' = pc
      /\ trust' = [form |-> "object", grants |-> trust.grants, theirs |-> 1] /\ Sound
  BY DEF ClaudeWrites, Sound
<1>2. trust' \in Content /\ trust'.form = "object"
  BY <1>1 DEF TrustInv, Content, Forms
<1> QED
  BY <1>1, <1>2 DEF TrustInv, Sound, Merge, Alive

(* The rest of a run's steps have nothing to do with the file.             *)
LEMMA TrustElsewhere ==
  ASSUME IInv, TrustInv, NEW r \in Run, Steps(r),
         ~ReadTrust(r), ~WriteTmp(r), ~Rename(r)
  PROVE  TrustInv' /\ trust' = trust
<1> USE DEF sweeps, cleanups, files
<1>1. CASE Done(r) \/ ClientEnds(r) \/ ServeFails(r)
           \/ (StageEnds(r) /\ After(r) = "exited")
  <2>1. Ends(r, "exited")
    BY <1>1 DEF Done, ClientEnds, ServeFails, StageEnds
  <2>2. trust' = trust
    BY <2>1 DEF Ends
  <2> QED
    BY <2>1, <2>2, TrustEnds
<1> DEFINE Aside ==
      /\ pid' = pid /\ kind' = kind /\ trust' = trust /\ read' = read /\ tmp' = tmp
      /\ \E at : (Goto(r, at) /\ at \notin {"write", "rename"}) \/ pc' = pc
      /\ Alive(r)
<1>2. ASSUME Aside PROVE TrustInv' /\ trust' = trust
  <2>1. \A q \in Run : /\ (Alive(q)' => Alive(q))
                       /\ (pc'[q] \in {"write", "rename"} => pc'[q] = pc[q])
    BY <1>2 DEF Goto, IInv, Shape, Alive
  <2> QED
    BY <1>2, <2>1, TrustFrame
<1>3. ASSUME NEW d \in Run, SweepPasses(r, d) \/ SweepClaims(r, d) \/ Scans(r, d)
      PROVE  TrustInv' /\ trust' = trust
  <2>1. Aside
    BY <1>3 DEF SweepPasses, SweepClaims, Scans, Alive, Ended
  <2> QED
    BY <1>2, <2>1
<1>4. CASE SweepRemovesFifo(r) \/ SweepRemovesTree(r) \/ SweepEnds(r)
  BY <1>2, <1>4 DEF SweepRemovesFifo, SweepRemovesTree, SweepEnds, Alive, Ended
<1>5. CASE Borrow(r) \/ Install(r) \/ FurnishFails(r)
  BY <1>2, <1>5 DEF Borrow, Install, FurnishFails, Alive, Ended
<1>6. CASE Furnish(r) \/ Version(r)
  <2>1. \E at \in {"serving", "version", "read", "running", "drop"} : Goto(r, at)
    BY <1>6 DEF Furnish, Version, Unwind
  <2>2. Aside
    BY <1>6, <2>1 DEF Furnish, Version, Unwind, Alive, Ended
  <2> QED
    BY <1>2, <2>2
<1>7. CASE SessionEnds(r) \/ ServeEnds(r)
  BY <1>2, <1>7 DEF SessionEnds, ServeEnds, Alive, Ended
<1>8. CASE Removes(r) \/ RemoveFails(r)
  BY <1>2, <1>8 DEF Removes, RemoveFails, Alive, Ended, Stages
<1>9. CASE StageEnds(r) /\ After(r) # "exited"
  <2>1. Goto(r, After(r)) /\ After(r) \in {"tempdir", "global"}
    BY <1>9 DEF StageEnds, After
  <2>2. Aside
    BY <1>9, <2>1 DEF StageEnds, Alive, Ended, Stages
  <2> QED
    BY <1>2, <2>2
<1> QED
  BY <1>1, <1>2, <1>3, <1>4, <1>5, <1>6, <1>7, <1>8, <1>9 DEF Steps

LEMMA TrustNext == IInv /\ TrustInv /\ [Next]_vars => TrustInv'
<1> SUFFICES ASSUME IInv, TrustInv, [Next]_vars PROVE TrustInv'
  OBVIOUS
<1> USE DEF files
<1>1. CASE UNCHANGED vars
  BY <1>1, TrustFrame DEF vars, Alive
<1>2. ASSUME NEW r \in Run, Killed(r) \/ Signalled(r) PROVE TrustInv'
  BY <1>2, TrustEnds DEF Killed, Signalled
<1>3. ASSUME NEW d \in Run, Ages(d) PROVE TrustInv'
  BY <1>3, TrustFrame DEF Ages, Alive
<1>4. ASSUME NEW p \in Pid, ForeignStarts(p) \/ ForeignEnds(p) PROVE TrustInv'
  BY <1>4, TrustFrame DEF ForeignStarts, ForeignEnds, Alive
<1> QED
  BY <1>1, <1>2, <1>3, <1>4, TrustStart, TrustReads, TrustWrites, TrustRenames,
     TrustElsewhere, TrustClaude DEF Next

(* pretrust_cwd_at: the file a run puts in place is an object that holds its
   grant; what it read is kept if nobody wrote since; and a file that is no
   object of the expected shape is never replaced.                         *)
THEOREM TrustTheorem == Spec => TrustMerged
<1> DEFINE Merged ==
      /\ \A r \in Run : pc[r] = "rename" /\ pc'[r] = "running" =>
           /\ trust'.form = "object" /\ r \in trust'.grants
           /\ tmp[pid[r]] = Granted(trust, r)
                => trust'.grants = trust.grants \cup {r} /\ trust'.theirs = trust.theirs
      /\ trust.form \in {"broken", "clash"} => trust' = trust
<1>1. Init => TrustInv
  <2>1. Absent \in Content
    BY DEF Absent, Content, Forms
  <2>2. \A f \in Forms : [Absent EXCEPT !.form = f] \in Content
    BY DEF Absent, Content, Forms
  <2>3. Init => trust \in Content
    BY <2>2 DEF Init, Forms
  <2> QED
    BY <2>1, <2>3 DEF Init, TrustInv, Alive, Ended
<1>2. IInv /\ TrustInv /\ [Next]_vars => [Merged]_vars
  <2> SUFFICES ASSUME IInv, TrustInv, Next PROVE Merged
    OBVIOUS
  <2>1. ASSUME NEW r \in Run, pc[r] = "rename", pc'[r] = "running"
        PROVE  Rename(r)
    <3>1. ASSUME NEW q \in Run, q # r, Start(q) \/ Steps(q) \/ Killed(q) \/ Signalled(q)
          PROVE  pc'[r] = pc[r]
      BY <3>1 DEF Steps, SweepPasses, SweepClaims, SweepRemovesFifo, SweepRemovesTree,
         SweepEnds, Scans, Borrow, Install, Furnish, FurnishFails, Version, Unwind,
         SessionEnds, ServeEnds, Removes, RemoveFails, StageEnds, Goto, IInv, Shape, Done,
         ClientEnds, ServeFails, ReadTrust, WriteTmp, Rename, Ends, Start, Killed, Signalled
    <3>2. ASSUME NEW d \in Run, Ages(d) PROVE pc' = pc
      BY <3>2 DEF Ages
    <3>3. ASSUME NEW p \in Pid, ForeignStarts(p) \/ ForeignEnds(p) PROVE pc' = pc
      BY <3>3 DEF ForeignStarts, ForeignEnds
    <3>4. ClaudeWrites => pc' = pc
      BY DEF ClaudeWrites
    <3>5. Start(r) \/ Steps(r) \/ Killed(r) \/ Signalled(r)
      BY <2>1, <3>1, <3>2, <3>3, <3>4 DEF Next
    <3>6. ~Start(r)
      BY <2>1 DEF Start
    <3>7. ~Killed(r) /\ ~Signalled(r)
      BY <2>1 DEF Killed, Signalled, Ends, Goto, IInv, Shape
    <3> QED
      BY <2>1, <3>5, <3>6, <3>7
      DEF Steps, SweepPasses, SweepClaims, SweepRemovesFifo, SweepRemovesTree, SweepEnds,
          Scans, Borrow, Install, Furnish, FurnishFails, Version, SessionEnds, ServeEnds,
          Removes, RemoveFails, StageEnds, Done, ClientEnds, ServeFails, ReadTrust, WriteTmp,
          Stages
  <2>2. ASSUME NEW r \in Run, pc[r] = "rename", pc'[r] = "running"
        PROVE  /\ trust'.form = "object" /\ r \in trust'.grants
               /\ tmp[pid[r]] = Granted(trust, r)
                    => trust'.grants = trust.grants \cup {r} /\ trust'.theirs = trust.theirs
    <3>1. Merge(tmp[pid[r]], r) /\ trust' = tmp[pid[r]]
      BY <2>1, <2>2, TrustRenames
    <3>2. trust \in Content
      BY DEF TrustInv
    <3> QED
      BY <3>1, <3>2, GrantedIsMerge DEF Merge
  <2>3. ASSUME trust.form \in {"broken", "clash"} PROVE trust' = trust
    <3>1. ~Sound
      BY <2>3 DEF Sound
    <3>2. ~ClaudeWrites
      BY <3>1, TrustClaude
    <3>3. ASSUME NEW r \in Run, Steps(r) PROVE trust' = trust
      <4>1. ~Rename(r)
        BY <3>1, TrustRenames
      <4>2. ReadTrust(r) \/ WriteTmp(r) => trust' = trust
        BY DEF ReadTrust, WriteTmp
      <4> QED
        BY <3>3, <4>1, <4>2, TrustElsewhere
    <3>4. ASSUME NEW r \in Run, Start(r) \/ Killed(r) \/ Signalled(r) PROVE trust' = trust
      BY <3>4 DEF Start, Killed, Signalled, Ends, files
    <3>5. ASSUME NEW d \in Run, Ages(d) PROVE trust' = trust
      BY <3>5 DEF Ages, files
    <3>6. ASSUME NEW p \in Pid, ForeignStarts(p) \/ ForeignEnds(p) PROVE trust' = trust
      BY <3>6 DEF ForeignStarts, ForeignEnds, files
    <3> QED
      BY <3>2, <3>3, <3>4, <3>5, <3>6 DEF Next
  <2> QED
    BY <2>2, <2>3
<1> QED
  BY <1>1, <1>2, TrustNext, Inductive, PTL DEF Spec, TrustMerged
=============================================================================
