------------------------------ MODULE RunFiles ------------------------------
(***************************************************************************)
(* The files that invocations of claude-print leave on disk while several  *)
(* run, end and die side by side: the relay directories                    *)
(* claude-print-<pid>-<rand> (HookInstaller and the sweep of               *)
(* src/src/hook.rs, the scan of src/src/check.rs, the cleanup of           *)
(* src/src/session.rs) and the trust file ~/.claude.json with its sibling  *)
(* tmp file (pretrust_cwd_at of src/src/session.rs).                       *)
(*                                                                         *)
(* A directory is named by the run that makes it: <rand> is never drawn    *)
(* twice.  Its owner is only a number in the name, and the number is given *)
(* out again once its process is gone.  One step is one system call, or a  *)
(* stretch of calls nobody else can see into.  SIGKILL and SIGTERM arrive  *)
(* between any two steps.                                                  *)
(***************************************************************************)
EXTENDS Integers, FiniteSets

CONSTANTS
  Run,            (* invocations                                           *)
  Pid,            (* the numbers of processes                              *)
  NoPid,
  NoRun,
  Casts,          (* what each run is: a set of functions from Run to Kind *)
  MaxErrors       (* bound: removals the file system refuses               *)

Kind == {"session", "pretrust", "serve", "client", "sweeper", "check", "clean", "nobody"}

ASSUME RunFilesAssumption ==
  /\ NoPid \notin Pid
  /\ NoRun \notin Run
  /\ Casts \subseteq [Run -> Kind]
  /\ MaxErrors \in Nat

VARIABLES
  kind,
  pc,             (* each run's place                                      *)
  pid,
  foreign,        (* numbers held by processes of other programs           *)
  tree,           (* the relay directory of each run                       *)
  owner,          (* the number in its name                                *)
  age,            (* its age by mtime: 0, 1 (over 60 s) or 2 (an hour)     *)
  todo,           (* listed entries a sweep or scan has still to look at   *)
  victim,         (* the entry it removes                                  *)
  known,          (* the TEMP_DIR_PATH of the run is set                   *)
  tries,          (* removals tried in this stage of the cleanup           *)
  errors,         (* removals the file system will still refuse            *)
  borrowed,       (* whose FIFO a pooled drive waits on                    *)
  trust,          (* ~/.claude.json: its form, the runs whose directories
                     it trusts, the writes of claude itself it holds       *)
  read,           (* the content a run read and merged its grant into      *)
  tmp             (* the tmp file named after each process number          *)

trees == <<tree, owner, age>>
sweeps == <<todo, victim>>
cleanups == <<known, tries, errors>>
files == <<trust, read, tmp>>
vars == <<kind, pc, pid, foreign, trees, sweeps, cleanups, borrowed, files>>

Ended == {"absent", "exited", "killed", "signalled"}
Stages == {"drop", "tempdir", "global"}
TreeForms == {"none", "bare", "whole", "nofifo", "gone"}
Present(d) == tree[d] \in {"bare", "whole", "nofifo"}
Alive(r) == pc[r] \notin Ended

Forms == {"missing", "object", "clash", "broken"}
Content == [form : Forms, grants : SUBSET Run, theirs : 0..1]
Absent == [form |-> "missing", grants |-> {}, theirs |-> 0]

TypeOK ==
  /\ kind \in Casts
  /\ pc \in [Run -> Ended \cup Stages
                    \cup {"sweep", "fifo", "tree", "dispatch", "furnish",
                          "version", "read", "write", "rename", "running",
                          "serving", "driving"}]
  /\ pid \in [Run -> Pid \cup {NoPid}]
  /\ foreign \subseteq Pid
  /\ tree \in [Run -> TreeForms]
  /\ owner \in [Run -> Pid \cup {NoPid}]
  /\ age \in [Run -> 0..2]
  /\ todo \in [Run -> SUBSET Run]
  /\ victim \in [Run -> Run \cup {NoRun}]
  /\ known \in [Run -> BOOLEAN]
  /\ tries \in [Run -> 0..3]
  /\ errors \in 0..MaxErrors
  /\ borrowed \in [Run -> Run \cup {NoRun}]
  /\ trust \in Content
  /\ read \in [Run -> Content]
  /\ tmp \in [Pid -> Content]

Init ==
  /\ kind \in Casts
  /\ pc = [r \in Run |-> "absent"]
  /\ pid = [r \in Run |-> NoPid]
  /\ foreign = {}
  /\ tree = [r \in Run |-> "none"]
  /\ owner = [r \in Run |-> NoPid]
  /\ age = [r \in Run |-> 0]
  /\ todo = [r \in Run |-> {}]
  /\ victim = [r \in Run |-> NoRun]
  /\ known = [r \in Run |-> FALSE]
  /\ tries = [r \in Run |-> 0]
  /\ errors = MaxErrors
  /\ borrowed = [r \in Run |-> NoRun]
  /\ trust \in {[Absent EXCEPT !.form = f] : f \in
               IF \E r \in Run : kind[r] = "pretrust" THEN Forms ELSE {"missing"}}
  /\ read = [r \in Run |-> Absent]
  /\ tmp = [p \in Pid |-> Absent]

Goto(r, at) == pc' = [pc EXCEPT ![r] = at]

(* A process that ends gives its number back, and its memory with it.      *)
Ends(r, how) ==
  /\ Goto(r, how)
  /\ pid' = [pid EXCEPT ![r] = NoPid]
  /\ todo' = [todo EXCEPT ![r] = {}]
  /\ victim' = [victim EXCEPT ![r] = NoRun]
  /\ tries' = [tries EXCEPT ![r] = 0]
  /\ borrowed' = [borrowed EXCEPT ![r] = NoRun]
  /\ read' = [read EXCEPT ![r] = Absent]
  /\ UNCHANGED <<kind, foreign, known, errors, trust, tmp>>

Takes(d) ==
  /\ tree' = [tree EXCEPT ![d] = "gone"]
  /\ owner' = [owner EXCEPT ![d] = NoPid]
  /\ age' = [age EXCEPT ![d] = 0]

(***************************************************************************)
(* Processes: kill(pid, 0) of is_live_process sees the runs and everybody  *)
(* else's processes, zombies among them, and cannot tell them apart.       *)
(***************************************************************************)
is_live_process(p) == p \in foreign \/ \E r \in Run : Alive(r) /\ pid[r] = p

ForeignStarts(p) ==
  /\ ~is_live_process(p) /\ \E d \in Run : owner[d] = p
  /\ foreign' = foreign \cup {p}
  /\ UNCHANGED <<kind, pc, pid, trees, sweeps, cleanups, borrowed, files>>

ForeignEnds(p) ==
  /\ p \in foreign
  /\ foreign' = foreign \ {p}
  /\ UNCHANGED <<kind, pc, pid, trees, sweeps, cleanups, borrowed, files>>

Ages(d) ==
  /\ Present(d) /\ age[d] < 2
  /\ age' = [age EXCEPT ![d] = @ + 1]
  /\ UNCHANGED <<kind, pc, pid, foreign, tree, owner, sweeps, cleanups, borrowed, files>>

(* Of the numbers that no directory carries one stands for all.            *)
Free == {p \in Pid : ~is_live_process(p)}
Carried == {owner[d] : d \in Run}
Unused == Free \ Carried
Given == (Free \cap Carried) \cup (IF Unused = {} THEN {} ELSE {CHOOSE p \in Unused : TRUE})

(***************************************************************************)
(* main: ordinary invocations sweep first.  A sweeper is one that does     *)
(* nothing else (--version): it may be started again and again.            *)
(***************************************************************************)
Start(r) ==
  /\ \/ pc[r] = "absent" /\ kind[r] # "nobody"
     \/ pc[r] = "exited" /\ kind[r] = "sweeper"
  /\ \E p \in Given : pid' = [pid EXCEPT ![r] = p]
  /\ todo' = [todo EXCEPT ![r] = {d \in Run : Present(d)}]
  /\ Goto(r, IF kind[r] \in {"check", "clean"} THEN "dispatch" ELSE "sweep")
  /\ UNCHANGED <<kind, foreign, trees, victim, cleanups, borrowed, files>>

(***************************************************************************)
(* cleanup_orphans_in: an entry is passed over when it is gone, young, or  *)
(* owned by a live process; otherwise its FIFO goes, then the rest.  What  *)
(* the file system refuses is a warning, and left to the next sweep.       *)
(***************************************************************************)
AnyOld(d) == Present(d) /\ age[d] > 0                  \* mutant: by age alone
OnlyWhole(d) ==                                        \* mutant: no FIFO, no removal
  tree[d] = "whole" /\ age[d] > 0 /\ ~is_live_process(owner[d])
Reclaimable(d) == Present(d) /\ age[d] > 0 /\ ~is_live_process(owner[d])

SweepPasses(r, d) ==
  /\ pc[r] = "sweep" /\ d \in todo[r] /\ ~Reclaimable(d)
  /\ todo' = [todo EXCEPT ![r] = @ \ {d}]
  /\ UNCHANGED <<kind, pc, pid, foreign, trees, victim, cleanups, borrowed, files>>

SweepClaims(r, d) ==
  /\ pc[r] = "sweep" /\ d \in todo[r] /\ Reclaimable(d)
  /\ todo' = [todo EXCEPT ![r] = @ \ {d}]
  /\ victim' = [victim EXCEPT ![r] = d]
  /\ Goto(r, "fifo")
  /\ UNCHANGED <<kind, pid, foreign, trees, cleanups, borrowed, files>>

SweepRemovesFifo(r) ==
  /\ pc[r] = "fifo"
  /\ \/ tree' = [tree EXCEPT ![victim[r]] = IF @ = "whole" THEN "nofifo" ELSE @]
     \/ UNCHANGED tree
  /\ Goto(r, "tree")
  /\ UNCHANGED <<kind, pid, foreign, owner, age, sweeps, cleanups, borrowed, files>>

SweepRemovesTree(r) ==
  /\ pc[r] = "tree"
  /\ Takes(victim[r]) \/ UNCHANGED trees
  /\ victim' = [victim EXCEPT ![r] = NoRun]
  /\ Goto(r, "sweep")
  /\ UNCHANGED <<kind, pid, foreign, todo, cleanups, borrowed, files>>

SweepEnds(r) ==
  /\ pc[r] = "sweep" /\ todo[r] = {}
  /\ Goto(r, "dispatch")
  /\ UNCHANGED <<kind, pid, foreign, trees, sweeps, cleanups, borrowed, files>>

(***************************************************************************)
(* process_orphans_in: the scan of --check has an hour for its threshold   *)
(* and asks nobody whether the owner lives; it removes only with --clean.  *)
(***************************************************************************)
Scans(r, d) ==
  /\ pc[r] = "dispatch" /\ kind[r] \in {"check", "clean"} /\ d \in todo[r]
  /\ todo' = [todo EXCEPT ![r] = @ \ {d}]
  /\ \/ Present(d) /\ age[d] = 2 /\ kind[r] = "clean" /\ Takes(d)
     \/ UNCHANGED trees                           (* or it is refused     *)
  /\ UNCHANGED <<kind, pc, pid, foreign, victim, cleanups, borrowed, files>>

(***************************************************************************)
(* Dispatch: a sweeper or a checker is done; a client borrows the worker   *)
(* of a serving daemon; a session or a daemon installs its relay.          *)
(***************************************************************************)
Done(r) ==
  /\ pc[r] = "dispatch" /\ kind[r] \in {"sweeper", "check", "clean"} /\ todo[r] = {}
  /\ Ends(r, "exited")
  /\ UNCHANGED trees

Kept(s) == UNCHANGED trees     \* the installer stays with the daemon

Borrow(r) ==
  /\ pc[r] = "dispatch" /\ kind[r] = "client"
  /\ \E s \in Run :
       /\ pc[s] = "serving" /\ tree[s] = "whole"
       /\ borrowed' = [borrowed EXCEPT ![r] = s]
       /\ Kept(s)
  /\ Goto(r, "driving")
  /\ UNCHANGED <<kind, pid, foreign, sweeps, cleanups, files>>

(* The daemon is not there, or the drive has ended: the client keeps no
   directory of its own.                                                   *)
ClientEnds(r) ==
  /\ kind[r] = "client" /\ pc[r] \in {"dispatch", "driving"}
  /\ Ends(r, "exited")
  /\ UNCHANGED trees

(* HookInstaller::new: mkdtemp, then the scripts, the settings and the FIFO.
   A call that fails leaves the directory to the drop of its TempDir.      *)
Install(r) ==
  /\ pc[r] = "dispatch" /\ kind[r] \in {"session", "pretrust", "serve"}
  /\ tree' = [tree EXCEPT ![r] = "bare"]
  /\ owner' = [owner EXCEPT ![r] = pid[r]]
  /\ Goto(r, "furnish")
  /\ UNCHANGED <<kind, pid, foreign, age, sweeps, cleanups, borrowed, files>>

Furnish(r) ==
  /\ pc[r] = "furnish"
  /\ tree' = [tree EXCEPT ![r] = IF @ = "bare" THEN "whole" ELSE @]
  /\ known' = [known EXCEPT ![r] = kind[r] # "serve"]
  /\ Goto(r, IF kind[r] = "serve" THEN "serving" ELSE "version")
  /\ UNCHANGED <<kind, pid, foreign, owner, age, sweeps, tries, errors, borrowed, files>>

FurnishFails(r) ==
  /\ pc[r] = "furnish"
  /\ Goto(r, "tempdir")
  /\ UNCHANGED <<kind, pid, foreign, trees, sweeps, cleanups, borrowed, files>>

(* Session::resolve_claude_version runs claude --version and waits for it. *)
NoGuard(r) == Ends(r, "exited")      \* mutant: a bare process::exit, past every guard
Unwind(r) ==
  /\ Goto(r, "drop")
  /\ UNCHANGED <<kind, pid, foreign, sweeps, cleanups, borrowed, files>>

Version(r) ==
  /\ pc[r] = "version"
  /\ \/ /\ Goto(r, IF kind[r] = "pretrust" THEN "read" ELSE "running")
        /\ UNCHANGED <<kind, pid, foreign, sweeps, cleanups, borrowed, files>>
     \/ Unwind(r)
  /\ UNCHANGED trees

(***************************************************************************)
(* pretrust_cwd_at: read, merge, write the tmp file, rename.               *)
(***************************************************************************)
Granted(c, r) == [c EXCEPT !.form = "object", !.grants = @ \cup {r}]

(* The content is merged in memory at once.  A file that is there and is no
   JSON object is left alone and the run goes on; a "projects" or an entry
   that is no object ends it.                                              *)
NeverSkips(c) == FALSE         \* mutant: what cannot be read is taken for absent
Unreadable(c) == c.form = "broken"

ReadTrust(r) ==
  /\ pc[r] = "read"
  /\ CASE Unreadable(trust) -> Goto(r, "running") /\ UNCHANGED read
       [] trust.form = "clash" -> Goto(r, "drop") /\ UNCHANGED read
       [] OTHER -> /\ read' = [read EXCEPT ![r] = Granted(trust, r)]
                   /\ Goto(r, "write")
  /\ UNCHANGED <<kind, pid, foreign, trees, sweeps, cleanups, borrowed, trust, tmp>>

WriteTmp(r) ==
  /\ pc[r] = "write"
  /\ read' = [read EXCEPT ![r] = Absent]
  /\ \/ /\ tmp' = [tmp EXCEPT ![pid[r]] = read[r]]
        /\ Goto(r, "rename")
     \/ /\ Goto(r, "drop")              (* write or chmod fails            *)
        /\ UNCHANGED tmp
  /\ UNCHANGED <<kind, pid, foreign, trees, sweeps, cleanups, borrowed, trust>>

Rename(r) ==
  /\ pc[r] = "rename"
  /\ tmp' = [tmp EXCEPT ![pid[r]] = Absent]
  /\ \/ trust' = tmp[pid[r]] /\ Goto(r, "running")
     \/ UNCHANGED trust /\ Goto(r, "drop")        (* it fails              *)
  /\ UNCHANGED <<kind, pid, foreign, trees, sweeps, cleanups, borrowed, read>>

(* A claude of somebody's own session writes the file.                     *)
ClaudeWrites ==
  /\ trust.form \in {"missing", "object"} /\ trust.theirs = 0
  /\ \E r \in Run : kind[r] = "pretrust"
  /\ trust' = [form |-> "object", grants |-> trust.grants, theirs |-> 1]
  /\ UNCHANGED <<kind, pc, pid, foreign, trees, sweeps, cleanups, borrowed, read, tmp>>

(***************************************************************************)
(* The ways out.  From "running" on the handlers are installed, and the    *)
(* end of the session, however it comes, drops the guards.                 *)
(***************************************************************************)
SessionEnds(r) ==
  /\ pc[r] = "running"
  /\ Goto(r, "drop")
  /\ UNCHANGED <<kind, pid, foreign, trees, sweeps, cleanups, borrowed, files>>

ServeEnds(r) ==
  /\ pc[r] = "serving"
  /\ Goto(r, "drop")
  /\ UNCHANGED <<kind, pid, foreign, trees, sweeps, cleanups, borrowed, files>>

(* The accept loop fails: run_serve exits without shutdown_all, and exit
   runs no destructor.                                                     *)
ServeFails(r) ==
  /\ pc[r] = "serving"
  /\ Ends(r, "exited")
  /\ UNCHANGED trees

(* HookInstaller::cleanup and cleanup_temp_dir try three times each, the
   drop of the TempDir once.                                               *)
Tries(stage) == IF stage = "tempdir" THEN 1 ELSE 3

After(r) ==
  CASE pc[r] = "drop" -> "tempdir"
    [] pc[r] = "tempdir" /\ known[r] -> "global"
    [] OTHER -> "exited"

Removes(r) ==
  /\ pc[r] \in Stages /\ Present(r)
  /\ Takes(r)
  /\ UNCHANGED <<kind, pc, pid, foreign, sweeps, cleanups, borrowed, files>>

RemoveFails(r) ==
  /\ pc[r] \in Stages /\ Present(r) /\ errors > 0 /\ tries[r] < Tries(pc[r])
  /\ errors' = errors - 1
  /\ tries' = [tries EXCEPT ![r] = @ + 1]
  /\ UNCHANGED <<kind, pc, pid, foreign, trees, sweeps, known, borrowed, files>>

StageEnds(r) ==
  /\ pc[r] \in Stages /\ (Present(r) => tries[r] = Tries(pc[r]))
  /\ IF After(r) = "exited"
     THEN Ends(r, "exited")
     ELSE /\ Goto(r, After(r))
          /\ tries' = [tries EXCEPT ![r] = 0]
          /\ UNCHANGED <<kind, pid, foreign, sweeps, known, errors, borrowed, files>>
  /\ UNCHANGED trees

(* SIGKILL, or a panic: the release profile aborts.                        *)
Killed(r) ==
  /\ Alive(r)
  /\ Ends(r, "killed")
  /\ UNCHANGED trees

(* SIGTERM or SIGINT where no handler of the run is installed: a session's
   handlers come after the trust file and go before the guards, a daemon's
   come before its first worker and stay.                                  *)
Handled(r) ==
  \/ pc[r] \in {"running", "serving", "driving"}
  \/ kind[r] = "serve" /\ pc[r] \in {"furnish"} \cup Stages

Signalled(r) ==
  /\ Alive(r) /\ ~Handled(r)
  /\ Ends(r, "signalled")
  /\ UNCHANGED trees

Steps(r) ==
  \/ \E d \in Run : SweepPasses(r, d) \/ SweepClaims(r, d) \/ Scans(r, d)
  \/ SweepRemovesFifo(r) \/ SweepRemovesTree(r) \/ SweepEnds(r)
  \/ Done(r) \/ Borrow(r) \/ ClientEnds(r)
  \/ Install(r) \/ Furnish(r) \/ FurnishFails(r) \/ Version(r)
  \/ ReadTrust(r) \/ WriteTmp(r) \/ Rename(r)
  \/ SessionEnds(r) \/ ServeEnds(r) \/ ServeFails(r)
  \/ Removes(r) \/ RemoveFails(r) \/ StageEnds(r)

Next ==
  \/ \E r \in Run : Start(r) \/ Steps(r) \/ Killed(r) \/ Signalled(r)
  \/ \E d \in Run : Ages(d)
  \/ \E p \in Pid : ForeignStarts(p) \/ ForeignEnds(p)
  \/ ClaudeWrites

(* Every process gets to run, time passes, and somebody calls claude-print
   again and again.                                                        *)
Fairness ==
  /\ \A r \in Run : WF_vars(Steps(r)) /\ WF_vars(Start(r) /\ kind[r] = "sweeper")
  /\ \A d \in Run : WF_vars(Ages(d))

Spec == Init /\ [][Next]_vars /\ Fairness

-----------------------------------------------------------------------------
(* The sweep of one invocation never takes the directory of another that is
   still alive, whatever numbers its dead predecessors have left behind
   (EC-1: the comment of cleanup_orphans); and a pooled drive loses the FIFO
   it waits on only when the daemon that made it is no longer serving, or to
   --check --clean an hour later.                                          *)
TakenBySweep(d) ==
  \E r \in Run : pc[r] \in {"fifo", "tree"} /\ victim[r] = d
                 /\ pc'[r] # pc[r] /\ tree'[d] # tree[d]

DriveKeepsFifo ==
  \A r \in Run :
    pc[r] = "driving" /\ tree[borrowed[r]] # "whole"
      => pc[borrowed[r]] # "serving" \/ \E c \in Run : kind[c] = "clean"

SweepSparesLive ==
  /\ [][\A d \in Run : TakenBySweep(d) => ~Alive(d)]_vars
  /\ []DriveKeepsFifo

(* A run that comes to its exit has removed its directory (INV-1), unless
   the file system refused every one of its attempts.  A daemon whose accept
   loop fails is the exception: it leaves its workers' directories.        *)
Attempts(r) == IF known[r] THEN 7 ELSE 1

ExitRemoves ==
  \A r \in Run :
    pc[r] = "exited" /\ kind[r] \in {"session", "pretrust"} /\ Present(r)
      => MaxErrors - errors >= Attempts(r)

(* What a run renames into place is its own merge, its grant there before
   its child is spawned; no update is lost to a run whose read no other write
   followed; and a file that is no JSON object of the expected shape is never
   replaced (the comment of pretrust_cwd_at).                              *)
TrustMerged ==
  [][/\ \A r \in Run : pc[r] = "rename" /\ pc'[r] = "running" =>
          /\ trust'.form = "object" /\ r \in trust'.grants
          /\ tmp[pid[r]] = Granted(trust, r)
               => trust'.grants = trust.grants \cup {r} /\ trust'.theirs = trust.theirs
     /\ trust.form \in {"broken", "clash"} => trust' = trust]_vars

(* The directory of a run that died is reclaimed as long as somebody calls
   claude-print again, unless a process with its number lives time and again
   or the file system refuses its removal each time.                       *)
Orphan(d) == Present(d) /\ ~Alive(d) /\ ~is_live_process(owner[d])

NobodyCalls == \A r \in Run : kind[r] = "sweeper" => pc[r] \in {"killed", "signalled"}

Refused(d) ==
  \E r \in Run : pc[r] = "tree" /\ victim[r] = d /\ pc'[r] = "sweep" /\ Present(d)'

OrphansReclaimed ==
  \A d \in Run : []<>(~Orphan(d) \/ NobodyCalls) \/ []<><<Refused(d)>>_vars
=============================================================================
