------------------------ MODULE DaemonLifecycle_proofs ------------------------
(***************************************************************************)
(* Proofs about DaemonLifecycle, for any sets of workers, commands,        *)
(* directories and PID files: its type invariant; that the lock of a data  *)
(* directory keeps two daemons apart and is never left behind; and, when   *)
(* commands do not overlap, that a serving daemon can be found and that a  *)
(* stop which says so leaves none.                                         *)
(***************************************************************************)
EXTENDS DaemonLifecycle, TLAPS

(* The strengthening: what a command knows at each of its steps, and that   *)
(* holding the lock of a directory and writing to it are the same thing.    *)

FilesOK ==
    /\ state \in ActiveStates
    /\ pidFile \in [PidFiles -> Pids \cup {NoPid}]

ProcsOK ==
    /\ lock \in [Dirs -> Pids \cup {NoPid}]
    /\ proc \in [Pids -> Alive \cup {"unused", "zombie", "gone"}]
    /\ worker \in [Pids -> [dir : Dirs \cup {NoDir}, file : PidFiles \cup {NoFile},
                            parent : Cmds \cup {NoCmd}]]
    /\ term \subseteq Pids

CmdsOK ==
    /\ pc \in [Cmds -> CmdPc]
    /\ job \in [Cmds -> Jobs]

HistOK == <<overlapped, interrupted, orphaned>> \in BOOLEAN \X BOOLEAN \X BOOLEAN

\* What command c has in its job at label l.
JobFits(j, l) ==
    /\ j.kind = "start" => j.dir \in Dirs /\ j.file \in PidFiles
    /\ l \in {"spawn", "write_pid", "check", "write_state"} => j.kind = "start"
    /\ l \in {"write_pid", "check", "write_state", "signal", "wait", "kill", "verify"}
          => j.pid \in Pids
    /\ l = "read_state" /\ j.kind = "stop" => j.file = j.flag
    /\ l = "read_pid" => j.file \in PidFiles

JobsFit == \A c \in Cmds : JobFits(job[c], pc[c])

LocksHeld ==
    /\ \A p \in Pids : proc[p] \in Alive => worker[p].dir \in Dirs
    /\ \A p \in Pids : proc[p] \in Writing => lock[worker[p].dir] = p
    /\ \A d \in Dirs : lock[d] # NoPid =>
          proc[lock[d]] \in Writing /\ worker[lock[d]].dir = d

IInv == FilesOK /\ ProcsOK /\ CmdsOK /\ HistOK /\ JobsFit /\ LocksHeld

-----------------------------------------------------------------------------
(* Jobs *)

LEMMA NoJobFits ==
    /\ NoJob \in Jobs
    /\ JobFits(NoJob, "idle")
  BY SMT DEF NoJob, Jobs, JobFits

\* A command that moves to label l with job j, when j is a job that fits l.
LEMMA MoveFits ==
    ASSUME CmdsOK, JobsFit, NEW c \in Cmds, NEW j \in Jobs, NEW l \in CmdPc,
           JobFits(j, l),
           job' = [job EXCEPT ![c] = j], pc' = [pc EXCEPT ![c] = l]
    PROVE  CmdsOK' /\ JobsFit'
<1>1. CmdsOK'
  BY DEF CmdsOK
<1>2. ASSUME NEW b \in Cmds PROVE JobFits(job'[b], pc'[b])
  <2>1. CASE b = c
    <3>1. job'[b] = j /\ pc'[b] = l
      BY <2>1 DEF CmdsOK
    <3> QED
      BY <3>1
  <2>2. CASE b # c
    <3>1. job'[b] = job[b] /\ pc'[b] = pc[b]
      BY <2>2 DEF CmdsOK
    <3> QED
      BY <3>1 DEF JobsFit
  <2> QED
    BY <2>1, <2>2
<1> QED
  BY <1>1, <1>2 DEF JobsFit, JobFits

\* The same job at another label.
LEMMA GotoFits ==
    ASSUME CmdsOK, JobsFit, NEW c \in Cmds, NEW l \in CmdPc,
           JobFits(job[c], l), Goto(c, l), UNCHANGED job
    PROVE  CmdsOK' /\ JobsFit'
<1>1. job[c] \in Jobs
  BY DEF CmdsOK
<1>2. job' = [job EXCEPT ![c] = job[c]]
  BY DEF CmdsOK
<1>3. pc' = [pc EXCEPT ![c] = l]
  BY DEF Goto
<1> QED
  BY <1>1, <1>2, <1>3, MoveFits

-----------------------------------------------------------------------------
(* The ends of processes *)

\* A command that returns keeps the locks: it only touches zombies and parents.
LEMMA EndKeeps ==
    ASSUME ProcsOK, CmdsOK, JobsFit, LocksHeld, NEW c \in Cmds, End(c),
           UNCHANGED <<lock, term>>
    PROVE  ProcsOK' /\ CmdsOK' /\ JobsFit' /\ LocksHeld'
<1>1. CmdsOK' /\ JobsFit'
  <2>1. "idle" \in CmdPc
    BY DEF CmdPc
  <2>2. job' = [job EXCEPT ![c] = NoJob] /\ pc' = [pc EXCEPT ![c] = "idle"]
    BY DEF End, Goto
  <2> QED
    BY <2>1, <2>2, NoJobFits, MoveFits
<1>2. ASSUME NEW p \in Pids
      PROVE  /\ proc'[p] \in Alive \cup {"unused", "zombie", "gone"}
             /\ proc[p] \in Alive => proc'[p] = proc[p]
             /\ proc'[p] \in Alive => proc[p] = proc'[p]
  BY SMT DEF ProcsOK, End, Alive
<1>3. ASSUME NEW p \in Pids
      PROVE  /\ worker'[p] \in [dir : Dirs \cup {NoDir}, file : PidFiles \cup {NoFile},
                                parent : Cmds \cup {NoCmd}]
             /\ worker'[p].dir = worker[p].dir
  <2>1. worker[p] \in [dir : Dirs \cup {NoDir}, file : PidFiles \cup {NoFile},
                       parent : Cmds \cup {NoCmd}]
    BY DEF ProcsOK
  <2>2. CASE worker[p].parent = c
    <3>1. PICK w : w = [worker[p] EXCEPT !.parent = NoCmd]
      OBVIOUS
    <3>2. worker'[p] = w
      BY <2>2, <3>1 DEF End
    <3>3. w \in [dir : Dirs \cup {NoDir}, file : PidFiles \cup {NoFile},
                 parent : Cmds \cup {NoCmd}]
      BY <2>1, <3>1, Zenon
    <3>4. w.dir = worker[p].dir
      BY <2>1, <3>1, SMT
    <3> QED
      BY <3>2, <3>3, <3>4
  <2>3. CASE worker[p].parent # c
    BY <2>1, <2>3 DEF End
  <2> QED
    BY <2>2, <2>3
<1>4. ProcsOK'
  <2>1. proc' = [p \in Pids |-> proc'[p]] /\ worker' = [p \in Pids |-> worker'[p]]
    BY DEF End
  <2>2. proc' \in [Pids -> Alive \cup {"unused", "zombie", "gone"}]
    BY <2>1, <1>2
  <2>3. worker' \in [Pids -> [dir : Dirs \cup {NoDir}, file : PidFiles \cup {NoFile},
                              parent : Cmds \cup {NoCmd}]]
    BY <2>1, <1>3
  <2> QED
    BY <2>2, <2>3 DEF ProcsOK
<1>5. LocksHeld'
  <2>1. Writing \subseteq Alive
    BY DEF Writing, Alive
  <2>2. \A d \in Dirs : lock[d] # NoPid => lock[d] \in Pids
    BY DEF ProcsOK
  <2> QED
    BY <2>1, <2>2, <1>2, <1>3 DEF LocksHeld
<1> QED
  BY <1>1, <1>4, <1>5

\* A worker that stops being alive, whose lock the kernel drops.
LEMMA DeathKeepsLocks ==
    ASSUME ProcsOK, LocksHeld, NEW p \in Pids, NEW s \in {"zombie", "gone"},
           proc' = [proc EXCEPT ![p] = s],
           lock' = [d \in Dirs |-> IF lock[d] = p THEN NoPid ELSE lock[d]],
           \A q \in Pids : worker'[q].dir = worker[q].dir
    PROVE  /\ lock' \in [Dirs -> Pids \cup {NoPid}]
           /\ proc' \in [Pids -> Alive \cup {"unused", "zombie", "gone"}]
           /\ LocksHeld'
<1>1. lock' \in [Dirs -> Pids \cup {NoPid}]
  BY DEF ProcsOK
<1>2. proc' \in [Pids -> Alive \cup {"unused", "zombie", "gone"}]
  BY DEF ProcsOK
<1>3. proc'[p] = s /\ s \notin Alive /\ s \notin Writing
  BY DEF ProcsOK, Alive, Writing
<1>4. \A q \in Pids : q # p => proc'[q] = proc[q]
  BY DEF ProcsOK
<1>5. \A q \in Pids : proc'[q] \in Alive => worker'[q].dir \in Dirs
  BY <1>3, <1>4 DEF LocksHeld
<1>6. ASSUME NEW q \in Pids, proc'[q] \in Writing
      PROVE  lock'[worker'[q].dir] = q
  <2>1. q # p /\ proc[q] \in Writing
    BY <1>3, <1>4, <1>6
  <2>2. worker[q].dir \in Dirs
    BY <2>1 DEF LocksHeld, Writing, Alive
  <2>3. lock[worker[q].dir] = q
    BY <2>1 DEF LocksHeld
  <2> QED
    BY <2>1, <2>2, <2>3
<1>7. ASSUME NEW d \in Dirs, lock'[d] # NoPid
      PROVE  proc'[lock'[d]] \in Writing /\ worker'[lock'[d]].dir = d
  <2>1. lock'[d] = lock[d] /\ lock[d] # p /\ lock[d] # NoPid
    BY <1>7
  <2>2. lock[d] \in Pids
    BY <2>1 DEF ProcsOK
  <2>3. proc[lock[d]] \in Writing /\ worker[lock[d]].dir = d
    BY <2>1 DEF LocksHeld
  <2> QED
    BY <2>1, <2>2, <2>3, <1>4
<1> QED
  BY <1>1, <1>2, <1>5, <1>6, <1>7 DEF LocksHeld

LEMMA ExitKeeps ==
    ASSUME ProcsOK, LocksHeld, NEW p \in Pids, Exit(p), UNCHANGED worker
    PROVE  ProcsOK' /\ LocksHeld'
<1> DEFINE s == IF worker[p].parent # NoCmd THEN "zombie" ELSE "gone"
<1>1. s \in {"zombie", "gone"}
  OBVIOUS
<1>2. proc' = [proc EXCEPT ![p] = s]
  BY DEF Exit
<1>3. lock' = [d \in Dirs |-> IF lock[d] = p THEN NoPid ELSE lock[d]]
  BY DEF Exit
<1>4. term' \subseteq Pids
  BY DEF Exit, ProcsOK
<1> HIDE DEF s
<1>5. /\ lock' \in [Dirs -> Pids \cup {NoPid}]
      /\ proc' \in [Pids -> Alive \cup {"unused", "zombie", "gone"}]
      /\ LocksHeld'
  BY <1>1, <1>2, <1>3, DeathKeepsLocks
<1> QED
  BY <1>4, <1>5 DEF ProcsOK

LEMMA EndAndKillKeeps ==
    ASSUME ProcsOK, CmdsOK, JobsFit, LocksHeld, NEW c \in Cmds, EndAndKill(c),
           job[c].pid \in Pids
    PROVE  ProcsOK' /\ CmdsOK' /\ JobsFit' /\ LocksHeld'
<1> DEFINE p == job[c].pid
<1>1. CmdsOK' /\ JobsFit'
  <2>1. "idle" \in CmdPc
    BY DEF CmdPc
  <2>2. job' = [job EXCEPT ![c] = NoJob] /\ pc' = [pc EXCEPT ![c] = "idle"]
    BY DEF EndAndKill, Goto
  <2> QED
    BY <2>1, <2>2, NoJobFits, MoveFits
<1>2. p \in Pids
  OBVIOUS
<1>3. /\ proc' = [proc EXCEPT ![p] = "gone"]
      /\ lock' = [d \in Dirs |-> IF lock[d] = p THEN NoPid ELSE lock[d]]
      /\ term' = term \ {p}
      /\ worker' = [worker EXCEPT ![p].parent = NoCmd]
  BY DEF EndAndKill
<1> HIDE DEF p
<1>4. PICK w : w = [worker[p] EXCEPT !.parent = NoCmd]
  OBVIOUS
<1>5. /\ worker' \in [Pids -> [dir : Dirs \cup {NoDir}, file : PidFiles \cup {NoFile},
                               parent : Cmds \cup {NoCmd}]]
      /\ \A q \in Pids : worker'[q].dir = worker[q].dir
  <2>1. worker' = [worker EXCEPT ![p] = w]
    BY <1>3, <1>4
  <2>2. worker[p] \in [dir : Dirs \cup {NoDir}, file : PidFiles \cup {NoFile},
                       parent : Cmds \cup {NoCmd}]
    BY <1>2 DEF ProcsOK
  <2>3. w \in [dir : Dirs \cup {NoDir}, file : PidFiles \cup {NoFile},
               parent : Cmds \cup {NoCmd}]
    BY <1>4, <2>2, Zenon
  <2>4. w.dir = worker[p].dir
    BY <1>4, <2>2, SMT
  <2> QED
    BY <1>2, <2>1, <2>3, <2>4 DEF ProcsOK
<1>6. /\ lock' \in [Dirs -> Pids \cup {NoPid}]
      /\ proc' \in [Pids -> Alive \cup {"unused", "zombie", "gone"}]
      /\ LocksHeld'
  BY <1>2, <1>3, <1>5, DeathKeepsLocks
<1>7. term' \subseteq Pids
  BY <1>3 DEF ProcsOK
<1> QED
  BY <1>1, <1>5, <1>6, <1>7 DEF ProcsOK

-----------------------------------------------------------------------------
(* What a step leaves alone *)

LEMMA ProcsUnchanged ==
    ASSUME ProcsOK, LocksHeld, UNCHANGED <<lock, procVars>>
    PROVE  ProcsOK' /\ LocksHeld'
  BY DEF ProcsOK, LocksHeld, procVars

LEMMA CmdsUnchanged ==
    ASSUME CmdsOK, JobsFit, UNCHANGED cmdVars
    PROVE  CmdsOK' /\ JobsFit'
  BY DEF CmdsOK, JobsFit, JobFits, cmdVars

LEMMA HistUnchanged ==
    ASSUME HistOK, UNCHANGED histVars
    PROVE  HistOK'
  BY DEF HistOK, histVars

\* Removing the PID file or the active state, whatever they say.
LEMMA RemoveFilesOK ==
    ASSUME FilesOK, NEW f,
           pidFile' = pidFile \/ pidFile' = [pidFile EXCEPT ![f] = NoPid],
           state' = state \/ state' = NoState
    PROVE  FilesOK'
  BY DEF FilesOK, ActiveStates

\* The state file names a worker and a PID file, or nothing.
LEMMA StateFields ==
    ASSUME FilesOK, state # NoState
    PROVE  state.pid \in Pids /\ state.file \in PidFiles
  BY DEF FilesOK, ActiveStates

-----------------------------------------------------------------------------
(* The user *)

LEMMA IssueKeeps ==
    ASSUME IInv, NEW c \in Cmds, NEW j \in Jobs, NEW l \in CmdPc, JobFits(j, l), Issue(c, j, l)
    PROVE  IInv'
<1>1. CmdsOK' /\ JobsFit'
  <2>1. job' = [job EXCEPT ![c] = j] /\ pc' = [pc EXCEPT ![c] = l]
    BY DEF Issue, Goto
  <2> QED
    BY <2>1, MoveFits DEF IInv
<1>2. ProcsOK' /\ LocksHeld'
  BY ProcsUnchanged DEF IInv, Issue, files
<1>3. FilesOK'
  BY DEF IInv, Issue, files, FilesOK
<1>4. HistOK'
  BY DEF IInv, Issue, HistOK
<1> QED
  BY <1>1, <1>2, <1>3, <1>4 DEF IInv

LEMMA UserKeeps ==
    ASSUME IInv, NEW c \in Cmds, UserStep(c)
    PROVE  IInv'
<1>1. ASSUME NEW d \in Dirs, NEW f \in PidFiles, IssueStart(c, d, f) PROVE IInv'
  <2>0. PICK j : j = [NoJob EXCEPT !.kind = "start", !.dir = d, !.file = f]
    OBVIOUS
  <2>1. j \in Jobs /\ JobFits(j, "read_state") /\ "read_state" \in CmdPc
    <3>1. j \in Jobs
      BY <2>0, NoJobFits, Zenon DEF Jobs
    <3> QED
      BY <2>0, <3>1, SMT DEF NoJob, JobFits, CmdPc
  <2>2. Issue(c, j, "read_state")
    BY <1>1, <2>0 DEF IssueStart
  <2> QED
    BY <2>1, <2>2, IssueKeeps
<1>2. ASSUME NEW f \in PidFiles \cup {NoFile}, IssueStop(c, f) PROVE IInv'
  <2>0. PICK j : j = [NoJob EXCEPT !.kind = "stop", !.flag = f, !.file = f]
    OBVIOUS
  <2>1. j \in Jobs /\ JobFits(j, "read_state") /\ "read_state" \in CmdPc
    <3>1. j \in Jobs
      BY <2>0, NoJobFits, Zenon DEF Jobs
    <3> QED
      BY <2>0, <3>1, SMT DEF NoJob, JobFits, CmdPc
  <2>2. Issue(c, j, "read_state")
    BY <1>2, <2>0 DEF IssueStop
  <2> QED
    BY <2>1, <2>2, IssueKeeps
<1>3. ASSUME NEW f \in PidFiles, IssueStopDir(c, f) PROVE IInv'
  <2>0. PICK j : j = [NoJob EXCEPT !.kind = "stop", !.flag = f, !.file = f]
    OBVIOUS
  <2>1. j \in Jobs /\ JobFits(j, "read_pid") /\ "read_pid" \in CmdPc
    <3>1. j \in Jobs
      BY <2>0, NoJobFits, Zenon DEF Jobs
    <3> QED
      BY <2>0, <3>1, SMT DEF NoJob, JobFits, CmdPc
  <2>2. Issue(c, j, "read_pid")
    BY <1>3, <2>0 DEF IssueStopDir
  <2> QED
    BY <2>1, <2>2, IssueKeeps
<1>4. ASSUME IssueStatus(c) PROVE IInv'
  <2>0. PICK j : j = [NoJob EXCEPT !.kind = "status"]
    OBVIOUS
  <2>1. j \in Jobs /\ JobFits(j, "read_state") /\ "read_state" \in CmdPc
    <3>1. j \in Jobs
      BY <2>0, NoJobFits, Zenon DEF Jobs
    <3> QED
      BY <2>0, <3>1, SMT DEF NoJob, JobFits, CmdPc
  <2>2. Issue(c, j, "read_state")
    BY <1>4, <2>0 DEF IssueStatus
  <2> QED
    BY <2>1, <2>2, IssueKeeps
<1>5. ASSUME Interrupt(c) PROVE IInv'
  <2>1. End(c) /\ UNCHANGED <<files, term, overlapped>>
    BY <1>5 DEF Interrupt
  <2>2. ProcsOK' /\ CmdsOK' /\ JobsFit' /\ LocksHeld'
    BY <2>1, EndKeeps DEF IInv, files
  <2>3. FilesOK'
    BY <2>1 DEF IInv, files, FilesOK
  <2>4. HistOK'
    BY <1>5 DEF IInv, HistOK, Interrupt
  <2> QED
    BY <2>2, <2>3, <2>4 DEF IInv
<1> QED
  BY <1>1, <1>2, <1>3, <1>4, <1>5 DEF UserStep

-----------------------------------------------------------------------------
(* Workers *)

\* A step of a living worker to a living state that is not a change of lock.
LEMMA WorkerMoves ==
    ASSUME ProcsOK, LocksHeld, NEW p \in Pids, NEW s \in Alive, proc[p] \in Alive,
           proc[p] \in Writing <=> s \in Writing,
           proc' = [proc EXCEPT ![p] = s], UNCHANGED <<lock, worker, term>>
    PROVE  ProcsOK' /\ LocksHeld'
<1>1. ProcsOK'
  BY DEF ProcsOK
<1>2. ASSUME NEW q \in Pids
      PROVE  /\ proc'[q] \in Alive <=> proc[q] \in Alive
             /\ proc'[q] \in Writing <=> proc[q] \in Writing
  BY DEF ProcsOK
<1>3. \A d \in Dirs : lock[d] # NoPid => lock[d] \in Pids
  BY DEF ProcsOK
<1>4. LocksHeld'
  BY <1>2, <1>3 DEF LocksHeld
<1> QED
  BY <1>1, <1>4

LEMMA WorkerKeeps ==
    ASSUME IInv, NEW p \in Pids, WorkerStep(p)
    PROVE  IInv'
<1>1. CmdsOK' /\ JobsFit' /\ HistOK'
  BY CmdsUnchanged, HistUnchanged
     DEF IInv, WorkerStep, WorkerWritePid, AcquireLock, StartCapture, StopCapture,
         CloseWriter, Unlink, Crash
<1>2. FilesOK'
  <2>1. CASE WorkerWritePid(p)
    BY <2>1 DEF WorkerWritePid, IInv, FilesOK
  <2>2. CASE Unlink(p)
    BY <2>2, RemoveFilesOK DEF Unlink, IInv
  <2>3. CASE UNCHANGED <<state, pidFile>>
    BY <2>3 DEF IInv, FilesOK
  <2> QED
    BY <2>1, <2>2, <2>3
       DEF WorkerStep, AcquireLock, StartCapture, StopCapture, CloseWriter, Crash, files
<1>3. ProcsOK' /\ LocksHeld'
  <2> USE DEF IInv
  <2>1. CASE WorkerWritePid(p)
    BY <2>1, WorkerMoves DEF WorkerWritePid, Alive, Writing
  <2>2. CASE AcquireLock(p)
    <3>1. CASE lock[worker[p].dir] = NoPid
      <4>1. /\ proc[p] = "lock"
            /\ lock' = [lock EXCEPT ![worker[p].dir] = p]
            /\ proc' = [proc EXCEPT ![p] = "init"]
            /\ UNCHANGED <<worker, term>>
        BY <2>2, <3>1 DEF AcquireLock
      <4>2. worker[p].dir \in Dirs
        BY <4>1 DEF LocksHeld, Alive
      <4>3. ProcsOK'
        BY <4>1, <4>2 DEF ProcsOK, Alive
      <4>4. proc'[p] = "init" /\ \A q \in Pids : q # p => proc'[q] = proc[q]
        BY <4>1 DEF ProcsOK
      <4>5. lock'[worker[p].dir] = p /\ \A d \in Dirs : d # worker[p].dir => lock'[d] = lock[d]
        BY <4>1, <4>2 DEF ProcsOK
      <4>6. ASSUME NEW q \in Pids, proc'[q] \in Alive PROVE worker'[q].dir \in Dirs
        BY <4>1, <4>2, <4>4, <4>6 DEF LocksHeld
      <4>7. ASSUME NEW q \in Pids, proc'[q] \in Writing PROVE lock'[worker'[q].dir] = q
        <5>1. CASE q = p
          BY <5>1, <4>1, <4>5
        <5>2. CASE q # p
          <6>1. proc[q] \in Writing /\ proc[q] \in Alive
            BY <5>2, <4>4, <4>7 DEF Writing, Alive
          <6>2. lock[worker[q].dir] = q /\ worker[q].dir \in Dirs
            BY <6>1 DEF LocksHeld
          <6>3. worker[q].dir # worker[p].dir
            BY <6>2, <3>1, DaemonLifecycleAssumption
          <6> QED
            BY <6>2, <6>3, <4>1, <4>5
        <5> QED
          BY <5>1, <5>2
      <4>8. ASSUME NEW d \in Dirs, lock'[d] # NoPid
            PROVE  proc'[lock'[d]] \in Writing /\ worker'[lock'[d]].dir = d
        <5>1. CASE d = worker[p].dir
          BY <5>1, <4>1, <4>4, <4>5 DEF Writing
        <5>2. CASE d # worker[p].dir
          <6>1. lock'[d] = lock[d] /\ lock[d] \in Pids
            BY <5>2, <4>5, <4>8 DEF ProcsOK
          <6>2. proc[lock[d]] \in Writing /\ worker[lock[d]].dir = d
            BY <6>1, <4>8 DEF LocksHeld
          <6> QED
            BY <6>1, <6>2, <4>1, <4>4, <5>2
        <5> QED
          BY <5>1, <5>2
      <4> QED
        BY <4>3, <4>6, <4>7, <4>8 DEF LocksHeld
    <3>2. CASE lock[worker[p].dir] # NoPid
      BY <2>2, <3>2, WorkerMoves DEF AcquireLock, Alive, Writing
    <3> QED
      BY <3>1, <3>2
  <2>3. CASE StartCapture(p)
    BY <2>3, WorkerMoves DEF StartCapture, files, Alive, Writing
  <2>4. CASE StopCapture(p)
    BY <2>4, WorkerMoves DEF StopCapture, files, Alive, Writing
  <2>5. CASE CloseWriter(p)
    <3>1. /\ proc[p] = "close"
          /\ lock' = [lock EXCEPT ![worker[p].dir] = NoPid]
          /\ proc' = [proc EXCEPT ![p] = "unlink"]
          /\ UNCHANGED <<worker, term>>
      BY <2>5 DEF CloseWriter
    <3>2. worker[p].dir \in Dirs /\ lock[worker[p].dir] = p
      BY <3>1 DEF LocksHeld, Alive, Writing
    <3>3. ProcsOK'
      BY <3>1, <3>2 DEF ProcsOK, Alive
    <3>4. proc'[p] = "unlink" /\ \A q \in Pids : q # p => proc'[q] = proc[q]
      BY <3>1 DEF ProcsOK
    <3>5. lock'[worker[p].dir] = NoPid /\ \A d \in Dirs : d # worker[p].dir => lock'[d] = lock[d]
      BY <3>1, <3>2 DEF ProcsOK
    <3>6. ASSUME NEW q \in Pids, proc'[q] \in Alive PROVE worker'[q].dir \in Dirs
      BY <3>1, <3>2, <3>4, <3>6 DEF LocksHeld
    <3>7. ASSUME NEW q \in Pids, proc'[q] \in Writing PROVE lock'[worker'[q].dir] = q
      <4>1. q # p /\ proc[q] \in Writing /\ proc[q] \in Alive
        BY <3>4, <3>7 DEF Writing, Alive
      <4>2. lock[worker[q].dir] = q /\ worker[q].dir \in Dirs
        BY <4>1 DEF LocksHeld
      <4>3. worker[q].dir # worker[p].dir
        BY <4>1, <4>2, <3>2
      <4> QED
        BY <4>2, <4>3, <3>1, <3>5
    <3>8. ASSUME NEW d \in Dirs, lock'[d] # NoPid
          PROVE  proc'[lock'[d]] \in Writing /\ worker'[lock'[d]].dir = d
      <4>1. lock'[d] = lock[d] /\ lock[d] \in Pids
        BY <3>5, <3>8 DEF ProcsOK
      <4>2. proc[lock[d]] \in Writing /\ worker[lock[d]].dir = d
        BY <4>1, <3>8 DEF LocksHeld
      <4>3. lock[d] # p
        BY <4>2, <3>5, <3>8
      <4> QED
        BY <4>1, <4>2, <4>3, <3>1, <3>4
    <3> QED
      BY <3>3, <3>6, <3>7, <3>8 DEF LocksHeld
  <2>6. CASE Unlink(p)
    BY <2>6, ExitKeeps DEF Unlink
  <2>7. CASE Crash(p)
    BY <2>7, ExitKeeps DEF Crash
  <2> QED
    BY <2>1, <2>2, <2>3, <2>4, <2>5, <2>6, <2>7 DEF WorkerStep
<1> QED
  BY <1>1, <1>2, <1>3 DEF IInv

-----------------------------------------------------------------------------
(* Commands *)

LEMMA EndStep ==
    ASSUME IInv, NEW c \in Cmds, End(c), UNCHANGED <<lock, term, histVars>>, FilesOK'
    PROVE  IInv'
<1>1. ProcsOK' /\ CmdsOK' /\ JobsFit' /\ LocksHeld'
  BY EndKeeps DEF IInv
<1>2. HistOK'
  BY HistUnchanged DEF IInv
<1> QED
  BY <1>1, <1>2 DEF IInv

LEMMA GotoStep ==
    ASSUME IInv, NEW c \in Cmds, NEW l \in CmdPc, JobFits(job[c], l), Goto(c, l),
           UNCHANGED <<job, lock, proc, worker, term, histVars>>, FilesOK'
    PROVE  IInv'
<1>1. CmdsOK' /\ JobsFit'
  BY GotoFits DEF IInv
<1>2. ProcsOK' /\ LocksHeld'
  BY ProcsUnchanged DEF IInv, procVars
<1>3. HistOK'
  BY HistUnchanged DEF IInv
<1> QED
  BY <1>1, <1>2, <1>3 DEF IInv

LEMMA MoveStep ==
    ASSUME IInv, NEW c \in Cmds, NEW l \in CmdPc, NEW j \in Jobs, JobFits(j, l), Goto(c, l),
           job' = [job EXCEPT ![c] = j],
           UNCHANGED <<lock, proc, worker, term, histVars>>, FilesOK'
    PROVE  IInv'
<1>1. CmdsOK' /\ JobsFit'
  <2>1. pc' = [pc EXCEPT ![c] = l]
    BY DEF Goto
  <2> QED
    BY <2>1, MoveFits DEF IInv
<1>2. ProcsOK' /\ LocksHeld'
  BY ProcsUnchanged DEF IInv, procVars
<1>3. HistOK'
  BY HistUnchanged DEF IInv
<1> QED
  BY <1>1, <1>2, <1>3 DEF IInv

\* A command that reads the active state, cleans it up or reads the PID file.
LEMMA ReadKeeps ==
    ASSUME IInv, NEW c \in Cmds,
           \/ ReadNoState(c) \/ ReadRunningState(c) \/ ReadStaleState(c)
           \/ CleanStalePid(c) \/ CleanStaleState(c) \/ ReadPidFile(c) \/ DropStalePid(c)
    PROVE  IInv'
<1> USE DEF files, procVars
<1>1. /\ FilesOK /\ job[c] \in Jobs /\ JobFits(job[c], pc[c])
      /\ job[c].kind \in {"none", "start", "stop", "status"}
      /\ job[c].flag \in PidFiles \cup {NoFile}
  <2>1. FilesOK /\ job[c] \in Jobs /\ JobFits(job[c], pc[c])
    BY DEF IInv, CmdsOK, JobsFit
  <2> QED
    BY <2>1 DEF Jobs
<1>2. {"read_pid", "signal", "clean_pid", "clean_state", "spawn", "drop_pid"} \subseteq CmdPc
  BY DEF CmdPc
<1>3. CASE ReadNoState(c)
  <2>1. FilesOK'
    BY <1>1, <1>3 DEF ReadNoState, FilesOK
  <2>2. CASE End(c)
    BY <1>3, <2>1, <2>2, EndStep DEF ReadNoState
  <2>3. CASE ~End(c)
    <3>1. /\ pc[c] = "read_state"
          /\ job[c].kind = "start" \/ (job[c].kind = "stop" /\ job[c].flag # NoFile)
          /\ Goto(c, "read_pid")
          /\ UNCHANGED <<job, lock, proc, worker, term, histVars>>
      BY <1>3, <2>3 DEF ReadNoState
    <3>2. JobFits(job[c], "read_pid")
      BY <1>1, <3>1, SMT DEF JobFits
    <3> QED
      BY <1>2, <2>1, <3>1, <3>2, GotoStep
  <2> QED
    BY <2>2, <2>3
<1>4. CASE ReadRunningState(c)
  <2>1. FilesOK'
    BY <1>1, <1>4 DEF ReadRunningState, FilesOK
  <2>2. CASE End(c)
    BY <1>4, <2>1, <2>2, EndStep DEF ReadRunningState
  <2>3. CASE ~End(c)
    <3>1. PICK j : j = [job[c] EXCEPT !.pid = state.pid, !.file = state.file, !.forget = TRUE]
      OBVIOUS
    <3>2. /\ state # NoState /\ job[c].kind = "stop" /\ Goto(c, "signal")
          /\ job' = [job EXCEPT ![c] = j]
          /\ UNCHANGED <<lock, proc, worker, term, histVars>>
      BY <1>4, <2>3, <3>1 DEF ReadRunningState
    <3>3. state.pid \in Pids /\ state.file \in PidFiles
      BY <1>1, <3>2, StateFields
    <3>4. j \in Jobs
      BY <1>1, <3>1, <3>3, Zenon DEF Jobs
    <3>5. JobFits(j, "signal")
      BY <1>1, <3>1, <3>2, <3>3, SMT DEF JobFits, Jobs
    <3> QED
      BY <1>2, <2>1, <3>2, <3>4, <3>5, MoveStep
  <2> QED
    BY <2>2, <2>3
<1>5. CASE ReadStaleState(c)
  <2>1. FilesOK'
    BY <1>1, <1>5 DEF ReadStaleState, FilesOK
  <2>2. PICK j : j = [job[c] EXCEPT !.flag = state.file]
    OBVIOUS
  <2>3. /\ state # NoState /\ Goto(c, "clean_pid")
        /\ job' = [job EXCEPT ![c] = j]
        /\ UNCHANGED <<lock, proc, worker, term, histVars>>
    BY <1>5, <2>2 DEF ReadStaleState
  <2>4. state.pid \in Pids /\ state.file \in PidFiles
    BY <1>1, <2>3, StateFields
  <2>5. j \in Jobs
    BY <1>1, <2>2, <2>4, Zenon DEF Jobs
  <2>6. JobFits(j, "clean_pid")
    BY <1>1, <2>2, SMT DEF JobFits, Jobs
  <2> QED
    BY <1>2, <2>1, <2>3, <2>5, <2>6, MoveStep
<1>6. CASE CleanStalePid(c)
  <2>1. FilesOK'
    BY <1>1, <1>6, RemoveFilesOK DEF CleanStalePid
  <2>2. JobFits(job[c], "clean_state")
    BY <1>1, SMT DEF JobFits
  <2> QED
    BY <1>2, <1>6, <2>1, <2>2, GotoStep DEF CleanStalePid
<1>7. CASE CleanStaleState(c)
  <2>1. FilesOK'
    BY <1>1, <1>7, RemoveFilesOK DEF CleanStaleState
  <2>2. CASE End(c)
    BY <1>7, <2>1, <2>2, EndStep DEF CleanStaleState
  <2>3. CASE ~End(c)
    <3>1. /\ job[c].kind = "start" /\ Goto(c, "read_pid")
          /\ UNCHANGED <<job, lock, proc, worker, term, histVars>>
      BY <1>7, <2>3 DEF CleanStaleState
    <3>2. JobFits(job[c], "read_pid")
      BY <1>1, <3>1, SMT DEF JobFits
    <3> QED
      BY <1>2, <2>1, <3>1, <3>2, GotoStep
  <2> QED
    BY <2>2, <2>3
<1>8. CASE ReadPidFile(c)
  <2> DEFINE p == pidFile[job[c].file]
  <2>1. FilesOK'
    BY <1>1, <1>8 DEF ReadPidFile, FilesOK
  <2>2. pc[c] = "read_pid" /\ UNCHANGED <<lock, term, histVars>>
    BY <1>8 DEF ReadPidFile
  <2>3. p \in Pids \cup {NoPid}
    BY <1>1, <2>2 DEF JobFits, FilesOK
  <2>4. CASE End(c)
    BY <2>1, <2>2, <2>4, EndStep
  <2>5. CASE p = NoPid /\ job[c].kind = "start" /\ Goto(c, "spawn") /\ UNCHANGED <<job, proc, worker>>
    <3>1. JobFits(job[c], "spawn")
      BY <1>1, <2>5, SMT DEF JobFits
    <3> QED
      BY <1>2, <2>1, <2>2, <2>5, <3>1, GotoStep
  <2>6. CASE p # NoPid /\ Goto(c, "drop_pid") /\ UNCHANGED <<job, proc, worker>>
    <3>1. JobFits(job[c], "drop_pid")
      BY <1>1, SMT DEF JobFits
    <3> QED
      BY <1>2, <2>1, <2>2, <2>6, <3>1, GotoStep
  <2>7. CASE /\ p # NoPid /\ job[c].kind = "stop" /\ job' = [job EXCEPT ![c].pid = p]
             /\ Goto(c, "signal") /\ UNCHANGED <<proc, worker>>
    <3>1. PICK j : j = [job[c] EXCEPT !.pid = p]
      OBVIOUS
    <3>2. job' = [job EXCEPT ![c] = j]
      BY <2>7, <3>1
    <3>3. p \in Pids
      BY <2>3, <2>7
    <3> HIDE DEF p
    <3>4. j \in Jobs
      BY <1>1, <3>1, <3>3, Zenon DEF Jobs
    <3>5. JobFits(j, "signal")
      BY <1>1, <2>7, <3>1, <3>3, SMT DEF JobFits, Jobs
    <3> QED
      BY <1>2, <2>1, <2>2, <2>7, <3>2, <3>4, <3>5, MoveStep
  <2> QED
    BY <1>8, <2>4, <2>5, <2>6, <2>7 DEF ReadPidFile
<1>9. CASE DropStalePid(c)
  <2>1. FilesOK'
    BY <1>1, <1>9, RemoveFilesOK DEF DropStalePid
  <2>2. CASE End(c)
    BY <1>9, <2>1, <2>2, EndStep DEF DropStalePid
  <2>3. CASE ~End(c)
    <3>1. /\ job[c].kind = "start" /\ Goto(c, "spawn")
          /\ UNCHANGED <<job, lock, proc, worker, term, histVars>>
      BY <1>9, <2>3 DEF DropStalePid
    <3>2. JobFits(job[c], "spawn")
      BY <1>1, <3>1, SMT DEF JobFits
    <3> QED
      BY <1>2, <2>1, <3>1, <3>2, GotoStep
  <2> QED
    BY <2>2, <2>3
<1> QED
  BY <1>3, <1>4, <1>5, <1>6, <1>7, <1>8, <1>9

\* A start, from its worker to the active state.
LEMMA StartKeeps ==
    ASSUME IInv, NEW c \in Cmds,
           \/ \E p \in Pids : Spawn(c, p)
           \/ WritePidFile(c) \/ CheckChild(c) \/ WriteActiveState(c)
    PROVE  IInv'
<1> USE DEF files, procVars
<1>1. FilesOK /\ job[c] \in Jobs /\ JobFits(job[c], pc[c])
  BY DEF IInv, CmdsOK, JobsFit
<1>2. {"write_pid", "check", "write_state"} \subseteq CmdPc
  BY DEF CmdPc
<1>3. ASSUME NEW p \in Pids, Spawn(c, p) PROVE IInv'
  <2>1. FilesOK'
    BY <1>1, <1>3 DEF Spawn, FilesOK
  <2>2. job[c].kind = "start" /\ job[c].dir \in Dirs /\ job[c].file \in PidFiles
    BY <1>1, <1>3 DEF Spawn, JobFits
  <2>3. CmdsOK' /\ JobsFit'
    <3>1. PICK j : j = [job[c] EXCEPT !.pid = p]
      OBVIOUS
    <3>2. job' = [job EXCEPT ![c] = j] /\ pc' = [pc EXCEPT ![c] = "write_pid"]
      BY <1>3, <3>1 DEF Spawn, Goto
    <3>3. j \in Jobs
      BY <1>1, <3>1, Zenon DEF Jobs
    <3>4. JobFits(j, "write_pid")
      BY <1>1, <2>2, <3>1, SMT DEF JobFits, Jobs
    <3> QED
      BY <1>2, <3>2, <3>3, <3>4, MoveFits DEF IInv
  <2>4. PICK w : w = [dir |-> job[c].dir, file |-> job[c].file, parent |-> c]
    OBVIOUS
  <2>5. /\ proc[p] = "unused"
        /\ proc' = [proc EXCEPT ![p] = "boot"]
        /\ worker' = [worker EXCEPT ![p] = w]
        /\ UNCHANGED <<lock, term>>
    BY <1>3, <2>4 DEF Spawn
  <2>6. w.dir \in Dirs
    BY <2>2, <2>4
  <2>7. ProcsOK'
    <3>1. w \in [dir : Dirs \cup {NoDir}, file : PidFiles \cup {NoFile}, parent : Cmds \cup {NoCmd}]
      BY <2>2, <2>4
    <3> QED
      BY <2>5, <3>1 DEF IInv, ProcsOK, Alive
  <2>8. LocksHeld'
    <3>1. proc'[p] = "boot" /\ worker'[p] = w
      BY <2>5 DEF IInv, ProcsOK
    <3>2. \A q \in Pids : q # p => proc'[q] = proc[q] /\ worker'[q] = worker[q]
      BY <2>5 DEF IInv, ProcsOK
    <3>3. "unused" \notin Writing /\ "boot" \notin Writing
      BY DEF Writing
    <3>4. ASSUME NEW d \in Dirs, lock[d] # NoPid PROVE lock[d] \in Pids /\ lock[d] # p
      BY <2>5, <3>3, <3>4 DEF IInv, ProcsOK, LocksHeld
    <3> QED
      BY <2>5, <2>6, <3>1, <3>2, <3>3, <3>4 DEF IInv, LocksHeld
  <2>9. HistOK'
    BY <1>3, HistUnchanged DEF IInv, Spawn
  <2> QED
    BY <2>1, <2>3, <2>7, <2>8, <2>9 DEF IInv
<1>4. CASE WritePidFile(c)
  <2>1. job[c].pid \in Pids /\ job[c].file \in PidFiles /\ job[c].kind = "start"
    BY <1>1, <1>4 DEF WritePidFile, JobFits
  <2>2. FilesOK'
    BY <1>1, <1>4, <2>1 DEF WritePidFile, FilesOK
  <2>3. CASE EndAndKill(c)
    <3>1. HistOK'
      BY <1>4, HistUnchanged DEF WritePidFile, IInv
    <3> QED
      BY <2>1, <2>2, <2>3, <3>1, EndAndKillKeeps DEF IInv
  <2>4. CASE ~EndAndKill(c)
    <3>1. JobFits(job[c], "check")
      BY <1>1, <2>1, SMT DEF JobFits
    <3>2. Goto(c, "check") /\ UNCHANGED <<job, lock, proc, worker, term, histVars>>
      BY <1>4, <2>4 DEF WritePidFile
    <3> QED
      BY <1>2, <2>2, <3>1, <3>2, GotoStep
  <2> QED
    BY <2>3, <2>4
<1>5. CASE CheckChild(c)
  <2>1. job[c].pid \in Pids /\ job[c].kind = "start"
    BY <1>1, <1>5 DEF CheckChild, JobFits
  <2>2. FilesOK'
    BY <1>1, <1>5, RemoveFilesOK DEF CheckChild
  <2>3. CASE IsProcessRunning(job[c].pid)
    <3>1. JobFits(job[c], "write_state")
      BY <1>1, <2>1, SMT DEF JobFits
    <3>2. Goto(c, "write_state") /\ UNCHANGED <<job, lock, proc, worker, term, histVars>>
      BY <1>5, <2>3 DEF CheckChild
    <3> QED
      BY <1>2, <2>2, <3>1, <3>2, GotoStep
  <2>4. CASE ~IsProcessRunning(job[c].pid)
    BY <1>5, <2>2, <2>4, EndStep DEF CheckChild
  <2> QED
    BY <2>3, <2>4
<1>6. CASE WriteActiveState(c)
  <2>1. job[c].pid \in Pids /\ job[c].file \in PidFiles
    BY <1>1, <1>6 DEF WriteActiveState, JobFits
  <2>2. FilesOK'
    <3>1. [pid |-> job[c].pid, file |-> job[c].file] \in ActiveStates
      BY <2>1 DEF ActiveStates
    <3> QED
      BY <1>1, <1>6, <3>1 DEF WriteActiveState, FilesOK
  <2>3. CASE EndAndKill(c)
    <3>1. HistOK'
      BY <1>6, HistUnchanged DEF WriteActiveState, IInv
    <3> QED
      BY <2>1, <2>2, <2>3, <3>1, EndAndKillKeeps DEF IInv
  <2>4. CASE ~EndAndKill(c)
    BY <1>6, <2>2, <2>4, EndStep DEF WriteActiveState
  <2> QED
    BY <2>3, <2>4
<1> QED
  BY <1>3, <1>4, <1>5, <1>6

\* A stop, from SIGTERM to the removal of the files.
LEMMA StopKeeps ==
    ASSUME IInv, NEW c \in Cmds,
           \/ SendTerm(c) \/ AwaitExit(c) \/ SendKill(c) \/ VerifyStopped(c)
           \/ RemovePidFile(c) \/ RemoveActiveState(c)
    PROVE  IInv'
<1> USE DEF files, procVars
<1>1. FilesOK /\ job[c] \in Jobs /\ JobFits(job[c], pc[c])
  BY DEF IInv, CmdsOK, JobsFit
<1>2. {"wait", "kill", "verify", "remove_pid", "remove_state"} \subseteq CmdPc
  BY DEF CmdPc
<1>3. FilesOK'
  <2>1. CASE RemovePidFile(c)
    BY <1>1, <2>1, RemoveFilesOK DEF RemovePidFile
  <2>2. CASE RemoveActiveState(c)
    BY <1>1, <2>2, RemoveFilesOK DEF RemoveActiveState
  <2>3. CASE UNCHANGED <<state, pidFile>>
    BY <1>1, <2>3 DEF FilesOK
  <2> QED
    BY <2>1, <2>2, <2>3 DEF SendTerm, AwaitExit, SendKill, VerifyStopped
<1>4. HistOK'
  BY HistUnchanged
     DEF IInv, SendTerm, AwaitExit, SendKill, VerifyStopped, RemovePidFile, RemoveActiveState
<1>5. CASE SendTerm(c)
  <2>1. job[c].pid \in Pids
    BY <1>1, <1>5 DEF SendTerm, JobFits
  <2>2. CASE ~IsProcessRunning(job[c].pid)
    <3>1. End(c) /\ UNCHANGED <<lock, term, histVars>>
      BY <1>5, <2>2 DEF SendTerm, IsProcessRunning, Alive
    <3> QED
      BY <1>3, <3>1, EndStep
  <2>3. CASE IsProcessRunning(job[c].pid)
    <3>1. Goto(c, "wait") /\ UNCHANGED job
      BY <1>5, <2>3 DEF SendTerm
    <3>2. JobFits(job[c], "wait")
      BY <1>1, <2>1, SMT DEF JobFits
    <3>3. CmdsOK' /\ JobsFit'
      BY <1>2, <3>1, <3>2, GotoFits DEF IInv
    <3>4. ProcsOK' /\ LocksHeld'
      <4>1. CASE Exit(job[c].pid) /\ UNCHANGED worker
        BY <2>1, <4>1, ExitKeeps DEF IInv
      <4>2. CASE UNCHANGED <<lock, proc, worker>> /\ (UNCHANGED term \/ term' = term \cup {job[c].pid})
        BY <2>1, <4>2 DEF IInv, ProcsOK, LocksHeld
      <4> QED
        BY <1>5, <2>3, <4>1, <4>2 DEF SendTerm
    <3> QED
      BY <1>3, <1>4, <3>3, <3>4 DEF IInv
  <2> QED
    BY <2>2, <2>3
<1>6. CASE AwaitExit(c)
  <2>1. JobFits(job[c], "remove_pid") /\ JobFits(job[c], "kill")
    BY <1>1, <1>6, SMT DEF AwaitExit, JobFits
  <2> QED
    BY <1>2, <1>3, <1>6, <2>1, GotoStep DEF AwaitExit
<1>7. CASE SendKill(c)
  <2>1. job[c].pid \in Pids
    BY <1>1, <1>7 DEF SendKill, JobFits
  <2>2. CmdsOK' /\ JobsFit'
    <3>1. JobFits(job[c], "verify")
      BY <1>1, <2>1, SMT DEF JobFits
    <3> QED
      BY <1>2, <1>7, <3>1, GotoFits DEF IInv, SendKill
  <2>3. ProcsOK' /\ LocksHeld'
    <3>1. CASE proc[job[c].pid] \in Alive
      BY <1>7, <2>1, <3>1, ExitKeeps DEF IInv, SendKill
    <3>2. CASE proc[job[c].pid] \notin Alive
      BY <1>7, <3>2, ProcsUnchanged DEF IInv, SendKill
    <3> QED
      BY <3>1, <3>2
  <2> QED
    BY <1>3, <1>4, <2>2, <2>3 DEF IInv
<1>8. CASE VerifyStopped(c)
  <2>1. CASE End(c)
    BY <1>3, <1>8, <2>1, EndStep DEF VerifyStopped
  <2>2. CASE ~End(c)
    <3>1. JobFits(job[c], "remove_pid")
      BY <1>1, SMT DEF JobFits
    <3> QED
      BY <1>2, <1>3, <1>8, <2>2, <3>1, GotoStep DEF VerifyStopped
  <2> QED
    BY <2>1, <2>2
<1>9. CASE RemovePidFile(c)
  <2>1. CASE End(c)
    BY <1>3, <1>9, <2>1, EndStep DEF RemovePidFile
  <2>2. CASE ~End(c)
    <3>1. JobFits(job[c], "remove_state")
      BY <1>1, SMT DEF JobFits
    <3> QED
      BY <1>2, <1>3, <1>9, <2>2, <3>1, GotoStep DEF RemovePidFile
  <2> QED
    BY <2>1, <2>2
<1>10. CASE RemoveActiveState(c)
  BY <1>3, <1>10, EndStep DEF RemoveActiveState
<1> QED
  BY <1>5, <1>6, <1>7, <1>8, <1>9, <1>10

-----------------------------------------------------------------------------
(* The theorems *)

LEMMA InitHolds == Init => IInv
<1> SUFFICES ASSUME Init PROVE IInv
  OBVIOUS
<1>1. FilesOK
  BY DEF Init, FilesOK, ActiveStates
<1>2. ProcsOK
  <2>1. NoWorker \in [dir : Dirs \cup {NoDir}, file : PidFiles \cup {NoFile}, parent : Cmds \cup {NoCmd}]
    BY DEF NoWorker
  <2> QED
    BY <2>1 DEF Init, ProcsOK
<1>3. CmdsOK /\ JobsFit
  <2>1. \A c \in Cmds : job[c] = NoJob /\ pc[c] = "idle"
    BY DEF Init
  <2>2. JobsFit
    BY <2>1, NoJobFits DEF JobsFit
  <2> QED
    BY <2>2, NoJobFits DEF Init, CmdsOK, CmdPc
<1>4. HistOK
  BY DEF Init, HistOK
<1>5. LocksHeld
  BY DEF Init, LocksHeld, Alive, Writing
<1> QED
  BY <1>1, <1>2, <1>3, <1>4, <1>5 DEF IInv

LEMMA StepHolds == IInv /\ [Next]_vars => IInv'
<1> SUFFICES ASSUME IInv, [Next]_vars PROVE IInv'
  OBVIOUS
<1>1. ASSUME NEW c \in Cmds, CmdStep(c) PROVE IInv'
  BY <1>1, ReadKeeps, StartKeeps, StopKeeps DEF CmdStep
<1>2. CASE UNCHANGED vars
  <2>1. FilesOK' /\ HistOK'
    BY <1>2 DEF vars, files, histVars, IInv, FilesOK, HistOK
  <2>2. ProcsOK' /\ LocksHeld'
    BY <1>2, ProcsUnchanged DEF vars, files, IInv
  <2>3. CmdsOK' /\ JobsFit'
    BY <1>2, CmdsUnchanged DEF vars, IInv
  <2> QED
    BY <2>1, <2>2, <2>3 DEF IInv
<1> QED
  BY <1>1, <1>2, UserKeeps, WorkerKeeps DEF Next

LEMMA InvHolds == Spec => []IInv
  BY InitHolds, StepHolds, PTL DEF Spec

\* The type invariant of the daemon: in particular a command never signals, and
\* never records, anything but a worker (cmd/daemon.go stopDaemonByPID,
\* writeActiveState).
THEOREM TypeCorrect == Spec => []TypeOK
<1>1. IInv => TypeOK
  BY DEF IInv, TypeOK, FilesOK, ProcsOK, CmdsOK, HistOK
<1> QED
  BY <1>1, InvHolds, PTL

\* However many commands and workers run and wherever they are cut off, the
\* flock of NewSnapshotWriter keeps two daemons from writing to one directory,
\* and never outlives its holder (internal/history/writer.go, cmd/daemon.go run).
THEOREM OneWriter == Spec => []OneWriterPerDir
<1>1. IInv => OneWriterPerDir
  BY DEF IInv, LocksHeld, OneWriterPerDir
<1> QED
  BY <1>1, InvHolds, PTL

-----------------------------------------------------------------------------
(* Commands that never overlap.  The strengthening says what the files and   *)
(* the command under way know of the living workers: who is named in the     *)
(* PID files and in the active state, or is about to be.  orphaned and        *)
(* interrupted take parts of it away for good.                                *)

Used(p) == proc[p] # "unused"

Lives(p) == proc[p] \in Alive

\* At most worker q lives that serves PID file f; none does.
OnlyOn(f, q) == \A p \in Pids : Lives(p) /\ worker[p].file = f => p = q
NoneOn(f) == \A p \in Pids : Lives(p) => worker[p].file # f

\* Labels at which a command has a worker as its target.
Starting == {"write_pid", "check", "write_state"}
Stopping == {"signal", "wait", "kill", "verify"}

OneBusy == \A b, c \in Cmds : pc[b] # "idle" /\ pc[c] # "idle" => b = c

\* Whoever is named somewhere was spawned, and for that file; whoever has a
\* SIGTERM pending lives, and whoever lives has a PID file to serve.
NamedInFiles ==
    /\ \A f \in PidFiles : pidFile[f] # NoPid =>
          Used(pidFile[f]) /\ worker[pidFile[f]].file = f
    /\ state # NoState => Used(state.pid) /\ worker[state.pid].file = state.file

NamedInJob(c) ==
    pc[c] \in Starting \cup Stopping => Used(job[c].pid) /\ worker[job[c].pid].file = job[c].file

Signalled ==
    /\ \A p \in term : Lives(p)
    /\ \A p \in Pids : Lives(p) => worker[p].file \in PidFiles

\* What the command under way knows of the active state: that there is none, that
\* it is stale, that it names the target.
StateKnown(c) ==
    /\ \/ pc[c] \in Starting \cup {"spawn"}
       \/ job[c].kind = "start" /\ pc[c] \in {"read_pid", "drop_pid"}
       => state = NoState
    /\ pc[c] \in {"clean_pid", "clean_state"} =>
          state # NoState /\ state.file = job[c].flag /\ ~IsProcessRunning(state.pid)
    /\ job[c].forget =>
          /\ pc[c] \in Stopping \cup {"remove_pid", "remove_state"}
          /\ state # NoState /\ state = [pid |-> job[c].pid, file |-> job[c].file]
          /\ pc[c] \in {"remove_pid", "remove_state"} => ~IsProcessRunning(job[c].pid)
    /\ pc[c] = "remove_state" => job[c].forget

\* And of the PID file it is about to write or to remove.
FileKnown(c) ==
    /\ pc[c] \in {"drop_pid", "spawn", "remove_pid"} => NoneOn(job[c].file)
    /\ pc[c] \in Starting \cup Stopping => OnlyOn(job[c].file, job[c].pid)

\* A living worker is named in its PID file, or still will be.
InPidFile ==
    \A p \in Pids : Lives(p) =>
        \/ pidFile[worker[p].file] = p
        \/ proc[p] = "boot" /\ \E c \in Cmds : pc[c] = "write_pid" /\ job[c].pid = p

StateOwner == state # NoState => OnlyOn(state.file, state.pid)

\* A living worker is named in the active state, or its start is under way.
InState ==
    \A p \in Pids : Lives(p) =>
        \/ state = [pid |-> p, file |-> worker[p].file]
        \/ \E c \in Cmds : pc[c] \in Starting /\ job[c].pid = p

\* A living worker serves, unless a stop is waiting for it.
Obeying ==
    \A p \in Pids : Lives(p) =>
        Serving(p) \/ \E c \in Cmds : pc[c] \in {"wait", "kill"} /\ job[c].pid = p

SoloInv ==
    /\ Signalled
    /\ orphaned => interrupted
    /\ ~overlapped =>
          /\ OneBusy
          /\ NamedInFiles
          /\ \A c \in Cmds : NamedInJob(c) /\ StateKnown(c)
          /\ ~orphaned => InPidFile /\ StateOwner /\ \A c \in Cmds : FileKnown(c)
          /\ ~interrupted => InState /\ Obeying

-----------------------------------------------------------------------------
(* What every step does to the workers *)

\* No worker is spawned, moved or revived.
Fades ==
    \A p \in Pids :
        /\ worker'[p].file = worker[p].file
        /\ proc[p] # "unused" => proc'[p] # "unused"
        /\ proc'[p] \in Alive \cup {"zombie"} => IsProcessRunning(p)
        /\ proc'[p] \in Alive => proc'[p] = proc[p]

Moves(c, l, j) == pc' = [pc EXCEPT ![c] = l] /\ job' = [job EXCEPT ![c] = j]

LEMMA StillFades ==
    ASSUME UNCHANGED <<proc, worker>>
    PROVE  Fades
  BY DEF Fades, IsProcessRunning

LEMMA ExitFades ==
    ASSUME ProcsOK, NEW p \in Pids, Exit(p), proc[p] \in Alive, UNCHANGED worker
    PROVE  Fades /\ proc'[p] \notin Alive /\ term' = term \ {p}
<1>1. proc'[p] \in {"zombie", "gone"} /\ term' = term \ {p}
  BY DEF ProcsOK, Exit
<1>2. \A q \in Pids : q # p => proc'[q] = proc[q]
  BY DEF ProcsOK, Exit
<1> QED
  BY <1>1, <1>2 DEF Fades, IsProcessRunning, Alive

LEMMA EndFades ==
    ASSUME ProcsOK, NEW c \in Cmds, End(c)
    PROVE  Fades /\ Moves(c, "idle", NoJob)
<1>1. ASSUME NEW p \in Pids
      PROVE  worker'[p].file = worker[p].file
  <2>1. worker[p] \in [dir : Dirs \cup {NoDir}, file : PidFiles \cup {NoFile},
                       parent : Cmds \cup {NoCmd}]
    BY DEF ProcsOK
  <2>2. CASE worker[p].parent = c
    <3>1. PICK w : w = [worker[p] EXCEPT !.parent = NoCmd]
      OBVIOUS
    <3>2. worker'[p] = w
      BY <2>2, <3>1 DEF End
    <3> QED
      BY <2>1, <3>1, <3>2, SMT
  <2>3. CASE worker[p].parent # c
    BY <2>3 DEF End
  <2> QED
    BY <2>2, <2>3
<1>2. ASSUME NEW p \in Pids
      PROVE  proc'[p] = proc[p] \/ (proc'[p] = "gone" /\ proc[p] = "zombie")
  BY DEF End
<1> QED
  BY <1>1, <1>2 DEF Fades, IsProcessRunning, Alive, Moves, End, Goto

LEMMA EndAndKillFades ==
    ASSUME ProcsOK, NEW c \in Cmds, EndAndKill(c), job[c].pid \in Pids
    PROVE  /\ Fades /\ Moves(c, "idle", NoJob)
           /\ proc'[job[c].pid] \notin Alive /\ term' = term \ {job[c].pid}
<1> DEFINE p == job[c].pid
<1>1. /\ proc' = [proc EXCEPT ![p] = "gone"] /\ p \in Pids
      /\ worker' = [worker EXCEPT ![p].parent = NoCmd]
      /\ term' = term \ {p} /\ Moves(c, "idle", NoJob)
  BY DEF EndAndKill, Moves, Goto
<1> HIDE DEF p
<1>2. ASSUME NEW q \in Pids PROVE worker'[q].file = worker[q].file
  <2>1. PICK w : w = [worker[p] EXCEPT !.parent = NoCmd]
    OBVIOUS
  <2>2. worker' = [worker EXCEPT ![p] = w]
    BY <1>1, <2>1
  <2>3. worker[p] \in [dir : Dirs \cup {NoDir}, file : PidFiles \cup {NoFile},
                       parent : Cmds \cup {NoCmd}]
    BY <1>1 DEF ProcsOK
  <2>4. w.file = worker[p].file
    BY <2>1, <2>3, SMT
  <2> QED
    BY <1>1, <2>2, <2>4 DEF ProcsOK
<1>3. proc'[p] = "gone" /\ \A q \in Pids : q # p => proc'[q] = proc[q]
  BY <1>1 DEF ProcsOK
<1>4. "gone" \notin Alive \cup {"zombie"}
  BY DEF Alive
<1>5. Fades
  BY <1>2, <1>3, <1>4 DEF Fades, IsProcessRunning
<1> QED
  BY <1>1, <1>3, <1>4, <1>5 DEF p

-----------------------------------------------------------------------------
(* The command that runs alone *)

\* Whoever is idle knows nothing and has no target.
LEMMA IdleIsSilent ==
    ASSUME NEW b \in Cmds, pc'[b] = "idle", ~job'[b].forget
    PROVE  NamedInJob(b)' /\ StateKnown(b)' /\ FileKnown(b)'
  BY DEF NamedInJob, StateKnown, FileKnown, Starting, Stopping

\* A command's move when no worker is spawned: what is left to show of it.
LEMMA SoleStep ==
    ASSUME IInv, SoloInv, ~overlapped,
           NEW c \in Cmds, NEW l \in CmdPc, NEW j \in Jobs,
           pc[c] # "idle", Moves(c, l, j), Fades,
           orphaned => orphaned', interrupted => interrupted',
           \A p \in term' : p \in term \/ (l = "wait" /\ p = j.pid),
           \A f \in PidFiles :
               \/ pidFile'[f] = pidFile[f]
               \/ /\ pidFile'[f] = NoPid
                  /\ ~orphaned' => \A p \in Pids : proc'[p] \in Alive => worker[p].file # f,
           \/ state' = state
           \/ state' = NoState /\ (~interrupted' => \A p \in Pids : proc'[p] \notin Alive),
           NamedInJob(c)', StateKnown(c)', ~orphaned' => FileKnown(c)',
           ~orphaned' /\ pc[c] = "write_pid" => proc'[job[c].pid] \notin Alive,
           ~interrupted' /\ pc[c] \in Starting =>
               (l \in Starting /\ j.pid = job[c].pid) \/ proc'[job[c].pid] \notin Alive,
           ~interrupted' /\ pc[c] \in {"wait", "kill"} =>
               (l \in {"wait", "kill"} /\ j.pid = job[c].pid) \/ proc'[job[c].pid] \notin Alive
    PROVE  /\ OneBusy' /\ NamedInFiles'
           /\ \A b \in Cmds : NamedInJob(b)' /\ StateKnown(b)'
           /\ ~orphaned' => InPidFile' /\ StateOwner' /\ \A b \in Cmds : FileKnown(b)'
           /\ ~interrupted' => InState' /\ Obeying'
<1>1. /\ pc'[c] = l /\ job'[c] = j
      /\ \A b \in Cmds : b # c => pc'[b] = pc[b] /\ job'[b] = job[b]
  BY DEF Moves, IInv, CmdsOK
<1>2. \A b \in Cmds : b # c => pc[b] = "idle"
  BY DEF SoloInv, OneBusy
<1>3. ASSUME NEW b \in Cmds, b # c PROVE ~job[b].forget
  BY <1>2, <1>3 DEF SoloInv, StateKnown, Stopping
<1>4. OneBusy'
  BY <1>1, <1>2 DEF OneBusy
<1>5. NamedInFiles'
  <2>1. ASSUME NEW f \in PidFiles, pidFile'[f] # NoPid
        PROVE  proc'[pidFile'[f]] # "unused" /\ worker'[pidFile'[f]].file = f
    <3>1. pidFile'[f] = pidFile[f] /\ pidFile[f] \in Pids
      BY <2>1 DEF IInv, FilesOK
    <3>2. proc[pidFile[f]] # "unused" /\ worker[pidFile[f]].file = f
      BY <2>1, <3>1 DEF SoloInv, NamedInFiles, Used
    <3> QED
      BY <3>1, <3>2 DEF Fades
  <2>2. ASSUME state' # NoState
        PROVE  proc'[state'.pid] # "unused" /\ worker'[state'.pid].file = state'.file
    <3>1. state' = state /\ state # NoState
      BY <2>2
    <3>2. state.pid \in Pids
      BY <3>1, StateFields DEF IInv
    <3>3. proc[state.pid] # "unused" /\ worker[state.pid].file = state.file
      BY <3>1 DEF SoloInv, NamedInFiles, Used
    <3> QED
      BY <3>1, <3>2, <3>3 DEF Fades
  <2> QED
    BY <2>1, <2>2 DEF NamedInFiles, Used
<1>6. ASSUME NEW b \in Cmds PROVE NamedInJob(b)' /\ StateKnown(b)' /\ (~orphaned' => FileKnown(b)')
  <2>1. CASE b = c
    BY <2>1
  <2>2. CASE b # c
    <3>1. pc'[b] = "idle" /\ ~job'[b].forget
      BY <1>1, <1>2, <1>3, <2>2
    <3> QED
      BY <3>1, IdleIsSilent
  <2> QED
    BY <2>1, <2>2
<1>7. ASSUME ~orphaned' PROVE InPidFile' /\ StateOwner'
  <2>1. InPidFile /\ StateOwner
    BY <1>7 DEF SoloInv
  <2>2. ASSUME NEW p \in Pids, proc'[p] \in Alive
        PROVE  pidFile'[worker'[p].file] = p
    <3>1. proc[p] = proc'[p] /\ worker'[p].file = worker[p].file
      BY <2>2 DEF Fades
    <3>2. pidFile[worker[p].file] = p
      <4>1. ASSUME NEW b \in Cmds, pc[b] = "write_pid", job[b].pid = p PROVE FALSE
        BY <4>1, <1>2, <1>7, <2>2
      <4> QED
        BY <2>1, <2>2, <3>1, <4>1 DEF InPidFile, Lives
    <3>3. worker[p].file \in PidFiles
      BY <3>1, <2>2 DEF SoloInv, Signalled, Lives
    <3> QED
      BY <1>7, <2>2, <3>1, <3>2, <3>3
  <2>3. InPidFile'
    BY <2>2 DEF InPidFile, Lives
  <2>4. ASSUME state' # NoState, NEW p \in Pids, proc'[p] \in Alive, worker'[p].file = state'.file
        PROVE  p = state'.pid
    <3>1. state' = state
      BY <2>4
    <3>2. proc[p] \in Alive /\ worker[p].file = state.file
      BY <2>4, <3>1 DEF Fades
    <3> QED
      BY <2>1, <2>4, <3>1, <3>2 DEF StateOwner, OnlyOn, Lives
  <2>5. StateOwner'
    BY <2>4 DEF StateOwner, OnlyOn, Lives
  <2> QED
    BY <2>3, <2>5
<1>8. ASSUME ~interrupted' PROVE InState' /\ Obeying'
  <2>1. InState /\ Obeying
    BY <1>8 DEF SoloInv
  <2>2. ASSUME NEW p \in Pids, proc'[p] \in Alive
        PROVE  \/ state' = [pid |-> p, file |-> worker'[p].file]
               \/ l \in Starting /\ j.pid = p
    <3>1. proc[p] \in Alive /\ worker'[p].file = worker[p].file
      BY <2>2 DEF Fades
    <3>2. CASE state = [pid |-> p, file |-> worker[p].file]
      BY <1>8, <2>2, <3>1, <3>2
    <3>3. ASSUME NEW b \in Cmds, pc[b] \in Starting, job[b].pid = p
          PROVE  l \in Starting /\ j.pid = p
      <4>1. b = c
        BY <1>2, <3>3 DEF Starting
      <4> QED
        BY <1>8, <2>2, <3>3, <4>1
    <3> QED
      BY <2>1, <3>1, <3>2, <3>3 DEF InState, Lives
  <2>3. InState'
    BY <1>1, <2>2 DEF InState, Lives
  <2>4. ASSUME NEW p \in Pids, proc'[p] \in Alive
        PROVE  \/ proc'[p] \in {"boot", "lock", "init", "run"} /\ p \notin term'
               \/ l \in {"wait", "kill"} /\ j.pid = p
    <3>1. proc[p] \in Alive /\ proc'[p] = proc[p]
      BY <2>4 DEF Fades
    <3>2. CASE proc[p] \in {"boot", "lock", "init", "run"} /\ p \notin term
      BY <3>1, <3>2
    <3>3. ASSUME NEW b \in Cmds, pc[b] \in {"wait", "kill"}, job[b].pid = p
          PROVE  l \in {"wait", "kill"} /\ j.pid = p
      <4>1. b = c
        BY <1>2, <3>3
      <4> QED
        BY <1>8, <2>4, <3>3, <4>1
    <3> QED
      BY <2>1, <3>1, <3>2, <3>3 DEF Obeying, Lives, Serving
  <2>5. Obeying'
    BY <1>1, <2>4 DEF Obeying, Lives, Serving
  <2> QED
    BY <2>3, <2>5
<1> QED
  BY <1>4, <1>5, <1>6, <1>7, <1>8

\* What the steps of a command need of the command itself.
LEMMA JobKnown ==
    ASSUME IInv, NEW c \in Cmds
    PROVE  /\ FilesOK /\ ProcsOK /\ job[c] \in Jobs /\ JobFits(job[c], pc[c])
           /\ job[c].kind \in {"none", "start", "stop", "status"}
           /\ job[c].forget \in BOOLEAN
           /\ pc[c] \in Starting \cup Stopping => job[c].pid \in Pids
<1>1. FilesOK /\ ProcsOK /\ job[c] \in Jobs /\ JobFits(job[c], pc[c])
  BY DEF IInv, CmdsOK, JobsFit
<1>2. job[c].kind \in {"none", "start", "stop", "status"} /\ job[c].forget \in BOOLEAN
  BY <1>1, Zenon DEF Jobs
<1> QED
  BY <1>1, <1>2 DEF JobFits, Starting, Stopping

\* The conclusion of SoleStep: SoloInv in the next state, without the part that
\* holds even when commands overlap.
SoloNext ==
    /\ OneBusy' /\ NamedInFiles'
    /\ \A b \in Cmds : NamedInJob(b)' /\ StateKnown(b)'
    /\ ~orphaned' => InPidFile' /\ StateOwner' /\ \A b \in Cmds : FileKnown(b)'
    /\ ~interrupted' => InState' /\ Obeying'

\* A command that ends between a read and a write: nothing hangs on it.
LEMMA SoleEnd ==
    ASSUME IInv, SoloInv, ~overlapped, NEW c \in Cmds, pc[c] # "idle", End(c),
           UNCHANGED term, orphaned => orphaned', interrupted => interrupted',
           \A f \in PidFiles :
               \/ pidFile'[f] = pidFile[f]
               \/ pidFile'[f] = NoPid /\ (~orphaned' => NoneOn(f)),
           \/ state' = state
           \/ state' = NoState /\ (~interrupted' => \A p \in Pids : ~Lives(p)),
           ~orphaned' => pc[c] # "write_pid",
           ~interrupted' /\ pc[c] \in Starting \cup {"wait", "kill"} => ~Lives(job[c].pid)
    PROVE  SoloNext
<1>1. Fades /\ Moves(c, "idle", NoJob)
  BY EndFades DEF IInv
<1>2. "idle" \in CmdPc /\ NoJob \in Jobs
  BY NoJobFits DEF CmdPc
<1>3. pc'[c] = "idle" /\ ~job'[c].forget
  BY <1>1 DEF Moves, IInv, CmdsOK, NoJob
<1>4. NamedInJob(c)' /\ StateKnown(c)' /\ FileKnown(c)'
  BY <1>3, IdleIsSilent
<1>5. \A p \in Pids : proc'[p] \in Alive => Lives(p)
  BY <1>1 DEF Fades, Lives
<1>6. ASSUME NEW f \in PidFiles
      PROVE  \/ pidFile'[f] = pidFile[f]
             \/ /\ pidFile'[f] = NoPid
                /\ ~orphaned' => \A p \in Pids : proc'[p] \in Alive => worker[p].file # f
  BY <1>5 DEF NoneOn
<1>7. \/ state' = state
      \/ state' = NoState /\ (~interrupted' => \A p \in Pids : proc'[p] \notin Alive)
  BY <1>5
<1>8. pc[c] \in Starting \cup {"wait", "kill"} => job[c].pid \in Pids
  BY JobKnown DEF Stopping
<1>9. ~interrupted' /\ pc[c] \in Starting \cup {"wait", "kill"} => proc'[job[c].pid] \notin Alive
  BY <1>5, <1>8
<1> QED
  BY <1>1, <1>2, <1>4, <1>6, <1>7, <1>9, SoleStep DEF SoloNext

\* A command whose job and label change and nothing else of the workers.
LEMMA SoleMove ==
    ASSUME IInv, SoloInv, ~overlapped,
           NEW c \in Cmds, NEW l \in CmdPc, NEW j \in Jobs,
           pc[c] # "idle", Moves(c, l, j),
           UNCHANGED <<proc, worker, term, orphaned, interrupted>>,
           \A f \in PidFiles :
               pidFile'[f] = pidFile[f] \/ (pidFile'[f] = NoPid /\ (~orphaned => NoneOn(f))),
           state' = state \/ (state' = NoState /\ (~interrupted => \A p \in Pids : ~Lives(p))),
           NamedInJob(c)', StateKnown(c)', ~orphaned => FileKnown(c)',
           pc[c] # "write_pid",
           ~interrupted /\ pc[c] \in Starting =>
               (l \in Starting /\ j.pid = job[c].pid) \/ ~Lives(job[c].pid),
           ~interrupted /\ pc[c] \in {"wait", "kill"} =>
               (l \in {"wait", "kill"} /\ j.pid = job[c].pid) \/ ~Lives(job[c].pid)
    PROVE  SoloNext
<1>1. Fades
  BY StillFades
<1>2. \A p \in Pids : proc'[p] \in Alive <=> Lives(p)
  BY DEF Lives
<1>3. ASSUME NEW f \in PidFiles
      PROVE  \/ pidFile'[f] = pidFile[f]
             \/ /\ pidFile'[f] = NoPid
                /\ ~orphaned' => \A p \in Pids : proc'[p] \in Alive => worker[p].file # f
  BY <1>2 DEF NoneOn
<1>4. \/ state' = state
      \/ state' = NoState /\ (~interrupted' => \A p \in Pids : proc'[p] \notin Alive)
  BY <1>2
<1>5. /\ ~interrupted' /\ pc[c] \in Starting =>
           (l \in Starting /\ j.pid = job[c].pid) \/ proc'[job[c].pid] \notin Alive
      /\ ~interrupted' /\ pc[c] \in {"wait", "kill"} =>
           (l \in {"wait", "kill"} /\ j.pid = job[c].pid) \/ proc'[job[c].pid] \notin Alive
  BY DEF Lives
<1> QED
  BY <1>1, <1>3, <1>4, <1>5, SoleStep DEF SoloNext

\* SoloInv seen by the only command under way.
LEMMA Alone ==
    ASSUME IInv, SoloInv, ~overlapped, NEW c \in Cmds, pc[c] # "idle"
    PROVE  /\ NamedInFiles /\ NamedInJob(c) /\ StateKnown(c)
           /\ ~orphaned =>
                /\ StateOwner /\ FileKnown(c)
                /\ \A p \in Pids : Lives(p) =>
                      \/ pidFile[worker[p].file] = p
                      \/ proc[p] = "boot" /\ pc[c] = "write_pid" /\ job[c].pid = p
           /\ ~interrupted => \A p \in Pids : Lives(p) =>
                \/ state # NoState /\ state.pid = p /\ state.file = worker[p].file
                \/ pc[c] \in Starting /\ job[c].pid = p
<1>1. \A b \in Cmds : pc[b] # "idle" => b = c
  BY DEF SoloInv, OneBusy
<1>2. "idle" \notin Starting /\ "idle" # "write_pid"
  BY DEF Starting
<1>3. ASSUME ~orphaned, NEW p \in Pids, Lives(p)
      PROVE  \/ pidFile[worker[p].file] = p
             \/ proc[p] = "boot" /\ pc[c] = "write_pid" /\ job[c].pid = p
  BY <1>1, <1>2, <1>3 DEF SoloInv, InPidFile
<1>4. ASSUME ~interrupted, NEW p \in Pids, Lives(p)
      PROVE  \/ state # NoState /\ state.pid = p /\ state.file = worker[p].file
             \/ pc[c] \in Starting /\ job[c].pid = p
  <2>1. CASE state = [pid |-> p, file |-> worker[p].file]
    BY <2>1, DaemonLifecycleAssumption DEF NoState
  <2>2. CASE \E b \in Cmds : pc[b] \in Starting /\ job[b].pid = p
    BY <1>1, <1>2, <2>2
  <2> QED
    BY <1>4, <2>1, <2>2 DEF SoloInv, InState
<1> QED
  BY <1>3, <1>4 DEF SoloInv

LEMMA SameJob ==
    ASSUME IInv, NEW c \in Cmds, NEW l \in CmdPc, Goto(c, l), UNCHANGED job
    PROVE  Moves(c, l, job[c]) /\ job[c] \in Jobs /\ pc'[c] = l /\ job'[c] = job[c]
  BY DEF IInv, CmdsOK, Moves, Goto

LEMMA MovedTo ==
    ASSUME IInv, NEW c \in Cmds, NEW l, NEW j, Moves(c, l, j)
    PROVE  pc'[c] = l /\ job'[c] = j
  BY DEF IInv, CmdsOK, Moves

LEMMA LivesRuns == \A p : Lives(p) => IsProcessRunning(p)
  BY DEF Lives, IsProcessRunning

-----------------------------------------------------------------------------
(* Reading and cleaning the active state *)

LEMMA ReadNoStateSolo ==
    ASSUME IInv, SoloInv, ~overlapped, NEW c \in Cmds, ReadNoState(c)
    PROVE  SoloNext
<1> USE DEF files, histVars
<1>1. pc[c] = "read_state" /\ state = NoState /\ UNCHANGED <<files, term, histVars>>
  BY DEF ReadNoState
<1>2. CASE End(c)
  BY <1>1, <1>2, SoleEnd DEF Starting
<1>3. CASE ~End(c)
  <2>1. Goto(c, "read_pid") /\ UNCHANGED <<job, proc, worker>>
    BY <1>3 DEF ReadNoState
  <2>2. "read_pid" \in CmdPc
    BY DEF CmdPc
  <2>3. Moves(c, "read_pid", job[c]) /\ job[c] \in Jobs /\ pc'[c] = "read_pid" /\ job'[c] = job[c]
    BY <2>1, <2>2, SameJob
  <2>4. ~job[c].forget
    BY <1>1, Alone DEF StateKnown, Stopping
  <2>5. NamedInJob(c)' /\ StateKnown(c)' /\ FileKnown(c)'
    BY <1>1, <2>3, <2>4 DEF NamedInJob, StateKnown, FileKnown, Starting, Stopping
  <2>6. pc[c] \notin Starting \cup {"wait", "kill"} /\ pc[c] # "write_pid" /\ pc[c] # "idle"
    BY <1>1 DEF Starting
  <2> QED
    BY <1>1, <2>1, <2>2, <2>3, <2>5, <2>6, SoleMove
<1> QED
  BY <1>2, <1>3

LEMMA ReadRunningStateSolo ==
    ASSUME IInv, SoloInv, ~overlapped, NEW c \in Cmds, ReadRunningState(c)
    PROVE  SoloNext
<1> USE DEF files, histVars
<1>1. /\ pc[c] = "read_state" /\ state # NoState /\ IsProcessRunning(state.pid)
      /\ UNCHANGED <<files, term, histVars>>
  BY DEF ReadRunningState
<1>2. CASE End(c)
  BY <1>1, <1>2, SoleEnd DEF Starting
<1>3. CASE ~End(c)
  <2>1. PICK j : j = [job[c] EXCEPT !.pid = state.pid, !.file = state.file, !.forget = TRUE]
    OBVIOUS
  <2>2. /\ job[c].kind = "stop" /\ Moves(c, "signal", j) /\ UNCHANGED <<proc, worker>>
    BY <1>3, <2>1 DEF ReadRunningState, Moves, Goto
  <2>3. state.pid \in Pids /\ state.file \in PidFiles
    BY <1>1, StateFields DEF IInv
  <2>4. "signal" \in CmdPc /\ j \in Jobs
    <3>1. job[c] \in Jobs
      BY DEF IInv, CmdsOK
    <3>2. j \in Jobs
      BY <2>1, <2>3, <3>1, Zenon DEF Jobs
    <3> QED
      BY <3>2 DEF CmdPc
  <2>5. j.pid = state.pid /\ j.file = state.file /\ j.forget /\ j.kind = "stop"
    BY <2>1, <2>2, JobKnown, SMT DEF Jobs
  <2>6. state = [pid |-> j.pid, file |-> j.file]
    BY <1>1, <2>5 DEF IInv, FilesOK, ActiveStates
  <2>7. pc'[c] = "signal" /\ job'[c] = j
    BY <2>2, MovedTo
  <2>8. NamedInFiles /\ (~orphaned => StateOwner)
    BY <1>1, Alone
  <2>9. NamedInJob(c)'
    BY <1>1, <2>2, <2>5, <2>7, <2>8 DEF NamedInJob, NamedInFiles, Used
  <2>10. StateKnown(c)'
    BY <1>1, <2>5, <2>6, <2>7 DEF StateKnown, Starting, Stopping
  <2>11. ~orphaned => FileKnown(c)'
    BY <1>1, <2>2, <2>5, <2>7, <2>8 DEF FileKnown, StateOwner, OnlyOn, Lives, Starting, Stopping
  <2>12. pc[c] \notin Starting \cup {"wait", "kill"} /\ pc[c] # "write_pid" /\ pc[c] # "idle"
    BY <1>1 DEF Starting
  <2> QED
    BY <1>1, <2>2, <2>4, <2>9, <2>10, <2>11, <2>12, SoleMove
<1> QED
  BY <1>2, <1>3

LEMMA ReadStaleStateSolo ==
    ASSUME IInv, SoloInv, ~overlapped, NEW c \in Cmds, ReadStaleState(c)
    PROVE  SoloNext
<1> USE DEF files, histVars, procVars
<1>1. PICK j : j = [job[c] EXCEPT !.flag = state.file]
  OBVIOUS
<1>2. /\ pc[c] = "read_state" /\ state # NoState /\ ~IsProcessRunning(state.pid)
      /\ Moves(c, "clean_pid", j) /\ UNCHANGED <<files, procVars, histVars>>
  BY <1>1 DEF ReadStaleState, Moves, Goto
<1>3. state.pid \in Pids /\ state.file \in PidFiles
  BY <1>2, StateFields DEF IInv
<1>4. "clean_pid" \in CmdPc /\ j \in Jobs
  <2>1. job[c] \in Jobs
    BY DEF IInv, CmdsOK
  <2>2. j \in Jobs
    BY <1>1, <1>3, <2>1, Zenon DEF Jobs
  <2> QED
    BY <2>2 DEF CmdPc
<1>5. ~job[c].forget
  BY <1>2, Alone DEF StateKnown, Stopping
<1>6. j.flag = state.file /\ ~j.forget
  BY <1>1, <1>5, JobKnown, SMT DEF Jobs
<1>7. pc'[c] = "clean_pid" /\ job'[c] = j
  BY <1>2, MovedTo
<1>8. NamedInJob(c)' /\ StateKnown(c)' /\ FileKnown(c)'
  BY <1>2, <1>6, <1>7
     DEF NamedInJob, StateKnown, FileKnown, Starting, Stopping, IsProcessRunning
<1>9. pc[c] \notin Starting \cup {"wait", "kill"} /\ pc[c] # "write_pid" /\ pc[c] # "idle"
  BY <1>2 DEF Starting
<1> QED
  BY <1>2, <1>4, <1>8, <1>9, SoleMove

LEMMA CleanStalePidSolo ==
    ASSUME IInv, SoloInv, ~overlapped, NEW c \in Cmds, CleanStalePid(c)
    PROVE  SoloNext
<1> USE DEF files, histVars, procVars
<1>1. /\ pc[c] = "clean_pid" /\ Goto(c, "clean_state")
      /\ pidFile' = [pidFile EXCEPT ![job[c].flag] = NoPid]
      /\ UNCHANGED <<state, lock, procVars, job, histVars>>
  BY DEF CleanStalePid
<1>2. "clean_state" \in CmdPc
  BY DEF CmdPc
<1>3. /\ Moves(c, "clean_state", job[c]) /\ job[c] \in Jobs
      /\ pc'[c] = "clean_state" /\ job'[c] = job[c]
  BY <1>1, <1>2, SameJob
<1>4. /\ state # NoState /\ state.file = job[c].flag /\ ~IsProcessRunning(state.pid)
      /\ ~job[c].forget
  BY <1>1, Alone DEF StateKnown, Stopping
<1>5. ~orphaned => NoneOn(job[c].flag)
  BY <1>1, <1>4, Alone, LivesRuns DEF StateOwner, OnlyOn, NoneOn
<1>6. NamedInJob(c)' /\ StateKnown(c)' /\ FileKnown(c)'
  BY <1>1, <1>3, <1>4
     DEF NamedInJob, StateKnown, FileKnown, Starting, Stopping, IsProcessRunning
<1>7. pc[c] \notin Starting \cup {"wait", "kill"} /\ pc[c] # "write_pid" /\ pc[c] # "idle"
  BY <1>1 DEF Starting
<1>8. ASSUME NEW f \in PidFiles
      PROVE  pidFile'[f] = pidFile[f] \/ (pidFile'[f] = NoPid /\ (~orphaned => NoneOn(f)))
  BY <1>1, <1>5 DEF IInv, FilesOK
<1> QED
  BY <1>1, <1>2, <1>3, <1>6, <1>7, <1>8, SoleMove

LEMMA CleanStaleStateSolo ==
    ASSUME IInv, SoloInv, ~overlapped, NEW c \in Cmds, CleanStaleState(c)
    PROVE  SoloNext
<1> USE DEF histVars
<1>1. /\ pc[c] = "clean_state" /\ state' = NoState
      /\ UNCHANGED <<pidFile, lock, term, histVars>>
  BY DEF CleanStaleState
<1>2. /\ state # NoState /\ ~IsProcessRunning(state.pid) /\ ~job[c].forget
      /\ pc[c] \notin Starting \cup {"wait", "kill"} /\ pc[c] # "write_pid" /\ pc[c] # "idle"
  BY <1>1, Alone DEF StateKnown, Stopping, Starting
<1>3. ~interrupted => \A p \in Pids : ~Lives(p)
  BY <1>2, Alone, LivesRuns
<1>4. CASE End(c)
  BY <1>1, <1>2, <1>3, <1>4, SoleEnd
<1>5. CASE ~End(c)
  <2>1. job[c].kind = "start" /\ Goto(c, "read_pid") /\ UNCHANGED <<job, proc, worker>>
    BY <1>5 DEF CleanStaleState
  <2>2. "read_pid" \in CmdPc
    BY DEF CmdPc
  <2>3. Moves(c, "read_pid", job[c]) /\ job[c] \in Jobs /\ pc'[c] = "read_pid" /\ job'[c] = job[c]
    BY <2>1, <2>2, SameJob
  <2>4. NamedInJob(c)' /\ StateKnown(c)' /\ FileKnown(c)'
    BY <1>1, <1>2, <2>3 DEF NamedInJob, StateKnown, FileKnown, Starting, Stopping
  <2> QED
    BY <1>1, <1>2, <1>3, <2>1, <2>2, <2>3, <2>4, SoleMove
<1> QED
  BY <1>4, <1>5

-----------------------------------------------------------------------------
(* The PID file *)

LEMMA ReadPidFileSolo ==
    ASSUME IInv, SoloInv, ~overlapped, NEW c \in Cmds, ReadPidFile(c)
    PROVE  SoloNext
<1> USE DEF files, histVars
<1> DEFINE p == pidFile[job[c].file]
<1>1. pc[c] = "read_pid" /\ UNCHANGED <<files, term, histVars>>
  BY DEF ReadPidFile
<1>2. /\ ~job[c].forget
      /\ pc[c] \notin Starting \cup {"wait", "kill"} /\ pc[c] # "write_pid" /\ pc[c] # "idle"
  BY <1>1, Alone DEF StateKnown, Stopping, Starting
<1>3. job[c].file \in PidFiles
  BY <1>1, JobKnown DEF JobFits
<1>4. p \in Pids \cup {NoPid}
  BY <1>3, JobKnown DEF FilesOK
<1>5. ~orphaned => OnlyOn(job[c].file, p)
  BY <1>1, Alone DEF OnlyOn
<1>6. job[c].kind = "start" => state = NoState
  BY <1>1, Alone DEF StateKnown
<1>7. p # NoPid => Used(p) /\ worker[p].file = job[c].file
  BY <1>1, <1>2, <1>3, Alone DEF NamedInFiles
<1>8. \A q : Lives(q) => IsProcessRunning(q)
  BY LivesRuns
<1>9. CASE End(c)
  BY <1>1, <1>2, <1>9, SoleEnd
<1>10. ASSUME NEW l \in {"spawn", "drop_pid"}, Goto(c, l), UNCHANGED <<job, proc, worker>>,
              ~IsProcessRunning(p) \/ p = NoPid, l = "spawn" => job[c].kind = "start"
       PROVE  SoloNext
  <2>1. l \in CmdPc
    BY DEF CmdPc
  <2>2. Moves(c, l, job[c]) /\ job[c] \in Jobs /\ pc'[c] = l /\ job'[c] = job[c]
    BY <1>10, <2>1, SameJob
  <2>3. ~orphaned => NoneOn(job[c].file)
    <3>1. NoPid \notin Pids
      BY DaemonLifecycleAssumption
    <3> QED
      BY <1>5, <1>8, <1>10, <3>1 DEF OnlyOn, NoneOn
  <2>4. NamedInJob(c)' /\ StateKnown(c)'
    BY <1>1, <1>2, <1>6, <1>10, <2>2 DEF NamedInJob, StateKnown, Starting, Stopping
  <2>5. ~orphaned => FileKnown(c)'
    BY <1>10, <2>2, <2>3 DEF FileKnown, NoneOn, Lives, Starting, Stopping
  <2> QED
    BY <1>1, <1>2, <1>10, <2>1, <2>2, <2>4, <2>5, SoleMove
<1>11. ASSUME p # NoPid, job[c].kind = "stop", job' = [job EXCEPT ![c].pid = p],
              Goto(c, "signal"), UNCHANGED <<proc, worker>>
       PROVE  SoloNext
  <2>1. PICK j : j = [job[c] EXCEPT !.pid = p]
    OBVIOUS
  <2>2. Moves(c, "signal", j)
    BY <1>11, <2>1 DEF Moves, Goto
  <2> HIDE DEF p
  <2>3. p \in Pids /\ job[c] \in Jobs
    BY <1>4, <1>11, JobKnown
  <2>4. "signal" \in CmdPc /\ j \in Jobs
    <3>1. j \in Jobs
      BY <2>1, <2>3, Zenon DEF Jobs
    <3> QED
      BY <3>1 DEF CmdPc
  <2>5. j.pid = p /\ j.file = job[c].file /\ ~j.forget /\ j.kind = "stop"
    BY <1>2, <1>11, <2>1, <2>3, SMT DEF Jobs
  <2>6. pc'[c] = "signal" /\ job'[c] = j
    BY <2>2, MovedTo
  <2>7. NamedInJob(c)' /\ StateKnown(c)'
    BY <1>7, <1>11, <2>5, <2>6 DEF NamedInJob, StateKnown, Used, Starting, Stopping
  <2>8. ~orphaned => FileKnown(c)'
    BY <1>5, <1>11, <2>5, <2>6 DEF FileKnown, OnlyOn, Lives, Starting, Stopping
  <2> QED
    BY <1>1, <1>2, <1>11, <2>2, <2>4, <2>7, <2>8, SoleMove
<1> QED
  BY <1>9, <1>10, <1>11 DEF ReadPidFile

LEMMA DropStalePidSolo ==
    ASSUME IInv, SoloInv, ~overlapped, NEW c \in Cmds, DropStalePid(c)
    PROVE  SoloNext
<1> USE DEF histVars
<1>1. /\ pc[c] = "drop_pid" /\ pidFile' = [pidFile EXCEPT ![job[c].file] = NoPid]
      /\ UNCHANGED <<state, lock, term, histVars>>
  BY DEF DropStalePid
<1>2. /\ ~job[c].forget /\ (~orphaned => NoneOn(job[c].file))
      /\ job[c].kind = "start" => state = NoState
      /\ pc[c] \notin Starting \cup {"wait", "kill"} /\ pc[c] # "write_pid" /\ pc[c] # "idle"
  BY <1>1, Alone DEF StateKnown, FileKnown, Stopping, Starting
<1>3. ASSUME NEW f \in PidFiles
      PROVE  pidFile'[f] = pidFile[f] \/ (pidFile'[f] = NoPid /\ (~orphaned => NoneOn(f)))
  BY <1>1, <1>2 DEF IInv, FilesOK
<1>4. CASE End(c)
  BY <1>1, <1>2, <1>3, <1>4, SoleEnd
<1>5. CASE ~End(c)
  <2>1. job[c].kind = "start" /\ Goto(c, "spawn") /\ UNCHANGED <<job, proc, worker>>
    BY <1>5 DEF DropStalePid
  <2>2. "spawn" \in CmdPc
    BY DEF CmdPc
  <2>3. Moves(c, "spawn", job[c]) /\ job[c] \in Jobs /\ pc'[c] = "spawn" /\ job'[c] = job[c]
    BY <2>1, <2>2, SameJob
  <2>4. NamedInJob(c)' /\ StateKnown(c)'
    BY <1>1, <1>2, <2>1, <2>3 DEF NamedInJob, StateKnown, Starting, Stopping
  <2>5. ~orphaned => FileKnown(c)'
    BY <1>2, <2>1, <2>3 DEF FileKnown, NoneOn, Lives, Starting, Stopping
  <2> QED
    BY <1>1, <1>2, <1>3, <2>1, <2>2, <2>3, <2>4, <2>5, SoleMove
<1> QED
  BY <1>4, <1>5

-----------------------------------------------------------------------------
(* A start, from its worker to the active state *)

LEMMA SpawnSolo ==
    ASSUME IInv, SoloInv, ~overlapped, NEW c \in Cmds, NEW p \in Pids, Spawn(c, p)
    PROVE  SoloNext
<1> USE DEF files, histVars
<1>1. /\ pc[c] = "spawn" /\ proc[p] = "unused" /\ UNCHANGED <<files, term, histVars>>
      /\ proc' = [proc EXCEPT ![p] = "boot"]
      /\ worker' = [worker EXCEPT ![p] = [dir |-> job[c].dir, file |-> job[c].file, parent |-> c]]
  BY DEF Spawn
<1>2. PICK j : j = [job[c] EXCEPT !.pid = p]
  OBVIOUS
<1>3. Moves(c, "write_pid", j)
  BY <1>2 DEF Spawn, Moves, Goto
<1>4. pc'[c] = "write_pid" /\ job'[c] = j
  BY <1>3, MovedTo
<1>5. \A b \in Cmds : b # c => pc'[b] = pc[b] /\ job'[b] = job[b] /\ pc[b] = "idle" /\ ~job[b].forget
  <2>1. \A b \in Cmds : b # c => pc[b] = "idle"
    BY <1>1 DEF SoloInv, OneBusy
  <2>2. \A b \in Cmds : b # c => ~job[b].forget
    BY <2>1 DEF SoloInv, StateKnown, Stopping
  <2> QED
    BY <1>3, <2>1, <2>2 DEF Moves, IInv, CmdsOK
<1>6. /\ state = NoState /\ ~job[c].forget /\ (~orphaned => NoneOn(job[c].file))
      /\ job[c].kind = "start" /\ NamedInFiles /\ pc[c] \notin Starting /\ pc[c] # "write_pid"
  BY <1>1, Alone, JobKnown DEF StateKnown, FileKnown, JobFits, Starting, Stopping
<1>7. j.pid = p /\ j.file = job[c].file /\ ~j.forget
  BY <1>2, <1>6, JobKnown, SMT DEF Jobs
<1>8. /\ proc'[p] = "boot" /\ worker'[p].file = job[c].file
      /\ \A q \in Pids : q # p => proc'[q] = proc[q] /\ worker'[q] = worker[q]
  BY <1>1 DEF IInv, ProcsOK
<1>9. "boot" \in Alive /\ "unused" \notin Alive
  BY DEF Alive
<1>10. OneBusy'
  BY <1>4, <1>5 DEF OneBusy
<1>11. NamedInFiles'
  <2>1. ASSUME NEW f \in PidFiles, pidFile'[f] # NoPid
        PROVE  proc'[pidFile'[f]] # "unused" /\ worker'[pidFile'[f]].file = f
    <3>1. pidFile'[f] = pidFile[f] /\ pidFile[f] \in Pids
      BY <1>1, <2>1 DEF IInv, FilesOK
    <3>2. proc[pidFile[f]] # "unused" /\ worker[pidFile[f]].file = f
      BY <1>6, <2>1, <3>1 DEF NamedInFiles, Used
    <3> QED
      BY <1>1, <1>8, <3>1, <3>2
  <2> QED
    BY <1>1, <1>6, <2>1 DEF NamedInFiles, Used
<1>12. ASSUME NEW b \in Cmds PROVE NamedInJob(b)' /\ StateKnown(b)' /\ (~orphaned' => FileKnown(b)')
  <2>1. CASE b = c
    <3>1. NamedInJob(c)'
      BY <1>4, <1>7, <1>8 DEF NamedInJob, Used
    <3>2. StateKnown(c)'
      BY <1>1, <1>4, <1>6, <1>7 DEF StateKnown
    <3>3. ASSUME ~orphaned, NEW q \in Pids, proc'[q] \in Alive, worker'[q].file = job[c].file
          PROVE  q = p
      BY <1>6, <1>8, <3>3 DEF NoneOn, Lives
    <3>4. ~orphaned' => FileKnown(c)'
      BY <1>1, <1>4, <1>7, <3>3 DEF FileKnown, OnlyOn, Lives
    <3> QED
      BY <2>1, <3>1, <3>2, <3>4
  <2>2. CASE b # c
    BY <1>5, <2>2, IdleIsSilent
  <2> QED
    BY <2>1, <2>2
<1>13. ASSUME ~orphaned' PROVE InPidFile' /\ StateOwner'
  <2>1. StateOwner'
    BY <1>1, <1>6 DEF StateOwner
  <2>2. ASSUME NEW q \in Pids, proc'[q] \in Alive, q # p PROVE pidFile'[worker'[q].file] = q
    BY <1>1, <1>6, <1>8, <1>13, <2>2, Alone DEF Lives
  <2>3. InPidFile'
    BY <1>4, <1>7, <1>8, <2>2 DEF InPidFile, Lives
  <2> QED
    BY <2>1, <2>3
<1>14. ASSUME ~interrupted' PROVE InState' /\ Obeying'
  <2>1. ASSUME NEW q \in Pids, proc'[q] \in Alive PROVE q = p
    BY <1>1, <1>6, <1>8, <1>14, <2>1, Alone DEF Lives
  <2>2. p \notin term'
    BY <1>1, <1>9 DEF SoloInv, Signalled, Lives
  <2>3. InState'
    BY <1>4, <1>7, <2>1 DEF InState, Lives, Starting
  <2>4. Obeying'
    BY <1>8, <2>1, <2>2 DEF Obeying, Lives, Serving
  <2> QED
    BY <2>3, <2>4
<1> QED
  BY <1>10, <1>11, <1>12, <1>13, <1>14 DEF SoloNext

\* A start that gives its worker up: nobody is left.
LEMMA SoleKill ==
    ASSUME IInv, SoloInv, ~overlapped, NEW c \in Cmds, pc[c] \in Starting, EndAndKill(c),
           UNCHANGED <<orphaned, interrupted, state>>,
           \/ UNCHANGED pidFile
           \/ pidFile' = [pidFile EXCEPT ![job[c].file] = NoPid]
    PROVE  SoloNext
<1>1. pc[c] # "idle" /\ job[c].pid \in Pids
  BY JobKnown DEF Starting
<1>2. /\ Fades /\ Moves(c, "idle", NoJob)
      /\ proc'[job[c].pid] \notin Alive /\ term' = term \ {job[c].pid}
  BY <1>1, EndAndKillFades DEF IInv
<1>3. "idle" \in CmdPc /\ NoJob \in Jobs
  BY NoJobFits DEF CmdPc
<1>4. pc'[c] = "idle" /\ ~job'[c].forget
  BY <1>2 DEF Moves, IInv, CmdsOK, NoJob
<1>5. NamedInJob(c)' /\ StateKnown(c)' /\ FileKnown(c)'
  BY <1>4, IdleIsSilent
<1>6. ASSUME ~orphaned, NEW p \in Pids, proc'[p] \in Alive PROVE worker[p].file # job[c].file
  BY <1>1, <1>2, <1>6, Alone DEF FileKnown, OnlyOn, Fades, Lives
<1>7. ASSUME NEW f \in PidFiles
      PROVE  \/ pidFile'[f] = pidFile[f]
             \/ /\ pidFile'[f] = NoPid
                /\ ~orphaned' => \A p \in Pids : proc'[p] \in Alive => worker[p].file # f
  BY <1>6 DEF IInv, FilesOK
<1>8. pc[c] \notin {"wait", "kill"}
  BY DEF Starting
<1> QED
  BY <1>1, <1>2, <1>3, <1>5, <1>7, <1>8, SoleStep DEF SoloNext

LEMMA WritePidFileSolo ==
    ASSUME IInv, SoloInv, ~overlapped, NEW c \in Cmds, WritePidFile(c)
    PROVE  SoloNext
<1> USE DEF histVars, procVars
<1>1. pc[c] = "write_pid" /\ pc[c] \in Starting /\ UNCHANGED <<state, histVars>>
  BY DEF WritePidFile, Starting
<1>2. CASE EndAndKill(c) /\ UNCHANGED pidFile
  BY <1>1, <1>2, SoleKill
<1>3. CASE /\ pidFile' = [pidFile EXCEPT ![job[c].file] = job[c].pid]
           /\ Goto(c, "check") /\ UNCHANGED <<job, lock, procVars>>
  <2>1. /\ pidFile' = [pidFile EXCEPT ![job[c].file] = job[c].pid]
        /\ Goto(c, "check") /\ UNCHANGED <<job, lock, procVars>>
    BY <1>3
  <2>2. "check" \in CmdPc
    BY DEF CmdPc
  <2>3. Moves(c, "check", job[c]) /\ job[c] \in Jobs /\ pc'[c] = "check" /\ job'[c] = job[c]
    BY <2>1, <2>2, SameJob
  <2> DEFINE p == job[c].pid
             f == job[c].file
  <2>4. /\ p \in Pids /\ f \in PidFiles /\ Used(p) /\ worker[p].file = f
        /\ state = NoState /\ ~job[c].forget /\ NamedInFiles
        /\ ~orphaned => OnlyOn(f, p)
    BY <1>1, Alone, JobKnown DEF NamedInJob, StateKnown, FileKnown, JobFits, Stopping, Starting
  <2>5. \A b \in Cmds : b # c => /\ pc'[b] = pc[b] /\ job'[b] = job[b]
                                 /\ pc[b] = "idle" /\ ~job[b].forget
    <3>1. \A b \in Cmds : b # c => pc[b] = "idle"
      BY <1>1 DEF SoloInv, OneBusy
    <3>2. \A b \in Cmds : b # c => ~job[b].forget
      BY <3>1 DEF SoloInv, StateKnown, Stopping
    <3> QED
      BY <2>3, <3>1, <3>2 DEF Moves, IInv, CmdsOK
  <2>6. pidFile'[f] = p /\ \A g \in PidFiles : g # f => pidFile'[g] = pidFile[g]
    BY <2>1, <2>4 DEF IInv, FilesOK
  <2> HIDE DEF p, f
  <2>7. OneBusy'
    BY <2>3, <2>5 DEF OneBusy
  <2>8. NamedInFiles'
    BY <1>1, <2>1, <2>4, <2>6 DEF NamedInFiles, Used
  <2>9. ASSUME NEW b \in Cmds PROVE NamedInJob(b)' /\ StateKnown(b)' /\ (~orphaned' => FileKnown(b)')
    <3>1. CASE b = c
      <4>1. NamedInJob(c)' /\ StateKnown(c)'
        BY <1>1, <2>1, <2>3, <2>4 DEF NamedInJob, StateKnown, Used, p, f
      <4>2. ~orphaned' => FileKnown(c)'
        BY <1>1, <2>1, <2>3, <2>4 DEF FileKnown, OnlyOn, Lives, p, f
      <4> QED
        BY <3>1, <4>1, <4>2
    <3>2. CASE b # c
      BY <2>5, <3>2, IdleIsSilent
    <3> QED
      BY <3>1, <3>2
  <2>10. ASSUME ~orphaned' PROVE InPidFile' /\ StateOwner'
    <3>1. ASSUME NEW q \in Pids, Lives(q) PROVE pidFile'[worker[q].file] = q
      <4>1. CASE worker[q].file = f
        BY <1>1, <2>4, <2>6, <2>10, <3>1, <4>1 DEF OnlyOn
      <4>2. CASE worker[q].file # f
        <5>1. q # p /\ worker[q].file \in PidFiles
          BY <2>4, <3>1, <4>2 DEF SoloInv, Signalled
        <5>2. pidFile[worker[q].file] = q
          BY <1>1, <2>10, <3>1, <5>1, Alone DEF p
        <5> QED
          BY <2>6, <4>2, <5>1, <5>2
      <4> QED
        BY <4>1, <4>2
    <3>2. InPidFile'
      BY <2>1, <3>1 DEF InPidFile, Lives
    <3>3. StateOwner'
      BY <1>1, <2>4 DEF StateOwner
    <3> QED
      BY <3>2, <3>3
  <2>11. ASSUME ~interrupted' PROVE InState' /\ Obeying'
    <3>1. \A q \in Pids : Lives(q) => q = p
      BY <1>1, <2>4, <2>11, Alone DEF p
    <3>2. InState'
      BY <2>1, <2>3, <3>1 DEF InState, Lives, Starting, p
    <3>3. \A q \in Pids : Lives(q) => Serving(q)
      <4>1. Obeying /\ \A b \in Cmds : pc[b] \notin {"wait", "kill"}
        BY <1>1, <2>5, <2>11 DEF SoloInv
      <4> QED
        BY <4>1 DEF Obeying
    <3>4. Obeying'
      BY <2>1, <3>3 DEF Obeying, Lives, Serving
    <3> QED
      BY <3>2, <3>4
  <2> QED
    BY <2>7, <2>8, <2>9, <2>10, <2>11 DEF SoloNext
<1> QED
  BY <1>2, <1>3 DEF WritePidFile

LEMMA CheckChildSolo ==
    ASSUME IInv, SoloInv, ~overlapped, NEW c \in Cmds, CheckChild(c)
    PROVE  SoloNext
<1> USE DEF histVars
<1>1. /\ pc[c] = "check" /\ pc[c] \in Starting /\ pc[c] \notin {"wait", "kill"}
      /\ pc[c] # "idle" /\ pc[c] # "write_pid"
      /\ UNCHANGED <<state, lock, term, histVars>>
  BY DEF CheckChild, Starting
<1>2. /\ state = NoState /\ ~job[c].forget /\ NamedInJob(c) /\ FilesOK
      /\ ~orphaned => OnlyOn(job[c].file, job[c].pid)
  BY <1>1, Alone, JobKnown DEF StateKnown, FileKnown, Stopping, Starting
<1>3. CASE ~IsProcessRunning(job[c].pid)
  <2>1. pidFile' = [pidFile EXCEPT ![job[c].file] = NoPid] /\ End(c)
    BY <1>3 DEF CheckChild
  <2>2. ~Lives(job[c].pid)
    BY <1>3, LivesRuns
  <2>3. ~orphaned => NoneOn(job[c].file)
    BY <1>2, <2>2 DEF OnlyOn, NoneOn
  <2>4. ASSUME NEW f \in PidFiles
        PROVE  \/ pidFile'[f] = pidFile[f]
               \/ pidFile'[f] = NoPid /\ (~orphaned' => NoneOn(f))
    BY <1>1, <1>2, <2>1, <2>3 DEF FilesOK
  <2> QED
    BY <1>1, <2>1, <2>2, <2>4, SoleEnd
<1>4. CASE IsProcessRunning(job[c].pid)
  <2>1. Goto(c, "write_state") /\ UNCHANGED <<pidFile, job, proc, worker>>
    BY <1>4 DEF CheckChild
  <2>2. "write_state" \in CmdPc
    BY DEF CmdPc
  <2>3. Moves(c, "write_state", job[c]) /\ job[c] \in Jobs /\ pc'[c] = "write_state" /\ job'[c] = job[c]
    BY <2>1, <2>2, SameJob
  <2>4. NamedInJob(c)' /\ StateKnown(c)'
    BY <1>1, <1>2, <2>1, <2>3 DEF NamedInJob, StateKnown, Used, Starting, Stopping
  <2>5. ~orphaned => FileKnown(c)'
    BY <1>2, <2>1, <2>3 DEF FileKnown, OnlyOn, Lives, Starting, Stopping
  <2>6. "write_state" \in Starting
    BY DEF Starting
  <2> QED
    BY <1>1, <2>1, <2>2, <2>3, <2>4, <2>5, <2>6, SoleMove
<1> QED
  BY <1>3, <1>4

LEMMA WriteActiveStateSolo ==
    ASSUME IInv, SoloInv, ~overlapped, NEW c \in Cmds, WriteActiveState(c)
    PROVE  SoloNext
<1> USE DEF histVars
<1>1. pc[c] = "write_state" /\ pc[c] \in Starting /\ UNCHANGED histVars
  BY DEF WriteActiveState, Starting
<1>2. CASE /\ EndAndKill(c) /\ UNCHANGED state
           /\ pidFile' = [pidFile EXCEPT ![job[c].file] = NoPid]
  BY <1>1, <1>2, SoleKill
<1>3. CASE /\ state' = [pid |-> job[c].pid, file |-> job[c].file]
           /\ End(c) /\ UNCHANGED <<pidFile, lock, term>>
  <2> DEFINE p == job[c].pid
             f == job[c].file
  <2>1. Fades /\ Moves(c, "idle", NoJob)
    BY <1>3, EndFades DEF IInv
  <2>2. pc'[c] = "idle" /\ ~job'[c].forget
    BY <2>1 DEF Moves, IInv, CmdsOK, NoJob
  <2>3. /\ p \in Pids /\ f \in PidFiles /\ Used(p) /\ worker[p].file = f
        /\ state = NoState /\ NamedInFiles
        /\ ~orphaned => OnlyOn(f, p)
    BY <1>1, Alone, JobKnown DEF NamedInJob, StateKnown, FileKnown, JobFits, Stopping, Starting
  <2>4. \A b \in Cmds : pc'[b] = "idle" /\ ~job'[b].forget
    <3>1. \A b \in Cmds : b # c => pc[b] = "idle"
      BY <1>1 DEF SoloInv, OneBusy
    <3>2. \A b \in Cmds : b # c => ~job[b].forget
      BY <3>1 DEF SoloInv, StateKnown, Stopping
    <3> QED
      BY <2>1, <2>2, <3>1, <3>2 DEF Moves, IInv, CmdsOK
  <2>5. state'.pid = p /\ state'.file = f
    BY <1>3
  <2>6. \A q \in Pids : /\ worker'[q].file = worker[q].file
                        /\ Used(q) => proc'[q] # "unused"
                        /\ proc'[q] \in Alive => Lives(q) /\ proc'[q] = proc[q]
    BY <2>1 DEF Fades, Used, Lives
  <2> HIDE DEF p, f
  <2>7. OneBusy'
    BY <2>4 DEF OneBusy
  <2>8. NamedInFiles'
    <3>1. ASSUME NEW g \in PidFiles, pidFile'[g] # NoPid
          PROVE  proc'[pidFile'[g]] # "unused" /\ worker'[pidFile'[g]].file = g
      <4>1. pidFile'[g] = pidFile[g] /\ pidFile[g] \in Pids
        BY <1>3, <3>1 DEF IInv, FilesOK
      <4> QED
        BY <2>3, <2>6, <3>1, <4>1 DEF NamedInFiles
    <3> QED
      BY <2>3, <2>5, <2>6, <3>1 DEF NamedInFiles, Used
  <2>9. ASSUME NEW b \in Cmds PROVE NamedInJob(b)' /\ StateKnown(b)' /\ FileKnown(b)'
    BY <2>4, IdleIsSilent
  <2>10. ASSUME ~orphaned' PROVE InPidFile' /\ StateOwner'
    <3>1. ASSUME NEW q \in Pids, proc'[q] \in Alive PROVE pidFile'[worker'[q].file] = q
      BY <1>1, <1>3, <2>6, <2>10, <3>1, Alone
    <3>2. InPidFile'
      BY <3>1 DEF InPidFile, Lives
    <3>3. StateOwner'
      BY <1>1, <2>3, <2>5, <2>6, <2>10 DEF StateOwner, OnlyOn, Lives
    <3> QED
      BY <3>2, <3>3
  <2>11. ASSUME ~interrupted' PROVE InState' /\ Obeying'
    <3>1. ASSUME NEW q \in Pids, proc'[q] \in Alive PROVE q = p
      BY <1>1, <2>3, <2>6, <2>11, <3>1, Alone DEF p
    <3>2. state' = [pid |-> p, file |-> worker'[p].file]
      BY <1>3, <2>3, <2>6 DEF p, f
    <3>3. InState'
      BY <3>1, <3>2 DEF InState, Lives
    <3>4. \A q \in Pids : Lives(q) => Serving(q)
      <4>1. Obeying /\ \A b \in Cmds : pc[b] \notin {"wait", "kill"}
        BY <1>1, <2>11 DEF SoloInv, OneBusy
      <4> QED
        BY <4>1 DEF Obeying
    <3>5. Obeying'
      BY <1>3, <2>6, <3>4 DEF Obeying, Lives, Serving
    <3> QED
      BY <3>3, <3>5
  <2> QED
    BY <2>7, <2>8, <2>9, <2>10, <2>11 DEF SoloNext
<1> QED
  BY <1>2, <1>3 DEF WriteActiveState

-----------------------------------------------------------------------------
(* A stop, from SIGTERM to the removal of the files *)

LEMMA SendTermSolo ==
    ASSUME IInv, SoloInv, ~overlapped, NEW c \in Cmds, SendTerm(c)
    PROVE  SoloNext
<1> USE DEF histVars, procVars
<1> DEFINE p == job[c].pid
<1>1. /\ pc[c] = "signal" /\ pc[c] \in Stopping /\ pc[c] \notin Starting \cup {"wait", "kill"}
      /\ pc[c] # "idle" /\ pc[c] # "write_pid"
      /\ UNCHANGED <<state, pidFile, histVars>>
  BY DEF SendTerm, Starting, Stopping
<1>2. /\ p \in Pids /\ NamedInJob(c) /\ StateKnown(c) /\ ProcsOK
      /\ ~orphaned => FileKnown(c)
  BY <1>1, Alone, JobKnown
<1>3. ASSUME Goto(c, "wait"), UNCHANGED job, Fades,
             \A q \in term' : q \in term \/ q = p
      PROVE  SoloNext
  <2>1. "wait" \in CmdPc
    BY DEF CmdPc
  <2>2. Moves(c, "wait", job[c]) /\ job[c] \in Jobs /\ pc'[c] = "wait" /\ job'[c] = job[c]
    BY <1>3, <2>1, SameJob
  <2>3. NamedInJob(c)' /\ StateKnown(c)'
    BY <1>1, <1>2, <1>3, <2>2
       DEF NamedInJob, StateKnown, Fades, Used, Starting, Stopping
  <2>4. ~orphaned' => FileKnown(c)'
    BY <1>1, <1>2, <1>3, <2>2 DEF FileKnown, OnlyOn, Lives, Fades, Starting, Stopping
  <2> QED
    BY <1>1, <1>3, <2>1, <2>2, <2>3, <2>4, SoleStep DEF SoloNext
<1>4. CASE End(c) /\ UNCHANGED <<lock, term>>
  BY <1>1, <1>4, SoleEnd
<1>5. CASE term' = term \cup {p} /\ Goto(c, "wait") /\ UNCHANGED <<job, proc, worker, lock>>
  BY <1>3, <1>5, StillFades
<1>6. CASE proc[p] \in Alive \ {"run"} /\ Exit(p) /\ Goto(c, "wait") /\ UNCHANGED <<job, worker>>
  <2>1. Fades /\ term' = term \ {p}
    BY <1>2, <1>6, ExitFades
  <2> QED
    BY <1>3, <1>6, <2>1
<1>7. CASE Goto(c, "wait") /\ UNCHANGED <<job, procVars, lock>>
  BY <1>3, <1>7, StillFades
<1> QED
  BY <1>4, <1>5, <1>6, <1>7 DEF SendTerm

LEMMA AwaitExitSolo ==
    ASSUME IInv, SoloInv, ~overlapped, NEW c \in Cmds, AwaitExit(c)
    PROVE  SoloNext
<1> USE DEF files, histVars, procVars
<1>1. /\ pc[c] = "wait" /\ pc[c] \in Stopping /\ pc[c] \notin Starting
      /\ pc[c] # "idle" /\ pc[c] # "write_pid"
      /\ UNCHANGED <<files, procVars, job, histVars>>
  BY DEF AwaitExit, Starting, Stopping
<1>2. /\ NamedInJob(c) /\ StateKnown(c) /\ (~orphaned => OnlyOn(job[c].file, job[c].pid))
  BY <1>1, Alone DEF FileKnown
<1>3. CASE ~IsProcessRunning(job[c].pid) /\ Goto(c, "remove_pid")
  <2>1. "remove_pid" \in CmdPc
    BY DEF CmdPc
  <2>2. Moves(c, "remove_pid", job[c]) /\ job[c] \in Jobs /\ pc'[c] = "remove_pid" /\ job'[c] = job[c]
    BY <1>1, <1>3, <2>1, SameJob
  <2>3. ~Lives(job[c].pid)
    BY <1>3, LivesRuns
  <2>4. NamedInJob(c)' /\ StateKnown(c)'
    BY <1>1, <1>2, <1>3, <2>2
       DEF NamedInJob, StateKnown, IsProcessRunning, Starting, Stopping
  <2>5. ~orphaned => FileKnown(c)'
    BY <1>1, <1>2, <2>2, <2>3 DEF FileKnown, OnlyOn, NoneOn, Lives, Starting, Stopping
  <2> QED
    BY <1>1, <2>1, <2>2, <2>3, <2>4, <2>5, SoleMove
<1>4. CASE IsProcessRunning(job[c].pid) /\ Goto(c, "kill")
  <2>1. "kill" \in CmdPc
    BY DEF CmdPc
  <2>2. Moves(c, "kill", job[c]) /\ job[c] \in Jobs /\ pc'[c] = "kill" /\ job'[c] = job[c]
    BY <1>1, <1>4, <2>1, SameJob
  <2>3. NamedInJob(c)' /\ StateKnown(c)'
    BY <1>1, <1>2, <2>2 DEF NamedInJob, StateKnown, Used, Starting, Stopping
  <2>4. ~orphaned => FileKnown(c)'
    BY <1>1, <1>2, <2>2 DEF FileKnown, OnlyOn, Lives, Starting, Stopping
  <2> QED
    BY <1>1, <2>1, <2>2, <2>3, <2>4, SoleMove
<1> QED
  BY <1>3, <1>4 DEF AwaitExit

LEMMA SendKillSolo ==
    ASSUME IInv, SoloInv, ~overlapped, NEW c \in Cmds, SendKill(c)
    PROVE  SoloNext
<1> USE DEF histVars
<1> DEFINE p == job[c].pid
<1>1. /\ pc[c] = "kill" /\ pc[c] \in Stopping /\ pc[c] \notin Starting
      /\ pc[c] # "idle" /\ pc[c] # "write_pid"
      /\ Goto(c, "verify") /\ UNCHANGED <<state, pidFile, worker, job, histVars>>
  BY DEF SendKill, Starting, Stopping
<1>2. /\ p \in Pids /\ NamedInJob(c) /\ StateKnown(c) /\ ProcsOK
      /\ ~orphaned => FileKnown(c)
  BY <1>1, Alone, JobKnown
<1>3. Fades /\ proc'[p] \notin Alive /\ term' \subseteq term
  <2>1. CASE proc[p] \in Alive
    <3>1. Exit(p)
      BY <2>1 DEF SendKill
    <3> QED
      BY <1>1, <1>2, <2>1, <3>1, ExitFades
  <2>2. CASE proc[p] \notin Alive
    BY <1>1, <2>2, StillFades DEF SendKill
  <2> QED
    BY <2>1, <2>2
<1>4. "verify" \in CmdPc
  BY DEF CmdPc
<1>5. Moves(c, "verify", job[c]) /\ job[c] \in Jobs /\ pc'[c] = "verify" /\ job'[c] = job[c]
  BY <1>1, <1>4, SameJob
<1>6. NamedInJob(c)' /\ StateKnown(c)'
  BY <1>1, <1>2, <1>3, <1>5 DEF NamedInJob, StateKnown, Fades, Used, Starting, Stopping
<1>7. ~orphaned' => FileKnown(c)'
  BY <1>1, <1>2, <1>3, <1>5 DEF FileKnown, OnlyOn, Lives, Fades, Starting, Stopping
<1> QED
  BY <1>1, <1>3, <1>4, <1>5, <1>6, <1>7, SoleStep DEF SoloNext

LEMMA VerifyStoppedSolo ==
    ASSUME IInv, SoloInv, ~overlapped, NEW c \in Cmds, VerifyStopped(c)
    PROVE  SoloNext
<1> USE DEF files, histVars
<1>1. /\ pc[c] = "verify" /\ pc[c] \in Stopping /\ pc[c] \notin Starting \cup {"wait", "kill"}
      /\ pc[c] # "idle" /\ pc[c] # "write_pid"
      /\ UNCHANGED <<files, term, histVars>>
  BY DEF VerifyStopped, Starting, Stopping
<1>2. /\ NamedInJob(c) /\ StateKnown(c) /\ (~orphaned => OnlyOn(job[c].file, job[c].pid))
  BY <1>1, Alone DEF FileKnown
<1>3. CASE End(c)
  BY <1>1, <1>3, SoleEnd
<1>4. CASE /\ ~IsProcessRunning(job[c].pid) /\ Goto(c, "remove_pid")
           /\ UNCHANGED <<job, proc, worker>>
  <2>1. "remove_pid" \in CmdPc
    BY DEF CmdPc
  <2>2. Moves(c, "remove_pid", job[c]) /\ job[c] \in Jobs /\ pc'[c] = "remove_pid" /\ job'[c] = job[c]
    BY <1>4, <2>1, SameJob
  <2>3. ~Lives(job[c].pid)
    BY <1>4, LivesRuns
  <2>4. NamedInJob(c)' /\ StateKnown(c)'
    BY <1>1, <1>2, <1>4, <2>2
       DEF NamedInJob, StateKnown, IsProcessRunning, Starting, Stopping
  <2>5. ~orphaned => FileKnown(c)'
    BY <1>2, <1>4, <2>2, <2>3 DEF FileKnown, OnlyOn, NoneOn, Lives, Starting, Stopping
  <2> QED
    BY <1>1, <1>4, <2>1, <2>2, <2>4, <2>5, SoleMove
<1> QED
  BY <1>3, <1>4 DEF VerifyStopped

LEMMA RemovePidFileSolo ==
    ASSUME IInv, SoloInv, ~overlapped, NEW c \in Cmds, RemovePidFile(c)
    PROVE  SoloNext
<1> USE DEF histVars
<1>1. /\ pc[c] = "remove_pid" /\ pc[c] \notin Starting \cup {"wait", "kill"}
      /\ pc[c] # "idle" /\ pc[c] # "write_pid"
      /\ pidFile' = [pidFile EXCEPT ![job[c].file] = NoPid]
      /\ UNCHANGED <<state, lock, term, histVars>>
  BY DEF RemovePidFile, Starting
<1>2. StateKnown(c) /\ (~orphaned => NoneOn(job[c].file)) /\ FilesOK
  BY <1>1, Alone, JobKnown DEF FileKnown
<1>3. ASSUME NEW f \in PidFiles
      PROVE  pidFile'[f] = pidFile[f] \/ (pidFile'[f] = NoPid /\ (~orphaned => NoneOn(f)))
  BY <1>1, <1>2 DEF FilesOK
<1>4. CASE End(c)
  BY <1>1, <1>3, <1>4, SoleEnd
<1>5. CASE job[c].forget /\ Goto(c, "remove_state") /\ UNCHANGED <<job, proc, worker>>
  <2>1. "remove_state" \in CmdPc
    BY DEF CmdPc
  <2>2. /\ Moves(c, "remove_state", job[c]) /\ job[c] \in Jobs
        /\ pc'[c] = "remove_state" /\ job'[c] = job[c]
    BY <1>5, <2>1, SameJob
  <2>3. NamedInJob(c)' /\ StateKnown(c)' /\ FileKnown(c)'
    BY <1>1, <1>2, <1>5, <2>2
       DEF NamedInJob, StateKnown, FileKnown, IsProcessRunning, Starting, Stopping
  <2> QED
    BY <1>1, <1>3, <1>5, <2>1, <2>2, <2>3, SoleMove
<1> QED
  BY <1>4, <1>5 DEF RemovePidFile

LEMMA RemoveActiveStateSolo ==
    ASSUME IInv, SoloInv, ~overlapped, NEW c \in Cmds, RemoveActiveState(c)
    PROVE  SoloNext
<1> USE DEF histVars
<1>1. /\ pc[c] = "remove_state" /\ pc[c] \notin Starting \cup {"wait", "kill"}
      /\ pc[c] # "idle" /\ pc[c] # "write_pid"
      /\ state' = NoState /\ End(c)
      /\ UNCHANGED <<pidFile, lock, term, histVars>>
  BY DEF RemoveActiveState, Starting
<1>2. state = [pid |-> job[c].pid, file |-> job[c].file] /\ ~IsProcessRunning(job[c].pid)
  BY <1>1, Alone DEF StateKnown
<1>3. ~interrupted => \A p \in Pids : ~Lives(p)
  BY <1>1, <1>2, Alone, LivesRuns
<1> QED
  BY <1>1, <1>3, SoleEnd

-----------------------------------------------------------------------------
(* Signals and PID files of living workers, however commands overlap *)

LEMMA EndSignalled ==
    ASSUME IInv, Signalled, NEW c \in Cmds, End(c), UNCHANGED term
    PROVE  Signalled'
<1>1. Fades
  BY EndFades DEF IInv
<1>2. \A p \in Pids : proc[p] \in Alive => proc'[p] = proc[p]
  BY DEF End, Alive
<1> QED
  BY <1>1, <1>2 DEF Signalled, Fades, Lives, IInv, ProcsOK

LEMMA ExitSignalled ==
    ASSUME IInv, Signalled, NEW p \in Pids, proc[p] \in Alive, Exit(p), UNCHANGED worker
    PROVE  Signalled'
<1>1. Fades /\ term' = term \ {p}
  BY ExitFades DEF IInv
<1>2. \A q \in Pids : q # p => proc'[q] = proc[q]
  BY DEF Exit, IInv, ProcsOK
<1> QED
  BY <1>1, <1>2 DEF Signalled, Fades, Lives, IInv, ProcsOK

LEMMA EndAndKillSignalled ==
    ASSUME IInv, Signalled, NEW c \in Cmds, EndAndKill(c), job[c].pid \in Pids
    PROVE  Signalled'
<1>1. Fades /\ term' = term \ {job[c].pid}
  BY EndAndKillFades DEF IInv
<1>2. \A q \in Pids : q # job[c].pid => proc'[q] = proc[q]
  BY DEF EndAndKill, IInv, ProcsOK
<1> QED
  BY <1>1, <1>2 DEF Signalled, Fades, Lives, IInv, ProcsOK

\* A living worker moves on.
LEMMA MoveSignalled ==
    ASSUME IInv, Signalled, NEW p \in Pids, NEW s \in Alive, proc[p] \in Alive,
           proc' = [proc EXCEPT ![p] = s], UNCHANGED <<worker, term>>
    PROVE  Signalled'
  BY DEF Signalled, Lives, IInv, ProcsOK

LEMMA SpawnSignalled ==
    ASSUME IInv, Signalled, NEW c \in Cmds, NEW p \in Pids, Spawn(c, p)
    PROVE  Signalled'
<1>1. job[c].file \in PidFiles
  BY JobKnown DEF Spawn, JobFits
<1>2. /\ proc'[p] = "boot" /\ worker'[p].file = job[c].file /\ UNCHANGED term
      /\ \A q \in Pids : q # p => proc'[q] = proc[q] /\ worker'[q] = worker[q]
  BY DEF Spawn, IInv, ProcsOK
<1>3. "boot" \in Alive
  BY DEF Alive
<1> QED
  BY <1>1, <1>2, <1>3 DEF Signalled, Lives, IInv, ProcsOK

LEMMA SignalledKept ==
    ASSUME IInv, Signalled, Next
    PROVE  Signalled'
<1> USE DEF files, procVars, histVars
<1>1. ASSUME UNCHANGED <<proc, worker, term>> PROVE Signalled'
  BY <1>1 DEF Signalled, Lives
<1>2. ASSUME NEW c \in Cmds, UserStep(c) PROVE Signalled'
  BY <1>1, <1>2, EndSignalled
     DEF UserStep, IssueStart, IssueStop, IssueStopDir, IssueStatus, Issue, Interrupt
<1>3. ASSUME NEW c \in Cmds,
             \/ ReadNoState(c) \/ ReadRunningState(c) \/ ReadStaleState(c)
             \/ CleanStalePid(c) \/ CleanStaleState(c) \/ ReadPidFile(c) \/ DropStalePid(c)
      PROVE  Signalled'
  BY <1>1, <1>3, EndSignalled
     DEF ReadNoState, ReadRunningState, ReadStaleState, CleanStalePid, CleanStaleState,
         ReadPidFile, DropStalePid
<1>4. ASSUME NEW c \in Cmds, WritePidFile(c) \/ CheckChild(c) \/ WriteActiveState(c)
      PROVE  Signalled'
  <2>1. job[c].pid \in Pids
    BY <1>4, JobKnown DEF WritePidFile, CheckChild, WriteActiveState, Starting
  <2> QED
    BY <1>1, <1>4, <2>1, EndSignalled, EndAndKillSignalled
       DEF WritePidFile, CheckChild, WriteActiveState
<1>5. ASSUME NEW c \in Cmds, SendTerm(c) PROVE Signalled'
  <2> DEFINE p == job[c].pid
  <2>1. p \in Pids
    BY <1>5, JobKnown DEF SendTerm, Stopping
  <2>2. CASE End(c) /\ UNCHANGED term
    BY <2>2, EndSignalled
  <2>3. CASE proc[p] = "run" /\ term' = term \cup {p} /\ UNCHANGED <<proc, worker>>
    BY <2>3 DEF Signalled, Lives, Alive
  <2>4. CASE proc[p] \in Alive /\ Exit(p) /\ UNCHANGED worker
    BY <2>1, <2>4, ExitSignalled
  <2> QED
    BY <1>1, <1>5, <2>2, <2>3, <2>4 DEF SendTerm
<1>6. ASSUME NEW c \in Cmds, SendKill(c) PROVE Signalled'
  <2>1. job[c].pid \in Pids
    BY <1>6, JobKnown DEF SendKill, Stopping
  <2> QED
    BY <1>1, <1>6, <2>1, ExitSignalled DEF SendKill
<1>7. ASSUME NEW c \in Cmds,
             AwaitExit(c) \/ VerifyStopped(c) \/ RemovePidFile(c) \/ RemoveActiveState(c)
      PROVE  Signalled'
  BY <1>1, <1>7, EndSignalled DEF AwaitExit, VerifyStopped, RemovePidFile, RemoveActiveState
<1>8. ASSUME NEW p \in Pids, WorkerStep(p) PROVE Signalled'
  <2>1. CASE Unlink(p) \/ Crash(p)
    BY <2>1, ExitSignalled DEF Unlink, Crash, Alive
  <2>2. ASSUME NEW s \in Alive, proc[p] \in Alive, proc' = [proc EXCEPT ![p] = s],
               UNCHANGED <<worker, term>>
        PROVE  Signalled'
    BY <2>2, MoveSignalled
  <2>3. CASE WorkerWritePid(p)
    BY <2>2, <2>3 DEF WorkerWritePid, Alive
  <2>4. CASE AcquireLock(p)
    BY <2>2, <2>4 DEF AcquireLock, Alive
  <2>5. CASE StartCapture(p) \/ StopCapture(p) \/ CloseWriter(p)
    BY <2>2, <2>5 DEF StartCapture, StopCapture, CloseWriter, Alive
  <2> QED
    BY <1>8, <2>1, <2>3, <2>4, <2>5 DEF WorkerStep
<1> QED
  BY <1>2, <1>3, <1>4, <1>5, <1>6, <1>7, <1>8, SpawnSignalled DEF Next, CmdStep

-----------------------------------------------------------------------------
(* The user, when only one command runs at a time *)

LEMMA IssueSolo ==
    ASSUME IInv, SoloInv, NEW c \in Cmds, NEW j \in Jobs, NEW l \in {"read_state", "read_pid"},
           Issue(c, j, l), ~j.forget, l = "read_pid" => j.kind = "stop", ~overlapped'
    PROVE  SoloNext
<1> USE DEF files, procVars
<1>1. /\ ~overlapped /\ \A b \in Cmds : pc[b] = "idle"
      /\ UNCHANGED <<files, procVars, interrupted, orphaned>>
  BY DEF Issue
<1>2. /\ pc'[c] = l /\ job'[c] = j
      /\ \A b \in Cmds : b # c => pc'[b] = "idle" /\ job'[b] = job[b]
  BY <1>1 DEF Issue, Goto, IInv, CmdsOK
<1>3. OneBusy'
  BY <1>2 DEF OneBusy
<1>4. NamedInFiles'
  BY <1>1 DEF SoloInv, NamedInFiles, Used
<1>5. ASSUME NEW b \in Cmds PROVE NamedInJob(b)' /\ StateKnown(b)' /\ FileKnown(b)'
  <2>1. CASE b = c
    BY <1>2, <2>1 DEF NamedInJob, StateKnown, FileKnown, Starting, Stopping
  <2>2. CASE b # c
    <3>1. ~job[b].forget
      BY <1>1 DEF SoloInv, StateKnown, Stopping
    <3> QED
      BY <1>2, <2>2, <3>1, IdleIsSilent
  <2> QED
    BY <2>1, <2>2
<1>6. ASSUME ~orphaned' PROVE InPidFile' /\ StateOwner'
  BY <1>1, <1>6 DEF SoloInv, InPidFile, StateOwner, OnlyOn, Lives
<1>7. ASSUME ~interrupted' PROVE InState' /\ Obeying'
  <2>1. \A b \in Cmds : pc[b] \notin Starting /\ pc[b] \notin {"wait", "kill"}
    BY <1>1 DEF Starting
  <2> QED
    BY <1>1, <1>7, <2>1 DEF SoloInv, InState, Obeying, Lives, Serving
<1> QED
  BY <1>3, <1>4, <1>5, <1>6, <1>7 DEF SoloNext

LEMMA UserSolo ==
    ASSUME IInv, SoloInv, NEW c \in Cmds, UserStep(c), ~overlapped'
    PROVE  SoloNext
<1>0. NoJob \in Jobs
  BY NoJobFits
<1>1. ASSUME NEW d \in Dirs, NEW f \in PidFiles, IssueStart(c, d, f) PROVE SoloNext
  <2>1. PICK j : j = [NoJob EXCEPT !.kind = "start", !.dir = d, !.file = f]
    OBVIOUS
  <2>2. j \in Jobs
    BY <1>0, <2>1, Zenon DEF Jobs
  <2>3. ~j.forget
    BY <2>1, SMT DEF NoJob
  <2> QED
    BY <1>1, <2>1, <2>2, <2>3, IssueSolo DEF IssueStart
<1>2. ASSUME NEW f \in PidFiles \cup {NoFile}, IssueStop(c, f) PROVE SoloNext
  <2>1. PICK j : j = [NoJob EXCEPT !.kind = "stop", !.flag = f, !.file = f]
    OBVIOUS
  <2>2. j \in Jobs
    BY <1>0, <2>1, Zenon DEF Jobs
  <2>3. ~j.forget
    BY <2>1, SMT DEF NoJob
  <2> QED
    BY <1>2, <2>1, <2>2, <2>3, IssueSolo DEF IssueStop
<1>3. ASSUME NEW f \in PidFiles, IssueStopDir(c, f) PROVE SoloNext
  <2>1. PICK j : j = [NoJob EXCEPT !.kind = "stop", !.flag = f, !.file = f]
    OBVIOUS
  <2>2. j \in Jobs
    BY <1>0, <2>1, Zenon DEF Jobs
  <2>3. ~j.forget /\ j.kind = "stop"
    BY <2>1, SMT DEF NoJob
  <2> QED
    BY <1>3, <2>1, <2>2, <2>3, IssueSolo DEF IssueStopDir
<1>4. ASSUME IssueStatus(c) PROVE SoloNext
  <2>1. PICK j : j = [NoJob EXCEPT !.kind = "status"]
    OBVIOUS
  <2>2. j \in Jobs
    BY <1>0, <2>1, Zenon DEF Jobs
  <2>3. ~j.forget
    BY <2>1, SMT DEF NoJob
  <2> QED
    BY <1>4, <2>1, <2>2, <2>3, IssueSolo DEF IssueStatus
<1>5. ASSUME Interrupt(c) PROVE SoloNext
  <2>1. /\ ~overlapped /\ pc[c] # "idle" /\ End(c) /\ UNCHANGED <<state, pidFile, term>>
        /\ interrupted' /\ (orphaned => orphaned') /\ (~orphaned' => pc[c] # "write_pid")
    BY <1>5 DEF Interrupt, files
  <2> QED
    BY <2>1, SoleEnd
<1> QED
  BY <1>1, <1>2, <1>3, <1>4, <1>5 DEF UserStep

-----------------------------------------------------------------------------
(* Workers, when only one command runs at a time *)

\* While no command was cut off, at most one worker lives.
LEMMA OneLives ==
    ASSUME IInv, SoloInv, ~overlapped, ~interrupted,
           NEW p \in Pids, NEW q \in Pids, Lives(p), Lives(q)
    PROVE  p = q
<1>1. InState /\ OneBusy /\ \A c \in Cmds : StateKnown(c)
  BY DEF SoloInv
<1>2. NoPid \notin Pids
  BY DaemonLifecycleAssumption
<1>3. ASSUME NEW r \in Pids, state = [pid |-> r, file |-> worker[r].file],
             NEW c \in Cmds, pc[c] \in Starting
      PROVE  FALSE
  <2>1. state = NoState
    BY <1>1, <1>3 DEF StateKnown
  <2> QED
    BY <1>2, <1>3, <2>1 DEF NoState
<1>4. ASSUME state = [pid |-> p, file |-> worker[p].file],
             state = [pid |-> q, file |-> worker[q].file]
      PROVE  p = q
  BY <1>4
<1>5. ASSUME NEW b \in Cmds, pc[b] \in Starting, job[b].pid = p,
             NEW c \in Cmds, pc[c] \in Starting, job[c].pid = q
      PROVE  p = q
  BY <1>1, <1>5 DEF OneBusy, Starting
<1> QED
  BY <1>1, <1>3, <1>4, <1>5 DEF InState

\* What a step of worker p leaves to be shown, commands apart: p may die or move on,
\* and may write or remove its own PID file.
LEMMA WorkerMoveSolo ==
    ASSUME IInv, SoloInv, ~overlapped, NEW p \in Pids, Lives(p),
           \A q \in Pids : q # p => proc'[q] = proc[q],
           proc'[p] # "unused", proc'[p] # "boot",
           UNCHANGED <<state, worker, cmdVars, histVars>>,
           \A q \in term' : q \in term,
           \A f \in PidFiles :
               \/ pidFile'[f] = pidFile[f]
               \/ f = worker[p].file /\ pidFile'[f] = p
               \/ f = worker[p].file /\ pidFile'[f] = NoPid /\ proc'[p] \notin Alive,
           ~orphaned /\ proc[p] = "boot" /\ proc'[p] \in Alive => pidFile'[worker[p].file] = p,
           ~interrupted /\ Serving(p) /\ proc'[p] \in Alive => proc'[p] \in {"boot", "lock", "init", "run"}
    PROVE  SoloNext
<1> USE DEF cmdVars, histVars
<1>1. /\ OneBusy /\ NamedInFiles /\ \A c \in Cmds : NamedInJob(c) /\ StateKnown(c)
      /\ ~orphaned => InPidFile /\ StateOwner /\ \A c \in Cmds : FileKnown(c)
      /\ ~interrupted => InState /\ Obeying
      /\ worker[p].file \in PidFiles
  BY DEF SoloInv, Signalled
<1>2. \A q \in Pids : /\ proc'[q] \in Alive => Lives(q)
                      /\ Used(q) => proc'[q] # "unused"
                      /\ proc'[q] \in Alive \cup {"zombie"} => IsProcessRunning(q)
                      /\ q # p => (IsProcessRunning(q) => proc'[q] \in Alive \cup {"zombie"})
  BY DEF Lives, Used, IsProcessRunning
<1>3. OneBusy'
  BY <1>1 DEF OneBusy
<1>4. NamedInFiles'
  <2>1. Used(p)
    BY DEF Used, Lives, Alive
  <2>2. ASSUME NEW f \in PidFiles, pidFile'[f] # NoPid
        PROVE  proc'[pidFile'[f]] # "unused" /\ worker'[pidFile'[f]].file = f
    <3>1. CASE pidFile'[f] = p /\ f = worker[p].file
      BY <2>1, <3>1, <1>2
    <3>2. CASE pidFile'[f] = pidFile[f]
      <4>1. pidFile[f] \in Pids
        BY <2>2, <3>2 DEF IInv, FilesOK
      <4> QED
        BY <1>1, <1>2, <2>2, <3>2, <4>1 DEF NamedInFiles
    <3> QED
      BY <2>2, <3>1, <3>2
  <2>3. state # NoState => state.pid \in Pids
    BY StateFields DEF IInv
  <2> QED
    BY <1>1, <1>2, <2>2, <2>3 DEF NamedInFiles, Used
<1>5. ASSUME NEW c \in Cmds PROVE NamedInJob(c)' /\ StateKnown(c)' /\ (~orphaned' => FileKnown(c)')
  <2>1. pc[c] \in Starting \cup Stopping => job[c].pid \in Pids
    BY JobKnown
  <2>2. NamedInJob(c)'
    BY <1>1, <1>2, <2>1 DEF NamedInJob, Used
  <2>3. StateKnown(c)'
    <3>1. state # NoState => state.pid \in Pids
      BY StateFields DEF IInv
    <3>2. ASSUME job[c].forget PROVE job[c].pid \in Pids
      <4>1. state # NoState /\ state = [pid |-> job[c].pid, file |-> job[c].file]
        BY <1>1, <3>2 DEF StateKnown
      <4>2. state.pid = job[c].pid
        BY <4>1
      <4> QED
        BY <3>1, <4>1, <4>2
    <3> QED
      BY <1>1, <1>2, <3>1, <3>2 DEF StateKnown, IsProcessRunning
  <2>4. ~orphaned' => FileKnown(c)'
    BY <1>1, <1>2 DEF FileKnown, NoneOn, OnlyOn, Lives
  <2> QED
    BY <2>2, <2>3, <2>4
<1>6. ASSUME ~orphaned' PROVE InPidFile' /\ StateOwner'
  <2>1. StateOwner'
    BY <1>1, <1>2, <1>6 DEF StateOwner, OnlyOn, Lives
  <2>2. ASSUME NEW q \in Pids, Lives(q), worker[q].file = worker[p].file PROVE q = p
    <3>1. ASSUME NEW r \in Pids, Lives(r), NEW s \in Pids, Lives(s),
                 worker[r].file = worker[s].file, proc[r] = "boot",
                 NEW c \in Cmds, pc[c] = "write_pid", job[c].pid = r
          PROVE  r = s
      <4>1. worker[r].file = job[c].file /\ OnlyOn(job[c].file, r)
        BY <1>1, <1>6, <3>1 DEF NamedInJob, FileKnown, Starting
      <4> QED
        BY <3>1, <4>1 DEF OnlyOn
    <3> QED
      BY <1>1, <1>6, <2>2, <3>1 DEF InPidFile
  <2>3. ASSUME NEW q \in Pids, proc'[q] \in Alive
        PROVE  \/ pidFile'[worker[q].file] = q
               \/ proc'[q] = "boot" /\ \E c \in Cmds : pc[c] = "write_pid" /\ job[c].pid = q
    <3>1. Lives(q) /\ worker[q].file \in PidFiles
      BY <1>2, <2>3 DEF SoloInv, Signalled
    <3>2. CASE q = p
      BY <1>1, <1>6, <2>3, <3>1, <3>2 DEF InPidFile
    <3>3. CASE q # p
      BY <1>1, <1>6, <2>2, <3>1, <3>3 DEF InPidFile
    <3> QED
      BY <3>2, <3>3
  <2>4. InPidFile'
    BY <2>3 DEF InPidFile, Lives
  <2> QED
    BY <2>1, <2>4
<1>7. ASSUME ~interrupted' PROVE InState' /\ Obeying'
  <2>1. InState'
    BY <1>1, <1>2, <1>7 DEF InState, Lives
  <2>2. ASSUME NEW q \in Pids, proc'[q] \in Alive
        PROVE  \/ proc'[q] \in {"boot", "lock", "init", "run"} /\ q \notin term'
               \/ \E c \in Cmds : pc[c] \in {"wait", "kill"} /\ job[c].pid = q
    BY <1>1, <1>2, <1>7, <2>2 DEF Obeying, Serving
  <2>3. Obeying'
    BY <2>2 DEF Obeying, Lives, Serving
  <2> QED
    BY <2>1, <2>3
<1> QED
  BY <1>3, <1>4, <1>5, <1>6, <1>7 DEF SoloNext

LEMMA WorkerSolo ==
    ASSUME IInv, SoloInv, ~overlapped, NEW p \in Pids, WorkerStep(p)
    PROVE  SoloNext
<1> USE DEF files
<1>1. ProcsOK /\ FilesOK /\ Lives(p) /\ worker[p].file \in PidFiles
  <2>1. Lives(p)
    BY DEF WorkerStep, WorkerWritePid, AcquireLock, StartCapture, StopCapture, CloseWriter,
           Unlink, Crash, Lives, Alive
  <2> QED
    BY <2>1 DEF SoloInv, Signalled, IInv
\* What Alive says of the labels named below.
<1>2. {"boot", "lock", "init", "run", "close", "unlink"} \subseteq Alive
  BY DEF Alive
<1>3. ASSUME NEW s \in Alive \ {"boot"}, proc' = [proc EXCEPT ![p] = s],
             UNCHANGED <<state, pidFile, worker, term, cmdVars, histVars>>,
             proc[p] # "boot",
             ~interrupted /\ Serving(p) => s \in {"boot", "lock", "init", "run"}
      PROVE  SoloNext
  <2>1. proc'[p] = s /\ \A q \in Pids : q # p => proc'[q] = proc[q]
    BY <1>1, <1>3 DEF ProcsOK
  <2>2. s # "unused"
    BY DEF Alive
  <2> QED
    BY <1>1, <1>3, <2>1, <2>2, WorkerMoveSolo
<1>4. CASE WorkerWritePid(p)
  <2>1. /\ proc[p] = "boot" /\ pidFile' = [pidFile EXCEPT ![worker[p].file] = p]
        /\ proc' = [proc EXCEPT ![p] = "lock"]
        /\ UNCHANGED <<state, worker, term, cmdVars, histVars>>
    BY <1>4 DEF WorkerWritePid
  <2>2. proc'[p] = "lock" /\ \A q \in Pids : q # p => proc'[q] = proc[q]
    BY <1>1, <2>1 DEF ProcsOK
  <2>3. /\ pidFile'[worker[p].file] = p
        /\ \A f \in PidFiles : pidFile'[f] = pidFile[f] \/ (f = worker[p].file /\ pidFile'[f] = p)
    BY <1>1, <2>1 DEF FilesOK
  <2> QED
    BY <1>1, <2>1, <2>2, <2>3, WorkerMoveSolo
<1>5. CASE AcquireLock(p)
  <2>1. proc[p] = "lock" /\ UNCHANGED <<state, pidFile, worker, term, cmdVars, histVars>>
    BY <1>5 DEF AcquireLock
  <2>2. CASE proc' = [proc EXCEPT ![p] = "init"]
    BY <1>2, <1>3, <2>1, <2>2
  <2>3. CASE lock[worker[p].dir] # NoPid /\ proc' = [proc EXCEPT ![p] = "unlink"]
    <3>1. ASSUME ~interrupted PROVE FALSE
      <4>1. worker[p].dir \in Dirs
        BY <1>1 DEF Lives, IInv, LocksHeld
      <4>2. lock[worker[p].dir] \in Pids
        BY <1>1, <2>3, <4>1 DEF ProcsOK
      <4>3. proc[lock[worker[p].dir]] \in Writing
        BY <2>3, <4>1 DEF IInv, LocksHeld
      <4>4. Lives(lock[worker[p].dir])
        BY <4>3 DEF Lives, Writing, Alive
      <4>5. lock[worker[p].dir] = p
        BY <1>1, <3>1, <4>2, <4>4, OneLives
      <4> QED
        BY <2>1, <4>3, <4>5 DEF Writing
    <3> QED
      BY <1>2, <1>3, <2>1, <2>3, <3>1
  <2> QED
    BY <1>5, <2>2, <2>3 DEF AcquireLock
<1>6. CASE StartCapture(p)
  BY <1>2, <1>3, <1>6 DEF StartCapture
<1>7. CASE StopCapture(p)
  <2>1. ~Serving(p)
    BY <1>7 DEF StopCapture, Serving
  <2> QED
    BY <1>2, <1>3, <1>7, <2>1 DEF StopCapture
<1>8. CASE CloseWriter(p)
  <2>1. ~Serving(p)
    BY <1>8 DEF CloseWriter, Serving
  <2> QED
    BY <1>2, <1>3, <1>8, <2>1 DEF CloseWriter
<1>9. ASSUME Exit(p), UNCHANGED <<state, worker, cmdVars, histVars>>,
             \A f \in PidFiles :
                 pidFile'[f] = pidFile[f] \/ (f = worker[p].file /\ pidFile'[f] = NoPid)
      PROVE  SoloNext
  <2>1. proc'[p] \in {"zombie", "gone"} /\ \A q \in Pids : q # p => proc'[q] = proc[q]
    BY <1>1, <1>9 DEF ProcsOK, Exit
  <2>2. proc'[p] \notin Alive /\ proc'[p] # "unused" /\ proc'[p] # "boot"
    BY <2>1 DEF Alive
  <2>3. \A q \in term' : q \in term
    BY <1>9 DEF Exit
  <2> QED
    BY <1>1, <1>9, <2>1, <2>2, <2>3, WorkerMoveSolo
<1>10. CASE Unlink(p)
  <2>1. \A f \in PidFiles : pidFile'[f] = pidFile[f] \/ (f = worker[p].file /\ pidFile'[f] = NoPid)
    BY <1>1, <1>10 DEF Unlink, FilesOK
  <2> QED
    BY <1>9, <1>10, <2>1 DEF Unlink
<1>11. CASE Crash(p)
  BY <1>9, <1>11 DEF Crash
<1> QED
  BY <1>4, <1>5, <1>6, <1>7, <1>8, <1>10, <1>11 DEF WorkerStep

-----------------------------------------------------------------------------
(* The theorems on commands that never overlap *)

LEMMA SoloInit == Init => SoloInv
<1> SUFFICES ASSUME Init PROVE SoloInv
  OBVIOUS
<1>1. /\ state = NoState /\ term = {} /\ ~orphaned
      /\ \A p \in Pids : ~Lives(p)
      /\ \A f \in PidFiles : pidFile[f] = NoPid
      /\ \A c \in Cmds : pc[c] = "idle" /\ ~job[c].forget
  BY DEF Init, Lives, Alive, NoJob
<1>2. Signalled /\ OneBusy /\ NamedInFiles /\ InPidFile /\ StateOwner /\ InState /\ Obeying
  BY <1>1 DEF Signalled, OneBusy, NamedInFiles, InPidFile, StateOwner, InState, Obeying
<1>3. \A c \in Cmds : NamedInJob(c) /\ StateKnown(c) /\ FileKnown(c)
  BY <1>1 DEF NamedInJob, StateKnown, FileKnown, Starting, Stopping
<1> QED
  BY <1>1, <1>2, <1>3 DEF SoloInv

LEMMA CmdSolo ==
    ASSUME IInv, SoloInv, ~overlapped, NEW c \in Cmds, CmdStep(c)
    PROVE  SoloNext
<1>1. CASE \/ ReadNoState(c) \/ ReadRunningState(c) \/ ReadStaleState(c)
           \/ CleanStalePid(c) \/ CleanStaleState(c)
  BY <1>1, ReadNoStateSolo, ReadRunningStateSolo, ReadStaleStateSolo, CleanStalePidSolo,
     CleanStaleStateSolo
<1>2. CASE ReadPidFile(c) \/ DropStalePid(c)
  BY <1>2, ReadPidFileSolo, DropStalePidSolo
<1>3. CASE (\E p \in Pids : Spawn(c, p)) \/ WritePidFile(c) \/ CheckChild(c) \/ WriteActiveState(c)
  BY <1>3, SpawnSolo, WritePidFileSolo, CheckChildSolo, WriteActiveStateSolo
<1>4. CASE SendTerm(c) \/ AwaitExit(c) \/ SendKill(c) \/ VerifyStopped(c)
  BY <1>4, SendTermSolo, AwaitExitSolo, SendKillSolo, VerifyStoppedSolo
<1>5. CASE RemovePidFile(c) \/ RemoveActiveState(c)
  BY <1>5, RemovePidFileSolo, RemoveActiveStateSolo
<1> QED
  BY <1>1, <1>2, <1>3, <1>4, <1>5 DEF CmdStep

\* Overlapping is remembered, and so is a start that left its worker unnamed, as a
\* command that was cut off.
LEMMA HistoryGrows ==
    ASSUME IInv, orphaned => interrupted, Next
    PROVE  /\ orphaned' => interrupted'
           /\ overlapped => overlapped'
           /\ ~overlapped' => UNCHANGED overlapped
<1>0. overlapped \in BOOLEAN /\ overlapped' \in BOOLEAN
  BY StepHolds DEF IInv, HistOK
<1>1. ASSUME NEW c \in Cmds, UserStep(c)
      PROVE  (orphaned' => interrupted') /\ (overlapped => overlapped')
  <2>1. ASSUME NEW j, NEW l, Issue(c, j, l)
        PROVE  (orphaned' => interrupted') /\ (overlapped => overlapped')
    <3>1. overlapped' = (overlapped \/ \E b \in Cmds : pc[b] # "idle")
      BY <2>1 DEF Issue
    <3>2. orphaned' = orphaned /\ interrupted' = interrupted
      BY <2>1 DEF Issue
    <3> QED
      BY <3>1, <3>2, Zenon
  <2>2. ASSUME Interrupt(c)
        PROVE  (orphaned' => interrupted') /\ (overlapped => overlapped')
    BY <2>2, Zenon DEF Interrupt
  <2> QED
    BY <1>1, <2>1, <2>2, Zenon DEF UserStep, IssueStart, IssueStop, IssueStopDir, IssueStatus
<1>2. ASSUME NEW c \in Cmds, CmdStep(c) PROVE UNCHANGED histVars
  BY <1>2 DEF CmdStep, ReadNoState, ReadRunningState, ReadStaleState, CleanStalePid,
              CleanStaleState, ReadPidFile, DropStalePid, Spawn, WritePidFile, CheckChild,
              WriteActiveState, SendTerm, AwaitExit, SendKill, VerifyStopped, RemovePidFile,
              RemoveActiveState
<1>3. ASSUME NEW p \in Pids, WorkerStep(p) PROVE UNCHANGED histVars
  BY <1>3 DEF WorkerStep, WorkerWritePid, AcquireLock, StartCapture, StopCapture,
              CloseWriter, Unlink, Crash
<1>4. (orphaned' => interrupted') /\ (overlapped => overlapped')
  BY <1>1, <1>2, <1>3 DEF Next, histVars
<1> QED
  BY <1>0, <1>4, Zenon

LEMMA SoloStep == IInv /\ SoloInv /\ [Next]_vars => SoloInv'
<1> SUFFICES ASSUME IInv, SoloInv, [Next]_vars PROVE SoloInv'
  OBVIOUS
<1>1. CASE UNCHANGED vars
  BY <1>1 DEF vars, files, procVars, cmdVars, histVars, SoloInv, Signalled, OneBusy, NamedInFiles,
      NamedInJob, StateKnown, FileKnown, InPidFile, StateOwner, InState, Obeying, Lives, Used,
      OnlyOn, NoneOn, Serving, IsProcessRunning
<1>2. CASE Next
  <2>1. orphaned => interrupted
    BY DEF SoloInv
  <2>2. (orphaned' => interrupted') /\ (overlapped => overlapped')
    BY <1>2, <2>1, HistoryGrows
  <2>3. Signalled'
    BY <1>2, SignalledKept DEF SoloInv
  <2>4. ASSUME ~overlapped' PROVE SoloNext
    BY <1>2, <2>2, <2>4, UserSolo, CmdSolo, WorkerSolo DEF Next
  <2> QED
    BY <2>2, <2>3, <2>4 DEF SoloInv, SoloNext
<1> QED
  BY <1>1, <1>2

LEMMA SoloHolds == Spec => [](IInv /\ SoloInv)
<1>1. Init => IInv /\ SoloInv
  BY InitHolds, SoloInit
<1>2. IInv /\ SoloInv /\ [Next]_vars => (IInv /\ SoloInv)'
  BY StepHolds, SoloStep
<1> QED
  BY <1>1, <1>2, PTL DEF Spec

\* If commands never overlap, a daemon that serves can be found: through its PID
\* file unless a start was cut off before writing it, and through the active state
\* unless some command was cut off; then a new daemon never finds the directory
\* locked either (cmd/daemon.go runDaemonStart, readActiveStateStatus,
\* writeActiveState, removeActiveState).
THEOREM Found == Spec => []ServingIsFound
<1>1. ASSUME IInv, SoloInv PROVE ServingIsFound
  <2> SUFFICES ASSUME ~overlapped
               PROVE  /\ ~orphaned => \A p \in Pids :
                           proc[p] \in Writing /\ Serving(p) => pidFile[worker[p].file] = p
                      /\ ~interrupted /\ AllIdle => \A p \in Pids :
                           Serving(p) => state = [pid |-> p, file |-> worker[p].file]
                      /\ ~interrupted => \A p \in Pids :
                           proc[p] = "lock" => lock[worker[p].dir] = NoPid
    BY DEF ServingIsFound
  <2>1. ASSUME ~orphaned, NEW p \in Pids, proc[p] \in Writing
        PROVE  pidFile[worker[p].file] = p
    <3>1. Lives(p) /\ proc[p] # "boot"
      BY <2>1 DEF Lives, Writing, Alive
    <3> QED
      BY <1>1, <2>1, <3>1 DEF SoloInv, InPidFile
  <2>2. ASSUME ~interrupted, AllIdle, NEW p \in Pids, Serving(p)
        PROVE  state = [pid |-> p, file |-> worker[p].file]
    <3>1. Lives(p)
      BY <2>2 DEF Lives, Serving, Alive
    <3>2. \A c \in Cmds : pc[c] \notin Starting
      BY <2>2 DEF AllIdle, Starting
    <3> QED
      BY <1>1, <2>2, <3>1, <3>2 DEF SoloInv, InState
  <2>3. ASSUME ~interrupted, NEW p \in Pids, proc[p] = "lock"
        PROVE  lock[worker[p].dir] = NoPid
    <3> SUFFICES ASSUME lock[worker[p].dir] # NoPid PROVE FALSE
      OBVIOUS
    <3>1. Lives(p)
      BY <2>3 DEF Lives, Alive
    <3>2. worker[p].dir \in Dirs
      BY <1>1, <3>1 DEF Lives, IInv, LocksHeld
    <3>3. lock[worker[p].dir] \in Pids /\ proc[lock[worker[p].dir]] \in Writing
      BY <1>1, <3>2 DEF IInv, ProcsOK, LocksHeld
    <3>4. Lives(lock[worker[p].dir])
      BY <3>3 DEF Lives, Writing, Alive
    <3>5. lock[worker[p].dir] = p
      BY <1>1, <2>3, <3>1, <3>3, <3>4, OneLives
    <3> QED
      BY <2>3, <3>3, <3>5 DEF Writing
  <2> QED
    BY <2>1, <2>2, <2>3
<1> QED
  BY <1>1, SoloHolds, PTL

LEMMA LastStepOfStop ==
    ASSUME NEW c \in Cmds, CmdStep(c)
    PROVE  pc[c] # "idle" /\ (pc[c] = "remove_state" => RemoveActiveState(c))
  BY DEF CmdStep, ReadNoState, ReadRunningState, ReadStaleState, CleanStalePid, CleanStaleState,
         ReadPidFile, DropStalePid, Spawn, WritePidFile, CheckChild, WriteActiveState, SendTerm,
         AwaitExit, SendKill, VerifyStopped, RemovePidFile, RemoveActiveState

\* A stop that removes the active state leaves no serving worker behind, when
\* commands neither overlapped nor were cut off (cmd/daemon.go stopDaemonByPID,
\* removeActiveState).
THEOREM StopComplete == Spec => StopLeavesNoDaemon
<1> DEFINE Clean ==
      \A c \in Cmds :
          /\ pc[c] = "remove_state" /\ pc'[c] = "idle"
          /\ ~overlapped' /\ ~interrupted'
          => \A p \in Pids : ~Serving(p)'
<1>1. IInv /\ SoloInv /\ [Next]_vars => [Clean]_vars
  <2> SUFFICES ASSUME IInv, SoloInv, Next, NEW c \in Cmds, pc[c] = "remove_state", pc'[c] = "idle",
                      ~overlapped', ~interrupted', NEW p \in Pids
               PROVE  ~Serving(p)'
    OBVIOUS
  <2>1. ~overlapped /\ \A b \in Cmds : pc[b] # "idle" => b = c
    BY HistoryGrows DEF SoloInv, OneBusy
  <2>2. ASSUME NEW b \in Cmds, UserStep(b) PROVE FALSE
    <3>1. CASE Interrupt(b)
      BY <3>1 DEF Interrupt
    <3>2. ASSUME NEW j, NEW l, Issue(b, j, l) PROVE FALSE
      BY <3>2 DEF Issue
    <3> QED
      BY <2>2, <3>1, <3>2 DEF UserStep, IssueStart, IssueStop, IssueStopDir, IssueStatus
  <2>3. ASSUME NEW b \in Cmds, CmdStep(b) PROVE RemoveActiveState(c)
    BY <2>1, <2>3, LastStepOfStop
  <2>4. ASSUME NEW q \in Pids, WorkerStep(q) PROVE FALSE
    <3>1. UNCHANGED cmdVars
      BY <2>4 DEF WorkerStep, WorkerWritePid, AcquireLock, StartCapture, StopCapture,
                  CloseWriter, Unlink, Crash
    <3> QED
      BY <3>1 DEF cmdVars
  <2>5. RemoveActiveState(c)
    BY <2>2, <2>3, <2>4 DEF Next
  <2>6. ~interrupted /\ End(c)
    BY <2>5 DEF RemoveActiveState, histVars
  <2>7. ~Lives(p)
    <3>1. state = [pid |-> job[c].pid, file |-> job[c].file] /\ ~IsProcessRunning(job[c].pid)
      BY <2>1, Alone DEF StateKnown
    <3> QED
      BY <2>1, <2>6, <3>1, Alone, LivesRuns DEF Starting
  <2>8. proc'[p] \notin Alive
    BY <2>6, <2>7, EndFades DEF Fades, Lives, IInv
  <2> QED
    BY <2>8 DEF Serving, Alive
<1> QED
  BY <1>1, SoloHolds, PTL DEF Spec, StopLeavesNoDaemon

=============================================================================
