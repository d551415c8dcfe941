--------------------------- MODULE DaemonLifecycle ---------------------------
(***************************************************************************)
(* The snapshot daemon's life (cmd/daemon.go): `daemon start`, `stop`,     *)
(* `status` and `prune` as short-lived command processes, the workers they *)
(* spawn and signal, and the three files that tie them together: the       *)
(* active-state file of the user, the PID file of a start, and the lock    *)
(* file of a data directory.                                               *)
(*                                                                         *)
(* Each file operation, signal and process event is a step, so commands    *)
(* that run at the same time interleave between their checks and their     *)
(* writes.  A command may be interrupted at any step (Ctrl-C, an I/O error *)
(* it returns early on), a worker may die at any step.                     *)
(*                                                                         *)
(* A process nobody has waited for is a zombie: `daemon start` never waits *)
(* for its child, so a dead child stays one until the command itself ends. *)
(***************************************************************************)
EXTENDS Naturals, FiniteSets

CONSTANTS Pids,      \* the worker processes a behaviour may spawn (a bound)
          Cmds,      \* command processes that may run at the same time
          Dirs,      \* data directories
          PidFiles,  \* PID file paths
          NoPid, NoCmd, NoFile, NoDir

ASSUME DaemonLifecycleAssumption ==
    /\ NoPid \notin Pids
    /\ NoCmd \notin Cmds
    /\ NoFile \notin PidFiles
    /\ NoDir \notin Dirs

VARIABLES
    state,        \* the active-state file: a pid and its PID file, or NoState
    pidFile,      \* what each PID file says
    lock,         \* who holds the flock of each data directory
    proc,         \* the state of each worker process
    worker,       \* each worker's data directory, PID file and parent command
    term,         \* workers with a SIGTERM they have not acted on
    pc,           \* where each command is
    job,          \* what each command was asked and has read
    overlapped,   \* history: two commands have run at the same time
    interrupted,  \* history: a command ended before its last step
    orphaned      \* history: one of them between spawning and the PID file

files == <<state, pidFile, lock>>
procVars == <<proc, worker, term>>
cmdVars == <<pc, job>>
histVars == <<overlapped, interrupted, orphaned>>
vars == <<files, procVars, cmdVars, histVars>>

NoState == [pid |-> NoPid, file |-> NoFile]

ActiveStates == {NoState} \cup [pid : Pids, file : PidFiles]

\* boot: before its PID file; lock: before NewSnapshotWriter; init: before
\* NotifyContext; run: capturing; close, unlink: the deferred calls.
Alive == {"boot", "lock", "init", "run", "close", "unlink"}

\* A worker between NewSnapshotWriter and writer.Close.
Writing == {"init", "run", "close"}

\* A worker that has not been told to stop.
Serving(p) == proc[p] \in {"boot", "lock", "init", "run"} /\ p \notin term

\* isProcessRunning: signal 0 also reaches a zombie.
IsProcessRunning(p) == proc[p] \in Alive \cup {"zombie"}

CmdPc == {"idle", "read_state", "clean_pid", "clean_state", "read_pid", "drop_pid",
          "spawn", "write_pid", "check", "write_state",
          "signal", "wait", "kill", "verify", "remove_pid", "remove_state"}

\* kind; the --pid-file flag; the data directory and PID file to work on; the
\* worker to signal or spawned; whether the active state is removed with it.
NoJob == [kind |-> "none", flag |-> NoFile, dir |-> NoDir, file |-> NoFile,
          pid |-> NoPid, forget |-> FALSE]

Jobs == [kind : {"none", "start", "stop", "status"}, flag : PidFiles \cup {NoFile},
         dir : Dirs \cup {NoDir}, file : PidFiles \cup {NoFile},
         pid : Pids \cup {NoPid}, forget : BOOLEAN]

NoWorker == [dir |-> NoDir, file |-> NoFile, parent |-> NoCmd]

Init ==
    /\ state = NoState
    /\ pidFile = [f \in PidFiles |-> NoPid]
    /\ lock = [d \in Dirs |-> NoPid]
    /\ proc = [p \in Pids |-> "unused"]
    /\ worker = [p \in Pids |-> NoWorker]
    /\ term = {}
    /\ pc = [c \in Cmds |-> "idle"]
    /\ job = [c \in Cmds |-> NoJob]
    /\ overlapped = FALSE
    /\ interrupted = FALSE
    /\ orphaned = FALSE

-----------------------------------------------------------------------------
(* Steps of processes. *)

\* Mutant: the lock outlives its holder.
ExitKeepsLock(p) ==
    /\ proc' = [proc EXCEPT ![p] = IF worker[p].parent # NoCmd THEN "zombie" ELSE "gone"]
    /\ term' = term \ {p}
    /\ UNCHANGED lock

\* p ends: the kernel drops its lock and keeps a zombie while the parent lives.
Exit(p) ==
    /\ proc' = [proc EXCEPT ![p] = IF worker[p].parent # NoCmd THEN "zombie" ELSE "gone"]
    /\ term' = term \ {p}
    /\ lock' = [d \in Dirs |-> IF lock[d] = p THEN NoPid ELSE lock[d]]

Goto(c, label) == pc' = [pc EXCEPT ![c] = label]

\* The command returns: its children pass to init, which reaps the zombies.
End(c) ==
    /\ Goto(c, "idle")
    /\ job' = [job EXCEPT ![c] = NoJob]
    /\ proc' = [p \in Pids |-> IF worker[p].parent = c /\ proc[p] = "zombie"
                               THEN "gone" ELSE proc[p]]
    /\ worker' = [p \in Pids |-> IF worker[p].parent = c
                                 THEN [worker[p] EXCEPT !.parent = NoCmd] ELSE worker[p]]

\* The command returns after killing its child, which is reaped at once.
EndAndKill(c) ==
    LET p == job[c].pid IN
    /\ Goto(c, "idle")
    /\ job' = [job EXCEPT ![c] = NoJob]
    /\ proc' = [proc EXCEPT ![p] = "gone"]
    /\ worker' = [worker EXCEPT ![p].parent = NoCmd]
    /\ term' = term \ {p}
    /\ lock' = [d \in Dirs |-> IF lock[d] = p THEN NoPid ELSE lock[d]]

-----------------------------------------------------------------------------
(* Commands: reading the active state. *)

\* A user types a command; overlapped remembers that another one was running.
Issue(c, j, label) ==
    /\ pc[c] = "idle"
    /\ Goto(c, label)
    /\ job' = [job EXCEPT ![c] = j]
    /\ overlapped' = (overlapped \/ \E b \in Cmds : pc[b] # "idle")
    /\ UNCHANGED <<files, procVars, interrupted, orphaned>>

\* Starts that have still to spawn their worker.
Spawning == {c \in Cmds : job[c].kind = "start" /\ job[c].pid = NoPid}

\* daemon start --data-dir d [--pid-file f]
IssueStart(c, d, f) ==
    /\ Cardinality({p \in Pids : proc[p] = "unused"}) > Cardinality(Spawning)
    /\ Issue(c, [NoJob EXCEPT !.kind = "start", !.dir = d, !.file = f], "read_state")

\* daemon stop, with no flag or with --pid-file only: both ask the active state.
IssueStop(c, flag) ==
    Issue(c, [NoJob EXCEPT !.kind = "stop", !.flag = flag, !.file = flag], "read_state")

\* daemon stop --data-dir: the PID file of that directory (or of --pid-file).
IssueStopDir(c, f) ==
    Issue(c, [NoJob EXCEPT !.kind = "stop", !.flag = f, !.file = f], "read_pid")

\* daemon status, daemon prune: they clean a stale active state.
IssueStatus(c) == Issue(c, [NoJob EXCEPT !.kind = "status"], "read_state")

\* readActiveStateStatus: no active state.
ReadNoState(c) ==
    /\ pc[c] = "read_state" /\ state = NoState
    /\ \/ /\ job[c].kind = "start" \/ (job[c].kind = "stop" /\ job[c].flag # NoFile)
          /\ Goto(c, "read_pid")
          /\ UNCHANGED <<job, proc, worker>>
       \/ /\ job[c].kind = "status" \/ (job[c].kind = "stop" /\ job[c].flag = NoFile)
          /\ End(c)
    /\ UNCHANGED <<files, term, histVars>>

\* Mutant: start does not ask whether the process of the state is running.
ReadRunningStateUnasked(c) ==
    /\ pc[c] = "read_state" /\ state # NoState /\ IsProcessRunning(state.pid)
    /\ \/ /\ job[c].kind = "stop"
          /\ job' = [job EXCEPT ![c].pid = state.pid, ![c].file = state.file, ![c].forget = TRUE]
          /\ Goto(c, "signal")
          /\ UNCHANGED <<proc, worker>>
       \/ /\ job[c].kind = "start"
          /\ Goto(c, "read_pid")
          /\ UNCHANGED <<job, proc, worker>>
       \/ job[c].kind = "status" /\ End(c)
    /\ UNCHANGED <<files, term, histVars>>

\* The active state names a running process: start refuses, stop takes it as
\* its target (whatever --pid-file said), status reports it.
ReadRunningState(c) ==
    /\ pc[c] = "read_state" /\ state # NoState /\ IsProcessRunning(state.pid)
    /\ \/ /\ job[c].kind = "stop"
          /\ job' = [job EXCEPT ![c].pid = state.pid, ![c].file = state.file, ![c].forget = TRUE]
          /\ Goto(c, "signal")
          /\ UNCHANGED <<proc, worker>>
       \/ job[c].kind \in {"start", "status"} /\ End(c)
    /\ UNCHANGED <<files, term, histVars>>

\* The active state is stale: everyone cleans up the PID file it names, kept in
\* flag until then.
ReadStaleState(c) ==
    /\ pc[c] = "read_state" /\ state # NoState /\ ~IsProcessRunning(state.pid)
    /\ job' = [job EXCEPT ![c].flag = state.file]
    /\ Goto(c, "clean_pid")
    /\ UNCHANGED <<files, procVars, histVars>>

CleanStalePid(c) ==
    /\ pc[c] = "clean_pid"
    /\ pidFile' = [pidFile EXCEPT ![job[c].flag] = NoPid]
    /\ Goto(c, "clean_state")
    /\ UNCHANGED <<state, lock, procVars, job, histVars>>

\* removeActiveState: whatever the file says by now.
CleanStaleState(c) ==
    /\ pc[c] = "clean_state"
    /\ state' = NoState
    /\ \/ job[c].kind = "start" /\ Goto(c, "read_pid") /\ UNCHANGED <<job, proc, worker>>
       \/ job[c].kind # "start" /\ End(c)
    /\ UNCHANGED <<pidFile, lock, term, histVars>>

-----------------------------------------------------------------------------
(* readDaemonStatus of the PID file, by start and by stop. *)

\* Mutant: start takes any PID file for a stale one.
ReadPidFileUnasked(c) ==
    /\ pc[c] = "read_pid"
    /\ LET p == pidFile[job[c].file] IN
       \/ p = NoPid /\ job[c].kind = "start" /\ Goto(c, "spawn")
       \/ p # NoPid /\ job[c].kind = "start" /\ Goto(c, "drop_pid")
    /\ UNCHANGED <<files, procVars, job, histVars>>

ReadPidFile(c) ==
    /\ pc[c] = "read_pid"
    /\ LET p == pidFile[job[c].file] IN
       \/ /\ p = NoPid /\ job[c].kind = "start"
          /\ Goto(c, "spawn") /\ UNCHANGED <<job, proc, worker>>
       \/ p = NoPid /\ job[c].kind = "stop" /\ End(c)
       \/ /\ p # NoPid /\ ~IsProcessRunning(p)
          /\ Goto(c, "drop_pid") /\ UNCHANGED <<job, proc, worker>>
       \/ p # NoPid /\ IsProcessRunning(p) /\ job[c].kind = "start" /\ End(c)
       \/ /\ p # NoPid /\ IsProcessRunning(p) /\ job[c].kind = "stop"
          /\ job' = [job EXCEPT ![c].pid = p]
          /\ Goto(c, "signal") /\ UNCHANGED <<proc, worker>>
    /\ UNCHANGED <<files, term, histVars>>

\* A stale PID file is removed.
DropStalePid(c) ==
    /\ pc[c] = "drop_pid"
    /\ pidFile' = [pidFile EXCEPT ![job[c].file] = NoPid]
    /\ \/ job[c].kind = "start" /\ Goto(c, "spawn") /\ UNCHANGED <<job, proc, worker>>
       \/ job[c].kind = "stop" /\ End(c)
    /\ UNCHANGED <<state, lock, term, histVars>>

-----------------------------------------------------------------------------
(* daemon start *)

Spawn(c, p) ==
    /\ pc[c] = "spawn" /\ proc[p] = "unused"
    /\ proc' = [proc EXCEPT ![p] = "boot"]
    /\ worker' = [worker EXCEPT ![p] = [dir |-> job[c].dir, file |-> job[c].file, parent |-> c]]
    /\ job' = [job EXCEPT ![c].pid = p]
    /\ Goto(c, "write_pid")
    /\ UNCHANGED <<files, term, histVars>>

\* writePIDFile; when it fails the child is killed.
WritePidFile(c) ==
    /\ pc[c] = "write_pid"
    /\ \/ /\ pidFile' = [pidFile EXCEPT ![job[c].file] = job[c].pid]
          /\ Goto(c, "check")
          /\ UNCHANGED <<job, lock, procVars>>
       \/ EndAndKill(c) /\ UNCHANGED pidFile
    /\ UNCHANGED <<state, histVars>>

\* After 250 ms: is the child still there?
CheckChild(c) ==
    /\ pc[c] = "check"
    /\ IF IsProcessRunning(job[c].pid)
       THEN Goto(c, "write_state") /\ UNCHANGED <<pidFile, job, proc, worker>>
       ELSE /\ pidFile' = [pidFile EXCEPT ![job[c].file] = NoPid]
            /\ End(c)
    /\ UNCHANGED <<state, lock, term, histVars>>

\* Mutant: the pid is read back from the PID file.
WriteActiveStateReread(c) ==
    /\ pc[c] = "write_state"
    /\ state' = [pid |-> pidFile[job[c].file], file |-> job[c].file]
    /\ End(c)
    /\ UNCHANGED <<pidFile, lock, term, histVars>>

\* Mutant: the active state is not written.
WriteActiveStateForgotten(c) ==
    /\ pc[c] = "write_state"
    /\ End(c)
    /\ UNCHANGED <<files, term, histVars>>

\* writeActiveState (an atomic rename), "daemon started"; when it fails the
\* child is killed and the PID file removed.
WriteActiveState(c) ==
    /\ pc[c] = "write_state"
    /\ \/ /\ state' = [pid |-> job[c].pid, file |-> job[c].file]
          /\ End(c)
          /\ UNCHANGED <<pidFile, lock, term>>
       \/ /\ EndAndKill(c)
          /\ pidFile' = [pidFile EXCEPT ![job[c].file] = NoPid]
          /\ UNCHANGED state
    /\ UNCHANGED histVars

-----------------------------------------------------------------------------
(* stopDaemonByPID *)

\* SIGTERM: an error when the process is gone, remembered by a capturing
\* worker, fatal to one that has not reached NotifyContext or has left it.
SendTerm(c) ==
    LET p == job[c].pid IN
    /\ pc[c] = "signal"
    /\ \/ /\ ~IsProcessRunning(p)
          /\ End(c) /\ UNCHANGED <<lock, term>>
       \/ /\ proc[p] = "run"
          /\ term' = term \cup {p}
          /\ Goto(c, "wait") /\ UNCHANGED <<job, proc, worker, lock>>
       \/ /\ proc[p] \in Alive \ {"run"}
          /\ Exit(p)
          /\ Goto(c, "wait") /\ UNCHANGED <<job, worker>>
       \/ /\ proc[p] = "zombie"
          /\ Goto(c, "wait") /\ UNCHANGED <<job, procVars, lock>>
    /\ UNCHANGED <<state, pidFile, histVars>>

\* Up to ten seconds until the process is gone.
AwaitExit(c) ==
    /\ pc[c] = "wait"
    /\ \/ ~IsProcessRunning(job[c].pid) /\ Goto(c, "remove_pid")
       \/ IsProcessRunning(job[c].pid) /\ Goto(c, "kill")
    /\ UNCHANGED <<files, procVars, job, histVars>>

\* SIGKILL
SendKill(c) ==
    LET p == job[c].pid IN
    /\ pc[c] = "kill"
    /\ IF proc[p] \in Alive THEN Exit(p) ELSE UNCHANGED <<proc, term, lock>>
    /\ Goto(c, "verify")
    /\ UNCHANGED <<state, pidFile, worker, job, histVars>>

\* "failed to stop daemon" when it is still there two seconds later.
VerifyStopped(c) ==
    /\ pc[c] = "verify"
    /\ \/ ~IsProcessRunning(job[c].pid) /\ Goto(c, "remove_pid") /\ UNCHANGED <<job, proc, worker>>
       \/ IsProcessRunning(job[c].pid) /\ End(c)
    /\ UNCHANGED <<files, term, histVars>>

RemovePidFile(c) ==
    /\ pc[c] = "remove_pid"
    /\ pidFile' = [pidFile EXCEPT ![job[c].file] = NoPid]
    /\ \/ job[c].forget /\ Goto(c, "remove_state") /\ UNCHANGED <<job, proc, worker>>
       \/ ~job[c].forget /\ End(c)
    /\ UNCHANGED <<state, lock, term, histVars>>

RemoveActiveState(c) ==
    /\ pc[c] = "remove_state"
    /\ state' = NoState
    /\ End(c)
    /\ UNCHANGED <<pidFile, lock, term, histVars>>

\* Ctrl-C or an error the command returns on; a spawned child has a session of
\* its own and lives on.
Interrupt(c) ==
    /\ pc[c] # "idle"
    /\ End(c)
    /\ interrupted' = TRUE
    /\ orphaned' = (orphaned \/ pc[c] = "write_pid")
    /\ UNCHANGED <<files, term, overlapped>>

-----------------------------------------------------------------------------
(* daemon run: the worker. *)

\* It writes its own pid to the PID file and defers its removal.
WorkerWritePid(p) ==
    /\ proc[p] = "boot"
    /\ pidFile' = [pidFile EXCEPT ![worker[p].file] = p]
    /\ proc' = [proc EXCEPT ![p] = "lock"]
    /\ UNCHANGED <<state, lock, worker, term, cmdVars, histVars>>

\* Mutant: a held lock does not stop it.
AcquireLockAnyway(p) ==
    /\ proc[p] = "lock"
    /\ lock' = [lock EXCEPT ![worker[p].dir] = p]
    /\ proc' = [proc EXCEPT ![p] = "init"]
    /\ UNCHANGED <<state, pidFile, worker, term, cmdVars, histVars>>

\* NewSnapshotWriter: flock LOCK_EX|LOCK_NB, or out by way of the deferred calls.
AcquireLock(p) ==
    /\ proc[p] = "lock"
    /\ \/ /\ lock[worker[p].dir] = NoPid
          /\ lock' = [lock EXCEPT ![worker[p].dir] = p]
          /\ proc' = [proc EXCEPT ![p] = "init"]
       \/ /\ lock[worker[p].dir] # NoPid
          /\ proc' = [proc EXCEPT ![p] = "unlink"]
          /\ UNCHANGED lock
    /\ UNCHANGED <<state, pidFile, worker, term, cmdVars, histVars>>

\* signal.NotifyContext; captures from here on.
StartCapture(p) ==
    /\ proc[p] = "init"
    /\ proc' = [proc EXCEPT ![p] = "run"]
    /\ UNCHANGED <<files, worker, term, cmdVars, histVars>>

\* ctx.Done: return from the loop.
StopCapture(p) ==
    /\ proc[p] = "run" /\ p \in term
    /\ proc' = [proc EXCEPT ![p] = "close"]
    /\ UNCHANGED <<files, worker, term, cmdVars, histVars>>

\* Deferred writer.Close.
CloseWriter(p) ==
    /\ proc[p] = "close"
    /\ lock' = [lock EXCEPT ![worker[p].dir] = NoPid]
    /\ proc' = [proc EXCEPT ![p] = "unlink"]
    /\ UNCHANGED <<state, pidFile, worker, term, cmdVars, histVars>>

\* Deferred os.Remove of the PID file, whoever is named in it; then exit.
Unlink(p) ==
    /\ proc[p] = "unlink"
    /\ pidFile' = [pidFile EXCEPT ![worker[p].file] = NoPid]
    /\ Exit(p)
    /\ UNCHANGED <<state, worker, cmdVars, histVars>>

\* A crash or SIGKILL from elsewhere: no deferred call runs.
Crash(p) ==
    /\ proc[p] \in Alive
    /\ Exit(p)
    /\ UNCHANGED <<state, pidFile, worker, cmdVars, histVars>>

-----------------------------------------------------------------------------
UserStep(c) ==
    \/ \E d \in Dirs, f \in PidFiles : IssueStart(c, d, f)
    \/ \E f \in PidFiles \cup {NoFile} : IssueStop(c, f)
    \/ \E f \in PidFiles : IssueStopDir(c, f)
    \/ IssueStatus(c)
    \/ Interrupt(c)

CmdStep(c) ==
    \/ ReadNoState(c) \/ ReadRunningState(c) \/ ReadStaleState(c)
    \/ CleanStalePid(c) \/ CleanStaleState(c) \/ ReadPidFile(c) \/ DropStalePid(c)
    \/ (\E p \in Pids : Spawn(c, p)) \/ WritePidFile(c) \/ CheckChild(c) \/ WriteActiveState(c)
    \/ SendTerm(c) \/ AwaitExit(c) \/ SendKill(c) \/ VerifyStopped(c)
    \/ RemovePidFile(c) \/ RemoveActiveState(c)

WorkerStep(p) ==
    \/ WorkerWritePid(p) \/ AcquireLock(p) \/ StartCapture(p)
    \/ StopCapture(p) \/ CloseWriter(p) \/ Unlink(p) \/ Crash(p)

Next ==
    \/ \E c \in Cmds : UserStep(c) \/ CmdStep(c)
    \/ \E p \in Pids : WorkerStep(p)

Spec == Init /\ [][Next]_vars

-----------------------------------------------------------------------------
(* Properties *)

TypeOK ==
    /\ state \in ActiveStates
    /\ pidFile \in [PidFiles -> Pids \cup {NoPid}]
    /\ lock \in [Dirs -> Pids \cup {NoPid}]
    /\ proc \in [Pids -> Alive \cup {"unused", "zombie", "gone"}]
    /\ worker \in [Pids -> [dir : Dirs \cup {NoDir}, file : PidFiles \cup {NoFile},
                            parent : Cmds \cup {NoCmd}]]
    /\ term \subseteq Pids
    /\ pc \in [Cmds -> CmdPc]
    /\ job \in [Cmds -> Jobs]
    /\ <<overlapped, interrupted, orphaned>> \in BOOLEAN \X BOOLEAN \X BOOLEAN

\* No command is under way.
AllIdle == \A c \in Cmds : pc[c] = "idle"

\* README.MD: "A lock file prevents multiple daemons writing the same
\* --data-dir": however commands overlap and processes die, two workers never
\* write to one directory, and the directory of a writer is locked by it.  Nor
\* is a lock left behind: its holder is alive, so a new daemon can start.
OneWriterPerDir ==
    /\ \A p \in Pids : proc[p] \in Writing => lock[worker[p].dir] = p
    /\ \A p, q \in Pids :
          /\ proc[p] \in Writing /\ proc[q] \in Writing
          /\ worker[p].dir = worker[q].dir
          => p = q
    /\ \A d \in Dirs : lock[d] # NoPid => proc[lock[d]] \in Writing

\* A daemon that serves can be found by later commands, unless commands have
\* overlapped.  If no start was cut off before it wrote the PID file, the writer
\* is named in it, and so protected from a second start and reachable for an
\* explicit stop.  If no command was cut off, the active state names it between
\* commands: at most one exists, a second start refuses, and stop without flags
\* finds it; and no worker finds its directory locked.
ServingIsFound ==
    ~overlapped =>
        /\ ~orphaned =>
             \A p \in Pids : proc[p] \in Writing /\ Serving(p) => pidFile[worker[p].file] = p
        /\ ~interrupted /\ AllIdle =>
             \A p \in Pids : Serving(p) => state = [pid |-> p, file |-> worker[p].file]
        /\ ~interrupted =>
             \A p \in Pids : proc[p] = "lock" => lock[worker[p].dir] = NoPid

\* A stop that forgets the active state leaves no serving worker behind.
StopLeavesNoDaemon ==
    [][\A c \in Cmds :
          /\ pc[c] = "remove_state" /\ pc'[c] = "idle"
          /\ ~overlapped' /\ ~interrupted'
          => \A p \in Pids : ~Serving(p)']_vars

\* daemon.go: "Give child a brief moment to fail fast (e.g. lock contention)".
\* A start does not go on to report success when its child has already died.
StartNoticesDeadChild ==
    [][\A c \in Cmds :
          pc[c] = "check" /\ pc'[c] = "write_state" => proc[job[c].pid] \in Alive]_vars
=============================================================================
