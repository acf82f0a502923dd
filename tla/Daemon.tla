------------------------------- MODULE Daemon -------------------------------
(***************************************************************************)
(* The life of a mount, seen from the files its processes share: the       *)
(* `unisonfs mount` command (cmd/mount.rs), the daemon it forks or becomes *)
(* (cmd/daemon_inner.rs, cmd/daemon_runtime.rs), the `unisonfs unmount`    *)
(* command (cmd/unmount.rs), and between them the pid file, the startup    *)
(* file, the kernel's mount and the agent hint file (agent_hint.rs).  No   *)
(* process talks to another: nothing ever serves the control socket, so    *)
(* the request unmount sends is always refused and only the files and the  *)
(* kernel carry anything from one to the next.                             *)
(*                                                                         *)
(* A process is named by the mount command it belongs to, a pid is never   *)
(* used again, and one hint file stands for the three.                     *)
(***************************************************************************)
EXTENDS Naturals, Sequences

CONSTANTS
  Tags,     (* mount tags                                                   *)
  Names,    (* what may stand in the delimiter of a hint block              *)
  Delim,    (* the delimiter name of a tag: the tag with "--" replaced      *)
  Mounts,   (* the mount commands of a behaviour                            *)
  NoOne,    (* no process                                                   *)
  NoTag     (* the tag of a command that has not started                    *)

ASSUME DaemonAssumption ==
  /\ Tags \subseteq Names
  /\ Delim \in [Tags -> Names]
  /\ NoOne \notin Mounts
  /\ NoTag \notin Tags

VARIABLES
  tag,      (* the tag of each mount command                                *)
  fg,       (* whether it was started with --foreground                     *)
  cli,      (* where the command is                                         *)
  dm,       (* where its daemon is                                          *)
  pidFile,  (* the process named by <tag>.pid                               *)
  startup,  (* the phase in <tag>.startup                                   *)
  kernel,   (* the mounts on the mount point, the last on top               *)
  um,       (* where the unmount command of a tag is                        *)
  hints,    (* the hint blocks of the agent file                            *)
  copy,     (* per process, the file as read and as it is to be, and as     *)
            (* history whether another edit has been completed since        *)
  fresh,    (* history: commands for whose tag Ready came while they wait   *)
  raced,    (* history: an edit was completed on such an outdated copy      *)
  gap       (* history: tags whose pid file failed to name a live process   *)

procs == <<tag, fg, cli, dm>>
files == <<pidFile, startup>>
text == <<hints, copy, raced>>
vars == <<tag, fg, cli, dm, pidFile, startup, kernel, um, hints, copy, fresh, raced, gap>>

(* Blocks are read and written whole; their order in the file is left out. *)
Blank == [was |-> {}, now |-> {}, old |-> FALSE]

CliStates == {"none", "stale", "sweep", "sweepCheck", "sweepWrite", "launch",
              "waiting", "inside", "ready", "gaveUp", "refused", "done"}
DmStates == {"none", "born", "pull", "hint", "hintWrite", "pid", "report",
             "attach", "up", "ended", "unhint", "unhintWrite", "clean", "gone"}

Running(m) == dm[m] \notin {"none", "gone"}
Family(t) == {m \in Mounts : tag[m] = t}

(* kill(pid, 0): the process that wrote the file still runs. *)
Alive(p) == p # NoOne /\ (Running(p) \/ cli[p] = "inside")

(* A command that has passed the guard and whose process has no pid file yet. *)
Unnamed(m) == \/ cli[m] \in {"stale", "sweep", "sweepCheck", "sweepWrite", "launch"}
              \/ dm[m] = "born"
              \/ fg[m] /\ dm[m] \in {"pull", "hint", "hintWrite", "pid"}

Init ==
  /\ tag = [m \in Mounts |-> NoTag] /\ fg = [m \in Mounts |-> FALSE]
  /\ cli = [m \in Mounts |-> "none"] /\ dm = [m \in Mounts |-> "none"]
  /\ pidFile = [t \in Tags |-> NoOne] /\ startup = [t \in Tags |-> "none"]
  /\ kernel = [t \in Tags |-> <<>>] /\ um = [t \in Tags |-> "idle"]
  /\ hints = {} /\ copy = [m \in Mounts |-> Blank]
  /\ fresh = {} /\ raced = FALSE /\ gap = {}

-----------------------------------------------------------------------------
(* Steps of every process *)

Goto(m, to) == dm' = [dm EXCEPT ![m] = to]
CliTo(m, to) == cli' = [cli EXCEPT ![m] = to]

(* cleanup_stale: it removes the files of the tag, whoever they belong to. *)
CleanupStale(t, by) ==
  /\ pidFile' = [pidFile EXCEPT ![t] = NoOne]
  /\ startup' = [startup EXCEPT ![t] = "none"]
  /\ gap' = IF \E m \in Family(t) \ {by} : Running(m) \/ Unnamed(m)
            THEN gap \cup {t} ELSE gap

(* A hint file is read before the lock is taken ... *)
ReadHints(m) ==
  copy' = [copy EXCEPT ![m] = [was |-> hints, now |-> hints, old |-> FALSE]]

Editing(m) == \/ cli[m] \in {"sweepCheck", "sweepWrite"}
              \/ dm[m] \in {"hintWrite", "unhintWrite"}

(* ... and what was made of the text that was read counts from here on: the *)
(* other copies are outdated.                                              *)
Complete(m) ==
  /\ raced' = (raced \/ copy[m].old)
  /\ copy' = [n \in Mounts |-> IF n = m THEN Blank
                               ELSE [copy[n] EXCEPT !.old = Editing(n)]]

(* The file is replaced under the lock ...                                 *)
WriteHints(m, blocks) == hints' = blocks /\ Complete(m)

(* ... or left alone.                                                      *)
KeepHints(m) ==
  copy' = [copy EXCEPT ![m] = Blank] /\ UNCHANGED <<hints, raced>>

-----------------------------------------------------------------------------
(* unisonfs mount *)

(* Mutant of Check: without the guard. *)
CheckUnguarded(m, t, f) ==
  /\ cli[m] = "none"
  /\ tag' = [tag EXCEPT ![m] = t] /\ fg' = [fg EXCEPT ![m] = f]
  /\ CliTo(m, "sweep")
  /\ gap' = IF \E n \in Family(t) : Unnamed(n) THEN gap \cup {t} ELSE gap
  /\ UNCHANGED <<dm, files, kernel, um, text, fresh>>

(* The guard against a double mount.  `gap` notes a command that passes it  *)
(* while another has still to name itself.                                 *)
Check(m, t, f) ==
  /\ cli[m] = "none"
  /\ tag' = [tag EXCEPT ![m] = t] /\ fg' = [fg EXCEPT ![m] = f]
  /\ CliTo(m, IF pidFile[t] = NoOne THEN "sweep"
              ELSE IF Alive(pidFile[t]) THEN "refused" ELSE "stale")
  /\ gap' = IF \E n \in Family(t) : Unnamed(n) THEN gap \cup {t} ELSE gap
  /\ UNCHANGED <<dm, files, kernel, um, text, fresh>>

CleanStale(m) ==
  /\ cli[m] = "stale"
  /\ CliTo(m, "sweep") /\ CleanupStale(tag[m], m)
  /\ UNCHANGED <<tag, fg, dm, kernel, um, text, fresh>>

(* sweep_one: the text, then the pid file of each block, then the new text, *)
(* written without the lock.                                               *)
SweepRead(m) ==
  /\ cli[m] = "sweep"
  /\ CliTo(m, "sweepCheck") /\ ReadHints(m)
  /\ UNCHANGED <<tag, fg, dm, files, kernel, um, hints, fresh, raced, gap>>

(* Mutant of Spared: live daemons of other tags are not asked for. *)
SparedAlways(m, d) == d = tag[m]

Spared(m, d) == d = tag[m] \/ (d \in Tags /\ Alive(pidFile[d]))

SweepCheck(m) ==
  /\ cli[m] = "sweepCheck"
  /\ CliTo(m, "sweepWrite")
  /\ copy' = [copy EXCEPT ![m].now = {d \in @ : Spared(m, d)}]
  /\ UNCHANGED <<tag, fg, dm, files, kernel, um, hints, fresh, raced, gap>>

SweepWrite(m) ==
  /\ cli[m] = "sweepWrite"
  /\ CliTo(m, "launch")
  /\ IF copy[m].now = copy[m].was THEN KeepHints(m) ELSE WriteHints(m, copy[m].now)
  /\ UNCHANGED <<tag, fg, dm, files, kernel, um, fresh, gap>>

(* Mutant of Fork: the old startup file stays. *)
ForkKeepsStartup(m) ==
  /\ cli[m] = "launch" /\ ~ fg[m]
  /\ CliTo(m, "waiting") /\ Goto(m, "born")
  /\ UNCHANGED <<tag, fg, files, kernel, um, text, fresh, gap>>

(* run_daemon_fork: the startup file goes before the daemon is born. *)
Fork(m) ==
  /\ cli[m] = "launch" /\ ~ fg[m]
  /\ startup' = [startup EXCEPT ![tag[m]] = "none"]
  /\ CliTo(m, "waiting") /\ Goto(m, "born")
  /\ UNCHANGED <<tag, fg, pidFile, kernel, um, text, fresh, gap>>

(* run_foreground: the command is the daemon. *)
Foreground(m) ==
  /\ cli[m] = "launch" /\ fg[m]
  /\ CliTo(m, "inside") /\ Goto(m, "pull")
  /\ UNCHANGED <<tag, fg, files, kernel, um, text, fresh, gap>>

(* wait_for_ready.  No daemon ever reports Failed. *)
SeeReady(m) ==
  /\ cli[m] = "waiting" /\ startup[tag[m]] = "ready"
  /\ CliTo(m, "ready")
  /\ UNCHANGED <<tag, fg, dm, files, kernel, um, text, fresh, gap>>

(* Mutant of GiveUp: no deadline, only a report of failure. *)
GiveUpOnFailed(m) ==
  /\ cli[m] = "waiting" /\ startup[tag[m]] = "failed"
  /\ CliTo(m, "gaveUp")
  /\ UNCHANGED <<tag, fg, dm, files, kernel, um, text, fresh, gap>>

GiveUp(m) ==
  /\ cli[m] = "waiting" /\ startup[tag[m]] # "ready"
  /\ CliTo(m, "gaveUp")
  /\ UNCHANGED <<tag, fg, dm, files, kernel, um, text, fresh, gap>>

-----------------------------------------------------------------------------
(* The daemon *)

(* daemon-inner names itself in the pid file and opens its startup report. *)
WritePid(m) ==
  /\ dm[m] = "born"
  /\ pidFile' = [pidFile EXCEPT ![tag[m]] = m]
  /\ startup' = [startup EXCEPT ![tag[m]] = "init"]
  /\ Goto(m, "pull")
  /\ UNCHANGED <<tag, fg, cli, kernel, um, text, fresh, gap>>

(* Token, cache and initial pull; in the foreground the pid file is still  *)
(* to come.  Whatever fails here ends the process: see Dies.               *)
Pull(m) ==
  /\ dm[m] = "pull"
  /\ Goto(m, "hint")
  /\ UNCHANGED <<tag, fg, cli, files, kernel, um, text, fresh, gap>>

InstallRead(m) ==
  /\ dm[m] = "hint"
  /\ Goto(m, "hintWrite") /\ ReadHints(m)
  /\ UNCHANGED <<tag, fg, cli, files, kernel, um, hints, fresh, raced, gap>>

(* write_block; a block that is already the last of the file is left where  *)
(* it is, and relied on.                                                   *)
InstallWrite(m) ==
  LET d == Delim[tag[m]] IN
  /\ dm[m] = "hintWrite"
  /\ Goto(m, IF fg[m] THEN "pid" ELSE "report")
  /\ \/ WriteHints(m, copy[m].was \cup {d})
     \/ d \in copy[m].was /\ hints' = hints /\ Complete(m)
  /\ UNCHANGED <<tag, fg, cli, files, kernel, um, fresh, gap>>

WritePidLate(m) ==
  /\ dm[m] = "pid"
  /\ pidFile' = [pidFile EXCEPT ![tag[m]] = m]
  /\ Goto(m, "attach")
  /\ UNCHANGED <<tag, fg, cli, startup, kernel, um, text, fresh, gap>>

(* Ready is reported before the kernel has the mount. *)
ReportReady(m) ==
  /\ dm[m] = "report"
  /\ startup' = [startup EXCEPT ![tag[m]] = "ready"]
  /\ fresh' = fresh \cup {n \in Family(tag[m]) : cli[n] = "waiting"}
  /\ Goto(m, "attach")
  /\ UNCHANGED <<tag, fg, cli, pidFile, kernel, um, text, gap>>

(* Mutant of Attach: the mount call is repeated. *)
AttachAgain(m) ==
  /\ dm[m] = "attach"
  /\ kernel' = [kernel EXCEPT ![tag[m]] = Append(@, m)]
  /\ UNCHANGED <<procs, files, um, text, fresh, gap>>

Attach(m) ==
  /\ dm[m] = "attach"
  /\ kernel' = [kernel EXCEPT ![tag[m]] = Append(@, m)]
  /\ Goto(m, "up")
  /\ UNCHANGED <<tag, fg, cli, files, um, text, fresh, gap>>

(* The mount call has returned: stop the tasks, wait for them for the time *)
(* allowed, flush what is open.                                            *)
Drain(m) ==
  /\ dm[m] = "ended"
  /\ Goto(m, "unhint")
  /\ UNCHANGED <<tag, fg, cli, files, kernel, um, text, fresh, gap>>

UninstallRead(m) ==
  /\ dm[m] = "unhint"
  /\ Goto(m, "unhintWrite") /\ ReadHints(m)
  /\ UNCHANGED <<tag, fg, cli, files, kernel, um, hints, fresh, raced, gap>>

UninstallWrite(m) ==
  LET d == Delim[tag[m]] IN
  /\ dm[m] = "unhintWrite"
  /\ Goto(m, "clean")
  /\ IF d \in copy[m].was THEN WriteHints(m, copy[m].was \ {d}) ELSE KeepHints(m)
  /\ UNCHANGED <<tag, fg, cli, files, kernel, um, fresh, gap>>

Finish(m) ==
  /\ dm[m] = "clean"
  /\ Goto(m, "gone") /\ CleanupStale(tag[m], m)
  /\ cli' = IF fg[m] THEN [cli EXCEPT ![m] = "done"] ELSE cli
  /\ UNCHANGED <<tag, fg, kernel, um, text, fresh>>

(* A kill, or one of the errors a `?` hands to main: nothing is cleaned up *)
(* and a mount of the process stays in the kernel.                         *)
Dies(m) ==
  /\ Running(m)
  /\ Goto(m, "gone")
  /\ cli' = IF fg[m] THEN [cli EXCEPT ![m] = "done"] ELSE cli
  /\ copy' = [copy EXCEPT ![m] = Blank]
  /\ UNCHANGED <<tag, fg, files, kernel, um, hints, fresh, raced, gap>>

-----------------------------------------------------------------------------
(* unisonfs unmount *)

(* The topmost mount goes, unless it is busy: the status is not looked at. *)
(* Unmounting a tag that was never mounted finds nothing and is left out.  *)
Umount(t) ==
  /\ um[t] = "idle" /\ Family(t) # {}
  /\ um' = [um EXCEPT ![t] = "detached"]
  /\ \/ UNCHANGED <<kernel, dm>>
     \/ LET m == kernel[t][Len(kernel[t])] IN
        /\ kernel[t] # <<>>
        /\ kernel' = [kernel EXCEPT ![t] = SubSeq(@, 1, Len(@) - 1)]
        /\ dm' = IF dm[m] = "up" THEN [dm EXCEPT ![m] = "ended"] ELSE dm
  /\ UNCHANGED <<tag, fg, cli, files, text, fresh, gap>>

UmountCleans(t) ==
  /\ um[t] = "detached"
  /\ um' = [um EXCEPT ![t] = "idle"] /\ CleanupStale(t, NoOne)
  /\ UNCHANGED <<procs, kernel, text, fresh>>

-----------------------------------------------------------------------------
Command(m) == \/ CleanStale(m) \/ SweepRead(m) \/ SweepCheck(m) \/ SweepWrite(m)
              \/ Fork(m) \/ Foreground(m) \/ SeeReady(m) \/ GiveUp(m)

Daemons(m) == \/ WritePid(m) \/ Pull(m) \/ InstallRead(m) \/ InstallWrite(m)
              \/ WritePidLate(m) \/ ReportReady(m) \/ Attach(m) \/ Drain(m)
              \/ UninstallRead(m) \/ UninstallWrite(m) \/ Finish(m) \/ Dies(m)

Next ==
  \/ \E m \in Mounts, t \in Tags, f \in BOOLEAN : Check(m, t, f)
  \/ \E m \in Mounts : Command(m) \/ Daemons(m)
  \/ \E t \in Tags : Umount(t) \/ UmountCleans(t)

(* A command that has been started runs; nothing obliges anyone to start   *)
(* one, and no daemon is obliged to get any further than it is.            *)
Spec == Init /\ [][Next]_vars /\ \A m \in Mounts : WF_vars(Command(m))

-----------------------------------------------------------------------------
(* Properties *)

(* The values the variables take. *)
TypeOK ==
  /\ tag \in [Mounts -> Tags \cup {NoTag}] /\ fg \in [Mounts -> BOOLEAN]
  /\ cli \in [Mounts -> CliStates] /\ dm \in [Mounts -> DmStates]
  /\ pidFile \in [Tags -> Mounts \cup {NoOne}]
  /\ startup \in [Tags -> {"none", "init", "ready"}]
  /\ kernel \in [Tags -> Seq(Mounts)] /\ um \in [Tags -> {"idle", "detached"}]
  /\ hints \subseteq Names
  /\ copy \in [Mounts -> [was : SUBSET Names, now : SUBSET Names, old : BOOLEAN]]
  /\ fresh \subseteq Mounts /\ raced \in BOOLEAN /\ gap \subseteq Tags
  /\ \A t \in Tags : \A i, j \in DOMAIN kernel[t] : kernel[t][i] = kernel[t][j] => i = j

(* The Ready a command reports to the user was written for its tag after   *)
(* the command removed the startup file: never one that a daemon killed    *)
(* earlier left behind, in whatever order unmounts, deaths and clean-ups   *)
(* took the pid file and the startup file away.  It need not be its own    *)
(* daemon's: of two commands for one tag, each may read what the daemon of *)
(* the other wrote.                                                        *)
ReadyIsFresh == \A m \in Mounts : cli[m] = "ready" => m \in fresh

(* The guard against a double mount: two processes serve one tag only if   *)
(* two commands overlapped before the first had named itself, or the pid   *)
(* file was removed under a running process.                               *)
GuardHolds ==
  \A m, n \in Mounts :
    m # n /\ tag[m] = tag[n] /\ Running(m) /\ Running(n) => tag[m] \in gap

(* What the message of the guard says: a tag has one mount at a time. *)
OneDaemon ==
  \A m, n \in Mounts :
    m # n /\ tag[m] = tag[n] => ~ (dm[m] = "up" /\ dm[n] = "up")

(* A tag by whose delimiter the sweep finds its pid file, and that shares  *)
(* the delimiter with no other tag.                                        *)
PlainTag(t) == Delim[t] = t /\ \A u \in Tags \ {t} : Delim[u] # t

(* The hint of a live daemon is in the agent file, whatever other mounts   *)
(* install, remove and sweep, unless an edit was made on an outdated copy, *)
(* the pid file stopped naming the daemon, the tag does not stand for      *)
(* itself in its delimiter, or the daemon runs in the foreground, where    *)
(* the hint comes before the pid file.                                     *)
HintKept ==
  \A m \in Mounts :
    dm[m] \in {"report", "attach", "up", "ended", "unhint"} =>
      \/ Delim[tag[m]] \in hints
      \/ raced \/ fg[m] \/ tag[m] \in gap \/ ~ PlainTag(tag[m])

(* A mount command that forks always answers, although a daemon that fails *)
(* says nothing and dies without a trace.                                  *)
CommandAnswers ==
  \A m \in Mounts :
    cli[m] # "none" /\ ~ fg[m] ~> cli[m] \in {"ready", "gaveUp", "refused"}
=============================================================================
