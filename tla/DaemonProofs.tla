---------------------------- MODULE DaemonProofs ----------------------------
(***************************************************************************)
(* Proofs about Daemon, for every set of tags and any number of mount      *)
(* commands: what the guard against a double mount is worth, that a report *)
(* of Ready is a fresh one, and that the hint of a daemon stays.           *)
(***************************************************************************)
EXTENDS Daemon, TLAPS

(* The part of TypeOK that the guard depends on.                           *)
Typed ==
  /\ tag \in [Mounts -> Tags \cup {NoTag}] /\ fg \in [Mounts -> BOOLEAN]
  /\ cli \in [Mounts -> CliStates] /\ dm \in [Mounts -> DmStates]
  /\ pidFile \in [Tags -> Mounts \cup {NoOne}]
  /\ gap \subseteq Tags
  /\ kernel \in [Tags -> Seq(Mounts)]

(* A command gets a tag when it starts, and its daemon only later.         *)
Started ==
  \A m \in Mounts :
    /\ cli[m] = "none" <=> tag[m] = NoTag
    /\ cli[m] \in {"none", "stale", "sweep", "sweepCheck", "sweepWrite", "launch", "refused"}
         => dm[m] = "none"
    /\ cli[m] = "inside" => fg[m] /\ dm[m] \notin {"none", "gone"}
    /\ dm[m] = "pid" => fg[m]

(* A process on its way to being the daemon of its tag, or there already.  *)
Engaged(m) == Running(m) \/ Unnamed(m)

(* Of a tag without a gap one process is engaged at most, and once it has  *)
(* named itself the pid file names it.                                     *)
OneEngaged ==
  /\ \A m, n \in Mounts :
       m # n /\ tag[m] = tag[n] /\ Engaged(m) /\ Engaged(n) => tag[m] \in gap
  /\ \A m \in Mounts :
       Running(m) /\ ~ Unnamed(m) => tag[m] \in gap \/ pidFile[tag[m]] = m

IInv == Typed /\ Started /\ OneEngaged

USE DEF CliStates, DmStates

LEMMA InitHolds == Init => IInv
BY DaemonAssumption DEF Init, IInv, Typed, Started, OneEngaged, Engaged, Running, Unnamed

(* Removing the files of a tag leaves a gap if anyone else is engaged.     *)
LEMMA CleanupGaps ==
  ASSUME IInv, NEW t \in Tags, NEW by, CleanupStale(t, by)
  PROVE  /\ pidFile' = [pidFile EXCEPT ![t] = NoOne]
         /\ gap \subseteq gap' /\ gap' \subseteq Tags
         /\ \A m \in Mounts \ {by} : tag[m] = t /\ Engaged(m) => t \in gap'
BY DEF IInv, Typed, CleanupStale, Family, Engaged

(* A step that moves one process among states in which it is as engaged    *)
(* and as named as before, or ends it, and leaves the pid files, disturbs  *)
(* nothing.                                                                *)
LEMMA MoveHolds ==
  ASSUME IInv, NEW m \in Mounts,
         UNCHANGED <<tag, fg, pidFile, gap, kernel>>, Typed', Started',
         \A n \in Mounts \ {m} : dm'[n] = dm[n] /\ cli'[n] = cli[n],
         Engaged(m)' => Engaged(m),
         Running(m)' /\ ~ Unnamed(m)' => Running(m) /\ ~ Unnamed(m)
  PROVE  IInv'
<1>1. \A n \in Mounts : /\ Engaged(n)' => Engaged(n)
                        /\ Running(n)' /\ ~ Unnamed(n)' => Running(n) /\ ~ Unnamed(n)
  BY DEF Engaged, Running, Unnamed
<1>2. QED
  BY <1>1 DEF IInv, OneEngaged

LEMMA CheckHolds ==
  ASSUME IInv, NEW m \in Mounts, NEW t \in Tags, NEW f \in BOOLEAN, Check(m, t, f)
  PROVE  IInv'
<1>1. Typed' /\ Started' /\ gap \subseteq gap'
  BY DaemonAssumption DEF IInv, Typed, Started, Check, CliTo, files, text
<1>2. /\ tag[m] = NoTag /\ tag' = [tag EXCEPT ![m] = t] /\ pidFile' = pidFile
      /\ dm[m] = "none" /\ dm' = dm /\ ~ Running(m)'
  BY DEF IInv, Typed, Started, Check, files, Running
<1>3. \A n \in Mounts \ {m} :
        /\ tag'[n] = tag[n] /\ (Engaged(n)' <=> Engaged(n))
        /\ Running(n)' <=> Running(n)
        /\ Unnamed(n)' <=> Unnamed(n)
  BY DEF IInv, Typed, Check, CliTo, Engaged, Running, Unnamed
<1>4. ASSUME NEW n \in Mounts \ {m}, tag[n] = t, Engaged(n), Engaged(m)'
      PROVE  t \in gap'
  <2>1. CASE Unnamed(n)
    BY <1>4, <2>1 DEF Check, Family
  <2>2. CASE ~ Unnamed(n) /\ t \notin gap
    <3>1. pidFile[t] = n /\ Running(n)
      BY <1>4, <2>2 DEF IInv, OneEngaged, Engaged
    <3>2. cli'[m] = "refused"
      BY <3>1, DaemonAssumption DEF IInv, Typed, Check, CliTo, Alive
    <3>3. ~ Engaged(m)'
      BY <1>2, <3>2 DEF Engaged, Unnamed, Running
    <3>4. QED
      BY <1>4, <3>3
  <2>3. QED
    BY <1>1, <2>1, <2>2
<1>5. OneEngaged'
  <2>1. ASSUME NEW p \in Mounts, NEW n \in Mounts, p # n, tag'[p] = tag'[n],
               Engaged(p)', Engaged(n)'
        PROVE  tag'[p] \in gap'
    <3>1. CASE p = m
      BY <1>2, <1>3, <1>4, <2>1, <3>1 DEF IInv, Typed
    <3>2. CASE n = m
      BY <1>2, <1>3, <1>4, <2>1, <3>2 DEF IInv, Typed
    <3>3. CASE p # m /\ n # m
      BY <1>1, <1>3, <2>1, <3>3 DEF IInv, OneEngaged
    <3>4. QED
      BY <3>1, <3>2, <3>3
  <2>2. ASSUME NEW n \in Mounts, Running(n)', ~ Unnamed(n)'
        PROVE  tag'[n] \in gap' \/ pidFile'[tag'[n]] = n
    BY <1>1, <1>2, <1>3, <2>2 DEF IInv, OneEngaged
  <2>3. QED
    BY <2>1, <2>2 DEF OneEngaged
<1>6. QED
  BY <1>1, <1>5 DEF IInv

LEMMA CleanStaleHolds ==
  ASSUME IInv, NEW m \in Mounts, CleanStale(m) PROVE IInv'
<1>1. tag[m] \in Tags
  BY DEF IInv, Typed, Started, CleanStale
<1>2. /\ pidFile' = [pidFile EXCEPT ![tag[m]] = NoOne]
      /\ gap \subseteq gap' /\ gap' \subseteq Tags
      /\ \A n \in Mounts \ {m} : tag[n] = tag[m] /\ Engaged(n) => tag[m] \in gap'
  BY <1>1, CleanupGaps DEF CleanStale
<1>3. Typed' /\ Started'
  BY <1>2 DEF IInv, Typed, Started, CleanStale, CliTo
<1>4. \A n \in Mounts : /\ Engaged(n)' <=> Engaged(n)
                        /\ Running(n)' <=> Running(n)
                        /\ Unnamed(n)' <=> Unnamed(n)
  BY DEF IInv, Typed, CleanStale, CliTo, Engaged, Running, Unnamed
<1>5. ~ Running(m)
  BY DEF IInv, Started, CleanStale, Running
<1>6. OneEngaged'
  BY <1>1, <1>2, <1>4, <1>5 DEF IInv, Typed, OneEngaged, CleanStale, Engaged
<1>7. QED
  BY <1>3, <1>6 DEF IInv

LEMMA CommandHolds ==
  ASSUME IInv, NEW m \in Mounts,
         \/ SweepRead(m) \/ SweepCheck(m) \/ SweepWrite(m) \/ Fork(m)
         \/ Foreground(m) \/ SeeReady(m) \/ GiveUp(m)
  PROVE  IInv'
<1>1. UNCHANGED <<tag, fg, pidFile, gap, kernel>>
  BY DEF SweepRead, SweepCheck, SweepWrite, Fork, Foreground, SeeReady, GiveUp, files
<1>2. Typed' /\ Started'
  <2>1. CASE SweepRead(m) \/ SweepCheck(m) \/ SweepWrite(m)
    BY <1>1, <2>1 DEF IInv, Typed, Started, SweepRead, SweepCheck, SweepWrite, CliTo
  <2>2. CASE Fork(m)
    BY <1>1, <2>2 DEF IInv, Typed, Started, Fork, CliTo, Goto
  <2>3. CASE Foreground(m)
    BY <1>1, <2>3 DEF IInv, Typed, Started, Foreground, CliTo, Goto
  <2>4. CASE SeeReady(m)
    BY <1>1, <2>4 DEF IInv, Typed, Started, SeeReady, CliTo
  <2>5. CASE GiveUp(m)
    BY <1>1, <2>5 DEF IInv, Typed, Started, GiveUp, CliTo
  <2>6. QED
    BY <2>1, <2>2, <2>3, <2>4, <2>5
<1>3. \A n \in Mounts \ {m} : dm'[n] = dm[n] /\ cli'[n] = cli[n]
  BY DEF IInv, Typed, SweepRead, SweepCheck, SweepWrite, Fork, Foreground,
         SeeReady, GiveUp, CliTo, Goto
<1>4. /\ Engaged(m)' => Engaged(m)
      /\ Running(m)' /\ ~ Unnamed(m)' => Running(m) /\ ~ Unnamed(m)
  BY <1>1 DEF IInv, Typed, Started, SweepRead, SweepCheck, SweepWrite, Fork, Foreground,
         SeeReady, GiveUp, CliTo, Goto, Engaged, Running, Unnamed
<1>5. QED
  BY <1>1, <1>2, <1>3, <1>4, MoveHolds

LEMMA DaemonHolds ==
  ASSUME IInv, NEW m \in Mounts,
         \/ Pull(m) \/ InstallRead(m) \/ InstallWrite(m) \/ ReportReady(m)
         \/ Drain(m) \/ UninstallRead(m) \/ UninstallWrite(m) \/ Dies(m)
  PROVE  IInv'
<1>1. UNCHANGED <<tag, fg, pidFile, gap, kernel>>
  BY DEF Pull, InstallRead, InstallWrite, ReportReady, Drain, UninstallRead,
         UninstallWrite, Dies, files
<1>2. Typed' /\ Started'
  <2>1. CASE Pull(m) \/ InstallRead(m) \/ ReportReady(m)
    BY <1>1, <2>1 DEF IInv, Typed, Started, Pull, InstallRead, ReportReady, Goto
  <2>2. CASE Drain(m) \/ UninstallRead(m) \/ UninstallWrite(m)
    BY <1>1, <2>2 DEF IInv, Typed, Started, Drain, UninstallRead, UninstallWrite, Goto
  <2>3. CASE Dies(m)
    BY <1>1, <2>3 DEF IInv, Typed, Started, Dies, Goto, Running
  <2>4. CASE InstallWrite(m)
    <3>1. dm[m] = "hintWrite" /\ dm' = [dm EXCEPT ![m] = IF fg[m] THEN "pid" ELSE "report"]
          /\ cli' = cli
      BY <2>4 DEF InstallWrite, Goto
    <3>2. QED
      BY <1>1, <3>1 DEF IInv, Typed, Started
  <2>5. QED
    BY <2>1, <2>2, <2>3, <2>4
<1>3. \A n \in Mounts \ {m} : dm'[n] = dm[n] /\ cli'[n] = cli[n]
  BY DEF IInv, Typed, Pull, InstallRead, InstallWrite, ReportReady, Drain,
              UninstallRead, UninstallWrite, Dies, Goto
<1>4. /\ Engaged(m)' => Engaged(m)
      /\ Running(m)' /\ ~ Unnamed(m)' => Running(m) /\ ~ Unnamed(m)
  BY <1>1 DEF IInv, Typed, Started, Pull, InstallRead, InstallWrite, ReportReady, Drain,
         UninstallRead, UninstallWrite, Dies, Goto, Engaged, Running, Unnamed
<1>5. QED
  BY <1>1, <1>2, <1>3, <1>4, MoveHolds

LEMMA AttachHolds ==
  ASSUME IInv, NEW m \in Mounts, Attach(m) PROVE IInv'
<1>1. Typed' /\ Started'
  BY DEF IInv, Typed, Started, Attach, Goto, files
<1>2. UNCHANGED <<tag, fg, cli, pidFile, gap>>
  BY DEF Attach, files
<1>3. \A n \in Mounts : /\ Engaged(n)' <=> Engaged(n)
                        /\ Running(n)' <=> Running(n)
                        /\ Unnamed(n)' <=> Unnamed(n)
  BY <1>2 DEF IInv, Typed, Attach, Goto, Engaged, Running, Unnamed
<1>4. QED
  BY <1>1, <1>2, <1>3 DEF IInv, OneEngaged

(* The process names itself: nobody else of a tag without a gap is engaged. *)
LEMMA NamingHolds ==
  ASSUME IInv, NEW m \in Mounts, WritePid(m) \/ WritePidLate(m) PROVE IInv'
<1>1. tag[m] \in Tags /\ Engaged(m)
  BY DEF IInv, Typed, Started, WritePid, WritePidLate, Engaged, Running
<1>2. /\ pidFile' = [pidFile EXCEPT ![tag[m]] = m]
      /\ UNCHANGED <<tag, fg, cli, gap, kernel>>
  BY DEF WritePid, WritePidLate
<1>3. Typed' /\ Started'
  BY <1>1, <1>2 DEF IInv, Typed, Started, WritePid, WritePidLate, Goto
<1>4. \A n \in Mounts \ {m} : /\ Engaged(n)' <=> Engaged(n)
                              /\ Running(n)' <=> Running(n)
                              /\ Unnamed(n)' <=> Unnamed(n)
  BY <1>2 DEF IInv, Typed, WritePid, WritePidLate, Goto, Engaged, Running, Unnamed
<1>5. OneEngaged'
  <2>1. ASSUME NEW p \in Mounts, NEW n \in Mounts, p # n, tag'[p] = tag'[n],
               Engaged(p)', Engaged(n)'
        PROVE  tag'[p] \in gap'
    <3>1. Engaged(p) /\ Engaged(n)
      BY <1>1, <1>4, <2>1
    <3>2. QED
      BY <1>2, <2>1, <3>1 DEF IInv, OneEngaged
  <2>2. ASSUME NEW n \in Mounts, Running(n)', ~ Unnamed(n)'
        PROVE  tag'[n] \in gap' \/ pidFile'[tag'[n]] = n
    <3>1. CASE n = m
      BY <1>1, <1>2, <3>1 DEF IInv, Typed
    <3>2. CASE n # m /\ tag[n] = tag[m]
      BY <1>1, <1>2, <1>4, <2>2, <3>2 DEF IInv, OneEngaged, Engaged
    <3>3. CASE n # m /\ tag[n] # tag[m]
      BY <1>1, <1>2, <1>4, <2>2, <3>3 DEF IInv, OneEngaged
    <3>4. QED
      BY <3>1, <3>2, <3>3
  <2>3. QED
    BY <2>1, <2>2 DEF OneEngaged
<1>6. QED
  BY <1>3, <1>5 DEF IInv

LEMMA FinishHolds ==
  ASSUME IInv, NEW m \in Mounts, Finish(m) PROVE IInv'
<1>1. tag[m] \in Tags
  BY DEF IInv, Typed, Started, Finish
<1>2. /\ pidFile' = [pidFile EXCEPT ![tag[m]] = NoOne]
      /\ gap \subseteq gap' /\ gap' \subseteq Tags
      /\ \A n \in Mounts \ {m} : tag[n] = tag[m] /\ Engaged(n) => tag[m] \in gap'
  BY <1>1, CleanupGaps DEF Finish
<1>3. Typed' /\ Started'
  BY <1>2 DEF IInv, Typed, Started, Finish, Goto
<1>4. ~ Running(m)' /\ ~ Engaged(m)'
  BY DEF IInv, Typed, Started, Finish, Goto, Engaged, Running, Unnamed
<1>5. \A n \in Mounts \ {m} : /\ Engaged(n)' <=> Engaged(n)
                              /\ Running(n)' <=> Running(n)
                              /\ Unnamed(n)' <=> Unnamed(n)
  BY DEF IInv, Typed, Finish, Goto, Engaged, Running, Unnamed
<1>6. OneEngaged'
  <2>1. ASSUME NEW p \in Mounts, NEW n \in Mounts, p # n, tag'[p] = tag'[n],
               Engaged(p)', Engaged(n)'
        PROVE  tag'[p] \in gap'
    <3>1. p # m /\ n # m /\ Engaged(p) /\ Engaged(n) /\ tag' = tag
      BY <1>4, <1>5, <2>1 DEF Finish
    <3>2. QED
      BY <1>2, <2>1, <3>1 DEF IInv, OneEngaged
  <2>2. ASSUME NEW n \in Mounts, Running(n)', ~ Unnamed(n)'
        PROVE  tag'[n] \in gap' \/ pidFile'[tag'[n]] = n
    <3>1. n # m /\ Running(n) /\ ~ Unnamed(n) /\ tag' = tag /\ Engaged(n)
      BY <1>4, <1>5, <2>2 DEF Finish, Engaged
    <3>2. CASE tag[n] = tag[m]
      BY <1>2, <3>1, <3>2
    <3>3. CASE tag[n] # tag[m]
      BY <1>1, <1>2, <3>1, <3>3 DEF IInv, OneEngaged
    <3>4. QED
      BY <3>2, <3>3
  <2>3. QED
    BY <2>1, <2>2 DEF OneEngaged
<1>7. QED
  BY <1>3, <1>6 DEF IInv

LEMMA UmountHolds ==
  ASSUME IInv, NEW t \in Tags, Umount(t) PROVE IInv'
<1>1. /\ UNCHANGED <<tag, fg, cli, pidFile, gap>>
      /\ kernel' \in [Tags -> Seq(Mounts)]
      /\ \/ dm' = dm
         \/ \E m \in Mounts : dm[m] = "up" /\ dm' = [dm EXCEPT ![m] = "ended"]
  <2>1. kernel[t] \in Seq(Mounts)
    BY DEF IInv, Typed
  <2>2. kernel[t] # <<>> => /\ kernel[t][Len(kernel[t])] \in Mounts
                            /\ SubSeq(kernel[t], 1, Len(kernel[t]) - 1) \in Seq(Mounts)
    BY <2>1
  <2>3. UNCHANGED <<tag, fg, cli, pidFile, gap>>
    BY DEF Umount, files
  <2>4. kernel' \in [Tags -> Seq(Mounts)]
    BY <2>2 DEF IInv, Typed, Umount
  <2>5. dm' = dm \/ \E m \in Mounts : dm[m] = "up" /\ dm' = [dm EXCEPT ![m] = "ended"]
    BY <2>2 DEF Umount
  <2>6. QED
    BY <2>3, <2>4, <2>5
<1>2. Typed' /\ Started'
  BY <1>1 DEF IInv, Typed, Started
<1>3. \A n \in Mounts : /\ Engaged(n)' <=> Engaged(n)
                        /\ Running(n)' <=> Running(n)
                        /\ Unnamed(n)' <=> Unnamed(n)
  BY <1>1 DEF IInv, Typed, Engaged, Running, Unnamed
<1>4. QED
  BY <1>1, <1>2, <1>3 DEF IInv, OneEngaged

LEMMA UmountCleansHolds ==
  ASSUME IInv, NEW t \in Tags, UmountCleans(t) PROVE IInv'
<1>1. UNCHANGED <<tag, fg, cli, dm, kernel>>
  BY DEF UmountCleans, procs
<1>2. /\ pidFile' = [pidFile EXCEPT ![t] = NoOne]
      /\ gap \subseteq gap' /\ gap' \subseteq Tags
      /\ \A n \in Mounts : tag[n] = t /\ Engaged(n) => t \in gap'
  BY CleanupGaps, DaemonAssumption DEF UmountCleans
<1>3. Typed' /\ Started'
  BY <1>1, <1>2 DEF IInv, Typed, Started
<1>4. \A n \in Mounts : /\ Engaged(n)' <=> Engaged(n)
                        /\ Running(n)' <=> Running(n)
                        /\ Unnamed(n)' <=> Unnamed(n)
  BY <1>1 DEF Engaged, Running, Unnamed
<1>5. OneEngaged'
  BY <1>1, <1>2, <1>4 DEF IInv, Typed, OneEngaged, Engaged
<1>6. QED
  BY <1>3, <1>5 DEF IInv

LEMMA StepHolds == IInv /\ [Next]_vars => IInv'
<1> SUFFICES ASSUME IInv, [Next]_vars PROVE IInv'
  OBVIOUS
<1>1. CASE UNCHANGED vars
  BY <1>1 DEF IInv, Typed, Started, OneEngaged, Engaged, Running, Unnamed, vars
<1>2. ASSUME NEW m \in Mounts, NEW t \in Tags, NEW f \in BOOLEAN, Check(m, t, f) PROVE IInv'
  BY <1>2, CheckHolds
<1>3. ASSUME NEW m \in Mounts, Command(m) PROVE IInv'
  BY <1>3, CleanStaleHolds, CommandHolds DEF Command
<1>4. ASSUME NEW m \in Mounts, Daemons(m) PROVE IInv'
  BY <1>4, DaemonHolds, AttachHolds, NamingHolds, FinishHolds DEF Daemons
<1>5. ASSUME NEW t \in Tags, Umount(t) \/ UmountCleans(t) PROVE IInv'
  BY <1>5, UmountHolds, UmountCleansHolds
<1>6. QED
  BY <1>1, <1>2, <1>3, <1>4, <1>5 DEF Next

LEMMA Inductive == Spec => []IInv
BY InitHolds, StepHolds, PTL DEF Spec

(* The guard against a double mount holds but for overlapping commands and *)
(* pid files removed under a running process.                              *)
THEOREM GuardAlwaysHolds == Spec => []GuardHolds
<1>1. IInv => GuardHolds
  BY DEF IInv, OneEngaged, GuardHolds, Engaged
<1>2. QED
  BY <1>1, Inductive, PTL
-----------------------------------------------------------------------------
(* The types of the rest, and what the kernel has.                         *)

TypedRest ==
  /\ startup \in [Tags -> {"none", "init", "ready"}]
  /\ um \in [Tags -> {"idle", "detached"}]
  /\ hints \subseteq Names
  /\ copy \in [Mounts -> [was : SUBSET Names, now : SUBSET Names, old : BOOLEAN]]
  /\ fresh \subseteq Mounts /\ raced \in BOOLEAN

(* A mount in the kernel is one whose call was made, once.                 *)
Attached == {"up", "ended", "unhint", "unhintWrite", "clean", "gone"}

KernelKnown ==
  \A t \in Tags :
    /\ \A i \in DOMAIN kernel[t] : tag[kernel[t][i]] = t /\ dm[kernel[t][i]] \in Attached
    /\ \A i, j \in DOMAIN kernel[t] : kernel[t][i] = kernel[t][j] => i = j

LEMMA TypedRestStep ==
  ASSUME IInv, TypedRest, [Next]_vars PROVE TypedRest'
<1>. DEFINE Copies == [was : SUBSET Names, now : SUBSET Names, old : BOOLEAN]
<1>1. /\ startup \in [Tags -> {"none", "init", "ready"}]
      /\ um \in [Tags -> {"idle", "detached"}]
      /\ hints \subseteq Names /\ copy \in [Mounts -> Copies]
      /\ fresh \subseteq Mounts /\ raced \in BOOLEAN
  BY DEF TypedRest
<1>2. SUFFICES /\ startup' \in [Tags -> {"none", "init", "ready"}]
               /\ um' \in [Tags -> {"idle", "detached"}]
               /\ hints' \subseteq Names /\ copy' \in [Mounts -> Copies]
               /\ fresh' \subseteq Mounts /\ raced' \in BOOLEAN
  BY DEF TypedRest
<1>. HIDE DEF Copies
<1>3. /\ Blank \in Copies
      /\ \A H \in SUBSET Names : [was |-> H, now |-> H, old |-> FALSE] \in Copies
      /\ \A c \in Copies : /\ c.was \subseteq Names /\ c.now \subseteq Names /\ c.old \in BOOLEAN
                           /\ \A o \in BOOLEAN : [c EXCEPT !.old = o] \in Copies
                           /\ \A H \in SUBSET Names : [c EXCEPT !.now = H] \in Copies
  BY DEF Blank, Copies
<1>4. ASSUME NEW m \in Mounts, Complete(m)
      PROVE  copy' \in [Mounts -> Copies] /\ raced' \in BOOLEAN
  <2>1. \A n \in Mounts : Editing(n) \in BOOLEAN
    BY DEF Editing
  <2>2. QED
    BY <1>1, <1>3, <1>4, <2>1 DEF Complete
<1>5. ASSUME NEW m \in Mounts, ReadHints(m) PROVE copy' \in [Mounts -> Copies]
  BY <1>1, <1>3, <1>5 DEF ReadHints
<1>6. ASSUME NEW m \in Mounts, KeepHints(m)
      PROVE  copy' \in [Mounts -> Copies] /\ UNCHANGED <<hints, raced>>
  BY <1>1, <1>3, <1>6 DEF KeepHints
<1>7. ASSUME NEW t \in Tags, NEW by, CleanupStale(t, by)
      PROVE  startup' \in [Tags -> {"none", "init", "ready"}]
  BY <1>1, <1>7 DEF CleanupStale
<1>8. \A m \in Mounts : copy[m] \in Copies
  BY <1>1
<1>9. \A m \in Mounts : cli[m] = "stale" \/ dm[m] # "none" =>
                          tag[m] \in Tags /\ Delim[tag[m]] \in Names
  BY DaemonAssumption DEF IInv, Typed, Started
<1>10. ASSUME NEW m \in Mounts, Command(m)
       PROVE  /\ startup' \in [Tags -> {"none", "init", "ready"}]
              /\ um' = um /\ fresh' = fresh
              /\ hints' \subseteq Names /\ copy' \in [Mounts -> Copies] /\ raced' \in BOOLEAN
  <2>1. CASE CleanStale(m)
    BY <1>1, <1>7, <1>9, <2>1 DEF CleanStale, text
  <2>2. CASE Fork(m) \/ Foreground(m) \/ SeeReady(m) \/ GiveUp(m)
    BY <1>1, <2>2 DEF Fork, Foreground, SeeReady, GiveUp, text, files
  <2>3. CASE SweepRead(m)
    BY <1>1, <1>5, <2>3 DEF SweepRead, files
  <2>4. CASE SweepCheck(m)
    <3>1. {d \in copy[m].now : Spared(m, d)} \subseteq Names
      BY <1>3, <1>8
    <3>2. [copy[m] EXCEPT !.now = {d \in copy[m].now : Spared(m, d)}] \in Copies
      BY <1>3, <1>8, <3>1
    <3>3. copy' = [copy EXCEPT ![m] = [copy[m] EXCEPT !.now = {d \in copy[m].now : Spared(m, d)}]]
      BY <2>4 DEF SweepCheck
    <3>4. copy' \in [Mounts -> Copies]
      BY <1>1, <3>2, <3>3
    <3>5. QED
      BY <1>1, <2>4, <3>4 DEF SweepCheck, files
  <2>5. CASE SweepWrite(m)
    <3>1. CASE KeepHints(m)
      BY <1>1, <1>6, <2>5, <3>1 DEF SweepWrite, files
    <3>2. CASE WriteHints(m, copy[m].now)
      BY <1>1, <1>3, <1>4, <1>8, <2>5, <3>2 DEF SweepWrite, WriteHints, files
    <3>3. QED
      BY <2>5, <3>1, <3>2 DEF SweepWrite
  <2>6. QED
    BY <1>10, <2>1, <2>2, <2>3, <2>4, <2>5 DEF Command
<1>11. ASSUME NEW m \in Mounts, Daemons(m)
       PROVE  /\ startup' \in [Tags -> {"none", "init", "ready"}]
              /\ um' = um /\ fresh' \subseteq Mounts
              /\ hints' \subseteq Names /\ copy' \in [Mounts -> Copies] /\ raced' \in BOOLEAN
  <2>1. CASE WritePid(m) \/ WritePidLate(m) \/ Pull(m) \/ ReportReady(m) \/ Attach(m) \/ Drain(m)
    BY <1>1, <2>1 DEF WritePid, WritePidLate, Pull, ReportReady, Attach, Drain, Family, text, files
  <2>2. CASE Finish(m)
    BY <1>1, <1>7, <1>9, <2>2 DEF Finish, text
  <2>3. CASE InstallRead(m) \/ UninstallRead(m)
    BY <1>1, <1>5, <2>3 DEF InstallRead, UninstallRead, files
  <2>4. CASE InstallWrite(m)
    <3>1. UNCHANGED <<startup, um, fresh>> /\ Complete(m) /\ dm[m] # "none"
      BY <2>4 DEF InstallWrite, WriteHints, files
    <3>2. hints' = hints \/ hints' = copy[m].was \cup {Delim[tag[m]]}
      BY <2>4 DEF InstallWrite, WriteHints
    <3>3. QED
      BY <1>1, <1>3, <1>4, <1>8, <1>9, <3>1, <3>2
  <2>5. CASE UninstallWrite(m)
    <3>1. CASE KeepHints(m)
      BY <1>1, <1>6, <2>5, <3>1 DEF UninstallWrite, files
    <3>2. CASE WriteHints(m, copy[m].was \ {Delim[tag[m]]})
      BY <1>1, <1>3, <1>4, <1>8, <2>5, <3>2 DEF UninstallWrite, WriteHints, files
    <3>3. QED
      BY <2>5, <3>1, <3>2 DEF UninstallWrite
  <2>6. CASE Dies(m)
    BY <1>1, <1>3, <2>6 DEF Dies, files
  <2>7. QED
    BY <1>11, <2>1, <2>2, <2>3, <2>4, <2>5, <2>6 DEF Daemons
<1>12. ASSUME NEW m \in Mounts, NEW t \in Tags, NEW f \in BOOLEAN, Check(m, t, f)
       PROVE  UNCHANGED <<startup, um, hints, copy, fresh, raced>>
  BY <1>12 DEF Check, files, text
<1>13. ASSUME NEW t \in Tags, Umount(t) \/ UmountCleans(t)
       PROVE  /\ startup' \in [Tags -> {"none", "init", "ready"}]
              /\ um' \in [Tags -> {"idle", "detached"}]
              /\ UNCHANGED <<hints, copy, fresh, raced>>
  BY <1>1, <1>7, <1>13, DaemonAssumption DEF Umount, UmountCleans, files, text
<1>14. CASE UNCHANGED vars
  BY <1>1, <1>14 DEF vars
<1>15. QED
  BY <1>1, <1>10, <1>11, <1>12, <1>13, <1>14 DEF Next

(* A process whose mount call was made stays one, under its tag.           *)
LEMMA KernelStep ==
  ASSUME IInv, KernelKnown, [Next]_vars PROVE KernelKnown'
<1>1. \A t \in Tags : kernel[t] \in Seq(Mounts)
  BY DEF IInv, Typed
<1>2. ASSUME kernel' = kernel,
             \A m \in Mounts : dm[m] \in Attached => dm'[m] \in Attached /\ tag'[m] = tag[m]
      PROVE  KernelKnown'
  BY <1>1, <1>2 DEF KernelKnown
<1>3. ASSUME NEW m \in Mounts, NEW t \in Tags, NEW f \in BOOLEAN, Check(m, t, f)
      PROVE  KernelKnown'
  BY <1>2, <1>3 DEF IInv, Typed, Started, Check, Attached
<1>4. ASSUME NEW m \in Mounts, Command(m) PROVE KernelKnown'
  <2>1. kernel' = kernel /\ tag' = tag
    BY <1>4 DEF Command, CleanStale, SweepRead, SweepCheck, SweepWrite, Fork, Foreground,
                SeeReady, GiveUp
  <2>2. dm' = dm \/ \E x \in DmStates : dm[m] = "none" /\ dm' = [dm EXCEPT ![m] = x]
    BY <1>4 DEF Command, CleanStale, SweepRead, SweepCheck, SweepWrite, Fork, Foreground,
                SeeReady, GiveUp, Goto, IInv, Started
  <2>3. QED
    BY <1>2, <2>1, <2>2 DEF IInv, Typed, Attached
<1>5. ASSUME NEW m \in Mounts, Daemons(m), ~ Attach(m) PROVE KernelKnown'
  <2>1. kernel' = kernel /\ tag' = tag
    BY <1>5 DEF Daemons, WritePid, Pull, InstallRead, InstallWrite, WritePidLate, ReportReady,
                Drain, UninstallRead, UninstallWrite, Finish, Dies
  <2>2. \E x \in DmStates : /\ dm' = [dm EXCEPT ![m] = x]
                            /\ dm[m] \in Attached => x \in Attached
    BY <1>5 DEF Daemons, WritePid, Pull, InstallRead, InstallWrite, WritePidLate, ReportReady,
                Drain, UninstallRead, UninstallWrite, Finish, Dies, Goto, Attached
  <2>3. QED
    BY <1>2, <2>1, <2>2 DEF IInv, Typed
<1>6. ASSUME NEW m \in Mounts, Attach(m) PROVE KernelKnown'
  <2>. DEFINE t == tag[m]
  <2>1. /\ t \in Tags /\ dm[m] = "attach" /\ tag' = tag
        /\ dm' = [dm EXCEPT ![m] = "up"]
        /\ kernel' = [kernel EXCEPT ![t] = Append(kernel[t], m)]
    BY <1>6 DEF Attach, Goto, IInv, Typed, Started
  <2>2. \A n \in Mounts : dm[n] \in Attached => dm'[n] \in Attached /\ n # m
    BY <2>1 DEF IInv, Typed, Attached
  <2>3. dm'[m] = "up"
    BY <2>1 DEF IInv, Typed
  <2>4. \A u \in Tags \ {t} : kernel'[u] = kernel[u]
    BY <2>1 DEF IInv, Typed
  <2>5. /\ DOMAIN kernel'[t] = 1..(Len(kernel[t]) + 1)
        /\ \A i \in 1..Len(kernel[t]) : kernel'[t][i] = kernel[t][i]
        /\ kernel'[t][Len(kernel[t]) + 1] = m
        /\ Len(kernel[t]) \in Nat /\ DOMAIN kernel[t] = 1..Len(kernel[t])
    BY <1>1, <2>1 DEF IInv, Typed
  <2>6. /\ \A i \in 1..Len(kernel[t]) : /\ kernel[t][i] \in Mounts /\ tag[kernel[t][i]] = t
                                        /\ dm[kernel[t][i]] \in Attached
        /\ \A i, j \in 1..Len(kernel[t]) : kernel[t][i] = kernel[t][j] => i = j
    BY <1>1, <2>1, <2>5 DEF KernelKnown
  <2>7. ASSUME NEW u \in Tags \ {t}
        PROVE  /\ \A i \in DOMAIN kernel'[u] : /\ tag'[kernel'[u][i]] = u
                                               /\ dm'[kernel'[u][i]] \in Attached
               /\ \A i, j \in DOMAIN kernel'[u] : kernel'[u][i] = kernel'[u][j] => i = j
    BY <1>1, <2>1, <2>2, <2>4 DEF KernelKnown
  <2>8. /\ \A i \in DOMAIN kernel'[t] : /\ tag'[kernel'[t][i]] = t
                                        /\ dm'[kernel'[t][i]] \in Attached
        /\ \A i, j \in DOMAIN kernel'[t] : kernel'[t][i] = kernel'[t][j] => i = j
    <3>1. \A i \in DOMAIN kernel'[t] : i \in 1..Len(kernel[t]) \/ i = Len(kernel[t]) + 1
      BY <2>5
    <3>2. \A i \in 1..Len(kernel[t]) : kernel'[t][i] # m
      BY <2>2, <2>5, <2>6
    <3>3. QED
      BY <2>1, <2>2, <2>3, <2>5, <2>6, <3>1, <3>2 DEF Attached
  <2>9. QED
    BY <2>7, <2>8 DEF KernelKnown
<1>7. ASSUME NEW t \in Tags, Umount(t) PROVE KernelKnown'
  <2>1. CASE UNCHANGED <<kernel, dm>>
    BY <1>2, <1>7, <2>1 DEF Umount
  <2>2. CASE kernel[t] # <<>> /\ kernel' = [kernel EXCEPT ![t] = SubSeq(@, 1, Len(@) - 1)]
    <3>1. \A n \in Mounts : dm[n] \in Attached => dm'[n] \in Attached
      BY <1>7 DEF Umount, IInv, Typed, Attached
    <3>2. tag' = tag
      BY <1>7 DEF Umount
    <3>3. \A u \in Tags : /\ DOMAIN kernel'[u] \subseteq DOMAIN kernel[u]
                          /\ \A i \in DOMAIN kernel'[u] : kernel'[u][i] = kernel[u][i]
      <4>1. /\ DOMAIN SubSeq(kernel[t], 1, Len(kernel[t]) - 1) \subseteq DOMAIN kernel[t]
            /\ \A i \in DOMAIN SubSeq(kernel[t], 1, Len(kernel[t]) - 1) :
                 SubSeq(kernel[t], 1, Len(kernel[t]) - 1)[i] = kernel[t][i]
        BY <1>1, <2>2
      <4>2. QED
        BY <2>2, <4>1 DEF IInv, Typed
    <3>4. \A u \in Tags : \A i \in DOMAIN kernel[u] : kernel[u][i] \in Mounts
      BY <1>1
    <3>5. QED
      BY <3>1, <3>2, <3>3, <3>4 DEF KernelKnown
  <2>3. QED
    BY <1>7, <2>1, <2>2 DEF Umount
<1>8. ASSUME NEW t \in Tags, UmountCleans(t) PROVE KernelKnown'
  BY <1>2, <1>8 DEF UmountCleans, procs
<1>9. CASE UNCHANGED vars
  BY <1>2, <1>9 DEF vars
<1>10. QED
  BY <1>3, <1>4, <1>5, <1>6, <1>7, <1>8, <1>9 DEF Next, Daemons

LEMMA RestInductive == Spec => [](TypedRest /\ KernelKnown)
<1>1. Init => TypedRest /\ KernelKnown
  <2>1. Init => TypedRest
    <3>1. Blank \in [was : SUBSET Names, now : SUBSET Names, old : BOOLEAN]
      BY DEF Blank
    <3>2. Init => copy \in [Mounts -> [was : SUBSET Names, now : SUBSET Names, old : BOOLEAN]]
      BY <3>1 DEF Init
    <3>3. Init => /\ startup \in [Tags -> {"none", "init", "ready"}]
                  /\ um \in [Tags -> {"idle", "detached"}]
                  /\ hints \subseteq Names /\ fresh \subseteq Mounts /\ raced \in BOOLEAN
      BY DEF Init
    <3>4. QED
      BY <3>2, <3>3 DEF TypedRest
  <2>2. Init => \A t \in Tags : DOMAIN kernel[t] = {}
    <3>1. Init => \A t \in Tags : kernel[t] = <<>>
      BY DEF Init
    <3>2. DOMAIN <<>> = {}
      OBVIOUS
    <3>3. QED
      BY <3>1, <3>2
  <2>3. QED
    BY <2>1, <2>2 DEF KernelKnown
<1>2. IInv /\ TypedRest /\ KernelKnown /\ [Next]_vars => (TypedRest /\ KernelKnown)'
  BY TypedRestStep, KernelStep
<1>3. QED
  BY <1>1, <1>2, Inductive, PTL DEF Spec

(* TypeOK: among the types, a process's mount is in the kernel once at     *)
(* most, however mounts and unmounts of a tag are stacked.                 *)
THEOREM TypeCorrect == Spec => []TypeOK
<1>1. IInv /\ TypedRest /\ KernelKnown => TypeOK
  BY DEF IInv, Typed, TypedRest, KernelKnown, TypeOK
<1>2. QED
  BY <1>1, Inductive, RestInductive, PTL
-----------------------------------------------------------------------------
(* A command that waits for a daemon of its tag trusts the startup file:   *)
(* it was removed before the command began to wait.                        *)
ReadySeen ==
  \A m \in Mounts :
    /\ cli[m] = "ready" => m \in fresh
    /\ cli[m] = "waiting" /\ startup[tag[m]] = "ready" => m \in fresh

LEMMA ReadyStep ==
  ASSUME IInv, TypedRest, ReadySeen, [Next]_vars PROVE ReadySeen'
<1>1. \A m \in Mounts : cli[m] # "none" => tag[m] \in Tags
  BY DEF IInv, Typed, Started
<1>2. ASSUME UNCHANGED <<tag, fresh>>, \A m \in Mounts : cli'[m] \in {"ready", "waiting"} => cli'[m] = cli[m],
             startup' = startup \/ \E t \in Tags, x \in {"none", "init"} : startup' = [startup EXCEPT ![t] = x]
      PROVE  ReadySeen'
  BY <1>1, <1>2 DEF ReadySeen, TypedRest
<1>3. ASSUME NEW m \in Mounts, NEW t \in Tags, NEW f \in BOOLEAN, Check(m, t, f) PROVE ReadySeen'
  <2>1. /\ UNCHANGED <<startup, fresh>>
        /\ cli'[m] \notin {"ready", "waiting"}
        /\ \A n \in Mounts \ {m} : cli'[n] = cli[n] /\ tag'[n] = tag[n]
    BY <1>3 DEF Check, CliTo, files, IInv, Typed
  <2>2. QED
    BY <2>1 DEF ReadySeen
<1>4. ASSUME NEW m \in Mounts, Fork(m) PROVE ReadySeen'
  <2>1. /\ UNCHANGED <<tag, fresh>> /\ tag[m] \in Tags
        /\ startup' = [startup EXCEPT ![tag[m]] = "none"]
        /\ \A n \in Mounts \ {m} : cli'[n] = cli[n]
        /\ cli'[m] = "waiting"
    BY <1>1, <1>4 DEF Fork, CliTo, IInv, Typed
  <2>2. QED
    BY <1>1, <2>1 DEF ReadySeen, TypedRest
<1>5. ASSUME NEW m \in Mounts, SeeReady(m) PROVE ReadySeen'
  <2>1. /\ UNCHANGED <<tag, fresh, startup>> /\ m \in fresh
        /\ \A n \in Mounts \ {m} : cli'[n] = cli[n]
    BY <1>5 DEF SeeReady, CliTo, files, ReadySeen, IInv, Typed
  <2>2. QED
    BY <2>1 DEF ReadySeen
<1>6. ASSUME NEW m \in Mounts, \/ CleanStale(m) \/ SweepRead(m) \/ SweepCheck(m) \/ SweepWrite(m)
                               \/ Foreground(m) \/ GiveUp(m)
      PROVE  ReadySeen'
  <2>1. tag[m] \in Tags
    BY <1>1, <1>6 DEF CleanStale, SweepRead, SweepCheck, SweepWrite, Foreground, GiveUp
  <2>2. startup' = startup \/ startup' = [startup EXCEPT ![tag[m]] = "none"]
    BY <1>6 DEF CleanStale, CleanupStale, SweepRead, SweepCheck, SweepWrite, Foreground, GiveUp, files
  <2>3. UNCHANGED <<tag, fresh>> /\ \A n \in Mounts : cli'[n] \in {"ready", "waiting"} => cli'[n] = cli[n]
    BY <1>6 DEF CleanStale, SweepRead, SweepCheck, SweepWrite, Foreground, GiveUp, CliTo, IInv, Typed
  <2>4. QED
    BY <1>2, <2>1, <2>2, <2>3
<1>7. ASSUME NEW m \in Mounts, ReportReady(m) PROVE ReadySeen'
  <2>1. tag[m] \in Tags
    BY <1>7 DEF ReportReady, IInv, Typed, Started
  <2>2. /\ tag' = tag /\ cli' = cli /\ fresh \subseteq fresh'
        /\ startup' = [startup EXCEPT ![tag[m]] = "ready"]
        /\ \A n \in Mounts : tag[n] = tag[m] /\ cli[n] = "waiting" => n \in fresh'
    BY <1>7 DEF ReportReady, Family
  <2>3. QED
    BY <1>1, <2>1, <2>2 DEF ReadySeen, TypedRest
<1>8. ASSUME NEW m \in Mounts, Daemons(m), ~ ReportReady(m) PROVE ReadySeen'
  <2>1. dm[m] # "none" /\ tag[m] \in Tags
    BY <1>8 DEF Daemons, WritePid, Pull, InstallRead, InstallWrite, WritePidLate, Attach, Drain,
                UninstallRead, UninstallWrite, Finish, Dies, Running, IInv, Typed, Started
  <2>2. UNCHANGED <<tag, fresh>>
    BY <1>8 DEF Daemons, WritePid, Pull, InstallRead, InstallWrite, WritePidLate, Attach, Drain,
                UninstallRead, UninstallWrite, Finish, Dies
  <2>3. \/ startup' = startup
        \/ \E x \in {"none", "init"} : startup' = [startup EXCEPT ![tag[m]] = x]
    BY <1>8 DEF Daemons, WritePid, Pull, InstallRead, InstallWrite, WritePidLate, Attach, Drain,
                UninstallRead, UninstallWrite, Finish, Dies, CleanupStale, files
  <2>4. cli' = cli \/ cli' = [cli EXCEPT ![m] = "done"]
    BY <1>8 DEF Daemons, WritePid, Pull, InstallRead, InstallWrite, WritePidLate, Attach, Drain,
                UninstallRead, UninstallWrite, Finish, Dies
  <2>5. \A n \in Mounts : cli'[n] \in {"ready", "waiting"} => cli'[n] = cli[n]
    BY <2>4 DEF IInv, Typed
  <2>6. QED
    BY <1>2, <2>1, <2>2, <2>3, <2>5
<1>9. ASSUME NEW t \in Tags, Umount(t) \/ UmountCleans(t) PROVE ReadySeen'
  BY <1>2, <1>9 DEF Umount, UmountCleans, CleanupStale, procs, files
<1>10. CASE UNCHANGED vars
  BY <1>2, <1>10 DEF vars
<1>11. QED
  BY <1>3, <1>4, <1>5, <1>6, <1>7, <1>8, <1>9, <1>10 DEF Next, Command

(* ReadyIsFresh: the Ready a command reports was written for its tag while *)
(* it waited - by its own daemon or by another that was started for the    *)
(* tag meanwhile, which the file does not tell - whoever removes the files *)
(* of the tag in between.                                                  *)
THEOREM ReadyAlwaysFresh == Spec => []ReadyIsFresh
<1>1. Init => ReadySeen
  BY DEF Init, ReadySeen
<1>2. IInv /\ TypedRest /\ ReadySeen /\ [Next]_vars => ReadySeen'
  BY ReadyStep
<1>3. ReadySeen => ReadyIsFresh
  BY DEF ReadySeen, ReadyIsFresh
<1>4. QED
  BY <1>1, <1>2, <1>3, Inductive, RestInductive, PTL DEF Spec
-----------------------------------------------------------------------------
(* A daemon whose hint is in place: it has installed it, has the pid file  *)
(* of its tag, and its tag stands for itself.                              *)
Hinted(m) ==
  /\ dm[m] \in {"report", "attach", "up", "ended", "unhint"}
  /\ ~ fg[m] /\ tag[m] \notin gap /\ PlainTag(tag[m])

(* A copy that is not outdated is what the file holds.                     *)
CopyCurrent ==
  \A n \in Mounts :
    /\ Editing(n) /\ ~ copy[n].old => copy[n].was = hints
    /\ cli[n] = "sweepCheck" => copy[n].now = copy[n].was

(* Then a hint in place is in the file, and in what a sweep makes of it.   *)
HintsHeld ==
  \A m \in Mounts :
    Hinted(m) =>
      \/ raced
      \/ /\ tag[m] \in hints
         /\ \A n \in Mounts : cli[n] = "sweepWrite" /\ ~ copy[n].old => tag[m] \in copy[n].now

HintInv == CopyCurrent /\ HintsHeld

(* Who has a daemon is past its sweep, and its tag is one.                 *)
LEMMA DaemonFacts ==
  ASSUME IInv, NEW m \in Mounts, dm[m] # "none"
  PROVE  /\ tag[m] \in Tags
         /\ cli[m] \notin {"none", "stale", "sweep", "sweepCheck", "sweepWrite", "launch"}
BY DEF IInv, Typed, Started

(* A daemon with its hint in place is the one that its pid file names.     *)
LEMMA HintedFacts ==
  ASSUME IInv, NEW m \in Mounts, Hinted(m)
  PROVE  /\ tag[m] \in Tags /\ Delim[tag[m]] = tag[m]
         /\ pidFile[tag[m]] = m /\ Alive(m)
         /\ \A n \in Mounts \ {m} : Running(n) => tag[n] # tag[m]
<1>1. Running(m) /\ ~ Unnamed(m) /\ tag[m] \in Tags
  BY DaemonFacts DEF Hinted, Running, Unnamed
<1>2. m # NoOne
  BY DaemonAssumption
<1>3. pidFile[tag[m]] = m /\ \A n \in Mounts \ {m} : Running(n) => tag[n] # tag[m]
  BY <1>1 DEF IInv, OneEngaged, Engaged, Hinted
<1>4. QED
  BY <1>1, <1>2, <1>3 DEF Hinted, PlainTag, Alive

(* A step that leaves the hint file and the copies disturbs neither, if it *)
(* brings nobody to an edit or to a hint in place.                         *)
LEMMA TextKept ==
  ASSUME HintInv, UNCHANGED text,
         \A m \in Mounts : Hinted(m)' => Hinted(m) /\ tag'[m] = tag[m],
         \A n \in Mounts : /\ Editing(n)' => Editing(n)
                           /\ cli'[n] \in {"sweepCheck", "sweepWrite"} => cli'[n] = cli[n]
  PROVE  HintInv'
<1>1. hints' = hints /\ copy' = copy /\ raced' = raced
  BY DEF text
<1>2. CopyCurrent'
  BY <1>1 DEF HintInv, CopyCurrent
<1>3. HintsHeld'
  BY <1>1 DEF HintInv, HintsHeld
<1>4. QED
  BY <1>2, <1>3 DEF HintInv

(* Someone reads the file.                                                 *)
LEMMA ReadStep ==
  ASSUME IInv, TypedRest, HintInv, NEW m \in Mounts,
         SweepRead(m) \/ InstallRead(m) \/ UninstallRead(m)
  PROVE  HintInv'
<1>1. /\ UNCHANGED <<tag, fg, hints, raced, gap>>
      /\ copy' = [copy EXCEPT ![m] = [was |-> hints, now |-> hints, old |-> FALSE]]
  BY DEF SweepRead, InstallRead, UninstallRead, ReadHints
<1>2. /\ copy'[m] = [was |-> hints, now |-> hints, old |-> FALSE]
      /\ \A n \in Mounts \ {m} : copy'[n] = copy[n] /\ dm'[n] = dm[n] /\ cli'[n] = cli[n]
  BY <1>1 DEF TypedRest, IInv, Typed, SweepRead, InstallRead, UninstallRead, CliTo, Goto
<1>3. /\ \A n \in Mounts : Hinted(n)' => Hinted(n)
      /\ cli'[m] # "sweepWrite"
  BY <1>1, <1>2, DaemonFacts DEF IInv, Typed, SweepRead, InstallRead, UninstallRead, CliTo, Goto, Hinted
<1>4. CopyCurrent'
  BY <1>1, <1>2 DEF HintInv, CopyCurrent, Editing
<1>5. HintsHeld'
  BY <1>1, <1>2, <1>3 DEF HintInv, HintsHeld
<1>6. QED
  BY <1>4, <1>5 DEF HintInv

(* A sweep that is up to date spares the daemons whose hint is in place.   *)
LEMMA SweepCheckStep ==
  ASSUME IInv, TypedRest, HintInv, NEW m \in Mounts, SweepCheck(m)
  PROVE  HintInv'
<1>1. /\ UNCHANGED <<tag, fg, dm, hints, raced, gap>>
      /\ cli[m] = "sweepCheck" /\ cli' = [cli EXCEPT ![m] = "sweepWrite"]
      /\ copy' = [copy EXCEPT ![m] = [copy[m] EXCEPT !.now = {d \in copy[m].now : Spared(m, d)}]]
  BY DEF SweepCheck, CliTo
<1>2. /\ copy'[m].was = copy[m].was /\ copy'[m].old = copy[m].old
      /\ copy'[m].now = {d \in copy[m].now : Spared(m, d)}
      /\ cli'[m] = "sweepWrite"
      /\ \A n \in Mounts \ {m} : copy'[n] = copy[n] /\ cli'[n] = cli[n]
  BY <1>1 DEF TypedRest, IInv, Typed
<1>3. \A n \in Mounts : (Hinted(n)' <=> Hinted(n)) /\ (Editing(n)' <=> Editing(n))
  BY <1>1, <1>2 DEF Hinted, Editing
<1>4. CopyCurrent'
  BY <1>1, <1>2, <1>3 DEF HintInv, CopyCurrent
<1>5. HintsHeld'
  <2>. SUFFICES ASSUME NEW n \in Mounts, Hinted(n), ~ raced
                PROVE  /\ tag[n] \in hints
                       /\ \A x \in Mounts : cli'[x] = "sweepWrite" /\ ~ copy'[x].old =>
                                              tag[n] \in copy'[x].now
    BY <1>1, <1>3 DEF HintsHeld
  <2>1. tag[n] \in hints
    BY DEF HintInv, HintsHeld
  <2>2. ~ copy[m].old => tag[n] \in copy[m].now
    BY <1>1, <2>1 DEF HintInv, CopyCurrent, Editing
  <2>3. Spared(m, tag[n])
    BY HintedFacts DEF Spared
  <2>4. QED
    BY <1>1, <1>2, <2>1, <2>2, <2>3 DEF HintInv, HintsHeld
<1>6. QED
  BY <1>4, <1>5 DEF HintInv

(* What a completed edit leaves: every other copy is outdated.             *)
LEMMA CompleteFacts ==
  ASSUME TypedRest, NEW m \in Mounts, Complete(m)
  PROVE  /\ raced \/ copy[m].old => raced'
         /\ \A n \in Mounts \ {m} : Editing(n) => copy'[n].old
BY DEF Complete, TypedRest

(* A completed edit that was up to date keeps the hints in place.          *)
LEMMA CompleteStep ==
  ASSUME IInv, TypedRest, HintInv, NEW m \in Mounts, Complete(m),
         UNCHANGED <<tag, fg, gap>>,
         ~ Editing(m)',
         \A n \in Mounts \ {m} : dm'[n] = dm[n] /\ cli'[n] = cli[n],
         \A n \in Mounts : Hinted(n)' /\ ~ raced /\ ~ copy[m].old => tag[n] \in hints'
  PROVE  HintInv'
<1>1. \A n \in Mounts \ {m} : (Hinted(n)' <=> Hinted(n)) /\ (Editing(n)' <=> Editing(n))
  BY DEF Hinted, Editing
<1>2. \A n \in Mounts : Editing(n)' => copy'[n].old
  BY <1>1, CompleteFacts
<1>3. \A n \in Mounts : cli'[n] \in {"sweepCheck", "sweepWrite"} => n # m /\ Editing(n)'
  BY DEF Editing
<1>4. CopyCurrent'
  <2>1. \A n \in Mounts \ {m} : copy'[n].was = copy[n].was /\ copy'[n].now = copy[n].now
    BY DEF Complete, TypedRest
  <2>2. QED
    BY <1>2, <1>3, <2>1 DEF HintInv, CopyCurrent
<1>5. HintsHeld'
  BY <1>2, <1>3, CompleteFacts DEF HintsHeld
<1>6. QED
  BY <1>4, <1>5 DEF HintInv

(* An edit that leaves the file as it is.                                  *)
LEMMA KeepStep ==
  ASSUME IInv, TypedRest, HintInv, NEW m \in Mounts, KeepHints(m),
         UNCHANGED <<tag, fg, gap>>,
         ~ Editing(m)', ~ Hinted(m)',
         \A n \in Mounts \ {m} : dm'[n] = dm[n] /\ cli'[n] = cli[n]
  PROVE  HintInv'
<1>1. \A n \in Mounts \ {m} : /\ Hinted(n)' <=> Hinted(n)
                              /\ Editing(n)' <=> Editing(n)
                              /\ copy'[n] = copy[n]
  BY DEF Hinted, Editing, KeepHints, TypedRest
<1>2. hints' = hints /\ raced' = raced
  BY DEF KeepHints
<1>3. cli'[m] \notin {"sweepCheck", "sweepWrite"}
  BY DEF Editing
<1>4. CopyCurrent'
  BY <1>1, <1>2, <1>3 DEF HintInv, CopyCurrent
<1>5. HintsHeld'
  BY <1>1, <1>2, <1>3 DEF HintInv, HintsHeld
<1>6. QED
  BY <1>4, <1>5 DEF HintInv

LEMMA SweepWriteStep ==
  ASSUME IInv, TypedRest, HintInv, NEW m \in Mounts, SweepWrite(m)
  PROVE  HintInv'
<1>1. /\ UNCHANGED <<tag, fg, dm, gap>>
      /\ cli[m] = "sweepWrite" /\ cli' = [cli EXCEPT ![m] = "launch"]
  BY DEF SweepWrite, CliTo
<1>2. dm[m] = "none"
  BY <1>1 DEF IInv, Started
<1>3. /\ ~ Editing(m)' /\ ~ Hinted(m)'
      /\ \A n \in Mounts \ {m} : dm'[n] = dm[n] /\ cli'[n] = cli[n]
      /\ \A n \in Mounts : Hinted(n)' <=> Hinted(n)
  BY <1>1, <1>2 DEF Editing, Hinted, IInv, Typed
<1>4. CASE KeepHints(m)
  BY <1>1, <1>3, <1>4, KeepStep
<1>5. CASE WriteHints(m, copy[m].now)
  <2>1. \A n \in Mounts : Hinted(n)' /\ ~ raced /\ ~ copy[m].old => tag[n] \in hints'
    BY <1>1, <1>3, <1>5 DEF WriteHints, HintInv, HintsHeld
  <2>2. QED
    BY <1>1, <1>3, <1>5, <2>1, CompleteStep DEF WriteHints
<1>6. QED
  BY <1>4, <1>5 DEF SweepWrite

(* An install puts one hint in place, and touches no other.                *)
LEMMA InstallWriteStep ==
  ASSUME IInv, TypedRest, HintInv, NEW m \in Mounts, InstallWrite(m)
  PROVE  HintInv'
<1>1. /\ UNCHANGED <<tag, fg, cli, gap>> /\ Complete(m)
      /\ dm[m] = "hintWrite" /\ dm' = [dm EXCEPT ![m] = IF fg[m] THEN "pid" ELSE "report"]
      /\ \/ hints' = copy[m].was \cup {Delim[tag[m]]}
         \/ hints' = hints /\ Delim[tag[m]] \in copy[m].was
  BY DEF InstallWrite, WriteHints, Goto, files
<1>2. /\ ~ Editing(m)'
      /\ \A n \in Mounts \ {m} : dm'[n] = dm[n] /\ cli'[n] = cli[n]
  BY <1>1, DaemonFacts DEF Editing, IInv, Typed
<1>3. ~ copy[m].old => copy[m].was = hints
  BY <1>1 DEF HintInv, CopyCurrent, Editing
<1>4. ASSUME NEW n \in Mounts, Hinted(n)', ~ raced, ~ copy[m].old
      PROVE  tag[n] \in hints'
  <2>1. CASE n = m
    BY <1>1, <1>3, <1>4, <2>1 DEF Hinted, PlainTag
  <2>2. CASE n # m
    <3>1. Hinted(n)
      BY <1>1, <1>2, <1>4, <2>2 DEF Hinted
    <3>2. tag[n] \in hints
      BY <1>4, <3>1 DEF HintInv, HintsHeld
    <3>3. QED
      BY <1>1, <1>3, <1>4, <3>2
  <2>3. QED
    BY <2>1, <2>2
<1>5. QED
  BY <1>1, <1>2, <1>4, CompleteStep

(* An uninstall removes the hint of a daemon that stops, of no other.      *)
LEMMA UninstallWriteStep ==
  ASSUME IInv, TypedRest, HintInv, NEW m \in Mounts, UninstallWrite(m)
  PROVE  HintInv'
<1>1. /\ UNCHANGED <<tag, fg, cli, gap>>
      /\ dm[m] = "unhintWrite" /\ dm' = [dm EXCEPT ![m] = "clean"]
  BY DEF UninstallWrite, Goto, files
<1>2. /\ ~ Editing(m)' /\ ~ Hinted(m)'
      /\ \A n \in Mounts \ {m} : dm'[n] = dm[n] /\ cli'[n] = cli[n]
  BY <1>1, DaemonFacts DEF Editing, Hinted, IInv, Typed
<1>3. CASE KeepHints(m)
  BY <1>1, <1>2, <1>3, KeepStep
<1>4. CASE WriteHints(m, copy[m].was \ {Delim[tag[m]]})
  <2>1. ASSUME NEW n \in Mounts, Hinted(n)', ~ raced, ~ copy[m].old
        PROVE  tag[n] \in hints'
    <3>1. n # m /\ Hinted(n)
      BY <1>1, <1>2, <2>1 DEF Hinted
    <3>2. tag[n] \in hints /\ copy[m].was = hints
      BY <1>1, <2>1, <3>1 DEF HintInv, HintsHeld, CopyCurrent, Editing
    <3>3. tag[n] # tag[m] /\ tag[m] \in Tags
      BY <1>1, <3>1, HintedFacts, DaemonFacts DEF Running
    <3>4. Delim[tag[m]] # tag[n]
      BY <3>1, <3>3 DEF Hinted, PlainTag
    <3>5. QED
      BY <1>4, <3>2, <3>4 DEF WriteHints
  <2>2. QED
    BY <1>1, <1>2, <1>4, <2>1, CompleteStep DEF WriteHints
<1>5. QED
  BY <1>3, <1>4 DEF UninstallWrite

(* A process dies: its copy goes with it.                                  *)
LEMMA DiesStep ==
  ASSUME IInv, TypedRest, HintInv, NEW m \in Mounts, Dies(m)
  PROVE  HintInv'
<1>1. /\ UNCHANGED <<tag, fg, gap, hints, raced>> /\ dm[m] # "none"
      /\ dm' = [dm EXCEPT ![m] = "gone"]
      /\ cli' = cli \/ cli' = [cli EXCEPT ![m] = "done"]
      /\ KeepHints(m)
  BY DEF Dies, Goto, Running, KeepHints
<1>2. /\ ~ Editing(m)' /\ ~ Hinted(m)'
      /\ \A n \in Mounts \ {m} : dm'[n] = dm[n] /\ cli'[n] = cli[n]
  BY <1>1, DaemonFacts DEF Editing, Hinted, IInv, Typed
<1>3. QED
  BY <1>1, <1>2, KeepStep

(* Every other step leaves the hint file and the copies.                   *)
LEMMA OtherStep ==
  ASSUME IInv, HintInv,
         \/ \E m \in Mounts, t \in Tags, f \in BOOLEAN : Check(m, t, f)
         \/ \E m \in Mounts :
              \/ CleanStale(m) \/ Fork(m) \/ Foreground(m) \/ SeeReady(m) \/ GiveUp(m)
              \/ WritePid(m) \/ Pull(m) \/ WritePidLate(m) \/ ReportReady(m)
              \/ Attach(m) \/ Drain(m) \/ Finish(m)
         \/ \E t \in Tags : Umount(t) \/ UmountCleans(t)
         \/ UNCHANGED vars
  PROVE  HintInv'
<1>1. ASSUME UNCHANGED text, gap \subseteq gap',
             NEW m \in Mounts, \A n \in Mounts \ {m} : /\ tag'[n] = tag[n] /\ fg'[n] = fg[n]
                                           /\ dm'[n] = dm[n] /\ cli'[n] = cli[n],
             Hinted(m)' => Hinted(m) /\ tag'[m] = tag[m],
             Editing(m)' => Editing(m), cli'[m] \notin {"sweepCheck", "sweepWrite"}
      PROVE  HintInv'
  <2>1. \A n \in Mounts : Hinted(n)' => Hinted(n) /\ tag'[n] = tag[n]
    BY <1>1 DEF Hinted
  <2>2. \A n \in Mounts : /\ Editing(n)' => Editing(n)
                          /\ cli'[n] \in {"sweepCheck", "sweepWrite"} => cli'[n] = cli[n]
    BY <1>1 DEF Editing
  <2>3. QED
    BY <1>1, <2>1, <2>2, TextKept
<1>2. \A t, by : CleanupStale(t, by) => gap \subseteq gap'
  BY DEF CleanupStale
<1>3. ASSUME NEW m \in Mounts, NEW t \in Tags, NEW f \in BOOLEAN, Check(m, t, f)
      PROVE  HintInv'
  <2>1. dm[m] = "none" /\ dm' = dm
    BY <1>3 DEF Check, IInv, Started
  <2>2. UNCHANGED text /\ gap \subseteq gap' /\ cli'[m] \in {"sweep", "refused", "stale"}
    BY <1>3 DEF Check, CliTo, IInv, Typed
  <2>3. \A n \in Mounts \ {m} : tag'[n] = tag[n] /\ fg'[n] = fg[n] /\ dm'[n] = dm[n] /\ cli'[n] = cli[n]
    BY <1>3 DEF Check, CliTo, IInv, Typed
  <2>4. QED
    BY <1>1, <2>1, <2>2, <2>3 DEF Hinted, Editing
<1>4. ASSUME NEW m \in Mounts,
             CleanStale(m) \/ Fork(m) \/ Foreground(m) \/ SeeReady(m) \/ GiveUp(m)
      PROVE  HintInv'
  <2>1. UNCHANGED <<text, tag, fg>> /\ gap \subseteq gap'
    BY <1>2, <1>4 DEF CleanStale, Fork, Foreground, SeeReady, GiveUp
  <2>2. /\ \A n \in Mounts \ {m} : dm'[n] = dm[n] /\ cli'[n] = cli[n]
        /\ cli'[m] \in {"sweep", "waiting", "inside", "ready", "gaveUp"}
        /\ dm'[m] = dm[m] \/ dm'[m] \in {"born", "pull"}
    BY <1>4 DEF CleanStale, Fork, Foreground, SeeReady, GiveUp, CliTo, Goto, IInv, Typed
  <2>3. Editing(m)' => Editing(m)
    BY <1>4, <2>2 DEF Editing
  <2>4. QED
    BY <1>1, <2>1, <2>2, <2>3 DEF Hinted
<1>5. ASSUME NEW m \in Mounts,
             \/ WritePid(m) \/ Pull(m) \/ WritePidLate(m) \/ ReportReady(m) \/ Attach(m)
             \/ Drain(m) \/ Finish(m)
      PROVE  HintInv'
  <2>1. UNCHANGED <<text, tag, fg>> /\ gap \subseteq gap' /\ dm[m] # "none"
    BY <1>2, <1>5 DEF WritePid, Pull, WritePidLate, ReportReady, Attach, Drain, Finish
  <2>2. cli' = cli \/ cli' = [cli EXCEPT ![m] = "done"]
    BY <1>5 DEF WritePid, Pull, WritePidLate, ReportReady, Attach, Drain, Finish
  <2>3. \A n \in Mounts \ {m} : dm'[n] = dm[n] /\ cli'[n] = cli[n]
    BY <1>5, <2>2 DEF WritePid, Pull, WritePidLate, ReportReady, Attach, Drain, Finish, Goto, IInv, Typed
  <2>4. /\ dm'[m] \in {"pull", "hint", "attach", "up", "unhint", "gone"}
        /\ dm'[m] \in {"attach", "up", "unhint"} =>
             dm[m] \in {"report", "attach", "ended"} \/ fg[m]
    BY <1>5 DEF WritePid, Pull, WritePidLate, ReportReady, Attach, Drain, Finish, Goto, IInv, Typed,
                Started
  <2>5. ~ Editing(m)' /\ cli'[m] \notin {"sweepCheck", "sweepWrite"}
    BY <2>1, <2>2, <2>4, DaemonFacts DEF Editing, IInv, Typed
  <2>6. QED
    BY <1>1, <2>1, <2>3, <2>4, <2>5 DEF Hinted
<1>6. ASSUME NEW t \in Tags, Umount(t) \/ UmountCleans(t) PROVE HintInv'
  <2>1. UNCHANGED <<text, tag, fg, cli>> /\ gap \subseteq gap'
    BY <1>2, <1>6 DEF Umount, UmountCleans, procs
  <2>2. \A n \in Mounts : dm'[n] = dm[n] \/ (dm[n] = "up" /\ dm'[n] = "ended")
    <3>1. dm' = dm \/ \E m : dm[m] = "up" /\ dm' = [dm EXCEPT ![m] = "ended"]
      <4>1. CASE UmountCleans(t)
        BY <4>1 DEF UmountCleans, procs
      <4>2. CASE Umount(t)
        BY <4>2 DEF Umount
      <4>3. QED
        BY <1>6, <4>1, <4>2
    <3>2. ASSUME NEW m, dm[m] = "up", dm' = [dm EXCEPT ![m] = "ended"], NEW n \in Mounts
          PROVE  dm'[n] = dm[n] \/ (dm[n] = "up" /\ dm'[n] = "ended")
      BY <3>2 DEF IInv, Typed
    <3>3. QED
      BY <3>1, <3>2
  <2>3. QED
    BY <2>1, <2>2, TextKept DEF Hinted, Editing
<1>7. CASE UNCHANGED vars
  BY <1>7, TextKept DEF vars, text, Hinted, Editing
<1>8. QED
  BY <1>3, <1>4, <1>5, <1>6, <1>7

LEMMA HintStep ==
  ASSUME IInv, TypedRest, HintInv, [Next]_vars PROVE HintInv'
BY ReadStep, SweepCheckStep, SweepWriteStep, InstallWriteStep, UninstallWriteStep, DiesStep,
   OtherStep DEF Next, Command, Daemons

(* HintKept: the agent file names every live daemon, for every number of   *)
(* mounts, as long as no edit is made on an outdated copy.                 *)
THEOREM HintsKept == Spec => []HintKept
<1>1. Init => HintInv
  BY DEF Init, HintInv, CopyCurrent, HintsHeld, Hinted, Editing
<1>2. IInv /\ TypedRest /\ HintInv /\ [Next]_vars => HintInv'
  BY HintStep
<1>3. HintInv => HintKept
  BY DEF HintInv, HintsHeld, Hinted, HintKept, PlainTag
<1>4. QED
  BY <1>1, <1>2, <1>3, Inductive, RestInductive, PTL DEF Spec
=============================================================================
