----------------------------- MODULE MultihartRun -----------------------------
(***************************************************************************)
(* A run of a multi-hart image: scripts/run-qemu.sh on the host, QEMU's    *)
(* nemu machine, and in the guest the launch_multihart.sh and the task.sh  *)
(* of every hart that scripts/package-multihart-rootfs.py generates.  The  *)
(* launcher starts one task per hart in the background, waits for them in  *)
(* the order of the harts, and ends the machine with a trap that carries   *)
(* the first failure.  A task or the launcher may be killed at any time,   *)
(* and so may the machine.                                                 *)
(***************************************************************************)
EXTENDS Naturals

CONSTANTS HARTS,         \* the number of copies the image was packaged for
          SmpChoices,    \* values of run-qemu.sh's own HARTS, for -smp
          FailureCodes,  \* exit statuses of a copy or of a killed process
          QemuFailures   \* exit statuses of a QEMU that fails

ASSUME HartsAssumption == HARTS \in 2..128
ASSUME SmpAssumption == SmpChoices \subseteq 1..128
ASSUME CodesAssumption == /\ FailureCodes \subseteq 1..255
                          /\ QemuFailures \subseteq 1..255

Hart == 0..(HARTS - 1)

VARIABLES
    guest,     \* what the copies find: processors and taskset
    task,      \* hart -> where its task.sh is
    rc,        \* hart -> $? of its run.sh, then its own exit status
    sent,      \* hart -> the profiler codes its task.sh has sent
    launcher,  \* where launch_multihart.sh is, the hart it is at, $status
    machine,   \* "off", "up", or "good" or "bad" after a terminal trap
    qemu,      \* exit status of QEMU
    log,       \* the trap messages in run-qemu.sh's log file
    script,    \* "preflight", "running", "judging" or "done"
    verdict    \* exit status of run-qemu.sh

vars == <<guest, task, rc, sent, launcher, machine, qemu, log, script, verdict>>

Stages == {"none", "start", "notify", "running", "ending", "exiting", "done"}

LauncherType == [at : {"launch", "wait", "trap", "trapped", "dead"},
                 hart : Hart, status : 0..255]

\* The code task.sh sends at a stage, and the stage that follows.
SignalAt == [start |-> 256, notify |-> 257, ending |-> 258]

StageAfter == [start |-> "notify", notify |-> "running", ending |-> "exiting"]

Init ==
    /\ guest \in [smp : SmpChoices, taskset : BOOLEAN]
    /\ task = [h \in Hart |-> "none"]
    /\ rc = [h \in Hart |-> 0]
    /\ sent = [h \in Hart |-> {}]
    /\ launcher = [at |-> "launch", hart |-> 0, status |-> 0]
    /\ machine = "off"
    /\ qemu = 0
    /\ log = {}
    /\ script = "preflight"
    /\ verdict = 0

-----------------------------------------------------------------------------
(* run-qemu.sh, up to the start of the machine *)

\* Lines 8-78: a bad argument, a QEMU that cannot be inspected or that is
\* not the expected machine, and a HARTS out of range end the script.
Preflight ==
    /\ script = "preflight"
    /\ \/ script' = "running" /\ machine' = "up" /\ UNCHANGED verdict
       \/ /\ script' = "done"
          /\ verdict' \in {2} \cup QemuFailures
          /\ UNCHANGED machine
    /\ UNCHANGED <<guest, task, rc, sent, launcher, qemu, log>>

-----------------------------------------------------------------------------
(* The guest.  External: init runs the launcher once, and traps other than *)
(* 256, 257 and 258 end the machine.                                       *)

Up == script = "running" /\ machine = "up"

\* Mutant: one background task too many.
LaunchOneTooMany ==
    /\ Up
    /\ launcher.at = "launch"
    /\ task' = [task EXCEPT ![launcher.hart] = "start"]
    /\ launcher' = IF launcher.hart = HARTS
                   THEN [launcher EXCEPT !.at = "wait", !.hart = 0]
                   ELSE [launcher EXCEPT !.hart = @ + 1]
    /\ UNCHANGED <<guest, rc, sent, machine, qemu, log, script, verdict>>

Launch ==
    /\ Up
    /\ launcher.at = "launch"
    /\ task' = [task EXCEPT ![launcher.hart] = "start"]
    /\ launcher' = IF launcher.hart = HARTS - 1
                   THEN [launcher EXCEPT !.at = "wait", !.hart = 0]
                   ELSE [launcher EXCEPT !.hart = @ + 1]
    /\ UNCHANGED <<guest, rc, sent, machine, qemu, log, script, verdict>>

EndTask(h, code) ==
    /\ task' = [task EXCEPT ![h] = "done"]
    /\ rc' = [rc EXCEPT ![h] = code]
    /\ UNCHANGED <<guest, sent, launcher, machine, qemu, log, script, verdict>>

Bindable(h) == guest.taskset /\ h < guest.smp

\* run_taskset exits 127 without a taskset program; taskset exits 1 for a
\* processor the machine does not have.
TasksetFails(h) ==
    /\ Up
    /\ task[h] = "start"
    /\ ~Bindable(h)
    /\ EndTask(h, IF guest.taskset THEN 1 ELSE 127)

\* /bin/nemu-trap 256, 257 or 258.
Signal(h) ==
    /\ Up
    /\ task[h] \in DOMAIN SignalAt
    /\ task[h] = "start" => Bindable(h)
    /\ sent' = [sent EXCEPT ![h] = @ \cup {SignalAt[task[h]]}]
    /\ task' = [task EXCEPT ![h] = StageAfter[@]]
    /\ UNCHANGED <<guest, rc, launcher, machine, qemu, log, script, verdict>>

\* run.sh returns, and task.sh keeps its status.
CopyReturns(h, code) ==
    /\ Up
    /\ task[h] = "running"
    /\ task' = [task EXCEPT ![h] = "ending"]
    /\ rc' = [rc EXCEPT ![h] = code]
    /\ UNCHANGED <<guest, sent, launcher, machine, qemu, log, script, verdict>>

TaskExits(h) ==
    /\ Up
    /\ task[h] = "exiting"
    /\ EndTask(h, rc[h])

\* A signal, or a command of task.sh that fails under set -e.
TaskDies(h, code) ==
    /\ Up
    /\ task[h] \notin {"none", "done"}
    /\ EndTask(h, code)

AfterWait(status) ==
    IF launcher.hart = HARTS - 1
    THEN [launcher EXCEPT !.at = "trap", !.status = status]
    ELSE [launcher EXCEPT !.hart = @ + 1, !.status = status]

\* Mutant: the test of $status is dropped, so the last failure is kept.
WaitKeepsLast ==
    /\ Up
    /\ launcher.at = "wait"
    /\ task[launcher.hart] = "done"
    /\ launcher' = AfterWait(IF rc[launcher.hart] # 0 THEN rc[launcher.hart]
                             ELSE launcher.status)
    /\ UNCHANGED <<guest, task, rc, sent, machine, qemu, log, script, verdict>>

\* Mutant: wait with a process id that is not a child returns at once.
WaitReturnsAtOnce ==
    /\ Up
    /\ launcher.at = "wait"
    /\ launcher' = AfterWait(IF launcher.status = 0 THEN rc[launcher.hart]
                             ELSE launcher.status)
    /\ UNCHANGED <<guest, task, rc, sent, machine, qemu, log, script, verdict>>

\* Mutant: set -e is left on, so the first failure ends the launcher.
WaitUnderSetE ==
    /\ Up
    /\ launcher.at = "wait"
    /\ task[launcher.hart] = "done" /\ rc[launcher.hart] = 0
    /\ launcher' = AfterWait(launcher.status)
    /\ UNCHANGED <<guest, task, rc, sent, machine, qemu, log, script, verdict>>

\* wait returns the status of the task; the first failure is kept.
Wait ==
    /\ Up
    /\ launcher.at = "wait"
    /\ task[launcher.hart] = "done"
    /\ launcher' = AfterWait(IF launcher.status = 0 THEN rc[launcher.hart]
                             ELSE launcher.status)
    /\ UNCHANGED <<guest, task, rc, sent, machine, qemu, log, script, verdict>>

\* /bin/nemu-trap "$status": the machine stops.
FinalTrap ==
    /\ Up
    /\ launcher.at = "trap"
    /\ launcher' = [launcher EXCEPT !.at = "trapped"]
    /\ machine' = IF launcher.status = 0 THEN "good" ELSE "bad"
    /\ UNCHANGED <<guest, task, rc, sent, qemu, log, script, verdict>>

\* The launcher is killed, or cannot fork: init does not start it again.
LauncherDies ==
    /\ Up
    /\ launcher.at \in {"launch", "wait", "trap"}
    /\ launcher' = [launcher EXCEPT !.at = "dead"]
    /\ UNCHANGED <<guest, task, rc, sent, machine, qemu, log, script, verdict>>

-----------------------------------------------------------------------------
(* The end of the run *)

Messages == CASE machine = "good" -> {"GOOD"}
              [] machine = "bad" -> {"BAD"}
              [] OTHER -> {}

\* QEMU ends, after a trap or before (a crash, a guest that powers off with
\* -no-reboot), and tee with it.  A tee that cannot write leaves no message.
QemuExits(code) ==
    /\ script = "running"
    /\ qemu' = code
    /\ log' \in {Messages, {}}
    /\ script' = "judging"
    /\ UNCHANGED <<guest, task, rc, sent, launcher, machine, verdict>>

\* Mutant: the absence of both messages is not an error.
RunStatusWithoutTrap(messages, code) ==
    IF "BAD" \in messages THEN 1 ELSE code

\* Mutant: the branch for GOOD TRAP is missing.
RunStatusWithoutGood(messages, code) ==
    IF "BAD" \in messages \/ code = 0 THEN 1 ELSE code

\* Lines 99-116.
RunStatus(messages, code) ==
    IF "BAD" \in messages THEN 1
    ELSE IF "GOOD" \in messages \/ code # 0 THEN code
    ELSE 1

Judge ==
    /\ script = "judging"
    /\ script' = "done"
    /\ verdict' = RunStatus(log, qemu)
    /\ UNCHANGED <<guest, task, rc, sent, launcher, machine, qemu, log>>

Terminated == script = "done" /\ UNCHANGED vars

-----------------------------------------------------------------------------

TaskStep(h) ==
    \/ TasksetFails(h)
    \/ Signal(h)
    \/ \E c \in {0} \cup FailureCodes : CopyReturns(h, c)
    \/ TaskExits(h)

\* What happens unless something is killed.
Progress ==
    \/ Preflight
    \/ Launch
    \/ \E h \in Hart : TaskStep(h)
    \/ Wait
    \/ FinalTrap
    \/ machine # "up" /\ \E c \in {0} \cup QemuFailures : QemuExits(c)
    \/ Judge

Next ==
    \/ Progress
    \/ \E h \in Hart, c \in FailureCodes : TaskDies(h, c)
    \/ LauncherDies
    \/ machine = "up" /\ \E c \in {0} \cup QemuFailures : QemuExits(c)
    \/ Terminated

Spec == Init /\ [][Next]_vars

\* Whenever something can be done that needs no accident, something is: the
\* guest's and the host's kernels schedule their processes, a copy of the
\* benchmark ends, and QEMU ends after a terminal trap.
FairSpec == Spec /\ WF_vars(Progress)

-----------------------------------------------------------------------------
(* Properties *)

TypeOK ==
    /\ guest \in [smp : SmpChoices, taskset : BOOLEAN]
    /\ task \in [Hart -> Stages]
    /\ rc \in [Hart -> 0..255]
    /\ sent \in [Hart -> SUBSET {256, 257, 258}]
    /\ launcher \in LauncherType
    /\ machine \in {"off", "up", "good", "bad"}
    /\ qemu \in 0..255
    /\ log \in SUBSET {"GOOD", "BAD"}
    /\ script \in {"preflight", "running", "judging", "done"}
    /\ verdict \in 0..255

\* run-qemu.sh exits 0 only for a run in which every hart's copy was bound,
\* bracketed by the three profiler codes, and returned 0: whatever was
\* killed, and however many processors QEMU was given.
PassMeansEveryCopyPassed ==
    script = "done" /\ verdict = 0 =>
        \A h \in Hart : /\ task[h] = "done" /\ rc[h] = 0
                        /\ sent[h] = {256, 257, 258}
                        /\ Bindable(h)

\* The launcher ends the machine only after every task has ended, and with
\* the status of the failing task of the lowest-numbered hart, although the
\* tasks end in any order.
FirstFailureReported ==
    launcher.at \in {"trap", "trapped"} =>
        /\ \A h \in Hart : task[h] = "done"
        /\ IF \A h \in Hart : rc[h] = 0
           THEN launcher.status = 0
           ELSE \E h \in Hart : /\ rc[h] # 0 /\ launcher.status = rc[h]
                                /\ \A g \in Hart : g < h => rc[g] = 0

\* No false alarm: when every copy returned 0 and neither the launcher, nor
\* QEMU, nor tee failed, run-qemu.sh exits 0.
CleanRunPasses ==
    /\ script = "done"
    /\ launcher.at = "trapped"
    /\ \A h \in Hart : rc[h] = 0
    /\ qemu = 0
    /\ log # {}
    => verdict = 0

\* What the reader of the exit status may rely on.
Contract == INSTANCE RunVerdict WITH
    result <- [h \in Hart |-> IF task[h] # "done" THEN "pending"
                              ELSE IF rc[h] = 0 THEN "ok" ELSE "failed"],
    verdict <- IF script # "done" THEN "none"
               ELSE IF verdict = 0 THEN "pass" ELSE "fail"

\* The run implements the contract.
ImplementsContract == Contract!Spec

\* The run ends with a verdict.  Only the death of the launcher can keep the
\* machine up for ever: run-qemu.sh sets no time limit on the run.
VerdictReached == <>(script = "done" \/ launcher.at = "dead")

=============================================================================
