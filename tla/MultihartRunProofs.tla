-------------------------- MODULE MultihartRunProofs --------------------------
(***************************************************************************)
(* For every number of harts and every set of exit statuses: the verdict   *)
(* of run-qemu.sh is sound, the launcher reports the first failure, and    *)
(* the run implements the contract of RunVerdict.  Then GuestRun: what the *)
(* run scripts of one hart tell the machine, for any way their commands    *)
(* end and any number of parts of a graph.                                 *)
(***************************************************************************)
EXTENDS MultihartRun, GuestRun, FiniteSetTheorems, SequenceTheorems, TLAPS

-----------------------------------------------------------------------------
(* The inductive invariant *)

\* What a task has sent follows from where it is, and a task that ended with
\* 0 went through all of its stages.
SentAt(h) ==
    /\ task[h] \in {"none", "start"} => sent[h] = {}
    /\ task[h] = "notify" => sent[h] = {256}
    /\ task[h] \in {"running", "ending"} => sent[h] = {256, 257}
    /\ task[h] = "exiting" => sent[h] = {256, 257, 258}
    /\ task[h] \in {"notify", "running", "ending", "exiting"} => Bindable(h)
    /\ task[h] = "done" /\ rc[h] = 0 => sent[h] = {256, 257, 258} /\ Bindable(h)

TaskInv == \A h \in Hart : SentAt(h)

\* The launcher has not started the harts from launcher.hart on.
LaunchInv ==
    launcher.at = "launch" =>
        /\ launcher.status = 0
        /\ \A h \in Hart : h >= launcher.hart => task[h] = "none"

\* The first n tasks have ended, and s is the first failure among them.
FirstFailure(n, s) ==
    /\ \A h \in Hart : h < n => task[h] = "done"
    /\ IF \A h \in Hart : h < n => rc[h] = 0
       THEN s = 0
       ELSE \E h \in Hart : /\ h < n /\ rc[h] # 0 /\ s = rc[h]
                            /\ \A g \in Hart : g < h => rc[g] = 0

WaitInv ==
    /\ launcher.at = "wait" => FirstFailure(launcher.hart, launcher.status)
    /\ launcher.at \in {"trap", "trapped"} => FirstFailure(HARTS, launcher.status)

\* The machine has trapped exactly when the launcher has.
MachineInv ==
    /\ machine \in {"good", "bad"} <=> launcher.at = "trapped"
    /\ machine = "good" => launcher.status = 0
    /\ machine = "bad" => launcher.status # 0
    /\ script = "preflight" => machine = "off" /\ log = {}

\* The log never holds a message of a trap that was not taken.
VerdictInv ==
    /\ log \subseteq Messages
    /\ script = "done" => /\ verdict = 0 => "GOOD" \in log
                          /\ machine = "off" \/ verdict = RunStatus(log, qemu)

IInv == TypeOK /\ TaskInv /\ LaunchInv /\ WaitInv /\ MachineInv /\ VerdictInv

-----------------------------------------------------------------------------
(* Helpers *)

LEMMA HartFacts == Hart \subseteq Nat /\ 0 \in Hart /\ HARTS - 1 \in Hart
                   /\ HARTS \in Nat /\ \A h \in Hart : h < HARTS
  BY HartsAssumption DEF Hart

LEMMA NextHart == \A h \in Hart : h # HARTS - 1 => h + 1 \in Hart
  BY HartsAssumption DEF Hart

\* Nothing that happens to a task that has not ended matters to the harts
\* the launcher has already waited for.
LEMMA FirstFailureStable ==
    ASSUME NEW n \in Nat, NEW s, TypeOK, FirstFailure(n, s),
           NEW h \in Hart, task[h] # "done",
           \A g \in Hart : g # h => task'[g] = task[g] /\ rc'[g] = rc[g]
    PROVE  FirstFailure(n, s)'
  <1>1. \A g \in Hart : g < n => g # h
    BY DEF FirstFailure
  <1>2. \A g \in Hart : g < n => task'[g] = "done" /\ rc'[g] = rc[g]
    BY <1>1 DEF FirstFailure
  <1>3. \A g, f \in Hart : g < n /\ f < g => rc'[f] = rc[f]
    BY <1>2, HartFacts
  <1> QED BY <1>2, <1>3 DEF FirstFailure

\* One more task waited for.
LEMMA FirstFailureExtended ==
    ASSUME TypeOK, FirstFailure(launcher.hart, launcher.status),
           task[launcher.hart] = "done"
    PROVE  FirstFailure(launcher.hart + 1,
                        IF launcher.status = 0 THEN rc[launcher.hart]
                        ELSE launcher.status)
  <1> DEFINE n == launcher.hart
             s == launcher.status
  <1>1. n \in Hart /\ n \in Nat /\ s \in 0..255
    BY HartFacts DEF TypeOK, LauncherType
  <1>2. \A h \in Hart : h < n + 1 <=> h < n \/ h = n
    BY <1>1, HartFacts
  <1>3. \A h \in Hart : h < n + 1 => task[h] = "done"
    BY <1>2 DEF FirstFailure
  <1>4. CASE \A h \in Hart : h < n => rc[h] = 0
    <2>1. s = 0
      BY <1>4 DEF FirstFailure
    <2>2. CASE rc[n] = 0
      BY <1>2, <1>3, <1>4, <2>1, <2>2 DEF FirstFailure
    <2>3. CASE rc[n] # 0
      BY <1>1, <1>2, <1>3, <1>4, <2>1, <2>3 DEF FirstFailure
    <2> QED BY <2>2, <2>3
  <1>5. CASE ~(\A h \in Hart : h < n => rc[h] = 0)
    <2>1. PICK h \in Hart : /\ h < n /\ rc[h] # 0 /\ s = rc[h]
                            /\ \A g \in Hart : g < h => rc[g] = 0
      BY <1>5 DEF FirstFailure
    <2> QED BY <1>2, <1>3, <2>1 DEF FirstFailure
  <1> QED BY <1>4, <1>5

-----------------------------------------------------------------------------
(* Type correctness *)

LEMMA RunStatusType ==
    ASSUME NEW m, NEW c \in 0..255
    PROVE  RunStatus(m, c) \in 0..255
  BY DEF RunStatus

LEMMA AfterWaitType ==
    ASSUME launcher \in LauncherType, NEW s \in 0..255
    PROVE  AfterWait(s) \in LauncherType
  <1>1. CASE launcher.hart = HARTS - 1
    BY <1>1 DEF AfterWait, LauncherType
  <1>2. CASE launcher.hart # HARTS - 1
    BY <1>2, NextHart DEF AfterWait, LauncherType
  <1> QED BY <1>1, <1>2

LEMMA TypeStep ==
    TypeOK /\ [Next]_vars => TypeOK'
  <1> SUFFICES ASSUME TypeOK, [Next]_vars
               PROVE  TypeOK'
    OBVIOUS
  <1>1. CASE Preflight
    <2>1. QemuFailures \subseteq 0..255
      BY CodesAssumption
    <2>2. verdict' \in 0..255
      <3>1. verdict' = verdict \/ verdict' \in {2} \cup QemuFailures
        BY <1>1 DEF Preflight
      <3>2. verdict \in 0..255 /\ 2 \in 0..255
        BY DEF TypeOK
      <3> QED BY <2>1, <3>1, <3>2
    <2>3. script' \in {"running", "done"} /\ machine' \in {"off", "up", "good", "bad"}
      BY <1>1 DEF Preflight, TypeOK
    <2> QED BY <1>1, <2>2, <2>3 DEF Preflight, TypeOK
  <1>2. CASE Launch
    <2>1. task' \in [Hart -> Stages]
      BY <1>2 DEF Launch, TypeOK, Stages
    <2>2. CASE launcher.hart = HARTS - 1
      <3>1. launcher' = [launcher EXCEPT !.at = "wait", !.hart = 0]
        BY <1>2, <2>2 DEF Launch
      <3>2. launcher' \in LauncherType
        BY <3>1, HartFacts DEF TypeOK, LauncherType
      <3> QED BY <1>2, <2>1, <3>2 DEF Launch, TypeOK
    <2>3. CASE launcher.hart # HARTS - 1
      <3>1. launcher' = [launcher EXCEPT !.hart = @ + 1]
        BY <1>2, <2>3 DEF Launch
      <3>2. launcher' \in LauncherType
        BY <2>3, <3>1, NextHart DEF TypeOK, LauncherType
      <3> QED BY <1>2, <2>1, <3>2 DEF Launch, TypeOK
    <2> QED BY <2>2, <2>3
  <1>3. ASSUME NEW h \in Hart, NEW c \in 0..255, EndTask(h, c)
        PROVE  TypeOK'
    BY <1>3 DEF EndTask, TypeOK, Stages
  <1>4. ASSUME NEW h \in Hart, TaskStep(h)
        PROVE  TypeOK'
    <2>1. CASE TasksetFails(h)
      BY <2>1, <1>3 DEF TasksetFails
    <2>2. CASE Signal(h)
      BY <2>2 DEF Signal, SignalAt, StageAfter, TypeOK, Stages
    <2>3. ASSUME NEW c \in {0} \cup FailureCodes, CopyReturns(h, c)
          PROVE  TypeOK'
      BY SMTT(30), <2>3, CodesAssumption DEF CopyReturns, TypeOK, Stages
    <2>4. CASE TaskExits(h)
      BY ZenonT(60), <2>4, <1>3 DEF TaskExits, TypeOK
    <2> QED BY <1>4, <2>1, <2>2, <2>3, <2>4 DEF TaskStep
  <1>5. CASE Wait
    <2> DEFINE s == IF launcher.status = 0 THEN rc[launcher.hart] ELSE launcher.status
    <2>1. s \in 0..255
      BY DEF TypeOK, LauncherType
    <2>2. launcher' = AfterWait(s)
      BY <1>5 DEF Wait
    <2> HIDE DEF s
    <2>3. launcher' \in LauncherType
      BY <2>1, <2>2, AfterWaitType DEF TypeOK
    <2> QED BY <1>5, <2>3 DEF Wait, TypeOK
  <1>6. CASE FinalTrap
    <2>1. launcher' \in LauncherType
      BY <1>6 DEF FinalTrap, TypeOK, LauncherType
    <2> QED BY <1>6, <2>1 DEF FinalTrap, TypeOK
  <1>7. ASSUME NEW c \in {0} \cup QemuFailures, QemuExits(c)
        PROVE  TypeOK'
    BY <1>7, CodesAssumption DEF QemuExits, Messages, TypeOK
  <1>8. CASE Judge
    BY <1>8, RunStatusType DEF Judge, TypeOK
  <1>9. ASSUME NEW h \in Hart, NEW c \in FailureCodes, TaskDies(h, c)
        PROVE  TypeOK'
    <2>1. c \in 0..255
      BY CodesAssumption
    <2> QED BY <1>3, <1>9, <2>1 DEF TaskDies
  <1>10. CASE LauncherDies
    <2>1. launcher' \in LauncherType
      BY <1>10 DEF LauncherDies, TypeOK, LauncherType
    <2> QED BY <1>10, <2>1 DEF LauncherDies, TypeOK
  <1>11. CASE UNCHANGED vars
    BY <1>11 DEF vars, TypeOK
  <1> QED BY <1>1, <1>2, <1>4, <1>5, <1>6, <1>7, <1>8, <1>9, <1>10, <1>11
          DEF Next, Progress, Terminated

-----------------------------------------------------------------------------
(* The invariant is inductive *)

\* A step of one task disturbs nothing but that task.
OnlyTask(h) ==
    /\ Up
    /\ task[h] \notin {"none", "done"}
    /\ \A g \in Hart : g # h => /\ task'[g] = task[g]
                                /\ rc'[g] = rc[g]
                                /\ sent'[g] = sent[g]
    /\ UNCHANGED <<guest, launcher, machine, qemu, log, script, verdict>>

LEMMA TaskStepInvariant ==
    ASSUME IInv, TypeOK', NEW h \in Hart, OnlyTask(h), SentAt(h)'
    PROVE  IInv'
  <1>1. TaskInv'
    BY DEF IInv, TaskInv, SentAt, OnlyTask, Bindable
  <1>2. LaunchInv'
    BY DEF IInv, LaunchInv, OnlyTask
  <1>3. WaitInv'
    <2>1. ASSUME NEW n \in Nat, NEW s, FirstFailure(n, s)
          PROVE  FirstFailure(n, s)'
      BY <2>1, FirstFailureStable DEF IInv, OnlyTask
    <2>2. launcher.hart \in Nat /\ HARTS \in Nat
      BY HartFacts DEF IInv, TypeOK, LauncherType
    <2>3. launcher' = launcher
      BY DEF OnlyTask
    <2>4. CASE launcher.at = "wait"
      <3> DEFINE n == launcher.hart
                 s == launcher.status
      <3>1. FirstFailure(n, s)
        BY <2>4 DEF IInv, WaitInv
      <3>2. n' = n /\ s' = s
        BY <2>3
      <3> QED BY <2>1, <2>2, <2>3, <2>4, <3>1 DEF WaitInv, FirstFailure
    <2>5. CASE launcher.at \in {"trap", "trapped"}
      BY <2>1, <2>2, <2>3, <2>5 DEF IInv, WaitInv, FirstFailure
    <2> QED BY <2>3, <2>4, <2>5 DEF WaitInv
  <1>4. MachineInv' /\ VerdictInv'
    BY DEF IInv, MachineInv, VerdictInv, OnlyTask, Messages
  <1> QED BY <1>1, <1>2, <1>3, <1>4 DEF IInv

\* Steps that change no task keep what is known of the tasks.
LEMMA TasksKept ==
    ASSUME IInv, UNCHANGED <<guest, task, rc, sent>>
    PROVE  TaskInv'
  BY DEF IInv, TaskInv, SentAt, Bindable

LEMMA InvariantInit == Init => IInv
  <1> SUFFICES ASSUME Init
               PROVE  IInv
    OBVIOUS
  <1>1. TypeOK
    BY HartFacts DEF Init, TypeOK, Stages, LauncherType
  <1>2. TaskInv /\ LaunchInv
    BY DEF Init, TaskInv, SentAt, LaunchInv
  <1>3. WaitInv /\ MachineInv /\ VerdictInv
    BY DEF Init, WaitInv, MachineInv, VerdictInv, Messages
  <1> QED BY <1>1, <1>2, <1>3 DEF IInv

LEMMA InvariantStep ==
    IInv /\ [Next]_vars => IInv'
  <1> SUFFICES ASSUME IInv, [Next]_vars
               PROVE  IInv'
    OBVIOUS
  <1>0. TypeOK /\ TypeOK'
    BY TypeStep DEF IInv
  <1>1. CASE Preflight
    <2>1. TaskInv'
      BY <1>1, TasksKept DEF Preflight
    <2>2. LaunchInv' /\ WaitInv'
      BY <1>1 DEF IInv, LaunchInv, WaitInv, FirstFailure, Preflight
    <2>3. launcher.at # "trapped" /\ machine = "off" /\ log = {}
      BY <1>1 DEF IInv, MachineInv, Preflight
    <2>4. MachineInv'
      BY <1>1, <2>3 DEF MachineInv, Preflight
    <2>5. VerdictInv'
      <3>1. script' = "done" => verdict' # 0
        BY <1>1, CodesAssumption DEF Preflight
      <3>2. script' = "done" => machine' = "off"
        BY <1>1, <2>3 DEF Preflight
      <3> QED BY <1>1, <2>3, <3>1, <3>2 DEF VerdictInv, Preflight
    <2> QED BY <1>0, <2>1, <2>2, <2>4, <2>5 DEF IInv
  <1>2. CASE Launch
    <2> DEFINE k == launcher.hart
    <2>1. k \in Hart /\ task[k] = "none" /\ sent[k] = {}
      BY <1>0, <1>2, HartFacts
         DEF IInv, TypeOK, LauncherType, LaunchInv, TaskInv, SentAt, Launch
    <2>2. \A h \in Hart : task'[h] = IF h = k THEN "start" ELSE task[h]
      BY <1>0, <1>2, <2>1 DEF TypeOK, Launch
    <2>3. TaskInv'
      BY <1>2, <2>1, <2>2 DEF IInv, TaskInv, SentAt, Bindable, Launch
    <2>4. ASSUME k = HARTS - 1
          PROVE  launcher'.at = "wait" /\ LaunchInv' /\ WaitInv'
      <3>1. launcher' = [launcher EXCEPT !.at = "wait", !.hart = 0]
        BY <1>2, <2>4 DEF Launch
      <3>2. launcher'.at = "wait" /\ launcher'.hart = 0 /\ launcher'.status = launcher.status
        BY <1>0, <3>1 DEF TypeOK, LauncherType
      <3>3. launcher.status = 0
        BY <1>2 DEF IInv, LaunchInv, Launch
      <3> QED BY <3>2, <3>3, HartFacts DEF LaunchInv, WaitInv, FirstFailure
    <2>5. ASSUME k # HARTS - 1
          PROVE  launcher'.at = "launch" /\ LaunchInv' /\ WaitInv'
      <3>1. launcher' = [launcher EXCEPT !.hart = @ + 1]
        BY <1>2, <2>5 DEF Launch
      <3>2. launcher'.at = "launch" /\ launcher'.hart = k + 1 /\ launcher'.status = launcher.status
        BY ZenonT(60), <1>0, <1>2, <3>1 DEF TypeOK, LauncherType, Launch
      <3>3. k \in Nat /\ \A h \in Hart : h \in Nat
        BY <2>1, HartFacts
      <3>4. \A h \in Hart : h >= k + 1 => h >= k /\ h # k
        BY <3>3
      <3>5. launcher.status = 0 /\ \A h \in Hart : h >= k => task[h] = "none"
        BY <1>2 DEF IInv, LaunchInv, Launch
      <3>6. \A h \in Hart : h >= k + 1 => task'[h] = "none"
        BY <2>2, <3>4, <3>5
      <3>7. LaunchInv'
        BY <3>2, <3>5, <3>6 DEF LaunchInv
      <3> QED BY <3>2, <3>7 DEF WaitInv
    <2>6. launcher'.at # "trapped" /\ LaunchInv' /\ WaitInv'
      BY <2>4, <2>5
    <2>7. MachineInv' /\ VerdictInv'
      BY <1>2, <2>6 DEF IInv, MachineInv, VerdictInv, Messages, Launch, Up
    <2> QED BY <1>0, <2>3, <2>6, <2>7 DEF IInv
  <1>3. ASSUME NEW h \in Hart, TaskStep(h)
        PROVE  IInv'
    <2>1. CASE TasksetFails(h)
      <3>1. OnlyTask(h) /\ task'[h] = "done" /\ rc'[h] # 0
        BY <1>0, <2>1 DEF TasksetFails, EndTask, OnlyTask, TypeOK
      <3>2. SentAt(h)'
        BY <3>1 DEF SentAt
      <3> QED BY <1>0, <3>1, <3>2, TaskStepInvariant
    <2>2. CASE Signal(h)
      <3>1. OnlyTask(h)
        BY <1>0, <2>2 DEF Signal, SignalAt, OnlyTask, TypeOK
      <3>2. SentAt(h)
        BY DEF IInv, TaskInv
      <3>3. ASSUME task[h] = "start" PROVE SentAt(h)'
        <4>1. task'[h] = "notify" /\ sent'[h] = sent[h] \cup {256} /\ Bindable(h)'
          BY <1>0, <2>2, <3>3 DEF Signal, SignalAt, StageAfter, TypeOK, Bindable
        <4> QED BY <3>2, <3>3, <4>1 DEF SentAt
      <3>4. ASSUME task[h] = "notify" PROVE SentAt(h)'
        <4>1. task'[h] = "running" /\ sent'[h] = sent[h] \cup {257} /\ guest' = guest
          BY <1>0, <2>2, <3>4 DEF Signal, SignalAt, StageAfter, TypeOK
        <4> QED BY <3>2, <3>4, <4>1 DEF SentAt, Bindable
      <3>5. ASSUME task[h] = "ending" PROVE SentAt(h)'
        <4>1. task'[h] = "exiting" /\ sent'[h] = sent[h] \cup {258} /\ guest' = guest
          BY <1>0, <2>2, <3>5 DEF Signal, SignalAt, StageAfter, TypeOK
        <4> QED BY <3>2, <3>5, <4>1 DEF SentAt, Bindable
      <3>6. SentAt(h)'
        BY <2>2, <3>3, <3>4, <3>5 DEF Signal, SignalAt
      <3> QED BY <1>0, <3>1, <3>6, TaskStepInvariant
    <2>3. ASSUME NEW c \in {0} \cup FailureCodes, CopyReturns(h, c)
          PROVE  IInv'
      <3>1. OnlyTask(h) /\ task'[h] = "ending" /\ sent'[h] = sent[h] /\ guest' = guest
        BY <1>0, <2>3 DEF CopyReturns, OnlyTask, TypeOK
      <3>2. SentAt(h)'
        BY <2>3, <3>1 DEF IInv, TaskInv, SentAt, Bindable, CopyReturns
      <3> QED BY <1>0, <3>1, <3>2, TaskStepInvariant
    <2>4. CASE TaskExits(h)
      <3>1. OnlyTask(h) /\ task'[h] = "done" /\ sent'[h] = sent[h] /\ guest' = guest
        BY <1>0, <2>4 DEF TaskExits, EndTask, OnlyTask, TypeOK
      <3>2. SentAt(h)'
        BY <2>4, <3>1 DEF IInv, TaskInv, SentAt, Bindable, TaskExits
      <3> QED BY <1>0, <3>1, <3>2, TaskStepInvariant
    <2> QED BY <1>3, <2>1, <2>2, <2>3, <2>4 DEF TaskStep
  <1>4. CASE Wait
    <2> DEFINE k == launcher.hart
               s == IF launcher.status = 0 THEN rc[k] ELSE launcher.status
    <2>1. k \in Hart /\ k \in Nat /\ s \in 0..255
      BY ZenonT(60), <1>0, HartFacts DEF TypeOK, LauncherType
    <2>2. launcher' = AfterWait(s)
      BY <1>4 DEF Wait
    <2>3. FirstFailure(k + 1, s)
      BY <1>0, <1>4, FirstFailureExtended DEF IInv, WaitInv, Wait
    <2> HIDE DEF s
    <2>4. TaskInv'
      BY <1>4, TasksKept DEF Wait
    <2>5. ASSUME k = HARTS - 1
          PROVE  launcher'.at = "trap" /\ LaunchInv' /\ WaitInv'
      <3>1. launcher'.at = "trap" /\ launcher'.status = s
        BY <1>0, <2>2, <2>5 DEF AfterWait, TypeOK, LauncherType
      <3>2. k + 1 = HARTS
        BY <2>5, HartFacts
      <3>3. FirstFailure(HARTS, s)
        BY <2>3, <3>2 DEF s
      <3> QED BY <1>4, <3>1, <3>3 DEF WaitInv, LaunchInv, FirstFailure, Wait
    <2>6. ASSUME k # HARTS - 1
          PROVE  launcher'.at = "wait" /\ LaunchInv' /\ WaitInv'
      <3>1. launcher'.at = "wait" /\ launcher'.status = s /\ launcher'.hart = k + 1
        <4>1. launcher' = [launcher EXCEPT !.hart = @ + 1, !.status = s]
          BY <2>2, <2>6 DEF AfterWait
        <4>2. launcher.at = "wait"
          BY <1>4 DEF Wait
        <4> QED BY <1>0, <4>1, <4>2 DEF TypeOK, LauncherType
      <3>2. FirstFailure(k + 1, s)
        BY <2>3 DEF s
      <3> QED BY <1>4, <3>1, <3>2 DEF WaitInv, LaunchInv, FirstFailure, Wait
    <2>7. launcher'.at # "trapped" /\ LaunchInv' /\ WaitInv'
      BY <2>5, <2>6
    <2>8. MachineInv' /\ VerdictInv'
      BY <1>4, <2>7 DEF IInv, MachineInv, VerdictInv, Messages, Wait, Up
    <2> QED BY <1>0, <2>4, <2>7, <2>8 DEF IInv
  <1>5. CASE FinalTrap
    <2>1. TaskInv'
      BY <1>5, TasksKept DEF FinalTrap
    <2>2. launcher'.at = "trapped" /\ launcher'.status = launcher.status
      BY <1>0, <1>5 DEF FinalTrap, TypeOK, LauncherType
    <2>3. LaunchInv' /\ WaitInv'
      BY <1>5, <2>2 DEF IInv, LaunchInv, WaitInv, FirstFailure, FinalTrap
    <2>4. MachineInv' /\ VerdictInv'
      BY <1>5, <2>2 DEF IInv, MachineInv, VerdictInv, Messages, FinalTrap, Up
    <2> QED BY <1>0, <2>1, <2>3, <2>4 DEF IInv
  <1>6. ASSUME NEW c \in {0} \cup QemuFailures, QemuExits(c)
        PROVE  IInv'
    <2>1. TaskInv'
      BY <1>6, TasksKept DEF QemuExits
    <2>2. LaunchInv' /\ WaitInv'
      BY <1>6 DEF IInv, LaunchInv, WaitInv, FirstFailure, QemuExits
    <2>3. Messages' = Messages /\ log' \subseteq Messages
      BY <1>6 DEF QemuExits, Messages
    <2>4. MachineInv' /\ VerdictInv'
      BY <1>6, <2>3 DEF IInv, MachineInv, VerdictInv, QemuExits
    <2> QED BY <1>0, <2>1, <2>2, <2>4 DEF IInv
  <1>7. CASE Judge
    <2>1. TaskInv'
      BY <1>7, TasksKept DEF Judge
    <2>2. LaunchInv' /\ WaitInv'
      BY <1>7 DEF IInv, LaunchInv, WaitInv, FirstFailure, Judge
    <2>3. RunStatus(log, qemu) = 0 => "GOOD" \in log
      BY DEF RunStatus
    <2>4. MachineInv' /\ VerdictInv'
      BY <1>7, <2>3 DEF IInv, MachineInv, VerdictInv, Messages, RunStatus, Judge
    <2> QED BY <1>0, <2>1, <2>2, <2>4 DEF IInv
  <1>8. ASSUME NEW h \in Hart, NEW c \in FailureCodes, TaskDies(h, c)
        PROVE  IInv'
    <2>1. OnlyTask(h) /\ task'[h] = "done" /\ rc'[h] # 0
      BY <1>0, <1>8, CodesAssumption DEF TaskDies, EndTask, OnlyTask, TypeOK
    <2>2. SentAt(h)'
      BY <2>1 DEF SentAt
    <2> QED BY <1>0, <2>1, <2>2, TaskStepInvariant
  <1>9. CASE LauncherDies
    <2>1. TaskInv'
      BY <1>9, TasksKept DEF LauncherDies
    <2>2. launcher'.at = "dead"
      BY <1>0, <1>9 DEF LauncherDies, TypeOK, LauncherType
    <2>3. LaunchInv' /\ WaitInv'
      BY <2>2 DEF LaunchInv, WaitInv
    <2>4. MachineInv' /\ VerdictInv'
      BY <1>9, <2>2 DEF IInv, MachineInv, VerdictInv, Messages, LauncherDies, Up
    <2> QED BY <1>0, <2>1, <2>3, <2>4 DEF IInv
  <1>10. CASE UNCHANGED vars
    BY <1>0, <1>10 DEF IInv, TaskInv, SentAt, Bindable, LaunchInv, WaitInv,
       FirstFailure, MachineInv, VerdictInv, Messages, RunStatus, vars
  <1> QED BY <1>1, <1>2, <1>3, <1>4, <1>5, <1>6, <1>7, <1>8, <1>9, <1>10
          DEF Next, Progress, Terminated

LEMMA InductiveInvariant == Spec => []IInv
  <1>1. Init => IInv
    BY InvariantInit
  <1>2. IInv /\ [Next]_vars => IInv'
    BY InvariantStep
  <1> QED BY <1>1, <1>2, PTL DEF Spec

-----------------------------------------------------------------------------
(* The results *)

\* The state of a run stays in its types.
THEOREM TypeCorrect == Spec => []TypeOK
  <1>1. IInv => TypeOK
    BY DEF IInv
  <1> QED BY <1>1, InductiveInvariant, PTL

\* A message of a good trap in the log means that the launcher found every
\* task ended with 0.
LEMMA GoodTrap ==
    ASSUME IInv, "GOOD" \in log
    PROVE  \A h \in Hart : task[h] = "done" /\ rc[h] = 0
  <1>1. machine = "good"
    BY DEF IInv, VerdictInv, Messages
  <1>2. launcher.at = "trapped" /\ launcher.status = 0
    BY <1>1 DEF IInv, MachineInv
  <1>3. FirstFailure(HARTS, 0)
    BY <1>2 DEF IInv, WaitInv
  <1> QED BY <1>3, HartFacts DEF FirstFailure

\* run-qemu.sh exits 0 only when every hart's copy ran and returned 0.
THEOREM VerdictSound == Spec => []PassMeansEveryCopyPassed
  <1>1. IInv => PassMeansEveryCopyPassed
    <2> SUFFICES ASSUME IInv, script = "done", verdict = 0, NEW h \in Hart
                 PROVE  /\ task[h] = "done" /\ rc[h] = 0
                        /\ sent[h] = {256, 257, 258}
                        /\ Bindable(h)
      BY DEF PassMeansEveryCopyPassed
    <2>1. "GOOD" \in log
      BY DEF IInv, VerdictInv
    <2>2. task[h] = "done" /\ rc[h] = 0
      BY <2>1, GoodTrap
    <2> QED BY <2>2 DEF IInv, TaskInv, SentAt
  <1> QED BY <1>1, InductiveInvariant, PTL

\* The status of the final trap is that of the lowest-numbered failing hart.
THEOREM LauncherReportsFirstFailure == Spec => []FirstFailureReported
  <1>1. IInv => FirstFailureReported
    BY HartFacts DEF IInv, WaitInv, FirstFailure, FirstFailureReported
  <1> QED BY <1>1, InductiveInvariant, PTL

\* A run in which nothing failed passes.
THEOREM NoFalseAlarm == Spec => []CleanRunPasses
  <1>1. IInv => CleanRunPasses
    <2> SUFFICES ASSUME IInv, script = "done", launcher.at = "trapped",
                        \A h \in Hart : rc[h] = 0, qemu = 0, log # {}
                 PROVE  verdict = 0
      BY DEF CleanRunPasses
    <2>1. launcher.status = 0
      BY HartFacts DEF IInv, WaitInv, FirstFailure
    <2>2. machine = "good"
      BY <2>1 DEF IInv, MachineInv
    <2>3. log = {"GOOD"}
      BY <2>2 DEF IInv, VerdictInv, Messages
    <2> QED BY <2>2, <2>3 DEF IInv, VerdictInv, RunStatus
  <1> QED BY <1>1, InductiveInvariant, PTL

-----------------------------------------------------------------------------
(* The run implements its contract *)

\* The result of a task, as the contract sees it.
Result(h) == IF task[h] # "done" THEN "pending"
             ELSE IF rc[h] = 0 THEN "ok" ELSE "failed"

Outcome == IF script # "done" THEN "none"
           ELSE IF verdict = 0 THEN "pass" ELSE "fail"

\* The refinement mapping, by its parts.
LEMMA ContractNext ==
    Contract!Next <=>
        \/ \E h \in Hart :
             /\ Outcome = "none"
             /\ Result(h) = "pending"
             /\ \E r \in {"ok", "failed"} :
                  [g \in Hart |-> Result(g)]' =
                      [[g \in Hart |-> Result(g)] EXCEPT ![h] = r]
             /\ UNCHANGED Outcome
        \/ /\ Outcome = "none"
           /\ \A h \in Hart : Result(h) = "ok"
           /\ Outcome' = "pass"
           /\ UNCHANGED [g \in Hart |-> Result(g)]
        \/ /\ Outcome = "none"
           /\ Outcome' = "fail"
           /\ UNCHANGED [g \in Hart |-> Result(g)]
  BY DEF Contract!Next, Contract!Finish, Contract!Pass, Contract!Fail, Result, Outcome

LEMMA ContractStutters ==
    ASSUME UNCHANGED Outcome, \A g \in Hart : Result(g)' = Result(g)
    PROVE  UNCHANGED Contract!vars
  BY DEF Contract!vars, Result, Outcome

\* A task that ends is a Finish of the contract.
LEMMA TaskEndFinishes ==
    ASSUME TypeOK, NEW h \in Hart, OnlyTask(h), task'[h] = "done"
    PROVE  Contract!Next
  <1> DEFINE r == IF rc'[h] = 0 THEN "ok" ELSE "failed"
  <1>1. Outcome = "none" /\ UNCHANGED Outcome
    BY DEF OnlyTask, Up, Outcome
  <1>2. Result(h) = "pending"
    BY DEF OnlyTask, Result
  <1>3. Result(h)' = r /\ r \in {"ok", "failed"}
    BY DEF Result
  <1>4. \A g \in Hart : g # h => Result(g)' = Result(g)
    BY DEF OnlyTask, Result
  <1> HIDE DEF r
  <1>5. [g \in Hart |-> Result(g)]' = [[g \in Hart |-> Result(g)] EXCEPT ![h] = r]
    <2>1. [g \in Hart |-> Result(g)]' = [g \in Hart |-> Result(g)']
      OBVIOUS
    <2>2. \A g \in Hart : Result(g)' = IF g = h THEN r ELSE Result(g)
      BY <1>3, <1>4
    <2> QED BY <2>1, <2>2
  <1> QED BY <1>1, <1>2, <1>3, <1>5, ContractNext

\* Any other step of a task is not seen by the contract.
LEMMA TaskStepStutters ==
    ASSUME TypeOK, NEW h \in Hart, OnlyTask(h), task'[h] # "done"
    PROVE  UNCHANGED Contract!vars
  <1>1. UNCHANGED Outcome
    BY DEF OnlyTask, Outcome
  <1>2. \A g \in Hart : Result(g)' = Result(g)
    BY DEF OnlyTask, Result
  <1> QED BY <1>1, <1>2, ContractStutters

LEMMA ContractStep ==
    IInv /\ [Next]_vars => [Contract!Next]_(Contract!vars)
  <1> SUFFICES ASSUME IInv, [Next]_vars
               PROVE  [Contract!Next]_(Contract!vars)
    OBVIOUS
  <1>0. TypeOK
    BY DEF IInv
  <1>1. CASE Preflight
    <2>1. \A g \in Hart : Result(g)' = Result(g)
      BY <1>1 DEF Preflight, Result
    <2>2. CASE script' = "running"
      BY <1>1, <2>1, <2>2, ContractStutters DEF Preflight, Outcome
    <2>3. CASE script' = "done" /\ verdict' \in {2} \cup QemuFailures
      <3>1. Outcome = "none" /\ Outcome' = "fail"
        BY <1>1, <2>3, CodesAssumption DEF Preflight, Outcome
      <3> QED BY <2>1, <3>1, ContractNext
    <2> QED BY <1>1, <2>2, <2>3 DEF Preflight
  <1>2. CASE Launch
    <2> DEFINE k == launcher.hart
    <2>1. k \in Hart /\ task[k] = "none"
      BY <1>0, <1>2, HartFacts DEF IInv, TypeOK, LauncherType, LaunchInv, Launch
    <2>2. \A g \in Hart : task'[g] = IF g = k THEN "start" ELSE task[g]
      BY <1>0, <1>2, <2>1 DEF TypeOK, Launch
    <2>3. \A g \in Hart : Result(g)' = Result(g)
      BY <1>2, <2>1, <2>2 DEF Launch, Result
    <2> QED BY <1>2, <2>3, ContractStutters DEF Launch, Outcome
  <1>3. ASSUME NEW h \in Hart, TaskStep(h)
        PROVE  [Contract!Next]_(Contract!vars)
    <2>1. CASE TasksetFails(h)
      <3>1. OnlyTask(h) /\ task'[h] = "done"
        BY <1>0, <2>1 DEF TasksetFails, EndTask, OnlyTask, TypeOK
      <3> QED BY <1>0, <3>1, TaskEndFinishes
    <2>2. CASE Signal(h)
      <3>1. OnlyTask(h) /\ task'[h] # "done"
        BY <1>0, <2>2 DEF Signal, SignalAt, StageAfter, OnlyTask, TypeOK
      <3> QED BY <1>0, <3>1, TaskStepStutters
    <2>3. ASSUME NEW c \in {0} \cup FailureCodes, CopyReturns(h, c)
          PROVE  [Contract!Next]_(Contract!vars)
      <3>1. OnlyTask(h) /\ task'[h] # "done"
        BY <1>0, <2>3 DEF CopyReturns, OnlyTask, TypeOK
      <3> QED BY <1>0, <3>1, TaskStepStutters
    <2>4. CASE TaskExits(h)
      <3>1. OnlyTask(h) /\ task'[h] = "done"
        BY <1>0, <2>4 DEF TaskExits, EndTask, OnlyTask, TypeOK
      <3> QED BY <1>0, <3>1, TaskEndFinishes
    <2> QED BY <1>3, <2>1, <2>2, <2>3, <2>4 DEF TaskStep
  <1>4. ASSUME NEW h \in Hart, NEW c \in FailureCodes, TaskDies(h, c)
        PROVE  [Contract!Next]_(Contract!vars)
    <2>1. OnlyTask(h) /\ task'[h] = "done"
      BY <1>0, <1>4 DEF TaskDies, EndTask, OnlyTask, TypeOK
    <2> QED BY <1>0, <2>1, TaskEndFinishes
  <1>5. ASSUME UNCHANGED <<task, rc, verdict>>, script # "done", script' # "done"
        PROVE  [Contract!Next]_(Contract!vars)
    BY <1>5, ContractStutters DEF Result, Outcome
  <1>6. CASE Wait \/ FinalTrap \/ LauncherDies
    BY <1>5, <1>6 DEF Wait, FinalTrap, LauncherDies, Up
  <1>7. ASSUME NEW c \in {0} \cup QemuFailures, QemuExits(c)
        PROVE  [Contract!Next]_(Contract!vars)
    BY <1>5, <1>7 DEF QemuExits
  <1>8. CASE Judge
    <2>1. Outcome = "none" /\ \A g \in Hart : Result(g)' = Result(g)
      BY <1>8 DEF Judge, Outcome, Result
    <2>2. CASE verdict' = 0
      <3>1. "GOOD" \in log
        BY <1>8, <2>2 DEF Judge, RunStatus
      <3>2. \A h \in Hart : Result(h) = "ok"
        BY <3>1, GoodTrap DEF Result
      <3>3. Outcome' = "pass"
        BY <1>8, <2>2 DEF Judge, Outcome
      <3> QED BY <2>1, <3>2, <3>3, ContractNext
    <2>3. CASE verdict' # 0
      <3>1. Outcome' = "fail"
        BY <1>8, <2>3 DEF Judge, Outcome
      <3> QED BY <2>1, <3>1, ContractNext
    <2> QED BY <2>2, <2>3
  <1>9. CASE UNCHANGED vars
    BY <1>9, ContractStutters DEF Result, Outcome, vars
  <1> QED BY <1>1, <1>2, <1>3, <1>4, <1>6, <1>7, <1>8, <1>9 DEF Next, Progress, Terminated

\* Whatever the number of harts, whatever is killed: what run-qemu.sh's exit
\* status says is what RunVerdict promises of it.
THEOREM RunImplementsContract == Spec => ImplementsContract
  <1>1. Init => Contract!Init
    BY DEF Init, Contract!Init
  <1>2. IInv /\ [Next]_vars => [Contract!Next]_(Contract!vars)
    BY ContractStep
  <1> QED BY <1>1, <1>2, InductiveInvariant, PTL
          DEF Spec, ImplementsContract, Contract!Spec

-----------------------------------------------------------------------------
(***************************************************************************)
(* The single-hart images of GuestRun: what the scripts of a guest send    *)
(* and stop with, for any exit codes and signals of their commands and any *)
(* number of parts of a graph.                                             *)
(***************************************************************************)

\* What is sent for each argument that a script gives.
LEMMA OneDigit == ASSUME NEW n \in 0..9 PROVE AtoiLite(<<n>>) = n
  <1> DEFINE arg == <<n>>
  <1> DEFINE ans == CHOOSE f : f = [i \in 0..1 |-> IF i = 0 THEN 0 ELSE f[i - 1] * 10 + 1 * arg[i]]
  <1> DEFINE g == [i \in 0..1 |-> IF i = 0 THEN 0 ELSE n]
  <1>1. Len(arg) = 1 /\ arg[1] # -3 /\ arg[1] = n
    OBVIOUS
  <1> HIDE DEF arg
  <1>2. g = [i \in 0..1 |-> IF i = 0 THEN 0 ELSE g[i - 1] * 10 + 1 * arg[i]]
    BY <1>1
  <1>3. ans = [i \in 0..1 |-> IF i = 0 THEN 0 ELSE ans[i - 1] * 10 + 1 * arg[i]]
    BY <1>2
  <1> HIDE DEF ans
  <1>4. ans[0] = 0 /\ ans[1] = ans[0] * 10 + n
    BY <1>1, <1>3
  <1>5. AtoiLite(arg) = ans[1]
    BY <1>1 DEF AtoiLite, Minus, ans
  <1> QED BY <1>4, <1>5 DEF arg

LEMMA ProfilerCode == ASSUME NEW n \in 0..9 PROVE AtoiLite(<<2, 5, n>>) = 250 + n
  <1> DEFINE arg == <<2, 5, n>>
  <1> DEFINE ans == CHOOSE f : f = [i \in 0..3 |-> IF i = 0 THEN 0 ELSE f[i - 1] * 10 + 1 * arg[i]]
  <1> DEFINE g == [i \in 0..3 |-> IF i = 0 THEN 0 ELSE IF i = 1 THEN 2
                                  ELSE IF i = 2 THEN 25 ELSE 250 + n]
  <1>1. Len(arg) = 3 /\ arg[1] # -3 /\ arg[1] = 2 /\ arg[2] = 5 /\ arg[3] = n
    OBVIOUS
  <1> HIDE DEF arg
  <1>2. g = [i \in 0..3 |-> IF i = 0 THEN 0 ELSE g[i - 1] * 10 + 1 * arg[i]]
    BY <1>1
  <1>3. ans = [i \in 0..3 |-> IF i = 0 THEN 0 ELSE ans[i - 1] * 10 + 1 * arg[i]]
    BY <1>2
  <1> HIDE DEF ans
  <1>4. ans[0] = 0 /\ ans[1] = ans[0] * 10 + 2 /\ ans[2] = ans[1] * 10 + 5 /\ ans[3] = ans[2] * 10 + n
    BY <1>1, <1>3
  <1>5. AtoiLite(arg) = ans[3]
    BY <1>1 DEF AtoiLite, Minus, ans
  <1> QED BY <1>4, <1>5 DEF arg

\* inittab's nemu-trap -1 sends 29.
LEMMA MinusOne == AtoiLite(NegArg(<<1>>)) = 29
  <1> DEFINE arg == NegArg(<<1>>)
  <1> DEFINE ans == CHOOSE f : f = [i \in 0..2 |-> IF i = 0 THEN 0 ELSE f[i - 1] * 10 + (-1) * arg[i]]
  <1> DEFINE g == [i \in 0..2 |-> IF i = 0 THEN 0 ELSE IF i = 1 THEN 3 ELSE 29]
  <1>1. Len(arg) = 2 /\ arg[1] = -3 /\ arg[2] = 1
    BY DEF NegArg, Minus
  <1> HIDE DEF arg
  <1>2. g = [i \in 0..2 |-> IF i = 0 THEN 0 ELSE g[i - 1] * 10 + (-1) * arg[i]]
    BY <1>1
  <1>3. ans = [i \in 0..2 |-> IF i = 0 THEN 0 ELSE ans[i - 1] * 10 + (-1) * arg[i]]
    BY <1>2
  <1> HIDE DEF ans
  <1>4. ans[0] = 0 /\ ans[1] = ans[0] * 10 + 3 /\ ans[2] = ans[1] * 10 - 1
    BY <1>1, <1>3
  <1>5. AtoiLite(arg) = ans[2]
    BY <1>1 DEF AtoiLite, Minus, ans
  <1> QED BY <1>4, <1>5 DEF arg

LEMMA TrapCodes ==
    /\ TrapCode(<<>>) = 0
    /\ TrapCode(Arg(<<0>>)) = 0 /\ TrapCode(Arg(<<1>>)) = 1
    /\ TrapCode(Arg(<<2, 5, 6>>)) = 256 /\ TrapCode(Arg(<<2, 5, 7>>)) = 257
    /\ TrapCode(NegArg(<<1>>)) = 29
  <1>1. TrapCode(<<>>) = 0
    BY DEF TrapCode
  <1>2. \A n \in 0..9 : <<n>> # <<>>
    OBVIOUS
  <1>3. \A n \in 0..9 : <<2, 5, n>> # <<>>
    OBVIOUS
  <1>4. NegArg(<<1>>) # <<>>
    <2>1. Len(NegArg(<<1>>)) = 2
      BY DEF NegArg, Minus
    <2> QED BY <2>1
  <1>5. \A n \in 0..9 : TrapCode(Arg(<<n>>)) = n
    BY <1>2, OneDigit DEF TrapCode, Arg
  <1>6. \A n \in 0..9 : TrapCode(Arg(<<2, 5, n>>)) = 250 + n
    BY <1>3, ProfilerCode DEF TrapCode, Arg
  <1>7. TrapCode(NegArg(<<1>>)) = 29
    BY <1>4, MinusOne DEF TrapCode
  <1>8. TrapCode(Arg(<<2, 5, 6>>)) = 256 /\ TrapCode(Arg(<<2, 5, 7>>)) = 257
    BY SMTT(30), <1>6
  <1> QED BY <1>1, <1>5, <1>7, <1>8

WaitStatus == Outcomes \cup {0, 256}

\* Status 0 is success, and no shell sends a code of the profiler.
LEMMA ShellStatusJudges ==
    ASSUME NEW raw \in WaitStatus
    PROVE  ShellStatus(raw) \in 0..255 /\ (ShellStatus(raw) = 0 <=> raw = 0)
  <1>1. CASE raw \in Signals
    BY <1>1, OutcomesAssumption DEF ShellStatus
  <1>2. ASSUME NEW c \in 0..255, raw = 256 * c
        PROVE ShellStatus(raw) \in 0..255 /\ (ShellStatus(raw) = 0 <=> raw = 0)
    <2>1. raw % 256 = 0
      BY <1>2
    <2>2. raw \div 256 = c
      BY <1>2
    <2> QED BY <2>1, <2>2, <1>2 DEF ShellStatus
  <1>3. raw \in Signals \/ \E c \in 0..255 : raw = 256 * c
    <2>1. 0 = 256 * 0 /\ 256 = 256 * 1
      OBVIOUS
    <2> QED BY <2>1, OutcomesAssumption DEF Outcomes, WaitStatus
  <1> QED BY <1>1, <1>2, <1>3

\* nemu-exec sends what wait reports, of which only exit status 1 is a code of
\* the profiler.
LEMMA RawStatus ==
    ASSUME NEW raw \in WaitStatus
    PROVE  raw \in Int /\ raw \notin {257, 258}
  <1>1. CASE raw \in Signals
    BY <1>1, OutcomesAssumption
  <1>2. ASSUME NEW c \in 0..255, raw = 256 * c PROVE raw \in Int /\ raw \notin {257, 258}
    BY <1>2
  <1> QED BY <1>1, <1>2, OutcomesAssumption DEF Outcomes, WaitStatus

-----------------------------------------------------------------------------
\* The scripts.
Does(i, when, op, arg) == program.steps[i] = Step(when, op, arg)

IsProgram(name, length, first, outer) ==
    /\ program.name = name /\ Len(program.steps) = length
    /\ program.first = first /\ program.outer = outer

Announces(i) ==
    Does(i, "always", "trap", Arg(<<2, 5, 6>>)) /\ Does(i + 1, "always", "trap", Arg(<<2, 5, 7>>))

IsNemuExec ==
    /\ IsProgram("nemu-exec", 4, 1, 5) /\ Announces(1)
    /\ Does(3, "always", "run", <<>>) /\ Does(4, "always", "trapRaw", <<>>)

IsGapbs ==
    /\ IsProgram("gapbs", 5, 1, 6) /\ Announces(1)
    /\ Does(3, "always", "fifo", <<>>) /\ Does(4, "ok", "run", <<>>) /\ Does(5, "always", "trapRaw", <<>>)

IsCoremarkPro ==
    /\ IsProgram("coremark-pro", 8, 3, 8) /\ Announces(1)
    /\ Does(3, "always", "run", <<>>) /\ Does(4, "failed", "trapStatus", <<>>)
    /\ Does(5, "always", "run", <<>>) /\ Does(6, "failed", "trapStatus", <<>>)
    /\ Does(7, "always", "trap", <<>>) /\ Does(8, "always", "trap", NegArg(<<1>>))

IsRvvBench ==
    /\ IsProgram("rvv-bench", 8, 3, 8) /\ Announces(1)
    /\ Does(3, "always", "run", <<>>) /\ Does(4, "failed", "trap", Arg(<<1>>))
    /\ Does(5, "always", "run", <<>>) /\ Does(6, "failed", "trap", Arg(<<1>>))
    /\ Does(7, "always", "trap", <<>>) /\ Does(8, "always", "trap", NegArg(<<1>>))

IsSpec2017 ==
    /\ IsProgram("spec2017", 6, 1, 7)
    /\ Does(1, "ok", "run", <<>>)
    /\ Does(2, "ok", "trap", Arg(<<2, 5, 6>>)) /\ Does(3, "ok", "trap", Arg(<<2, 5, 7>>))
    /\ Does(4, "ok", "run", <<>>) /\ Does(5, "ok", "run", <<>>) /\ Does(6, "always", "trapStatus", <<>>)

IsGeekbench ==
    /\ IsProgram("geekbench", 5, 3, 5) /\ Announces(1)
    /\ Does(3, "always", "run", <<>>) /\ Does(4, "always", "trap", Arg(<<0>>))
    /\ Does(5, "always", "trap", NegArg(<<1>>))

IsKvmtool ==
    /\ IsProgram("kvmtool", 2, 1, 3)
    /\ Does(1, "always", "piped", <<>>) /\ Does(2, "always", "trapStatus", <<>>)

IsLitmus ==
    /\ IsProgram("litmus", 3, 1, 3)
    /\ Does(1, "always", "piped", <<>>) /\ Does(2, "always", "trap", <<>>)
    /\ Does(3, "always", "trap", NegArg(<<1>>))

LEMMA Scripts ==
    ASSUME program \in AllPrograms
    PROVE  \/ IsNemuExec \/ IsGapbs \/ IsCoremarkPro \/ IsRvvBench
           \/ IsSpec2017 \/ IsGeekbench \/ IsKvmtool \/ IsLitmus
  <1> USE DEF IsProgram, Does, Announces, Program, Profile, Wrapped, Run, Trap, TrapStatus, PipedRun
  <1>1. CASE program = NemuExec
    BY <1>1 DEF NemuExec, IsNemuExec
  <1>2. CASE program = Gapbs
    BY <1>2 DEF Gapbs, IsGapbs
  <1>3. CASE program = CoremarkPro
    BY <1>3 DEF CoremarkPro, IsCoremarkPro
  <1>4. CASE program = RvvBench
    BY <1>4 DEF RvvBench, IsRvvBench
  <1>5. CASE program = Spec2017
    BY <1>5 DEF Spec2017, IsSpec2017
  <1>6. CASE program = Geekbench
    BY <1>6 DEF Geekbench, IsGeekbench
  <1>7. CASE program = Kvmtool
    BY <1>7 DEF Kvmtool, IsKvmtool
  <1>8. CASE program = Litmus
    BY <1>8 DEF Litmus, IsLitmus
  <1> QED BY <1>1, <1>2, <1>3, <1>4, <1>5, <1>6, <1>7, <1>8 DEF AllPrograms

LEMMA CommandsCounted ==
    /\ IsNemuExec \/ IsGapbs \/ IsGeekbench \/ IsKvmtool \/ IsLitmus => Commands = 1
    /\ IsCoremarkPro \/ IsRvvBench => Commands = 2
    /\ IsSpec2017 => Commands = 3
  <1> DEFINE C == {i \in 1..Len(program.steps) : program.steps[i].op \in {"run", "piped"}}
  <1> USE DEF IsProgram, Does, Announces, Step
  <1>1. \A i \in Int : IsFiniteSet({i}) /\ Cardinality({i}) = 1
    BY FS_Singleton
  <1>2. \A i, j \in Int : i # j => IsFiniteSet({i, j}) /\ Cardinality({i, j}) = 2
    <2> SUFFICES ASSUME NEW i \in Int, NEW j \in Int, i # j
                 PROVE  IsFiniteSet({i, j}) /\ Cardinality({i, j}) = 2
      OBVIOUS
    <2>1. {i, j} = {i} \cup {j} /\ j \notin {i}
      OBVIOUS
    <2>2. /\ IsFiniteSet({i} \cup {j})
          /\ Cardinality({i} \cup {j}) = IF j \in {i} THEN Cardinality({i}) ELSE Cardinality({i}) + 1
      BY <1>1, FS_AddElement
    <2> QED BY <1>1, <2>1, <2>2
  <1>3. Cardinality({1, 4, 5}) = 3
    <2>1. {1, 4, 5} = {4, 5} \cup {1}
      OBVIOUS
    <2>2. IsFiniteSet({4, 5}) /\ Cardinality({4, 5}) = 2
      BY <1>2
    <2>3. Cardinality({4, 5} \cup {1}) = IF 1 \in {4, 5} THEN Cardinality({4, 5}) ELSE Cardinality({4, 5}) + 1
      BY <2>2, FS_AddElement
    <2> QED BY <2>1, <2>2, <2>3
  <1>4. IsNemuExec \/ IsGeekbench => C = {3}
    <2>1. IsNemuExec => C = {3}
      BY DEF IsNemuExec
    <2>2. IsGeekbench => C = {3}
      BY DEF IsGeekbench
    <2> QED BY <2>1, <2>2
  <1>5. IsGapbs => C = {4}
    BY DEF IsGapbs
  <1>6. IsKvmtool \/ IsLitmus => C = {1}
    BY DEF IsKvmtool, IsLitmus
  <1>7. IsCoremarkPro \/ IsRvvBench => C = {3, 5}
    <2>1. IsCoremarkPro => C = {3, 5}
      BY DEF IsCoremarkPro
    <2>2. IsRvvBench => C = {3, 5}
      BY DEF IsRvvBench
    <2> QED BY <2>1, <2>2
  <1>8. IsSpec2017 => C = {1, 4, 5}
    BY DEF IsSpec2017
  <1>9. Commands = Cardinality(C)
    BY DEF Commands
  <1>10. Cardinality({1}) = 1 /\ Cardinality({3}) = 1 /\ Cardinality({4}) = 1
    BY <1>1
  <1>11. Cardinality({3, 5}) = 2
    BY <1>2
  <1> HIDE DEF C
  <1> QED BY <1>10, <1>11, <1>1, <1>2, <1>3, <1>4, <1>5, <1>6, <1>7, <1>8, <1>9

-----------------------------------------------------------------------------
\* The inductive invariant: what is known of a script at each of its steps, as
\* long as it has not died.
Before == ran = 0 /\ status = 0 /\ failure = 0

\* What the profiler has been sent, by a script that announces at step k.
SentFrom(k) == codes = IF pc <= k THEN <<>> ELSE IF pc = k + 1 THEN <<256>> ELSE <<256, 257>>

Stopped == nemu = "stopped"

NemuExecSoFar ==
    /\ pc \in 1..5
    /\ pc < 5 \/ Stopped => SentFrom(1)
    /\ IF pc <= 3 THEN Before ELSE ran = 1 /\ status = failure
    /\ Stopped => (pc \in {1, 3} /\ code = -1) \/ (pc = 5 /\ code = status /\ status # 256)
    /\ pc = 5 /\ ~Stopped => status = 256 /\ codes = <<256, 257, 256>>

GapbsSoFar ==
    /\ pc \in 1..6
    /\ pc < 6 \/ Stopped => SentFrom(1)
    /\ IF pc <= 3 THEN Before ELSE status = failure
    /\ pc = 4 => ran = 0
    /\ pc > 4 => ran = 1 \/ (failure # 0 /\ ran = 0)
    /\ Stopped => (pc \in {1, 3} /\ code = -1) \/ (pc = 6 /\ code = status /\ status # 256)
    /\ pc = 6 /\ ~Stopped => status = 256 /\ codes = <<256, 257, 256>>
    /\ pc >= 4 /\ status = 0 /\ writer = "none" => graph = 0
    /\ pc >= 5 /\ status = 0 => EndOfFile

\* Two commands, each followed by its trap if it fails; failed(c) says what
\* that one sends.
TwoCommands(failed(_)) ==
    /\ pc \in 1..8
    /\ SentFrom(1)
    /\ pc <= 3 => Before
    /\ pc > 3 => status = failure /\ ran = IF pc <= 5 THEN 1 ELSE 2
    /\ pc \in {5, 7} => (Stopped <=> failure # 0)
    /\ pc = 8 => Stopped /\ failure = 0 /\ code = 0
    /\ Stopped => pc \in {5, 7, 8} /\ (failure # 0 => failed(code))

CoremarkProSoFar == TwoCommands(LAMBDA c : c = ShellStatus(failure))

RvvBenchSoFar == TwoCommands(LAMBDA c : c = 1)

Spec2017SoFar ==
    /\ pc \in 1..7
    /\ status = failure
    /\ Stopped <=> pc = 7
    /\ Stopped => code = ShellStatus(status)
    /\ status = 0 => SentFrom(2) /\ ran = IF pc = 1 THEN 0 ELSE IF pc <= 4 THEN 1 ELSE IF pc = 5 THEN 2 ELSE 3
    /\ status # 0 => pc > 1 /\ ((codes = <<>> /\ ran = 1) \/ (codes = <<256, 257>> /\ ran \in {2, 3}))

GeekbenchSoFar ==
    /\ pc \in 1..5
    /\ SentFrom(1)
    /\ IF pc <= 3 THEN Before ELSE ran = 1
    /\ Stopped <=> pc = 5
    /\ Stopped => code = 0

KvmtoolSoFar == pc \in 1..3 /\ codes = <<>> /\ status = 0 /\ (Stopped <=> pc = 3) /\ (Stopped => code = 0)

LitmusSoFar == pc \in 1..3 /\ codes = <<>> /\ (Stopped <=> pc = 3) /\ (Stopped => code = 0)

SoFar ==
    /\ IsNemuExec => NemuExecSoFar
    /\ IsGapbs => GapbsSoFar
    /\ IsCoremarkPro => CoremarkProSoFar
    /\ IsRvvBench => RvvBenchSoFar
    /\ IsSpec2017 => Spec2017SoFar
    /\ IsGeekbench => GeekbenchSoFar
    /\ IsKvmtool => KvmtoolSoFar
    /\ IsLitmus => LitmusSoFar

\* A script that has died is left for inittab's trap, if there is one.
Left == pc >= program.outer /\ (Stopped => code = 29)

GuestTypes ==
    /\ program \in AllPrograms
    /\ pc \in Nat \ {0} /\ ran \in Nat
    /\ status \in WaitStatus /\ failure \in WaitStatus
    /\ nemu \in {"up", "stopped"} /\ died \in BOOLEAN

\* k parts are heard, and n sent.
Streamed(k, n) ==
    /\ heard = Graph(k)
    /\ pipe = IF k = n THEN <<>> ELSE <<n>>
    /\ k = n \/ n = k + 1
    /\ writer \in {"none", "open", "never"} => n = 0 /\ parts = 1..graph
    /\ writer = "open" => graph > 0
    /\ writer = "cat" => n < graph /\ parts = (n + 1)..graph
    /\ writer = "rm" => n > 0 /\ parts = n..graph
    /\ writer = "done" => n = graph /\ parts = {}

GraphSoFar ==
    /\ graph \in Nat
    /\ graph # 0 => IsGapbs
    /\ \E k \in 0..graph, n \in 0..graph : Streamed(k, n)
    /\ writer \in {"none", "open", "never", "cat", "rm", "done", "dead"}
    /\ ~IsGapbs \/ (~died /\ pc <= 3) => writer = "none"

GuestInv ==
    /\ GuestTypes
    /\ GraphSoFar
    /\ ~died => SoFar
    /\ died => Left
    /\ ProfiledCommandAnnounced

\* A script that is left is at inittab's trap, or past its end.
LEMMA Outers ==
    ASSUME program \in AllPrograms
    PROVE  /\ program.outer \in Nat /\ Len(program.steps) \in Nat
           /\ \/ program.outer = Len(program.steps) + 1
              \/ /\ program.outer = Len(program.steps)
                 /\ Does(program.outer, "always", "trap", NegArg(<<1>>))
           /\ program.name \in {"nemu-exec", "gapbs"} => program.outer \in {5, 6}
  <1> USE DEF IsProgram
  <1>0. CASE IsNemuExec
    BY <1>0 DEF IsNemuExec
  <1>1. CASE IsGapbs
    BY <1>1 DEF IsGapbs
  <1>2. CASE IsCoremarkPro
    BY <1>2 DEF IsCoremarkPro
  <1>3. CASE IsRvvBench
    BY <1>3 DEF IsRvvBench
  <1>4. CASE IsSpec2017
    BY <1>4 DEF IsSpec2017
  <1>5. CASE IsGeekbench
    BY <1>5 DEF IsGeekbench
  <1>6. CASE IsKvmtool
    BY <1>6 DEF IsKvmtool
  <1>7. CASE IsLitmus
    BY <1>7 DEF IsLitmus
  <1> QED BY <1>0, <1>1, <1>2, <1>3, <1>4, <1>5, <1>6, <1>7, Scripts

LEMMA GuestTypesStep == GuestTypes /\ [GuestNext]_guestVars => GuestTypes'
  <1> SUFFICES ASSUME GuestTypes, [GuestNext]_guestVars PROVE GuestTypes'
    OBVIOUS
  <1> USE DEF GuestTypes, WaitStatus
  <1>1. CASE Skip \/ NemuExecFails
    BY <1>1 DEF Skip, NemuExecFails, Send
  <1>2. CASE RunCommand
    BY <1>2 DEF RunCommand
  <1>3. CASE SendTrap
    BY <1>3 DEF SendTrap, Send
  <1>4. CASE MakeFifo \/ FailFifo
    BY <1>4 DEF MakeFifo, FailFifo
  <1>5. CASE FailReading
    BY <1>5 DEF FailReading
  <1>6. CASE Cat \/ RemovePart \/ ReadPart \/ WriterDies
    BY <1>6 DEF Cat, RemovePart, ReadPart, WriterDies
  <1>7. CASE ScriptDies
    BY <1>7, Outers DEF ScriptDies
  <1>8. CASE Idle \/ UNCHANGED guestVars
    BY <1>8 DEF Idle, guestVars
  <1> QED BY <1>1, <1>2, <1>3, <1>4, <1>5, <1>6, <1>7, <1>8 DEF GuestNext, GuestProgress

LEMMA SameProgram ==
    ASSUME [GuestNext]_guestVars
    PROVE  /\ program' = program
           /\ IsNemuExec' = IsNemuExec /\ IsGapbs' = IsGapbs /\ IsCoremarkPro' = IsCoremarkPro
           /\ IsRvvBench' = IsRvvBench /\ IsSpec2017' = IsSpec2017 /\ IsGeekbench' = IsGeekbench
           /\ IsKvmtool' = IsKvmtool /\ IsLitmus' = IsLitmus
  <1>1. program' = program
    BY DEF GuestNext, GuestProgress, Skip, RunCommand, SendTrap, NemuExecFails, ScriptDies, MakeFifo,
       FailFifo, FailReading,
           Cat, RemovePart, ReadPart, WriterDies, Idle, guestVars
  <1> QED BY <1>1 DEF IsProgram, Announces, Does, IsNemuExec, IsGapbs, IsCoremarkPro, IsRvvBench,
     IsSpec2017,
          IsGeekbench, IsKvmtool, IsLitmus

\* Only the script of gapbs has a FIFO.
LEMMA FifoOfGapbs ==
    ASSUME GuestTypes, Running, Current.op = "fifo"
    PROVE  IsGapbs /\ pc = 3
  <1>1. pc \in 1..Len(program.steps)
    BY DEF GuestTypes, Running
  <1> USE <1>1 DEF Current, Does, Step, Announces, IsProgram
  <1>2. IsGapbs => pc = 3
    BY DEF IsGapbs
  <1>3. ASSUME IsNemuExec PROVE FALSE
    <2>1. Current.op \in {"trap", "run", "trapRaw"}
      BY <1>3 DEF IsNemuExec
    <2> QED BY <2>1
  <1>4. ASSUME IsCoremarkPro PROVE FALSE
    <2>1. Current.op \in {"trap", "run", "trapStatus"}
      BY <1>4 DEF IsCoremarkPro
    <2> QED BY <2>1
  <1>5. ASSUME IsRvvBench PROVE FALSE
    <2>1. Current.op \in {"trap", "run"}
      BY <1>5 DEF IsRvvBench
    <2> QED BY <2>1
  <1>6. ASSUME IsSpec2017 PROVE FALSE
    <2>1. Current.op \in {"trap", "run", "trapStatus"}
      BY <1>6 DEF IsSpec2017
    <2> QED BY <2>1
  <1>7. ~IsGeekbench
    BY DEF IsGeekbench
  <1>8. ~IsKvmtool /\ ~IsLitmus
    BY DEF IsKvmtool, IsLitmus
  <1> QED BY <1>2, <1>3, <1>4, <1>5, <1>6, <1>7, <1>8, Scripts DEF GuestTypes

LEMMA WithoutFifo ==
    ASSUME GuestTypes, GraphSoFar, ~IsGapbs, GuestNext
    PROVE  Skip \/ RunCommand \/ SendTrap \/ NemuExecFails \/ ScriptDies \/ Idle
  <1>1. EndOfFile /\ writer = "none" /\ pipe = <<>>
    <2>1. writer = "none" /\ \E k \in 0..graph, n \in 0..graph : Streamed(k, n)
      BY DEF GraphSoFar
    <2> QED BY <2>1 DEF Streamed, EndOfFile
  <1>2. Running => Current.op # "fifo"
    BY FifoOfGapbs
  <1> QED BY <1>1, <1>2 DEF GuestNext, GuestProgress, MakeFifo, FailFifo, FailReading, Cat,
     RemovePart, ReadPart, WriterDies

LEMMA Sends ==
    /\ Send(256) /\ codes = <<>> => codes' = <<256>> /\ UNCHANGED <<nemu, code>>
    /\ Send(257) /\ codes = <<256>> => codes' = <<256, 257>> /\ UNCHANGED <<nemu, code>>
    /\ Send(256) /\ codes = <<256, 257>> => codes' = <<256, 257, 256>> /\ UNCHANGED <<nemu, code>>
    /\ \A c \in Int : Send(c) /\ c \notin {256, 257, 258}
                       => nemu' = "stopped" /\ code' = c /\ codes' = codes
  <1>1. Append(<<>>, 256) = <<256>>
    OBVIOUS
  <1>2. Append(<<256>>, 257) = <<256, 257>>
    <2> DEFINE s == Append(<<256>>, 257)
    <2> DEFINE t == <<256, 257>>
    <2>1. s \in Seq(Int) /\ t \in Seq(Int) /\ Len(s) = 2 /\ Len(t) = 2
      OBVIOUS
    <2>2. s[1] = 256 /\ s[2] = 257 /\ t[1] = 256 /\ t[2] = 257
      OBVIOUS
    <2> HIDE DEF s, t
    <2>3. \A i \in 1..Len(s) : s[i] = t[i]
      BY <2>1, <2>2
    <2>4. s = t
      BY <2>1, <2>3, SeqEqual
    <2> QED BY <2>4 DEF s, t
  <1>3. Send(256) /\ codes = <<>> => codes' = <<256>> /\ UNCHANGED <<nemu, code>>
    BY <1>1 DEF Send
  <1>4. Send(257) /\ codes = <<256>> => codes' = <<256, 257>> /\ UNCHANGED <<nemu, code>>
    BY <1>2 DEF Send
  <1>5. \A c \in Int : Send(c) /\ c \notin {256, 257, 258}
                         => nemu' = "stopped" /\ code' = c /\ codes' = codes
    BY DEF Send
  <1>6. Append(<<256, 257>>, 256) = <<256, 257, 256>>
    <2> DEFINE s == Append(<<256, 257>>, 256)
    <2> DEFINE t == <<256, 257, 256>>
    <2>1. s \in Seq(Int) /\ t \in Seq(Int) /\ Len(s) = 3 /\ Len(t) = 3
      OBVIOUS
    <2>2. s[1] = 256 /\ s[2] = 257 /\ s[3] = 256 /\ t[1] = 256 /\ t[2] = 257 /\ t[3] = 256
      OBVIOUS
    <2> HIDE DEF s, t
    <2>3. \A i \in 1..Len(s) : s[i] = t[i]
      BY <2>1, <2>2
    <2>4. s = t
      BY <2>1, <2>3, SeqEqual
    <2> QED BY <2>4 DEF s, t
  <1>7. Send(256) /\ codes = <<256, 257>> => codes' = <<256, 257, 256>> /\ UNCHANGED <<nemu, code>>
    BY <1>6 DEF Send
  <1> QED BY <1>3, <1>4, <1>5, <1>7

LEMMA SendsStatus ==
    ASSUME status \in WaitStatus, Send(ShellStatus(status))
    PROVE  nemu' = "stopped" /\ code' = ShellStatus(status) /\ codes' = codes
  <1> DEFINE c == ShellStatus(status)
  <1>1. c \in 0..255 /\ Send(c)
    BY ShellStatusJudges
  <1> HIDE DEF c
  <1>2. nemu' = "stopped" /\ code' = c /\ codes' = codes
    BY <1>1, Sends
  <1> QED BY <1>2 DEF c

LEMMA NemuExecStep ==
    ASSUME GuestTypes, GraphSoFar, IsNemuExec, NemuExecSoFar, GuestNext, ~died'
    PROVE  NemuExecSoFar'
  <1> USE DEF GuestTypes, NemuExecSoFar, SentFrom, Stopped, Before, IsNemuExec, IsProgram, Announces,
     Does, Step, Running, Current
  <1>1. CASE Skip
    BY <1>1 DEF Skip, Enabled
  <1>2. CASE RunCommand
    BY <1>2 DEF RunCommand, Enabled
  <1>3. CASE SendTrap
    <2>1. pc \in {1, 2, 4} /\ pc' = pc + 1 /\ UNCHANGED <<status, failure, ran>>
      BY <1>3 DEF SendTrap
    <2>2. (pc = 1 => Send(256)) /\ (pc = 2 => Send(257)) /\ (pc = 4 => Send(status))
      BY <1>3, TrapCodes DEF SendTrap
    <2>3. status \in Int /\ status \notin {257, 258} /\ ~Stopped
      BY <1>3, RawStatus DEF SendTrap
    <2>4. CASE pc \in {1, 2}
      <3>1. codes' = (IF pc = 1 THEN <<256>> ELSE <<256, 257>>) /\ UNCHANGED <<nemu, code>>
        BY <2>2, <2>4, Sends
      <3> QED BY <2>1, <2>3, <2>4, <3>1
    <2>5. CASE pc = 4
      <3>1. CASE status = 256
        <4>1. codes' = <<256, 257, 256>> /\ UNCHANGED <<nemu, code>>
          BY <2>2, <2>3, <2>5, <3>1, Sends
        <4> QED BY <2>1, <2>3, <2>5, <3>1, <4>1
      <3>2. CASE status # 256
        <4>1. nemu' = "stopped" /\ code' = status /\ codes' = codes
          BY <2>2, <2>3, <2>5, <3>2, Sends
        <4> QED BY <2>1, <2>3, <2>5, <3>2, <4>1
      <3> QED BY <3>1, <3>2
    <2> QED BY <2>1, <2>4, <2>5
  <1>4. CASE NemuExecFails
    BY <1>4 DEF NemuExecFails, Send
  <1>5. CASE ScriptDies \/ Idle
    BY <1>5 DEF ScriptDies, Idle, guestVars
  <1> QED BY <1>1, <1>2, <1>3, <1>4, <1>5, WithoutFifo DEF IsGapbs

LEMMA GapbsStep ==
    ASSUME GuestTypes, GraphSoFar, IsGapbs, GapbsSoFar, ~died, GuestNext, ~died'
    PROVE  GapbsSoFar'
  <1> USE DEF GuestTypes, GapbsSoFar, SentFrom, Stopped, Before, IsGapbs, IsProgram, Announces, Does,
     Step, Running, Current
  <1>1. CASE Skip
    BY <1>1 DEF Skip, Enabled, EndOfFile, fed
  <1>2. CASE RunCommand
    BY <1>2 DEF RunCommand, Enabled, EndOfFile, fed
  <1>3. CASE SendTrap
    <2>1. pc \in {1, 2, 5} /\ pc' = pc + 1 /\ UNCHANGED <<status, failure, ran, writer, graph, pipe>>
      BY <1>3 DEF SendTrap, fed
    <2>2. (pc = 1 => Send(256)) /\ (pc = 2 => Send(257)) /\ (pc = 5 => Send(status))
      BY <1>3, TrapCodes DEF SendTrap
    <2>3. status \in Int /\ status \notin {257, 258} /\ ~Stopped
      BY <1>3, RawStatus DEF SendTrap
    <2>4. CASE pc \in {1, 2}
      <3>1. codes' = (IF pc = 1 THEN <<256>> ELSE <<256, 257>>) /\ UNCHANGED <<nemu, code>>
        BY <2>2, <2>4, Sends
      <3> QED BY <2>1, <2>3, <2>4, <3>1
    <2>5. CASE pc = 5
      <3>1. CASE status = 256
        <4>1. codes' = <<256, 257, 256>> /\ UNCHANGED <<nemu, code>>
          BY <2>2, <2>3, <2>5, <3>1, Sends
        <4> QED BY <2>1, <2>3, <2>5, <3>1, <4>1 DEF EndOfFile
      <3>2. CASE status # 256
        <4>1. nemu' = "stopped" /\ code' = status /\ codes' = codes
          BY <2>2, <2>3, <2>5, <3>2, Sends
        <4> QED BY <2>1, <2>3, <2>5, <3>2, <4>1 DEF EndOfFile
      <3> QED BY <3>1, <3>2
    <2> QED BY <2>1, <2>4, <2>5
  <1>4. CASE NemuExecFails
    BY <1>4 DEF NemuExecFails, Send, fed
  <1>5. CASE ScriptDies \/ Idle
    BY <1>5 DEF ScriptDies, Idle, guestVars, fed, EndOfFile
  <1>6. CASE MakeFifo \/ FailFifo
    BY <1>6 DEF MakeFifo, FailFifo, fed
  <1>7. CASE FailReading
    BY <1>7 DEF FailReading, Enabled, fed
  <1>8. CASE Cat \/ RemovePart \/ ReadPart \/ WriterDies
    BY <1>8 DEF Cat, RemovePart, ReadPart, WriterDies, Reading
  <1> QED BY <1>1, <1>2, <1>3, <1>4, <1>5, <1>6, <1>7, <1>8 DEF GuestNext, GuestProgress

LEMMA CoremarkProStep ==
    ASSUME GuestTypes, GraphSoFar, IsCoremarkPro, CoremarkProSoFar, GuestNext, ~died'
    PROVE  CoremarkProSoFar'
  <1> USE DEF GuestTypes, CoremarkProSoFar, TwoCommands, SentFrom, Stopped, Before, IsCoremarkPro,
     IsProgram, Announces,
              Does, Step, Running, Current
  <1>1. CASE Skip
    BY <1>1 DEF Skip, Enabled
  <1>2. CASE RunCommand
    BY <1>2 DEF RunCommand, Enabled
  <1>3. CASE SendTrap
    <2>1. pc \in {1, 2, 4, 6, 7} /\ pc' = pc + 1 /\ UNCHANGED <<status, failure, ran>> /\ ~Stopped
      BY <1>3 DEF SendTrap
    <2>2. /\ (pc = 1 => Send(256)) /\ (pc = 2 => Send(257)) /\ (pc = 7 => Send(0))
          /\ (pc \in {4, 6} => status # 0 /\ Send(ShellStatus(status)))
      BY <1>3, TrapCodes DEF SendTrap, Enabled
    <2>3. CASE pc \in {1, 2}
      <3>1. codes' = (IF pc = 1 THEN <<256>> ELSE <<256, 257>>) /\ UNCHANGED <<nemu, code>>
        BY <2>2, <2>3, Sends
      <3> QED BY <2>1, <2>3, <3>1
    <2>4. CASE pc = 7
      BY <2>1, <2>2, <2>4 DEF Send
    <2>5. CASE pc \in {4, 6}
      <3>1. nemu' = "stopped" /\ code' = ShellStatus(status) /\ codes' = codes
        <4>1. Send(ShellStatus(status))
          BY <2>2, <2>5
        <4> QED BY <4>1, SendsStatus
      <3> QED BY <2>1, <2>2, <2>5, <3>1 DEF ShellStatus
    <2> QED BY <2>1, <2>3, <2>4, <2>5
  <1>4. CASE NemuExecFails \/ ScriptDies \/ Idle
    BY <1>4 DEF NemuExecFails, ScriptDies, Idle, guestVars, ShellStatus
  <1> QED BY <1>1, <1>2, <1>3, <1>4, WithoutFifo DEF IsGapbs

LEMMA RvvBenchStep ==
    ASSUME GuestTypes, GraphSoFar, IsRvvBench, RvvBenchSoFar, GuestNext, ~died'
    PROVE  RvvBenchSoFar'
  <1> USE DEF GuestTypes, RvvBenchSoFar, TwoCommands, SentFrom, Stopped, Before, IsRvvBench,
     IsProgram, Announces,
              Does, Step, Running, Current
  <1>1. CASE Skip
    BY <1>1 DEF Skip, Enabled
  <1>2. CASE RunCommand
    BY <1>2 DEF RunCommand, Enabled
  <1>3. CASE SendTrap
    <2>1. pc \in {1, 2, 4, 6, 7} /\ pc' = pc + 1 /\ UNCHANGED <<status, failure, ran>> /\ ~Stopped
      BY <1>3 DEF SendTrap
    <2>2. /\ (pc = 1 => Send(256)) /\ (pc = 2 => Send(257)) /\ (pc = 7 => Send(0))
          /\ (pc \in {4, 6} => status # 0 /\ Send(1))
      BY <1>3, TrapCodes DEF SendTrap, Enabled
    <2>3. CASE pc \in {1, 2}
      <3>1. codes' = (IF pc = 1 THEN <<256>> ELSE <<256, 257>>) /\ UNCHANGED <<nemu, code>>
        BY <2>2, <2>3, Sends
      <3> QED BY <2>1, <2>3, <3>1
    <2>4. CASE pc \in {4, 6, 7}
      BY <2>1, <2>2, <2>4 DEF Send
    <2> QED BY <2>1, <2>3, <2>4
  <1>4. CASE NemuExecFails \/ ScriptDies \/ Idle
    BY <1>4 DEF NemuExecFails, ScriptDies, Idle, guestVars
  <1> QED BY <1>1, <1>2, <1>3, <1>4, WithoutFifo DEF IsGapbs

LEMMA Spec2017Step ==
    ASSUME GuestTypes, GraphSoFar, IsSpec2017, Spec2017SoFar, GuestNext, ~died'
    PROVE  Spec2017SoFar'
  <1> USE DEF GuestTypes, Spec2017SoFar, SentFrom, Stopped, IsSpec2017, IsProgram, Does, Step,
     Running, Current
  <1>1. CASE Skip
    BY <1>1 DEF Skip, Enabled
  <1>2. CASE RunCommand
    BY <1>2 DEF RunCommand, Enabled
  <1>3. CASE SendTrap
    <2>1. pc \in {2, 3, 6} /\ pc' = pc + 1 /\ UNCHANGED <<status, failure, ran>> /\ ~Stopped
      BY <1>3 DEF SendTrap
    <2>2. /\ (pc = 2 => Send(256) /\ status = 0) /\ (pc = 3 => Send(257) /\ status = 0)
          /\ (pc = 6 => Send(ShellStatus(status)))
      BY <1>3, TrapCodes DEF SendTrap, Enabled
    <2>3. CASE pc \in {2, 3}
      <3>1. codes' = (IF pc = 2 THEN <<256>> ELSE <<256, 257>>) /\ UNCHANGED <<nemu, code>>
        BY <2>2, <2>3, Sends
      <3> QED BY <2>1, <2>2, <2>3, <3>1
    <2>4. CASE pc = 6
      <3>1. nemu' = "stopped" /\ code' = ShellStatus(status) /\ codes' = codes
        <4>1. Send(ShellStatus(status))
          BY <2>2, <2>4
        <4> QED BY <4>1, SendsStatus
      <3> QED BY <2>1, <2>4, <3>1 DEF ShellStatus
    <2> QED BY <2>1, <2>3, <2>4
  <1>4. CASE NemuExecFails \/ ScriptDies \/ Idle
    BY <1>4 DEF NemuExecFails, ScriptDies, Idle, guestVars, ShellStatus
  <1> QED BY <1>1, <1>2, <1>3, <1>4, WithoutFifo DEF IsGapbs

LEMMA GeekbenchStep ==
    ASSUME GuestTypes, GraphSoFar, IsGeekbench, GeekbenchSoFar, GuestNext, ~died'
    PROVE  GeekbenchSoFar'
  <1> USE DEF GuestTypes, GeekbenchSoFar, SentFrom, Stopped, Before, IsGeekbench, IsProgram,
     Announces, Does, Step,
              Running, Current
  <1>1. CASE Skip
    BY <1>1 DEF Skip, Enabled
  <1>2. CASE RunCommand
    BY <1>2 DEF RunCommand, Enabled
  <1>3. CASE SendTrap
    <2>1. pc \in {1, 2, 4} /\ pc' = pc + 1 /\ UNCHANGED <<status, failure, ran>> /\ ~Stopped
      BY <1>3 DEF SendTrap
    <2>2. (pc = 1 => Send(256)) /\ (pc = 2 => Send(257)) /\ (pc = 4 => Send(0))
      BY <1>3, TrapCodes DEF SendTrap
    <2>3. CASE pc \in {1, 2}
      <3>1. codes' = (IF pc = 1 THEN <<256>> ELSE <<256, 257>>) /\ UNCHANGED <<nemu, code>>
        BY <2>2, <2>3, Sends
      <3> QED BY <2>1, <2>3, <3>1
    <2>4. CASE pc = 4
      BY <2>1, <2>2, <2>4 DEF Send
    <2> QED BY <2>1, <2>3, <2>4
  <1>4. CASE NemuExecFails \/ ScriptDies \/ Idle
    BY <1>4 DEF NemuExecFails, ScriptDies, Idle, guestVars
  <1> QED BY <1>1, <1>2, <1>3, <1>4, WithoutFifo DEF IsGapbs

LEMMA KvmtoolStep ==
    ASSUME GuestTypes, GraphSoFar, IsKvmtool, KvmtoolSoFar, GuestNext, ~died'
    PROVE  KvmtoolSoFar'
  <1> USE DEF GuestTypes, KvmtoolSoFar, Stopped, IsKvmtool, IsProgram, Does, Step, Running, Current
  <1>1. CASE Skip
    BY <1>1 DEF Skip, Enabled
  <1>2. CASE RunCommand
    BY <1>2 DEF RunCommand, Enabled
  <1>3. CASE SendTrap
    <2>1. ShellStatus(0) = 0
      BY ShellStatusJudges DEF WaitStatus
    <2>2. pc = 2 /\ pc' = 3 /\ Send(0) /\ status' = status
      BY <1>3, <2>1 DEF SendTrap
    <2> QED BY <2>2 DEF Send
  <1>4. CASE NemuExecFails \/ ScriptDies \/ Idle
    BY <1>4 DEF NemuExecFails, ScriptDies, Idle, guestVars
  <1> QED BY <1>1, <1>2, <1>3, <1>4, WithoutFifo DEF IsGapbs

LEMMA LitmusStep ==
    ASSUME GuestTypes, GraphSoFar, IsLitmus, LitmusSoFar, GuestNext, ~died'
    PROVE  LitmusSoFar'
  <1> USE DEF GuestTypes, LitmusSoFar, Stopped, IsLitmus, IsProgram, Does, Step, Running, Current
  <1>1. CASE Skip
    BY <1>1 DEF Skip, Enabled
  <1>2. CASE RunCommand
    BY <1>2 DEF RunCommand, Enabled
  <1>3. CASE SendTrap
    <2>1. pc = 2 /\ pc' = 3 /\ Send(0)
      BY <1>3, TrapCodes DEF SendTrap
    <2> QED BY <2>1 DEF Send
  <1>4. CASE NemuExecFails \/ ScriptDies \/ Idle
    BY <1>4 DEF NemuExecFails, ScriptDies, Idle, guestVars
  <1> QED BY <1>1, <1>2, <1>3, <1>4, WithoutFifo DEF IsGapbs

LEMMA LeftNext ==
    ASSUME GuestTypes, died, Left, GuestNext
    PROVE  \/ Idle
           \/ SendTrap /\ Send(29) /\ UNCHANGED <<program, failure, ran>> /\ pc' = pc + 1
  <1>1. Running => /\ pc = program.outer /\ Current.when = "always"
                   /\ Current.op = "trap" /\ Current.arg = NegArg(<<1>>)
    BY Outers DEF GuestTypes, Left, Running, Current, Does, Step
  <1>2. ~NemuExecFails
    <2>1. pc >= program.outer /\ program.outer \in Nat
      BY Outers DEF GuestTypes, Left
    <2>2. program.name \in {"nemu-exec", "gapbs"} => program.outer \in {5, 6}
      BY Outers DEF GuestTypes
    <2>3. NemuExecFails => program.name \in {"nemu-exec", "gapbs"} /\ pc \in {1, 3}
      BY DEF NemuExecFails
    <2> QED BY <2>1, <2>2, <2>3
  <1>3. ~ScriptDies
    BY <1>1, Outers DEF ScriptDies, GuestTypes
  <1>4. ~Skip /\ ~RunCommand
    BY <1>1 DEF Skip, RunCommand, Enabled
  <1>5. ~MakeFifo /\ ~FailFifo /\ ~FailReading
    BY <1>1 DEF MakeFifo, FailFifo, FailReading
  <1>6. ~Cat /\ ~RemovePart /\ ~ReadPart /\ ~WriterDies
    BY <1>1 DEF Cat, RemovePart, ReadPart, WriterDies, Reading
  <1>7. SendTrap => Send(29) /\ UNCHANGED <<program, failure, ran>> /\ pc' = pc + 1
    BY <1>1, TrapCodes DEF SendTrap
  <1> QED BY <1>2, <1>3, <1>4, <1>5, <1>6, <1>7 DEF GuestNext, GuestProgress

LEMMA LeftStep ==
    ASSUME GuestTypes, died, Left, GuestNext
    PROVE  Left' /\ UNCHANGED <<program, ran, failure, codes>>
  <1>1. CASE Idle
    BY <1>1 DEF Idle, guestVars, Left, Stopped
  <1>2. CASE SendTrap /\ Send(29) /\ UNCHANGED <<program, failure, ran>> /\ pc' = pc + 1
    <2>1. nemu' = "stopped" /\ code' = 29 /\ codes' = codes
      BY <1>2, Sends
    <2> QED BY <1>2, <2>1, Outers DEF Left, Stopped, GuestTypes
  <1> QED BY <1>1, <1>2, LeftNext

LEMMA SoFarStep ==
    ASSUME GuestTypes, GraphSoFar, ~died, SoFar, GuestNext, ~died'
    PROVE  SoFar'
  <1> USE SameProgram DEF SoFar
  <1>1. IsNemuExec' => NemuExecSoFar'
    BY NemuExecStep
  <1>2. IsGapbs' => GapbsSoFar'
    BY GapbsStep
  <1>3. IsCoremarkPro' => CoremarkProSoFar'
    BY CoremarkProStep
  <1>4. IsRvvBench' => RvvBenchSoFar'
    BY RvvBenchStep
  <1>5. IsSpec2017' => Spec2017SoFar'
    BY Spec2017Step
  <1>6. IsGeekbench' => GeekbenchSoFar'
    BY GeekbenchStep
  <1>7. IsKvmtool' => KvmtoolSoFar'
    BY KvmtoolStep
  <1>8. IsLitmus' => LitmusSoFar'
    BY LitmusStep
  <1> QED BY <1>1, <1>2, <1>3, <1>4, <1>5, <1>6, <1>7, <1>8

\* What is announced follows from where the script is, and stays when it dies.
LEMMA AnnouncedSoFar ==
    ASSUME GuestTypes, SoFar, ~died
    PROVE  ProfiledCommandAnnounced
  <1> USE DEF GuestTypes, ProfiledCommandAnnounced, SentAsCode, SoFar, SentFrom, Stopped, Before, IsProgram
  <1>1. CASE IsNemuExec
    BY <1>1 DEF IsNemuExec, NemuExecSoFar
  <1>2. CASE IsGapbs
    BY <1>2 DEF IsGapbs, GapbsSoFar
  <1>3. CASE IsCoremarkPro
    BY <1>3 DEF IsCoremarkPro, CoremarkProSoFar, TwoCommands
  <1>4. CASE IsRvvBench
    BY <1>4 DEF IsRvvBench, RvvBenchSoFar, TwoCommands
  <1>5. CASE IsSpec2017
    BY <1>5 DEF IsSpec2017, Spec2017SoFar
  <1>6. CASE IsGeekbench
    BY <1>6 DEF IsGeekbench, GeekbenchSoFar
  <1>7. CASE IsKvmtool
    BY <1>7 DEF IsKvmtool, KvmtoolSoFar
  <1>8. CASE IsLitmus
    BY <1>8 DEF IsLitmus, LitmusSoFar
  <1> QED BY <1>1, <1>2, <1>3, <1>4, <1>5, <1>6, <1>7, <1>8, Scripts

LEMMA AnnouncedNext == GuestTypes' /\ SoFar' /\ ~died' => ProfiledCommandAnnounced'
  <1>1. GuestTypes /\ SoFar /\ ~died => ProfiledCommandAnnounced
    BY AnnouncedSoFar
  <1> QED BY <1>1, PTL

\* Where a script dies, and what changes once it has.
LEMMA DiedStep ==
    ASSUME GuestInv, GuestNext, died'
    PROVE  Left' /\ ProfiledCommandAnnounced'
  <1>1. CASE died
    <2>1. Left' /\ UNCHANGED <<program, ran, failure, codes>>
      BY <1>1, LeftStep DEF GuestInv
    <2> QED BY <1>1, <2>1 DEF GuestInv, ProfiledCommandAnnounced, SentAsCode
  <1>2. CASE ~died
    <2>1. ScriptDies
      BY <1>2 DEF GuestNext, GuestProgress, Skip, RunCommand, SendTrap, MakeFifo, FailFifo,
         FailReading, Cat, RemovePart,
                  ReadPart, WriterDies, NemuExecFails, Idle, guestVars
    <2>2. program.outer \in Nat
      BY Outers DEF GuestInv, GuestTypes
    <2> QED BY <2>1, <2>2 DEF ScriptDies, GuestInv, GuestTypes, Left, Stopped, Running,
       ProfiledCommandAnnounced, SentAsCode
  <1> QED BY <1>1, <1>2

-----------------------------------------------------------------------------
\* The FIFO: what the kernel has heard is the beginning of the graph, and what
\* is neither heard nor in the pipe is still in the image.
LEMMA GraphGrows == ASSUME NEW k \in Nat PROVE Graph(k) \o <<k + 1>> = Graph(k + 1)
  <1> DEFINE s == Graph(k) \o <<k + 1>>
  <1> DEFINE t == Graph(k + 1)
  <1>1. Graph(k) \in Seq(Nat) /\ Len(Graph(k)) = k /\ \A i \in 1..k : Graph(k)[i] = i
    BY DEF Graph
  <1>2. t \in Seq(Nat) /\ Len(t) = k + 1 /\ \A i \in 1..(k + 1) : t[i] = i
    BY DEF Graph
  <1>3. <<k + 1>> \in Seq(Nat) /\ Len(<<k + 1>>) = 1 /\ <<k + 1>>[1] = k + 1
    OBVIOUS
  <1>4. s \in Seq(Nat) /\ Len(s) = k + 1 /\ \A i \in 1..(k + 1) : s[i] = i
    BY <1>1, <1>3, ConcatProperties
  <1> HIDE DEF s, t
  <1>5. s = t
    BY <1>2, <1>4, SeqEqual
  <1> QED BY <1>5 DEF s, t

LEMMA FirstPart == ASSUME NEW n \in Nat, NEW m \in Nat, n <= m, parts = n..m PROVE NextPart = n
  <1> DEFINE Least(p) == p \in parts /\ \A q \in parts : p <= q
  <1>1. Least(n)
    OBVIOUS
  <1>2. \A p : Least(p) => p = n
    OBVIOUS
  <1>3. NextPart = CHOOSE p : Least(p)
    BY DEF NextPart
  <1> QED BY <1>1, <1>2, <1>3

LEMMA GraphStep ==
    ASSUME GuestTypes, GraphSoFar, died => Left, GuestNext
    PROVE  GraphSoFar'
  <1>1. PICK k \in 0..graph, n \in 0..graph : Streamed(k, n)
    BY DEF GraphSoFar
  <1>2. graph \in Nat /\ graph' = graph /\ IsGapbs' = IsGapbs
    BY SameProgram DEF GraphSoFar, GuestNext, GuestProgress, Skip, RunCommand, SendTrap,
       NemuExecFails, ScriptDies, MakeFifo,
           FailFifo, FailReading, Cat, RemovePart, ReadPart, WriterDies, Idle, guestVars, fed
  <1>3. SUFFICES /\ \E l \in 0..graph, m \in 0..graph : Streamed(l, m)'
                 /\ writer' \in {"none", "open", "never", "cat", "rm", "done", "dead"}
                 /\ ~IsGapbs \/ (~died' /\ pc' <= 3) => writer' = "none"
    BY <1>2 DEF GraphSoFar
  <1>4. writer # "none" => IsGapbs /\ ~(~died /\ pc <= 3)
    BY DEF GraphSoFar
  <1>5. CASE UNCHANGED fed /\ (died' \/ (~died /\ pc' \in {pc, pc + 1}))
    BY <1>1, <1>2, <1>4, <1>5 DEF fed, Streamed, GraphSoFar, GuestTypes
  <1>6. CASE MakeFifo
    <2>1. IsGapbs /\ pc = 3 /\ pc' = 4 /\ UNCHANGED <<parts, pipe, heard>>
      BY <1>6, FifoOfGapbs DEF MakeFifo
    <2>2. ~died
      BY <2>1, Outers DEF Left, IsGapbs, IsProgram, GuestTypes
    <2>3. writer = "none"
      BY <2>1, <2>2 DEF GraphSoFar
    <2>4. Streamed(k, n)'
      BY <1>1, <1>2, <1>6, <2>1, <2>3 DEF MakeFifo, Streamed
    <2> QED BY <1>2, <1>6, <2>1, <2>4 DEF MakeFifo
  <1>7. CASE Cat
    <2>1. k = n /\ n < graph /\ parts = (n + 1)..graph
      BY <1>1, <1>2, <1>7 DEF Cat, Streamed
    <2>2. NextPart = n + 1
      BY <1>2, <2>1, FirstPart
    <2>3. Streamed(k, n + 1)'
      BY <1>1, <1>2, <1>7, <2>1, <2>2 DEF Cat, Streamed
    <2> QED BY <1>2, <1>4, <1>7, <2>1, <2>3 DEF Cat
  <1>8. CASE RemovePart
    <2>1. n > 0 /\ parts = n..graph
      BY <1>1, <1>8 DEF RemovePart, Streamed
    <2>2. NextPart = n
      BY <1>2, <2>1, FirstPart
    <2>3. parts' = (n + 1)..graph /\ (parts' = {} <=> n = graph)
      BY <1>2, <1>8, <2>1, <2>2 DEF RemovePart
    <2>4. Streamed(k, n)'
      BY <1>1, <1>2, <1>8, <2>1, <2>3 DEF RemovePart, Streamed
    <2> QED BY <1>2, <1>4, <1>8, <2>4 DEF RemovePart
  <1>9. CASE ReadPart
    <2>1. n = k + 1 /\ pipe = <<n>>
      BY <1>1, <1>9 DEF ReadPart, Streamed
    <2>2. heard' = Graph(n)
      BY <1>1, <1>9, <2>1, GraphGrows DEF ReadPart, Streamed
    <2>3. Streamed(n, n)'
      BY <1>1, <1>2, <1>9, <2>1, <2>2 DEF ReadPart, Streamed
    <2>4. writer # "none"
      BY <1>1, <2>1 DEF Streamed
    <2> QED BY <1>2, <1>4, <1>9, <2>3, <2>4 DEF ReadPart, GraphSoFar
  <1>10. CASE WriterDies
    <2>1. Streamed(k, n)'
      BY <1>1, <1>2, <1>10 DEF WriterDies, Streamed
    <2> QED BY <1>2, <1>4, <1>10, <2>1 DEF WriterDies
  <1>11. MakeFifo \/ Cat \/ RemovePart \/ ReadPart \/ WriterDies
         \/ (UNCHANGED fed /\ (died' \/ (~died /\ pc' \in {pc, pc + 1})))
    <2>1. Idle => UNCHANGED <<fed, died, pc>>
      BY DEF Idle, guestVars
    <2>2. Skip \/ RunCommand \/ SendTrap \/ NemuExecFails \/ FailFifo \/ FailReading
            => UNCHANGED <<fed, died>> /\ pc' \in {pc, pc + 1}
      BY DEF Skip, RunCommand, SendTrap, NemuExecFails, FailFifo, FailReading
    <2>3. ScriptDies => died' /\ UNCHANGED fed
      BY DEF ScriptDies
    <2> QED BY <2>1, <2>2, <2>3 DEF GuestNext, GuestProgress, GuestTypes
  <1> QED BY <1>5, <1>6, <1>7, <1>8, <1>9, <1>10, <1>11

LEMMA AtFirst == GuestInit => GuestInv
  <1> SUFFICES ASSUME GuestInit PROVE GuestInv
    OBVIOUS
  <1>1. GuestTypes
    <2>1. program \in AllPrograms
      BY ProgramsAssumption DEF GuestInit
    <2>2. pc = 1 /\ ran = 0 /\ nemu = "up" /\ died = FALSE
      BY DEF GuestInit
    <2>3. status \in WaitStatus /\ failure \in WaitStatus
      BY DEF GuestInit, WaitStatus
    <2>4. pc \in Nat \ {0} /\ ran \in Nat
      BY <2>2
    <2>5. nemu \in {"up", "stopped"} /\ died \in BOOLEAN
      BY <2>2, Zenon
    <2> QED BY <2>1, <2>3, <2>4, <2>5 DEF GuestTypes
  <1>2. graph \in Nat /\ (graph # 0 => program.name = "gapbs")
    BY DEF GuestInit
  <1>3. program.name = "gapbs" => IsGapbs
    BY <1>1, Scripts DEF GuestTypes, IsProgram, IsNemuExec, IsCoremarkPro, IsRvvBench, IsSpec2017,
       IsGeekbench,
                         IsKvmtool, IsLitmus
  <1>4. Streamed(0, 0)
    BY DEF GuestInit, Streamed, Graph
  <1>5. GraphSoFar
    BY <1>2, <1>3, <1>4 DEF GraphSoFar, GuestInit
  <1>6. SoFar
    BY <1>1, ShellStatusJudges
       DEF SoFar, GuestInit, Before, SentFrom, Stopped, NemuExecSoFar, GapbsSoFar, CoremarkProSoFar,
          RvvBenchSoFar,
           TwoCommands, Spec2017SoFar, GeekbenchSoFar, KvmtoolSoFar, LitmusSoFar
  <1> QED BY <1>1, <1>5, <1>6, AnnouncedSoFar DEF GuestInv, GuestInit

\* The inductive invariant holds of every run of every script.
THEOREM GuestInvariance == GuestSpec => []GuestInv
  <1>1. GuestInit => GuestInv
    BY AtFirst
  <1>2. GuestInv /\ [GuestNext]_guestVars => GuestInv'
    <2> SUFFICES ASSUME GuestInv, [GuestNext]_guestVars PROVE GuestInv'
      OBVIOUS
    <2>1. CASE GuestNext
      <3>1. GuestTypes' /\ GraphSoFar'
        BY <2>1, GuestTypesStep, GraphStep DEF GuestInv
      <3>2. CASE died'
        BY <2>1, <3>1, <3>2, DiedStep DEF GuestInv
      <3>3. CASE ~died'
        <4>1. ~died
          BY <2>1, <3>3 DEF GuestNext, GuestProgress, Skip, RunCommand, SendTrap, NemuExecFails,
             ScriptDies, MakeFifo,
             FailFifo, FailReading, Cat, RemovePart, ReadPart, WriterDies, Idle, guestVars
        <4>2. SoFar'
          BY <2>1, <3>3, <4>1, SoFarStep DEF GuestInv
        <4>3. ProfiledCommandAnnounced'
          BY <3>1, <3>3, <4>2, AnnouncedNext
        <4> QED BY <3>1, <3>3, <4>2, <4>3 DEF GuestInv
      <3> QED BY <3>2, <3>3
    <2>2. CASE UNCHANGED guestVars
      <3>1. GuestTypes' /\ (died' => Left') /\ ProfiledCommandAnnounced' /\ died' = died
        BY <2>2 DEF guestVars, GuestInv, GuestTypes, Left, Stopped, ProfiledCommandAnnounced,
           SentAsCode
      <3>2. GraphSoFar'
        BY <2>2, SameProgram DEF guestVars, fed, GuestInv, GraphSoFar, Streamed
      <3>3. SoFar => SoFar'
        BY <2>2, SameProgram
           DEF guestVars, fed, SoFar, Before, SentFrom, Stopped, EndOfFile, ShellStatus,
              NemuExecSoFar, GapbsSoFar,
               CoremarkProSoFar, RvvBenchSoFar, TwoCommands, Spec2017SoFar, GeekbenchSoFar,
               KvmtoolSoFar, LitmusSoFar
      <3> QED BY <3>1, <3>2, <3>3 DEF GuestInv
    <2> QED BY <2>1, <2>2
  <1> QED BY <1>1, <1>2, PTL DEF GuestSpec

-----------------------------------------------------------------------------
\* The properties follow from what is known of the script.
LEMMA TrapIsVerdict ==
    ASSUME GuestInv, Stopped
    PROVE  (code = 0 /\ Judging => Succeeded) /\ (Succeeded => code = 0)
  <1>1. CASE died
    BY <1>1 DEF GuestInv, Left, Succeeded
  <1>2. CASE ~died
    <2> USE <1>2 DEF GuestInv, GuestTypes, SoFar, Judging, Succeeded, Stopped, IsProgram, Before
    <2>1. CASE IsNemuExec
      BY <2>1, CommandsCounted DEF IsNemuExec, NemuExecSoFar
    <2>2. CASE IsGapbs
      BY <2>2, CommandsCounted DEF IsGapbs, GapbsSoFar
    <2>3. CASE IsCoremarkPro
      <3>1. failure # 0 => ShellStatus(failure) # 0
        BY ShellStatusJudges
      <3> QED BY <2>3, <3>1, CommandsCounted DEF IsCoremarkPro, CoremarkProSoFar, TwoCommands
    <2>4. CASE IsRvvBench
      BY <2>4, CommandsCounted DEF IsRvvBench, RvvBenchSoFar, TwoCommands
    <2>5. CASE IsSpec2017
      <3>1. ShellStatus(status) = 0 <=> status = 0
        BY ShellStatusJudges
      <3> QED BY <2>5, <3>1, CommandsCounted DEF IsSpec2017, Spec2017SoFar
    <2>6. CASE IsGeekbench
      BY <2>6 DEF IsGeekbench, GeekbenchSoFar
    <2>7. CASE IsKvmtool
      BY <2>7 DEF IsKvmtool, KvmtoolSoFar
    <2>8. CASE IsLitmus
      BY <2>8 DEF IsLitmus, LitmusSoFar
    <2> QED BY <2>1, <2>2, <2>3, <2>4, <2>5, <2>6, <2>7, <2>8, Scripts
  <1> QED BY <1>1, <1>2

\* A good trap is the verdict of the whole script, for any exit codes and
\* signals of its commands, wherever it is killed.
THEOREM TrapsAreVerdicts == GuestSpec => []GoodTrapMeansSuccess
  <1>1. GuestInv => GoodTrapMeansSuccess
    BY TrapIsVerdict DEF GoodTrapMeansSuccess, Stopped
  <1> QED BY <1>1, GuestInvariance, PTL

LEMMA WholeAtTheEnd ==
    ASSUME GuestInv, Stopped, code = 0, writer # "dead"
    PROVE  parts = {} /\ heard = Graph(graph)
  <1>1. PICK k \in 0..graph, n \in 0..graph : Streamed(k, n)
    BY DEF GuestInv, GraphSoFar
  <1>2. writer = "done" /\ pipe = <<>> => parts = {} /\ heard = Graph(graph)
    BY <1>1 DEF Streamed
  <1>3. writer = "none" /\ graph = 0 => parts = {} /\ heard = Graph(graph)
    BY <1>1 DEF Streamed
  <1>4. CASE ~IsGapbs
    BY <1>3, <1>4 DEF GuestInv, GraphSoFar
  <1>5. CASE IsGapbs
    <2>1. ~died
      BY DEF GuestInv, Left
    <2>2. pc = 6 /\ status = 0
      BY <1>5, <2>1 DEF GuestInv, SoFar, GapbsSoFar
    <2>3. EndOfFile /\ (writer = "none" => graph = 0)
      BY <1>5, <2>1, <2>2 DEF GuestInv, SoFar, GapbsSoFar
    <2> QED BY <1>2, <1>3, <2>3 DEF EndOfFile
  <1> QED BY <1>4, <1>5

\* What the kernel of gapbs reads is the graph, of any number of parts.
THEOREM GraphsReadWhole == GuestSpec => []StreamReadWhole
  <1>1. GuestInv => StreamReadWhole
    BY WholeAtTheEnd DEF StreamReadWhole, Stopped
  <1> QED BY <1>1, GuestInvariance, PTL

\* The first failure is what the machine stops with.
THEOREM FirstFailuresStop == GuestSpec => []FirstFailureStops
  <1>1. ASSUME GuestInv, program.name \in {"coremark-pro", "spec2017"}, Stopped, failure # 0, ~died
        PROVE  code = ShellStatus(failure) /\ status = failure
    <2>1. IsCoremarkPro \/ IsSpec2017
      BY <1>1, Scripts DEF GuestInv, GuestTypes, IsProgram, IsNemuExec, IsGapbs, IsRvvBench,
         IsGeekbench, IsKvmtool, IsLitmus
    <2>2. CASE IsCoremarkPro
      BY <1>1, <2>2 DEF GuestInv, SoFar, CoremarkProSoFar, TwoCommands, Stopped
    <2>3. CASE IsSpec2017
      BY <1>1, <2>3 DEF GuestInv, SoFar, Spec2017SoFar
    <2> QED BY <2>1, <2>2, <2>3
  <1>2. GuestInv => FirstFailureStops
    BY <1>1 DEF FirstFailureStops, Stopped
  <1> QED BY <1>2, GuestInvariance, PTL

\* The profiler is told of the command it is to watch, and of no other.
THEOREM ProfilerIsTold == GuestSpec => []ProfiledCommandAnnounced
  BY GuestInvariance, PTL DEF GuestInv

===============================================================================
