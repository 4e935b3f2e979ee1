------------------------------- MODULE GuestRun -------------------------------
(***************************************************************************)
(* What a single-hart image does once Linux has started init: the commands *)
(* that the workload's inittab and run script execute, and the codes that  *)
(* /bin/nemu-trap and /bin/nemu-exec send to the machine.  A script is a   *)
(* sequence of steps; a failure of a benchmark command is kept, passed to  *)
(* a trap, or lost, depending on how the script is written.  The script of *)
(* gapbs also starts a process that feeds the kernel a graph which is too  *)
(* large for one file of the image, part by part, through a FIFO.          *)
(***************************************************************************)
EXTENDS Integers, Sequences, FiniteSets

CONSTANTS ExitCodes,   \* exit codes of the benchmark commands
          Signals,     \* signals that end a benchmark command
          Programs,    \* the workloads that may be started
          MaxParts     \* bound on the parts of a graph

ASSUME OutcomesAssumption == ExitCodes \subseteq 0..255 /\ Signals \subseteq 1..126
ASSUME PartsAssumption == MaxParts \in Nat

-----------------------------------------------------------------------------
(* nemu-trap *)

\* A decimal argument: the difference of each character from '0'.
Minus == -3
Arg(digits) == digits
NegArg(digits) == <<Minus>> \o digits

\* The loop starts at the first character, whatever it is.
AtoiLite(arg) ==
    LET sign == IF arg[1] = Minus THEN -1 ELSE 1
        ans[i \in 0..Len(arg)] == IF i = 0 THEN 0 ELSE ans[i - 1] * 10 + sign * arg[i]
    IN  ans[Len(arg)]

\* Without an argument nemu-trap sends 0.
TrapCode(arg) == IF arg = <<>> THEN 0 ELSE AtoiLite(arg)

-----------------------------------------------------------------------------
(* Outcomes, as wait reports them: 256 times the exit code, or the signal *)

Outcomes == {256 * c : c \in ExitCodes} \cup Signals

\* Mutant: a command killed by a signal counts as status 0.
ShellStatusOfExit(raw) == raw \div 256

\* $? in a shell.
ShellStatus(raw) == IF raw % 256 = 0 THEN raw \div 256 ELSE 128 + raw

-----------------------------------------------------------------------------
(* Steps.  "when" is what the status kept so far must be.                  *)

Step(when, op, arg) == [when |-> when, op |-> op, arg |-> arg]

Run          == Step("always", "run", <<>>)
Trap(arg)    == Step("always", "trap", arg)
TrapStatus   == Step("always", "trapStatus", <<>>)

\* A command whose output goes through a filter: $? is the filter's.
PipedRun     == Step("always", "piped", <<>>)

Profile == <<Trap(Arg(<<2, 5, 6>>)), Trap(Arg(<<2, 5, 7>>))>>
Wrapped(steps) == steps \o <<Trap(NegArg(<<1>>))>>   \* inittab's nemu-trap -1

\* A script, from step "first", that dies is left for step "outer": that of
\* the command after the script in inittab, or past the end without one.
Program(name, steps, first, outer) ==
    [name |-> name, steps |-> steps, first |-> first, outer |-> outer]

\* Mutant: nemu-exec runs the workload without telling the profiler.
NemuExecUnprofiled ==
    Program("nemu-exec", <<Run, Step("always", "trapRaw", <<>>)>>, 1, 3)

\* nemu-exec, which starts coremark, spec2006 and spec2026.
NemuExec ==
    Program("nemu-exec", Profile \o <<Run, Step("always", "trapRaw", <<>>)>>, 1, 5)

\* Two of the nine benchmarks.
CoremarkPro ==
    Program("coremark-pro",
            Wrapped(Profile \o <<Run, Step("failed", "trapStatus", <<>>),
                                 Run, Step("failed", "trapStatus", <<>>),
                                 Trap(<<>>)>>), 3, 8)

\* Two of the eighteen benchmarks.
RvvBench ==
    Program("rvv-bench",
            Wrapped(Profile \o <<Run, Step("failed", "trap", Arg(<<1>>)),
                                 Run, Step("failed", "trap", Arg(<<1>>)),
                                 Trap(<<>>)>>), 3, 8)

\* Mutant: the commands after a failing one are run all the same.
Spec2017Unguarded ==
    Program("spec2017", <<Run>> \o Profile \o <<Run, Run, TrapStatus>>, 1, 7)

\* Mutant: the script of a multi-hart copy is packed into a single-hart image.
Spec2017Untrapped ==
    Program("spec2017",
            <<Step("ok", "run", <<>>)>> \o Profile \o
            <<Step("ok", "run", <<>>), Step("ok", "run", <<>>)>>, 1, 6)

\* Three commands, the second of which is profiled.
Spec2017 ==
    Program("spec2017",
            <<Step("ok", "run", <<>>),
              Step("ok", "trap", Arg(<<2, 5, 6>>)), Step("ok", "trap", Arg(<<2, 5, 7>>)),
              Step("ok", "run", <<>>),
              Step("ok", "run", <<>>),
              TrapStatus>>, 1, 7)

Geekbench ==
    Program("geekbench", Wrapped(Profile \o <<Run, Trap(Arg(<<0>>))>>), 3, 5)

Kvmtool == Program("kvmtool", <<PipedRun, TrapStatus>>, 1, 3)

Litmus == Program("litmus", Wrapped(<<PipedRun, Trap(<<>>)>>), 1, 3)

\* nemu-exec again, with a script that makes the FIFO under set -e.
Gapbs ==
    Program("gapbs", Profile \o <<Step("always", "fifo", <<>>), Step("ok", "run", <<>>),
                                  Step("always", "trapRaw", <<>>)>>, 1, 6)

AllPrograms == {NemuExec, Gapbs, CoremarkPro, RvvBench, Spec2017, Geekbench, Kvmtool, Litmus}

ASSUME ProgramsAssumption == Programs \subseteq AllPrograms

-----------------------------------------------------------------------------
VARIABLES
    program,   \* what init runs
    pc,        \* the next step
    status,    \* how the last command ended
    failure,   \* how the first command that failed ended, 0 if none has
    ran,       \* the number of commands that have ended
    codes,     \* the codes sent to the profiler
    nemu,      \* "up" or "stopped"
    code,      \* the code NEMU stopped with
    died,      \* the script was killed, or could not go on
    writer,    \* gapbs: where the process that feeds the FIFO is
    graph,     \* the number of parts of the graph, 0 if it is not split
    parts,     \* those that are left in the image
    pipe,      \* what was written to the FIFO and not yet read
    heard      \* what the kernel has read, in order

fed == <<graph, writer, parts, pipe, heard>>
guestVars == <<program, pc, status, failure, ran, codes, nemu, code, died, fed>>

\* The parts of a graph, as split numbers them.
Graph(n) == [i \in 1..n |-> i]

GuestInit ==
    /\ program \in Programs
    /\ pc = 1
    /\ status = 0
    /\ failure = 0
    /\ ran = 0
    /\ codes = <<>>
    /\ nemu = "up"
    /\ code = 0
    /\ died = FALSE
    /\ writer = "none" /\ pipe = <<>> /\ heard = <<>>
    /\ graph \in IF program.name = "gapbs" THEN {0} \cup 2..MaxParts ELSE {0}
    /\ parts = 1..graph

Current == program.steps[pc]

Running == nemu = "up" /\ pc <= Len(program.steps)

Enabled ==
    CASE Current.when = "ok" -> status = 0
      [] Current.when = "failed" -> status # 0
      [] OTHER -> TRUE

\* External: NEMU goes on after 256, 257 and 258 and stops with any other.
Send(c) ==
    IF c \in {256, 257, 258}
    THEN codes' = Append(codes, c) /\ UNCHANGED <<nemu, code>>
    ELSE nemu' = "stopped" /\ code' = c /\ UNCHANGED codes

Skip ==
    /\ Running
    /\ ~Enabled
    /\ pc' = pc + 1
    /\ UNCHANGED <<program, status, failure, ran, codes, nemu, code, died, fed>>

\* A kernel that reads a FIFO has all of it when the writer has closed it.
EndOfFile == writer \in {"none", "done", "dead"} /\ pipe = <<>>

RunCommand ==
    /\ Running
    /\ Enabled
    /\ Current.op \in {"run", "piped"}
    /\ EndOfFile
    /\ \E raw \in Outcomes :
         /\ failure' = IF failure = 0 THEN raw ELSE failure
         /\ status' = IF Current.op = "piped" THEN 0 ELSE raw
    /\ ran' = ran + 1
    /\ pc' = pc + 1
    /\ UNCHANGED <<program, codes, nemu, code, died, fed>>

SendTrap ==
    /\ Running
    /\ Enabled
    /\ \/ Current.op = "trap" /\ Send(TrapCode(Current.arg))
       \/ Current.op = "trapStatus" /\ Send(ShellStatus(status))
       \/ Current.op = "trapRaw" /\ Send(status)
    /\ pc' = pc + 1
    /\ UNCHANGED <<program, status, failure, ran, died, fed>>

\* BAD_TRAP: fork or execvp fails in nemu-exec.
NemuExecFails ==
    /\ Running
    /\ program.name \in {"nemu-exec", "gapbs"}
    /\ pc \in {1, 3}
    /\ Send(-1)
    /\ UNCHANGED <<program, pc, status, failure, ran, died, fed>>

\* The script is killed, or one of its commands fails under set -e.
ScriptDies ==
    /\ Running
    /\ program.first <= pc /\ pc < program.outer
    /\ pc' = program.outer
    /\ died' = TRUE
    /\ UNCHANGED <<program, status, failure, ran, codes, nemu, code, fed>>

-----------------------------------------------------------------------------
(* The FIFO of gapbs *)

\* A graph that is not split is read as a plain file.
MakeFifo ==
    /\ Running
    /\ Current.op = "fifo"
    /\ writer' = IF graph = 0 THEN "none" ELSE "open"
    /\ pc' = pc + 1
    /\ UNCHANGED <<program, status, failure, ran, codes, nemu, code, died, graph, parts, pipe, heard>>

\* mkfifo fails, and set -e ends the script with 1.
FailFifo ==
    /\ Running
    /\ Current.op = "fifo" /\ graph # 0
    /\ status' = 256 /\ failure' = 256
    /\ pc' = pc + 1
    /\ UNCHANGED <<program, ran, codes, nemu, code, died, fed>>

\* The kernel ends before it has read its graph.
FailReading ==
    /\ Running
    /\ Current.op = "run" /\ Enabled
    /\ ~EndOfFile
    /\ \E raw \in Outcomes \ {0} : status' = raw /\ failure' = raw
    /\ ran' = ran + 1
    /\ pc' = pc + 1
    /\ UNCHANGED <<program, codes, nemu, code, died, fed>>

Reading == Running /\ Current.op = "run"

\* Mutant: the names of the parts sort the other way.
NextPartLast == CHOOSE p \in parts : \A q \in parts : q <= p

\* The suffixes have three digits, so that the shell sorts them as numbers.
NextPart == CHOOSE p \in parts : \A q \in parts : p <= q

\* The first part is sent once the kernel has opened the FIFO.
Cat ==
    /\ Reading
    /\ writer \in {"open", "cat"} /\ pipe = <<>>
    /\ pipe' = <<NextPart>>
    /\ writer' = "rm"
    /\ UNCHANGED <<program, pc, status, failure, ran, codes, nemu, code, died, graph, parts, heard>>

RemovePart ==
    /\ Reading
    /\ writer = "rm"
    /\ parts' = parts \ {NextPart}
    /\ writer' = IF parts' = {} THEN "done" ELSE "cat"
    /\ UNCHANGED <<program, pc, status, failure, ran, codes, nemu, code, died, graph, pipe, heard>>

ReadPart ==
    /\ Reading
    /\ pipe # <<>>
    /\ heard' = heard \o pipe
    /\ pipe' = <<>>
    /\ UNCHANGED <<program, pc, status, failure, ran, codes, nemu, code, died, graph, writer, parts>>

\* The writer is killed, or its cat fails under set -e.  If it has opened the
\* FIFO the kernel sees the end of a file, if not it waits for ever.
WriterDies ==
    /\ Reading
    /\ writer \in {"open", "cat", "rm"}
    /\ writer' = IF writer = "open" THEN "never" ELSE "dead"
    /\ UNCHANGED <<program, pc, status, failure, ran, codes, nemu, code, died, graph, parts, pipe, heard>>

Idle == ~Running /\ UNCHANGED guestVars

GuestProgress == Skip \/ RunCommand \/ SendTrap \/ MakeFifo \/ Cat \/ RemovePart \/ ReadPart

GuestNext == GuestProgress \/ NemuExecFails \/ ScriptDies \/ FailFifo \/ FailReading \/ WriterDies \/ Idle

GuestSpec == GuestInit /\ [][GuestNext]_guestVars

\* The guest runs its processes, and every benchmark command ends.
GuestFairSpec == GuestSpec /\ WF_guestVars(GuestProgress)

-----------------------------------------------------------------------------
(* Properties *)

\* geekbench sends 0 on purpose; kvmtool and litmus lose the status in a
\* pipe.
Judging == program.name \in {"nemu-exec", "gapbs", "coremark-pro", "rvv-bench", "spec2017"}

Commands == Cardinality({i \in 1..Len(program.steps) : program.steps[i].op \in {"run", "piped"}})

Succeeded == failure = 0 /\ ran = Commands /\ ~died

\* Of the scripts that judge their commands: a good trap means that every
\* command was run, that none failed, and that the script was not cut short,
\* wherever it was killed.  And a run of any script in which all that is so
\* ends in a good trap.
GoodTrapMeansSuccess ==
    nemu = "stopped" => /\ code = 0 /\ Judging => Succeeded
                        /\ Succeeded => code = 0

\* A graph that gapbs streams, in a run that ends in a good trap, was read
\* whole and in order, each part once, although every part is removed when it
\* has been sent (gapbs-package.py:103); unless the writer died on the way,
\* whose status the script does not look at.
StreamReadWhole ==
    nemu = "stopped" /\ code = 0 /\ writer # "dead" => parts = {} /\ heard = Graph(graph)

\* The run scripts stop the machine with the status of the first command
\* that failed, a signal counting as 128 plus its number; the commands after
\* it are not run.
FirstFailureStops ==
    /\ program.name \in {"coremark-pro", "spec2017"}
    /\ nemu = "stopped" /\ failure # 0 /\ ~died
    => code = ShellStatus(failure) /\ status = failure

\* nemu-exec has sent the status 256 of its command: NEMU takes it for the
\* first code of the profiler and goes on (main.c:37).
SentAsCode ==
    /\ program.name \in {"nemu-exec", "gapbs"}
    /\ status = 256 /\ pc > Len(program.steps) /\ ~died

\* Both profiler codes are sent, once and in order, before the command they
\* are meant for, and none is sent after it, however the commands end and
\* wherever the script is killed; except by nemu-exec, if its command exits
\* with 1.  The first command of spec2017 comes before the codes, and kvmtool
\* and litmus send none.
ProfiledCommandAnnounced ==
    LET first == IF program.name = "spec2017" THEN 1 ELSE 0
        profiled == program.name \notin {"kvmtool", "litmus"}
    IN  IF profiled /\ (ran > first \/ SentAsCode)
        THEN codes = IF SentAsCode THEN <<256, 257, 256>> ELSE <<256, 257>>
        ELSE /\ codes \in {<<>>, <<256>>, <<256, 257>>}
             /\ codes # <<>> => profiled /\ ran >= first

\* The machine is stopped in the end, whatever the commands return, unless
\* the script was killed; and under nemu-exec, unless the workload exits
\* with 1, which is sent as 256.  The kernel of gapbs and the writer never
\* wait for each other, unless the writer dies before it opens the FIFO.
MachineStops ==
    <>(\/ nemu = "stopped" \/ died \/ writer = "never"
       \/ program.name \in {"nemu-exec", "gapbs"} /\ status = 256)

\* README.md:177 says that nemu-exec "stops NEMU with the exit code of the
\* workload".  (Violated: main.c:37 sends what waitpid reports, so that exit
\* code 1 is sent as 256 and the machine goes on for ever.)
StopsWithExitCode ==
    \A c \in ExitCodes :
        program.name = "nemu-exec" /\ ran = 1 /\ status = 256 * c
            ~> (nemu = "stopped" /\ code = c) \/ died

=============================================================================
