---------------------------- MODULE JemallocCache ----------------------------
(***************************************************************************)
(* prepare_jemalloc in the build.sh of the three SPEC suites: the cases    *)
(* that one make -jN builds in parallel share one jemalloc, which whoever  *)
(* comes first builds, under a lock that is a directory.  The lock is      *)
(* given up by rmdir, and by the EXIT trap when a build fails or is        *)
(* interrupted; nothing gives it up after SIGKILL.  A signal may reach the *)
(* whole group of processes or the script alone, and then the subshell     *)
(* that installs goes on without it.  A later make may ask for another     *)
(* library: another repository, commit, compiler or host.                  *)
(* spec2017 and spec2026 write beside the library what it was built from;  *)
(* spec2006 does not, and takes any library that is there.                 *)
(***************************************************************************)
EXTENDS Naturals

CONSTANTS Build,        \* the runs of build.sh that share the library
          Key,          \* what the metadata may say
          NoKey,        \* there is no metadata, or no library
          MaxMakes,     \* bound on the invocations of make
          MaxSignals    \* bound on the signals sent

ASSUME KeyAssumption == NoKey \notin Key
ASSUME BoundsAssumption == MaxMakes \in Nat /\ MaxSignals \in Nat

VARIABLES
    byFile,     \* the suite is spec2006
    pc,         \* build -> where it is
    key,        \* what this make asks for
    lock,       \* the directory .lock exists
    lib,        \* libjemalloc.a: for which key, and whether it is complete
    meta,       \* what .workload-builder-jemalloc-meta says
    linked,     \* build -> the library it was linked with
    breached,   \* a trap has removed a lock that was another build's, or a
                \* subshell goes on without its script
    runaway,    \* what such subshells install
    orphaned,   \* a build that had the lock was killed
    cut,        \* the library was changed, and the metadata is another's;
                \* in spec2006, an install was cut short
    raced,      \* spec2006: a build has found a library that was not whole
    makes,      \* invocations of make so far
    signals     \* signals sent so far

vars == <<byFile, pc, key, lock, lib, meta, linked, breached, runaway, orphaned, cut, raced,
          makes, signals>>

NoLibrary == [of |-> NoKey, whole |-> FALSE]

Library == [of : Key, whole : BOOLEAN]

Init ==
    /\ byFile \in BOOLEAN
    /\ pc = [b \in Build |-> "done"]
    /\ key \in Key
    /\ lock = FALSE
    /\ lib = NoLibrary
    /\ meta = NoKey
    /\ linked = [b \in Build |-> NoLibrary]
    /\ breached = FALSE /\ runaway = {} /\ orphaned = FALSE /\ cut = FALSE /\ raced = FALSE
    /\ makes = 0 /\ signals = 0

Goto(b, l) == pc' = [pc EXCEPT ![b] = l]

\* Mutant: the metadata is not looked at.
CurrentByFile == lib # NoLibrary

\* jemalloc_cache_is_current, without an explicit SPEC2017_JEMALLOC_ROOT.
Current == lib # NoLibrary /\ (byFile \/ meta = key)

\* Before the lock is taken; from here on jemalloc_lock_dir is set.
Check(b) ==
    /\ pc[b] = "check"
    /\ Goto(b, IF Current THEN "ready" ELSE "locking")
    /\ raced' = (raced \/ (byFile /\ lib # NoLibrary /\ ~lib.whole))
    /\ UNCHANGED <<byFile, key, lock, lib, meta, linked, breached, orphaned, cut, makes,
                   signals, runaway>>

\* Mutant: mkdir -p.
LockAnyway(b) ==
    /\ pc[b] = "locking"
    /\ lock' = TRUE
    /\ Goto(b, "recheck")
    /\ UNCHANGED <<byFile, key, lib, meta, linked, breached, orphaned, cut, raced, makes,
                   signals, runaway>>

\* mkdir, tried once a second.
Lock(b) ==
    /\ pc[b] = "locking"
    /\ ~lock
    /\ lock' = TRUE
    /\ Goto(b, "recheck")
    /\ UNCHANGED <<byFile, key, lib, meta, linked, breached, orphaned, cut, raced, makes,
                   signals, runaway>>

\* Mutant: what was seen before the wait is still believed.
RecheckNot(b) ==
    /\ pc[b] = "recheck"
    /\ Goto(b, "build")
    /\ UNCHANGED <<byFile, key, lock, lib, meta, linked, breached, orphaned, cut, raced, makes,
                   signals, runaway>>

\* Another build may have installed the library while this one waited.
Recheck(b) ==
    /\ pc[b] = "recheck"
    /\ Goto(b, IF Current THEN "release" ELSE "build")
    /\ UNCHANGED <<byFile, key, lock, lib, meta, linked, breached, orphaned, cut, raced, makes,
                   signals, runaway>>

\* Checkout, configure, make; then make install opens the library for writing.
StartInstall(b) ==
    /\ pc[b] = "build"
    /\ lib' = [of |-> key, whole |-> FALSE]
    /\ Goto(b, "install")
    /\ UNCHANGED <<byFile, key, lock, meta, linked, breached, orphaned, cut, raced, makes,
                   signals, runaway>>

\* Mutant: the checkout is left at what the library was built from before.
FinishInstallBefore(b) ==
    /\ pc[b] = "install"
    /\ lib' = [of |-> meta, whole |-> TRUE]
    /\ Goto(b, IF byFile THEN "release" ELSE "record")
    /\ UNCHANGED <<byFile, key, lock, meta, linked, breached, orphaned, cut, raced, makes,
                   signals, runaway>>

FinishInstall(b) ==
    /\ pc[b] = "install"
    /\ lib' = [of |-> key, whole |-> TRUE]
    /\ Goto(b, IF byFile THEN "release" ELSE "record")
    /\ UNCHANGED <<byFile, key, lock, meta, linked, breached, orphaned, cut, raced, makes,
                   signals, runaway>>

Record(b) ==
    /\ pc[b] = "record"
    /\ meta' = key
    /\ cut' = FALSE
    /\ Goto(b, "release")
    /\ UNCHANGED <<byFile, key, lock, lib, linked, breached, orphaned, raced, makes,
                   signals, runaway>>

\* rmdir; set -e ends the build when there is no lock to remove.  The trap
\* stays armed until jemalloc_lock_dir is reset.
Release(b) ==
    /\ pc[b] = "release"
    /\ lock' = FALSE
    /\ Goto(b, IF lock THEN "released" ELSE "ended")
    /\ UNCHANGED <<byFile, key, lib, meta, linked, breached, orphaned, cut, raced, makes,
                   signals, runaway>>

Disarm(b) ==
    /\ pc[b] = "released"
    /\ Goto(b, "ready")
    /\ UNCHANGED <<byFile, key, lock, lib, meta, linked, breached, orphaned, cut, raced, makes,
                   signals, runaway>>

\* The case is linked with the library as it is then.
Link(b) ==
    /\ pc[b] = "ready"
    /\ linked' = [linked EXCEPT ![b] = lib]
    /\ Goto(b, "done")
    /\ UNCHANGED <<byFile, key, lock, lib, meta, breached, orphaned, cut, raced, makes,
                   signals, runaway>>

-----------------------------------------------------------------------------
(* What goes wrong *)

Holding == {"recheck", "build", "install", "record", "release"}
Armed == Holding \cup {"locking", "released"}
Over == {"done", "ended", "killed"}

\* Mutant: the trap is not set.
CleanupNot(b) == UNCHANGED <<lock, breached>>

\* The EXIT trap: rmdir of a lock that may be another build's.
Cleanup(b) ==
    IF pc[b] \in Armed
    THEN /\ lock' = FALSE
         /\ breached' = (breached \/ (lock /\ pc[b] \notin Holding))
    ELSE UNCHANGED <<lock, breached>>

\* An install that is cut short leaves the metadata of the library before,
\* or none when it is cut short while that is being overwritten.
CutShort(b) ==
    /\ meta' \in (IF pc[b] = "record" THEN {meta, NoKey} ELSE {meta})
    /\ cut' = IF byFile THEN cut \/ pc[b] = "install"
              ELSE /\ meta' # NoKey
                   /\ cut \/ (pc[b] \in {"install", "record"} /\ meta' # key)

\* The subshell fails, or leaves no library: return 1.
Fail(b) ==
    /\ pc[b] \in {"build", "install"}
    /\ Cleanup(b)
    /\ CutShort(b)
    /\ Goto(b, "ended")
    /\ UNCHANGED <<byFile, key, lib, linked, orphaned, raced, makes,
                   signals, runaway>>

\* SIGINT or SIGTERM, to the group.
Interrupt(b) ==
    /\ pc[b] \notin Over
    /\ signals < MaxSignals
    /\ signals' = signals + 1
    /\ Cleanup(b)
    /\ CutShort(b)
    /\ Goto(b, "ended")
    /\ UNCHANGED <<byFile, key, lib, linked, orphaned, raced, makes, runaway>>

\* SIGKILL, to the group.
Kill(b) ==
    /\ pc[b] \notin Over
    /\ signals < MaxSignals
    /\ signals' = signals + 1
    /\ CutShort(b)
    /\ orphaned' = (orphaned \/ pc[b] \in Holding)
    /\ Goto(b, "killed")
    /\ UNCHANGED <<byFile, key, lock, lib, linked, breached, raced, makes, runaway>>

\* SIGTERM or SIGKILL to the script alone: bash does not wait for the subshell.
LoseScript(b) ==
    /\ pc[b] \in {"build", "install"}
    /\ signals < MaxSignals
    /\ signals' = signals + 1
    /\ breached' = TRUE
    /\ runaway' = runaway \cup {key}
    /\ \/ lock' = FALSE /\ Goto(b, "ended") /\ UNCHANGED orphaned
       \/ UNCHANGED lock /\ Goto(b, "killed") /\ orphaned' = TRUE
    /\ UNCHANGED <<byFile, key, lib, meta, linked, cut, raced, makes>>

\* The subshell goes on with its install, comes to its end, or fails.
RunOn(k) ==
    /\ \/ /\ lib' = [of |-> k, whole |-> FALSE]
          /\ UNCHANGED runaway
       \/ /\ lib' = [of |-> k, whole |-> TRUE]
          /\ runaway' = runaway \ {k}
       \/ /\ runaway' = runaway \ {k}
          /\ UNCHANGED lib
    /\ UNCHANGED <<byFile, pc, key, lock, meta, linked, breached, orphaned, cut, raced, makes,
                   signals>>

\* make waits for its builds, so that they are over when it is run again;
\* but not for a subshell without its script.
Make(k) ==
    /\ \A b \in Build : pc[b] \in Over
    /\ makes < MaxMakes
    /\ makes' = makes + 1
    /\ key' = k
    /\ pc' = [b \in Build |-> "check"]
    /\ linked' = [b \in Build |-> NoLibrary]
    /\ UNCHANGED <<byFile, lock, lib, meta, breached, orphaned, cut, raced, signals,
                   runaway>>

Step(b) ==
    \/ Check(b) \/ Lock(b) \/ Recheck(b)
    \/ StartInstall(b) \/ FinishInstall(b) \/ Record(b)
    \/ Release(b) \/ Disarm(b) \/ Link(b)

\* The builds are over, or wait for a lock that nobody will give up.
Rest ==
    /\ runaway = {}
    /\ \A b \in Build : pc[b] \in Over \/ (pc[b] = "locking" /\ lock)
    /\ UNCHANGED vars

Next ==
    \/ \E k \in Key : Make(k)
    \/ \E b \in Build : Step(b) \/ Fail(b) \/ Interrupt(b) \/ Kill(b) \/ LoseScript(b)
    \/ \E k \in runaway : RunOn(k)
    \/ Rest

Spec == Init /\ [][Next]_vars

\* The scheduler lets every build go on; a command of a build ends.
FairSpec == Spec /\ \A b \in Build : WF_vars(Step(b))

-----------------------------------------------------------------------------
(* Properties *)

TypeOK ==
    /\ byFile \in BOOLEAN
    /\ pc \in [Build -> Armed \cup Over \cup {"check", "ready"}]
    /\ lock \in BOOLEAN
    /\ key \in Key
    /\ lib \in Library \cup {NoLibrary}
    /\ meta \in Key \cup {NoKey}
    /\ linked \in [Build -> Library \cup {NoLibrary}]
    /\ runaway \subseteq Key
    /\ breached \in BOOLEAN /\ orphaned \in BOOLEAN
    /\ cut \in BOOLEAN /\ raced \in BOOLEAN
    /\ makes \in 0..MaxMakes
    /\ signals \in 0..MaxSignals

\* As long as no trap has removed another build's lock, and no subshell goes on
\* without its script, at most one build is between mkdir and rmdir, and it has
\* the lock: failures, interrupted holders and SIGKILL included.
OneHolder ==
    ~breached =>
        \A a, b \in Build :
            /\ pc[a] \in Holding => lock
            /\ pc[a] \in Holding /\ pc[b] \in Holding => a = b

\* A build only ever links a library that was installed completely and for
\* its own metadata, although it reads both without the lock: whatever was
\* cut short before, unless that was an install over a library that the
\* metadata goes on to describe.  In spec2006 it links one that was installed
\* completely, for whatever key, unless an install has been cut short, or a
\* build has come, and looked without the lock, while another was installing.
LinkedWhole ==
    ~breached /\ ~cut /\ ~raced =>
        \A b \in Build : linked[b] # NoLibrary =>
            linked[b].whole /\ (byFile \/ linked[b].of = key)

\* Once the metadata is there, the library is not written again until make
\* asks for another, so no build that found it current can have it change
\* under its hands.  In spec2006 a whole library is never written again.
InstalledOnce ==
    [][~breached /\ (IF byFile THEN lib.whole ELSE meta = key)
         => lib' = lib /\ meta' = meta]_vars

\* Every build ends, unless the one that had the lock was killed: after that
\* the others wait for ever.
EveryBuildEnds == \A b \in Build : pc[b] = "check" ~> pc[b] \in Over \/ orphaned

=============================================================================
