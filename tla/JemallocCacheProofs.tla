-------------------------- MODULE JemallocCacheProofs --------------------------
(***************************************************************************)
(* Proofs about how the packagers of SPEC come to an ELF and to a package: *)
(* first JemallocCache, for any set of builds, any set of keys and any     *)
(* bounds; then CaseFiles, for any data, any entries and any bounds.       *)
(***************************************************************************)
EXTENDS JemallocCache, CaseFiles, SequenceTheorems, TLAPS

\* The inductive invariant.  A build that is building has found the metadata
\* of another key; the library is what the metadata says, or is being
\* installed; and a build that goes on has found the metadata of its key.
\* In spec2006 there is no metadata: a build that is building has found no
\* library, one that installs has it torn, and one that goes on has it whole.
Installing == {"build", "install", "record"}
Served == {"release", "released", "ready", "done"}

MetaIsOther == ~breached /\ ~byFile => \A b \in Build : pc[b] \in Installing => meta # key

LibraryIsMeta ==
    ~breached /\ ~cut /\ ~byFile /\ meta # NoKey =>
        \/ lib = [of |-> meta, whole |-> TRUE]
        \/ \E b \in Build : pc[b] \in {"install", "record"}

LibraryStays ==
    /\ meta # NoKey => lib # NoLibrary
    /\ \A b \in Build : pc[b] \in {"install", "record"} => lib # NoLibrary

RecordedIsWhole ==
    ~breached => \A b \in Build : pc[b] = "record" => lib = [of |-> key, whole |-> TRUE]

ServedIsCurrent ==
    ~breached /\ ~byFile => \A b \in Build :
        pc[b] \in {"release", "released", "ready"} \/ linked[b] # NoLibrary => meta = key

FileUnrecorded == byFile => meta = NoKey /\ \A b \in Build : pc[b] # "record"

FileInstalls ==
    ~breached /\ byFile => \A b \in Build :
        /\ pc[b] = "build" => lib = NoLibrary
        /\ pc[b] = "install" => ~lib.whole

FileServed ==
    ~breached /\ ~cut /\ ~raced /\ byFile =>
        /\ lib = NoLibrary \/ lib.whole \/ \E b \in Build : pc[b] = "install"
        /\ \A b \in Build : pc[b] \in {"release", "released", "ready"} => lib.whole

RunawayBreaches == runaway # {} => breached

IInv ==
    /\ TypeOK
    /\ RunawayBreaches
    /\ OneHolder
    /\ MetaIsOther
    /\ LibraryIsMeta
    /\ LibraryStays
    /\ RecordedIsWhole
    /\ ServedIsCurrent
    /\ FileUnrecorded
    /\ FileInstalls
    /\ FileServed
    /\ LinkedWhole

-----------------------------------------------------------------------------
(* One lemma per part: every step preserves it *)

\* Every step preserves that a subshell without its script is a breach.
LEMMA RunawayStep ==
    ASSUME TypeOK, RunawayBreaches, [Next]_vars
    PROVE  RunawayBreaches'
<1>1. ASSUME breached' = breached, runaway' = runaway PROVE RunawayBreaches'
  BY <1>1 DEF RunawayBreaches
<1>2. ASSUME NEW b \in Build, Step(b) PROVE breached' = breached /\ runaway' = runaway
  BY <1>2 DEF Step, Check, Lock, Recheck, StartInstall, FinishInstall, Record, Release, Disarm, Link
<1>3. ASSUME NEW b \in Build, Fail(b) \/ Interrupt(b) PROVE RunawayBreaches'
  BY <1>3 DEF RunawayBreaches, Fail, Interrupt, Cleanup
<1>4. ASSUME NEW b \in Build, LoseScript(b) PROVE RunawayBreaches'
  BY <1>4 DEF RunawayBreaches, LoseScript
<1>5. ASSUME NEW k \in runaway, RunOn(k) PROVE RunawayBreaches'
  BY <1>5 DEF RunawayBreaches, RunOn
<1>6. ASSUME NEW k \in Key, Make(k) PROVE breached' = breached /\ runaway' = runaway
  BY <1>6 DEF Make
<1>7. ASSUME NEW b \in Build, Kill(b) PROVE breached' = breached /\ runaway' = runaway
  BY <1>7 DEF Kill
<1>8. Rest \/ UNCHANGED vars => breached' = breached /\ runaway' = runaway
  BY DEF Rest, vars
<1>. QED  BY <1>1, <1>2, <1>3, <1>4, <1>5, <1>6, <1>7, <1>8 DEF Next

\* Every step preserves the type invariant.
LEMMA TypeStep ==
    ASSUME TypeOK, [Next]_vars
    PROVE  TypeOK'
<1>1. ASSUME NEW b \in Build, Check(b) PROVE TypeOK'
  BY BoundsAssumption, <1>1 DEF TypeOK, Armed, Holding, Over, Library, NoLibrary, Check, Goto
<1>2. ASSUME NEW b \in Build, Lock(b) PROVE TypeOK'
  BY BoundsAssumption, <1>2 DEF TypeOK, Armed, Holding, Over, Library, NoLibrary, Lock, Goto
<1>3. ASSUME NEW b \in Build, Recheck(b) PROVE TypeOK'
  BY BoundsAssumption, <1>3 DEF TypeOK, Armed, Holding, Over, Library, NoLibrary, Recheck, Goto
<1>4. ASSUME NEW b \in Build, StartInstall(b) PROVE TypeOK'
  BY BoundsAssumption, <1>4 DEF TypeOK, Armed, Holding, Over, Library, NoLibrary, StartInstall, Goto
<1>5. ASSUME NEW b \in Build, FinishInstall(b) PROVE TypeOK'
  BY BoundsAssumption, <1>5 DEF TypeOK, Armed, Holding, Over, Library, NoLibrary, FinishInstall, Goto
<1>6. ASSUME NEW b \in Build, Record(b) PROVE TypeOK'
  BY BoundsAssumption, <1>6 DEF TypeOK, Armed, Holding, Over, Library, NoLibrary, Record, Goto
<1>7. ASSUME NEW b \in Build, Release(b) PROVE TypeOK'
  BY BoundsAssumption, <1>7 DEF TypeOK, Armed, Holding, Over, Library, NoLibrary, Release, Goto
<1>8. ASSUME NEW b \in Build, Disarm(b) PROVE TypeOK'
  BY BoundsAssumption, <1>8 DEF TypeOK, Armed, Holding, Over, Library, NoLibrary, Disarm, Goto
<1>9. ASSUME NEW b \in Build, Link(b) PROVE TypeOK'
  BY BoundsAssumption, <1>9 DEF TypeOK, Armed, Holding, Over, Library, NoLibrary, Link, Goto
<1>10. ASSUME NEW b \in Build, Fail(b) PROVE TypeOK'
  BY BoundsAssumption, <1>10 DEF TypeOK, Armed, Holding, Over, Library, NoLibrary, Fail, Goto, Cleanup, CutShort
<1>11. ASSUME NEW b \in Build, Interrupt(b) PROVE TypeOK'
  <2>1. lock' \in BOOLEAN /\ breached' \in BOOLEAN
    BY <1>11 DEF TypeOK, Interrupt, Cleanup
  <2>2. meta' \in Key \cup {NoKey} /\ cut' \in BOOLEAN
    BY <1>11 DEF TypeOK, Interrupt, CutShort
  <2>3. pc' \in [Build -> Armed \cup Over \cup {"check", "ready"}]
    BY <1>11 DEF TypeOK, Interrupt, Goto, Over
  <2>4. signals' \in 0..MaxSignals
    BY BoundsAssumption, <1>11 DEF TypeOK, Interrupt
  <2>. QED  BY <1>11, <2>1, <2>2, <2>3, <2>4 DEF TypeOK, Interrupt
<1>12. ASSUME NEW b \in Build, Kill(b) PROVE TypeOK'
  <2>1. orphaned' \in BOOLEAN
    BY <1>12 DEF TypeOK, Kill
  <2>2. meta' \in Key \cup {NoKey} /\ cut' \in BOOLEAN
    BY <1>12 DEF TypeOK, Kill, CutShort
  <2>3. pc' \in [Build -> Armed \cup Over \cup {"check", "ready"}]
    BY <1>12 DEF TypeOK, Kill, Goto, Over
  <2>4. signals' \in 0..MaxSignals
    BY BoundsAssumption, <1>12 DEF TypeOK, Kill
  <2>. QED  BY <1>12, <2>1, <2>2, <2>3, <2>4 DEF TypeOK, Kill
<1>13. ASSUME NEW k \in Key, Make(k) PROVE TypeOK'
  BY BoundsAssumption, <1>13 DEF TypeOK, Armed, Holding, Over, Library, NoLibrary, Make
<1>14. ASSUME Rest \/ UNCHANGED vars PROVE TypeOK'
  BY <1>14 DEF TypeOK, Armed, Holding, Over, Library, NoLibrary, Rest, vars
<1>15. ASSUME NEW b \in Build, LoseScript(b) PROVE TypeOK'
  <2>1. runaway' \subseteq Key
    BY <1>15 DEF TypeOK, LoseScript
  <2>2. lock' \in BOOLEAN /\ breached' \in BOOLEAN /\ orphaned' \in BOOLEAN
    BY <1>15 DEF TypeOK, LoseScript
  <2>3. pc' \in [Build -> Armed \cup Over \cup {"check", "ready"}]
    BY <1>15 DEF TypeOK, LoseScript, Goto, Over
  <2>4. signals' \in 0..MaxSignals
    BY BoundsAssumption, <1>15 DEF TypeOK, LoseScript
  <2>. QED  BY <1>15, <2>1, <2>2, <2>3, <2>4 DEF TypeOK, LoseScript
<1>16. ASSUME NEW k \in runaway, RunOn(k) PROVE TypeOK'
  <2>1. k \in Key /\ runaway' \subseteq Key
    BY <1>16 DEF TypeOK, RunOn
  <2>2. lib' \in Library \cup {NoLibrary}
    <3>1. \A whole \in BOOLEAN : [of |-> k, whole |-> whole] \in Library
      BY <2>1 DEF Library
    <3>2. lib' = lib \/ \E whole \in BOOLEAN : lib' = [of |-> k, whole |-> whole]
      BY <1>16 DEF RunOn
    <3>. QED  BY <3>1, <3>2 DEF TypeOK
  <2>. QED  BY <1>16, <2>1, <2>2 DEF TypeOK, RunOn
<1>. QED  BY <1>1, <1>2, <1>3, <1>4, <1>5, <1>6, <1>7, <1>8, <1>9, <1>10, <1>11, <1>12, <1>13, <1>14, <1>15, <1>16 DEF Next, Step

\* Every step preserves that the lock has one holder.
LEMMA HolderStep ==
    ASSUME TypeOK, RunawayBreaches, OneHolder, [Next]_vars
    PROVE  OneHolder'
<1>1. ASSUME NEW b \in Build, Check(b) PROVE OneHolder'
  BY <1>1 DEF TypeOK, OneHolder, Armed, Holding, Over, Check, Goto
<1>2. ASSUME NEW b \in Build, Lock(b) PROVE OneHolder'
  BY <1>2 DEF TypeOK, OneHolder, Armed, Holding, Over, Lock, Goto
<1>3. ASSUME NEW b \in Build, Recheck(b) PROVE OneHolder'
  BY <1>3 DEF TypeOK, OneHolder, Armed, Holding, Over, Recheck, Goto
<1>4. ASSUME NEW b \in Build, StartInstall(b) PROVE OneHolder'
  BY <1>4 DEF TypeOK, OneHolder, Armed, Holding, Over, StartInstall, Goto
<1>5. ASSUME NEW b \in Build, FinishInstall(b) PROVE OneHolder'
  BY <1>5 DEF TypeOK, OneHolder, Armed, Holding, Over, FinishInstall, Goto
<1>6. ASSUME NEW b \in Build, Record(b) PROVE OneHolder'
  BY <1>6 DEF TypeOK, OneHolder, Armed, Holding, Over, Record, Goto
<1>7. ASSUME NEW b \in Build, Release(b) PROVE OneHolder'
  BY <1>7 DEF TypeOK, OneHolder, Armed, Holding, Over, Release, Goto
<1>8. ASSUME NEW b \in Build, Disarm(b) PROVE OneHolder'
  BY <1>8 DEF TypeOK, OneHolder, Armed, Holding, Over, Disarm, Goto
<1>9. ASSUME NEW b \in Build, Link(b) PROVE OneHolder'
  BY <1>9 DEF TypeOK, OneHolder, Armed, Holding, Over, Link, Goto
<1>10. ASSUME NEW b \in Build, Fail(b) PROVE OneHolder'
  BY <1>10 DEF TypeOK, OneHolder, Armed, Holding, Over, Fail, Goto, Cleanup, CutShort
<1>11. ASSUME NEW b \in Build, Interrupt(b) PROVE OneHolder'
  BY <1>11 DEF TypeOK, OneHolder, Armed, Holding, Over, Interrupt, Goto, Cleanup, CutShort
<1>12. ASSUME NEW b \in Build, Kill(b) PROVE OneHolder'
  BY <1>12 DEF TypeOK, OneHolder, Armed, Holding, Over, Kill, Goto, CutShort
<1>13. ASSUME NEW k \in Key, Make(k) PROVE OneHolder'
  BY <1>13 DEF TypeOK, OneHolder, Armed, Holding, Over, Make
<1>14. ASSUME Rest \/ UNCHANGED vars PROVE OneHolder'
  BY <1>14 DEF TypeOK, OneHolder, Armed, Holding, Over, Rest, vars
<1>15. ASSUME NEW b \in Build, LoseScript(b) PROVE OneHolder'
  BY <1>15 DEF TypeOK, OneHolder, Armed, Holding, Over, LoseScript, Goto
<1>16. ASSUME NEW k \in runaway, RunOn(k) PROVE OneHolder'
  BY <1>16 DEF TypeOK, OneHolder, Armed, Holding, Over, RunawayBreaches, RunOn
<1>. QED  BY <1>1, <1>2, <1>3, <1>4, <1>5, <1>6, <1>7, <1>8, <1>9, <1>10, <1>11, <1>12, <1>13, <1>14, <1>15, <1>16 DEF Next, Step

\* Every step preserves that a builder has found other metadata.
LEMMA MetaStep ==
    ASSUME TypeOK, RunawayBreaches, OneHolder, LibraryStays, MetaIsOther, [Next]_vars
    PROVE  MetaIsOther'
<1>1. ASSUME NEW b \in Build, Check(b) PROVE MetaIsOther'
  BY <1>1 DEF TypeOK, LibraryStays, OneHolder, MetaIsOther, Installing, Armed, Holding, Over, Current, Check, Goto
<1>2. ASSUME NEW b \in Build, Lock(b) PROVE MetaIsOther'
  BY <1>2 DEF TypeOK, LibraryStays, OneHolder, MetaIsOther, Installing, Armed, Holding, Over, Current, Lock, Goto
<1>3. ASSUME NEW b \in Build, Recheck(b) PROVE MetaIsOther'
  BY KeyAssumption, <1>3 DEF TypeOK, LibraryStays, OneHolder, MetaIsOther, Installing, Armed, Holding, Over, Current, Recheck, Goto
<1>4. ASSUME NEW b \in Build, StartInstall(b) PROVE MetaIsOther'
  BY <1>4 DEF TypeOK, LibraryStays, OneHolder, MetaIsOther, Installing, Armed, Holding, Over, Current, StartInstall, Goto
<1>5. ASSUME NEW b \in Build, FinishInstall(b) PROVE MetaIsOther'
  BY <1>5 DEF TypeOK, LibraryStays, OneHolder, MetaIsOther, Installing, Armed, Holding, Over, Current, FinishInstall, Goto
<1>6. ASSUME NEW b \in Build, Record(b) PROVE MetaIsOther'
  BY <1>6 DEF TypeOK, LibraryStays, OneHolder, MetaIsOther, Installing, Armed, Holding, Over, Current, Record, Goto
<1>7. ASSUME NEW b \in Build, Release(b) PROVE MetaIsOther'
  BY <1>7 DEF TypeOK, LibraryStays, OneHolder, MetaIsOther, Installing, Armed, Holding, Over, Current, Release, Goto
<1>8. ASSUME NEW b \in Build, Disarm(b) PROVE MetaIsOther'
  BY <1>8 DEF TypeOK, LibraryStays, OneHolder, MetaIsOther, Installing, Armed, Holding, Over, Current, Disarm, Goto
<1>9. ASSUME NEW b \in Build, Link(b) PROVE MetaIsOther'
  BY <1>9 DEF TypeOK, LibraryStays, OneHolder, MetaIsOther, Installing, Armed, Holding, Over, Current, Link, Goto
<1>10. ASSUME NEW b \in Build, Fail(b) PROVE MetaIsOther'
  BY <1>10 DEF TypeOK, LibraryStays, OneHolder, MetaIsOther, Installing, Armed, Holding, Over, Current, Fail, Goto, Cleanup, CutShort
<1>11. ASSUME NEW b \in Build, Interrupt(b) PROVE MetaIsOther'
  BY <1>11 DEF TypeOK, LibraryStays, OneHolder, MetaIsOther, Installing, Armed, Holding, Over, Current, Interrupt, Goto, Cleanup, CutShort
<1>12. ASSUME NEW b \in Build, Kill(b) PROVE MetaIsOther'
  BY <1>12 DEF TypeOK, LibraryStays, OneHolder, MetaIsOther, Installing, Armed, Holding, Over, Current, Kill, Goto, CutShort
<1>13. ASSUME NEW k \in Key, Make(k) PROVE MetaIsOther'
  BY <1>13 DEF TypeOK, LibraryStays, OneHolder, MetaIsOther, Installing, Armed, Holding, Over, Current, Make
<1>14. ASSUME Rest \/ UNCHANGED vars PROVE MetaIsOther'
  BY <1>14 DEF TypeOK, LibraryStays, OneHolder, MetaIsOther, Installing, Armed, Holding, Over, Current, Rest, vars
<1>15. ASSUME NEW b \in Build, LoseScript(b) PROVE MetaIsOther'
  BY <1>15 DEF TypeOK, LibraryStays, OneHolder, MetaIsOther, Installing, Armed, Holding, Over, Current, LoseScript, Goto
<1>16. ASSUME NEW k \in runaway, RunOn(k) PROVE MetaIsOther'
  BY <1>16 DEF TypeOK, LibraryStays, OneHolder, MetaIsOther, Installing, Armed, Holding, Over, Current, RunawayBreaches, RunOn
<1>. QED  BY <1>1, <1>2, <1>3, <1>4, <1>5, <1>6, <1>7, <1>8, <1>9, <1>10, <1>11, <1>12, <1>13, <1>14, <1>15, <1>16 DEF Next, Step

\* Every step preserves that the metadata describes the library.
LEMMA LibraryStep ==
    ASSUME TypeOK, RunawayBreaches, OneHolder, MetaIsOther, RecordedIsWhole, LibraryIsMeta, [Next]_vars
    PROVE  LibraryIsMeta'
<1>1. ASSUME NEW b \in Build, Check(b) PROVE LibraryIsMeta'
  BY <1>1 DEF TypeOK, OneHolder, MetaIsOther, RecordedIsWhole, LibraryIsMeta, Installing, Armed, Holding, Over, Check, Goto
<1>2. ASSUME NEW b \in Build, Lock(b) PROVE LibraryIsMeta'
  BY <1>2 DEF TypeOK, OneHolder, MetaIsOther, RecordedIsWhole, LibraryIsMeta, Installing, Armed, Holding, Over, Lock, Goto
<1>3. ASSUME NEW b \in Build, Recheck(b) PROVE LibraryIsMeta'
  BY <1>3 DEF TypeOK, OneHolder, MetaIsOther, RecordedIsWhole, LibraryIsMeta, Installing, Armed, Holding, Over, Recheck, Goto
<1>4. ASSUME NEW b \in Build, StartInstall(b) PROVE LibraryIsMeta'
  BY <1>4 DEF TypeOK, OneHolder, MetaIsOther, RecordedIsWhole, LibraryIsMeta, Installing, Armed, Holding, Over, StartInstall, Goto
<1>5. ASSUME NEW b \in Build, FinishInstall(b) PROVE LibraryIsMeta'
  BY <1>5 DEF TypeOK, OneHolder, MetaIsOther, RecordedIsWhole, LibraryIsMeta, Installing, Armed, Holding, Over, FinishInstall, Goto
<1>6. ASSUME NEW b \in Build, Record(b) PROVE LibraryIsMeta'
  BY <1>6 DEF TypeOK, OneHolder, MetaIsOther, RecordedIsWhole, LibraryIsMeta, Installing, Armed, Holding, Over, Record, Goto
<1>7. ASSUME NEW b \in Build, Release(b) PROVE LibraryIsMeta'
  BY <1>7 DEF TypeOK, OneHolder, MetaIsOther, RecordedIsWhole, LibraryIsMeta, Installing, Armed, Holding, Over, Release, Goto
<1>8. ASSUME NEW b \in Build, Disarm(b) PROVE LibraryIsMeta'
  BY <1>8 DEF TypeOK, OneHolder, MetaIsOther, RecordedIsWhole, LibraryIsMeta, Installing, Armed, Holding, Over, Disarm, Goto
<1>9. ASSUME NEW b \in Build, Link(b) PROVE LibraryIsMeta'
  BY <1>9 DEF TypeOK, OneHolder, MetaIsOther, RecordedIsWhole, LibraryIsMeta, Installing, Armed, Holding, Over, Link, Goto
<1>10. ASSUME NEW b \in Build, Fail(b) PROVE LibraryIsMeta'
  BY <1>10 DEF TypeOK, OneHolder, MetaIsOther, RecordedIsWhole, LibraryIsMeta, Installing, Armed, Holding, Over, Fail, Goto, Cleanup, CutShort
<1>11. ASSUME NEW b \in Build, Interrupt(b) PROVE LibraryIsMeta'
  BY <1>11 DEF TypeOK, OneHolder, MetaIsOther, RecordedIsWhole, LibraryIsMeta, Installing, Armed, Holding, Over, Interrupt, Goto, Cleanup, CutShort
<1>12. ASSUME NEW b \in Build, Kill(b) PROVE LibraryIsMeta'
  BY <1>12 DEF TypeOK, OneHolder, MetaIsOther, RecordedIsWhole, LibraryIsMeta, Installing, Armed, Holding, Over, Kill, Goto, CutShort
<1>13. ASSUME NEW k \in Key, Make(k) PROVE LibraryIsMeta'
  BY <1>13 DEF TypeOK, OneHolder, MetaIsOther, RecordedIsWhole, LibraryIsMeta, Installing, Armed, Holding, Over, Make
<1>14. ASSUME Rest \/ UNCHANGED vars PROVE LibraryIsMeta'
  BY <1>14 DEF TypeOK, OneHolder, MetaIsOther, RecordedIsWhole, LibraryIsMeta, Installing, Armed, Holding, Over, Rest, vars
<1>15. ASSUME NEW b \in Build, LoseScript(b) PROVE LibraryIsMeta'
  BY <1>15 DEF TypeOK, OneHolder, MetaIsOther, RecordedIsWhole, LibraryIsMeta, Installing, Armed, Holding, Over, LoseScript, Goto
<1>16. ASSUME NEW k \in runaway, RunOn(k) PROVE LibraryIsMeta'
  BY <1>16 DEF TypeOK, OneHolder, MetaIsOther, RecordedIsWhole, LibraryIsMeta, Installing, Armed, Holding, Over, RunawayBreaches, RunOn
<1>. QED  BY <1>1, <1>2, <1>3, <1>4, <1>5, <1>6, <1>7, <1>8, <1>9, <1>10, <1>11, <1>12, <1>13, <1>14, <1>15, <1>16 DEF Next, Step

\* Every step preserves that there is a library when there is metadata.
LEMMA StaysStep ==
    ASSUME TypeOK, LibraryStays, [Next]_vars
    PROVE  LibraryStays'
<1>1. ASSUME NEW b \in Build, Check(b) PROVE LibraryStays'
  BY <1>1 DEF TypeOK, LibraryStays, Library, NoLibrary, Check, Goto
<1>2. ASSUME NEW b \in Build, Lock(b) PROVE LibraryStays'
  BY <1>2 DEF TypeOK, LibraryStays, Library, NoLibrary, Lock, Goto
<1>3. ASSUME NEW b \in Build, Recheck(b) PROVE LibraryStays'
  BY <1>3 DEF TypeOK, LibraryStays, Library, NoLibrary, Recheck, Goto
<1>4. ASSUME NEW b \in Build, StartInstall(b) PROVE LibraryStays'
  BY KeyAssumption, <1>4 DEF TypeOK, LibraryStays, Library, NoLibrary, StartInstall, Goto
<1>5. ASSUME NEW b \in Build, FinishInstall(b) PROVE LibraryStays'
  BY <1>5 DEF TypeOK, LibraryStays, Library, NoLibrary, FinishInstall, Goto
<1>6. ASSUME NEW b \in Build, Record(b) PROVE LibraryStays'
  BY <1>6 DEF TypeOK, LibraryStays, Library, NoLibrary, Record, Goto
<1>7. ASSUME NEW b \in Build, Release(b) PROVE LibraryStays'
  BY <1>7 DEF TypeOK, LibraryStays, Library, NoLibrary, Release, Goto
<1>8. ASSUME NEW b \in Build, Disarm(b) PROVE LibraryStays'
  BY <1>8 DEF TypeOK, LibraryStays, Library, NoLibrary, Disarm, Goto
<1>9. ASSUME NEW b \in Build, Link(b) PROVE LibraryStays'
  BY <1>9 DEF TypeOK, LibraryStays, Library, NoLibrary, Link, Goto
<1>10. ASSUME NEW b \in Build, Fail(b) PROVE LibraryStays'
  BY <1>10 DEF TypeOK, LibraryStays, Library, NoLibrary, Fail, Goto, Cleanup, CutShort
<1>11. ASSUME NEW b \in Build, Interrupt(b) PROVE LibraryStays'
  BY <1>11 DEF TypeOK, LibraryStays, Library, NoLibrary, Interrupt, Goto, Cleanup, CutShort
<1>12. ASSUME NEW b \in Build, Kill(b) PROVE LibraryStays'
  BY <1>12 DEF TypeOK, LibraryStays, Library, NoLibrary, Kill, Goto, CutShort
<1>13. ASSUME NEW k \in Key, Make(k) PROVE LibraryStays'
  BY <1>13 DEF TypeOK, LibraryStays, Library, NoLibrary, Make
<1>14. ASSUME Rest \/ UNCHANGED vars PROVE LibraryStays'
  BY <1>14 DEF TypeOK, LibraryStays, Library, NoLibrary, Rest, vars
<1>15. ASSUME NEW b \in Build, LoseScript(b) PROVE LibraryStays'
  BY <1>15 DEF TypeOK, LibraryStays, Library, NoLibrary, LoseScript, Goto
<1>16. ASSUME NEW k \in runaway, RunOn(k) PROVE LibraryStays'
  BY KeyAssumption, <1>16 DEF TypeOK, LibraryStays, Library, NoLibrary, RunOn
<1>. QED  BY <1>1, <1>2, <1>3, <1>4, <1>5, <1>6, <1>7, <1>8, <1>9, <1>10, <1>11, <1>12, <1>13, <1>14, <1>15, <1>16 DEF Next, Step

\* Every step preserves that what is recorded is whole.
LEMMA RecordStep ==
    ASSUME TypeOK, RunawayBreaches, OneHolder, RecordedIsWhole, [Next]_vars
    PROVE  RecordedIsWhole'
<1>1. ASSUME NEW b \in Build, Check(b) PROVE RecordedIsWhole'
  BY <1>1 DEF TypeOK, OneHolder, RecordedIsWhole, Armed, Holding, Over, Check, Goto
<1>2. ASSUME NEW b \in Build, Lock(b) PROVE RecordedIsWhole'
  BY <1>2 DEF TypeOK, OneHolder, RecordedIsWhole, Armed, Holding, Over, Lock, Goto
<1>3. ASSUME NEW b \in Build, Recheck(b) PROVE RecordedIsWhole'
  BY <1>3 DEF TypeOK, OneHolder, RecordedIsWhole, Armed, Holding, Over, Recheck, Goto
<1>4. ASSUME NEW b \in Build, StartInstall(b) PROVE RecordedIsWhole'
  BY <1>4 DEF TypeOK, OneHolder, RecordedIsWhole, Armed, Holding, Over, StartInstall, Goto
<1>5. ASSUME NEW b \in Build, FinishInstall(b) PROVE RecordedIsWhole'
  BY <1>5 DEF TypeOK, OneHolder, RecordedIsWhole, Armed, Holding, Over, FinishInstall, Goto
<1>6. ASSUME NEW b \in Build, Record(b) PROVE RecordedIsWhole'
  BY <1>6 DEF TypeOK, OneHolder, RecordedIsWhole, Armed, Holding, Over, Record, Goto
<1>7. ASSUME NEW b \in Build, Release(b) PROVE RecordedIsWhole'
  BY <1>7 DEF TypeOK, OneHolder, RecordedIsWhole, Armed, Holding, Over, Release, Goto
<1>8. ASSUME NEW b \in Build, Disarm(b) PROVE RecordedIsWhole'
  BY <1>8 DEF TypeOK, OneHolder, RecordedIsWhole, Armed, Holding, Over, Disarm, Goto
<1>9. ASSUME NEW b \in Build, Link(b) PROVE RecordedIsWhole'
  BY <1>9 DEF TypeOK, OneHolder, RecordedIsWhole, Armed, Holding, Over, Link, Goto
<1>10. ASSUME NEW b \in Build, Fail(b) PROVE RecordedIsWhole'
  BY <1>10 DEF TypeOK, OneHolder, RecordedIsWhole, Armed, Holding, Over, Fail, Goto, Cleanup, CutShort
<1>11. ASSUME NEW b \in Build, Interrupt(b) PROVE RecordedIsWhole'
  BY <1>11 DEF TypeOK, OneHolder, RecordedIsWhole, Armed, Holding, Over, Interrupt, Goto, Cleanup, CutShort
<1>12. ASSUME NEW b \in Build, Kill(b) PROVE RecordedIsWhole'
  BY <1>12 DEF TypeOK, OneHolder, RecordedIsWhole, Armed, Holding, Over, Kill, Goto, CutShort
<1>13. ASSUME NEW k \in Key, Make(k) PROVE RecordedIsWhole'
  BY <1>13 DEF TypeOK, OneHolder, RecordedIsWhole, Armed, Holding, Over, Make
<1>14. ASSUME Rest \/ UNCHANGED vars PROVE RecordedIsWhole'
  BY <1>14 DEF TypeOK, OneHolder, RecordedIsWhole, Armed, Holding, Over, Rest, vars
<1>15. ASSUME NEW b \in Build, LoseScript(b) PROVE RecordedIsWhole'
  BY <1>15 DEF TypeOK, OneHolder, RecordedIsWhole, Armed, Holding, Over, LoseScript, Goto
<1>16. ASSUME NEW k \in runaway, RunOn(k) PROVE RecordedIsWhole'
  BY <1>16 DEF TypeOK, OneHolder, RecordedIsWhole, Armed, Holding, Over, RunawayBreaches, RunOn
<1>. QED  BY <1>1, <1>2, <1>3, <1>4, <1>5, <1>6, <1>7, <1>8, <1>9, <1>10, <1>11, <1>12, <1>13, <1>14, <1>15, <1>16 DEF Next, Step

\* Every step preserves that whoever goes on has current metadata.
LEMMA ServedStep ==
    ASSUME TypeOK, RunawayBreaches, OneHolder, MetaIsOther, ServedIsCurrent, [Next]_vars
    PROVE  ServedIsCurrent'
<1>1. ASSUME NEW b \in Build, Check(b) PROVE ServedIsCurrent'
  BY <1>1 DEF TypeOK, OneHolder, MetaIsOther, ServedIsCurrent, Installing, Armed, Holding, Over, Current, Check, Goto
<1>2. ASSUME NEW b \in Build, Lock(b) PROVE ServedIsCurrent'
  BY <1>2 DEF TypeOK, OneHolder, MetaIsOther, ServedIsCurrent, Installing, Armed, Holding, Over, Current, Lock, Goto
<1>3. ASSUME NEW b \in Build, Recheck(b) PROVE ServedIsCurrent'
  BY <1>3 DEF TypeOK, OneHolder, MetaIsOther, ServedIsCurrent, Installing, Armed, Holding, Over, Current, Recheck, Goto
<1>4. ASSUME NEW b \in Build, StartInstall(b) PROVE ServedIsCurrent'
  BY <1>4 DEF TypeOK, OneHolder, MetaIsOther, ServedIsCurrent, Installing, Armed, Holding, Over, Current, StartInstall, Goto
<1>5. ASSUME NEW b \in Build, FinishInstall(b) PROVE ServedIsCurrent'
  BY <1>5 DEF TypeOK, OneHolder, MetaIsOther, ServedIsCurrent, Installing, Armed, Holding, Over, Current, FinishInstall, Goto
<1>6. ASSUME NEW b \in Build, Record(b) PROVE ServedIsCurrent'
  BY <1>6 DEF TypeOK, OneHolder, MetaIsOther, ServedIsCurrent, Installing, Armed, Holding, Over, Current, Record, Goto
<1>7. ASSUME NEW b \in Build, Release(b) PROVE ServedIsCurrent'
  BY <1>7 DEF TypeOK, OneHolder, MetaIsOther, ServedIsCurrent, Installing, Armed, Holding, Over, Current, Release, Goto
<1>8. ASSUME NEW b \in Build, Disarm(b) PROVE ServedIsCurrent'
  BY <1>8 DEF TypeOK, OneHolder, MetaIsOther, ServedIsCurrent, Installing, Armed, Holding, Over, Current, Disarm, Goto
<1>9. ASSUME NEW b \in Build, Link(b) PROVE ServedIsCurrent'
  BY <1>9 DEF TypeOK, OneHolder, MetaIsOther, ServedIsCurrent, Installing, Armed, Holding, Over, Current, Link, Goto
<1>10. ASSUME NEW b \in Build, Fail(b) PROVE ServedIsCurrent'
  BY <1>10 DEF TypeOK, OneHolder, MetaIsOther, ServedIsCurrent, Installing, Armed, Holding, Over, Current, Fail, Goto, Cleanup, CutShort
<1>11. ASSUME NEW b \in Build, Interrupt(b) PROVE ServedIsCurrent'
  BY <1>11 DEF TypeOK, OneHolder, MetaIsOther, ServedIsCurrent, Installing, Armed, Holding, Over, Current, Interrupt, Goto, Cleanup, CutShort
<1>12. ASSUME NEW b \in Build, Kill(b) PROVE ServedIsCurrent'
  BY <1>12 DEF TypeOK, OneHolder, MetaIsOther, ServedIsCurrent, Installing, Armed, Holding, Over, Current, Kill, Goto, CutShort
<1>13. ASSUME NEW k \in Key, Make(k) PROVE ServedIsCurrent'
  BY <1>13 DEF TypeOK, OneHolder, MetaIsOther, ServedIsCurrent, Installing, Armed, Holding, Over, Current, Make
<1>14. ASSUME Rest \/ UNCHANGED vars PROVE ServedIsCurrent'
  BY <1>14 DEF TypeOK, OneHolder, MetaIsOther, ServedIsCurrent, Installing, Armed, Holding, Over, Current, Rest, vars
<1>15. ASSUME NEW b \in Build, LoseScript(b) PROVE ServedIsCurrent'
  BY <1>15 DEF TypeOK, OneHolder, MetaIsOther, ServedIsCurrent, Installing, Armed, Holding, Over, Current, LoseScript, Goto
<1>16. ASSUME NEW k \in runaway, RunOn(k) PROVE ServedIsCurrent'
  BY <1>16 DEF TypeOK, OneHolder, MetaIsOther, ServedIsCurrent, Installing, Armed, Holding, Over, Current, RunawayBreaches, RunOn
<1>. QED  BY <1>1, <1>2, <1>3, <1>4, <1>5, <1>6, <1>7, <1>8, <1>9, <1>10, <1>11, <1>12, <1>13, <1>14, <1>15, <1>16 DEF Next, Step

\* Every step preserves that spec2006 keeps no metadata.
LEMMA FileUnrecordedStep ==
    ASSUME TypeOK, FileUnrecorded, [Next]_vars
    PROVE  FileUnrecorded'
<1>1. ASSUME NEW b \in Build, Check(b) PROVE FileUnrecorded'
  BY <1>1 DEF TypeOK, FileUnrecorded, Check, Goto
<1>2. ASSUME NEW b \in Build, Lock(b) PROVE FileUnrecorded'
  BY <1>2 DEF TypeOK, FileUnrecorded, Lock, Goto
<1>3. ASSUME NEW b \in Build, Recheck(b) PROVE FileUnrecorded'
  BY <1>3 DEF TypeOK, FileUnrecorded, Recheck, Goto
<1>4. ASSUME NEW b \in Build, StartInstall(b) PROVE FileUnrecorded'
  BY <1>4 DEF TypeOK, FileUnrecorded, StartInstall, Goto
<1>5. ASSUME NEW b \in Build, FinishInstall(b) PROVE FileUnrecorded'
  BY <1>5 DEF TypeOK, FileUnrecorded, FinishInstall, Goto
<1>6. ASSUME NEW b \in Build, Record(b) PROVE FileUnrecorded'
  BY <1>6 DEF TypeOK, FileUnrecorded, Record, Goto
<1>7. ASSUME NEW b \in Build, Release(b) PROVE FileUnrecorded'
  BY <1>7 DEF TypeOK, FileUnrecorded, Release, Goto
<1>8. ASSUME NEW b \in Build, Disarm(b) PROVE FileUnrecorded'
  BY <1>8 DEF TypeOK, FileUnrecorded, Disarm, Goto
<1>9. ASSUME NEW b \in Build, Link(b) PROVE FileUnrecorded'
  BY <1>9 DEF TypeOK, FileUnrecorded, Link, Goto
<1>10. ASSUME NEW b \in Build, Fail(b) PROVE FileUnrecorded'
  BY <1>10 DEF TypeOK, FileUnrecorded, Fail, Goto, Cleanup, CutShort
<1>11. ASSUME NEW b \in Build, Interrupt(b) PROVE FileUnrecorded'
  BY <1>11 DEF TypeOK, FileUnrecorded, Interrupt, Goto, Cleanup, CutShort
<1>12. ASSUME NEW b \in Build, Kill(b) PROVE FileUnrecorded'
  BY <1>12 DEF TypeOK, FileUnrecorded, Kill, Goto, CutShort
<1>13. ASSUME NEW k \in Key, Make(k) PROVE FileUnrecorded'
  BY <1>13 DEF TypeOK, FileUnrecorded, Make
<1>14. ASSUME Rest \/ UNCHANGED vars PROVE FileUnrecorded'
  BY <1>14 DEF TypeOK, FileUnrecorded, Rest, vars
<1>15. ASSUME NEW b \in Build, LoseScript(b) PROVE FileUnrecorded'
  BY <1>15 DEF TypeOK, FileUnrecorded, LoseScript, Goto
<1>16. ASSUME NEW k \in runaway, RunOn(k) PROVE FileUnrecorded'
  BY <1>16 DEF TypeOK, FileUnrecorded, RunOn
<1>. QED  BY <1>1, <1>2, <1>3, <1>4, <1>5, <1>6, <1>7, <1>8, <1>9, <1>10, <1>11, <1>12, <1>13, <1>14, <1>15, <1>16 DEF Next, Step

\* Every step preserves that spec2006 only installs where there is no library.
LEMMA FileInstallsStep ==
    ASSUME TypeOK, RunawayBreaches, OneHolder, FileInstalls, [Next]_vars
    PROVE  FileInstalls'
<1>1. ASSUME NEW b \in Build, Check(b) PROVE FileInstalls'
  BY <1>1 DEF TypeOK, OneHolder, FileInstalls, Holding, Armed, Over, NoLibrary, Current, Check, Goto
<1>2. ASSUME NEW b \in Build, Lock(b) PROVE FileInstalls'
  BY <1>2 DEF TypeOK, OneHolder, FileInstalls, Holding, Armed, Over, NoLibrary, Current, Lock, Goto
<1>3. ASSUME NEW b \in Build, Recheck(b) PROVE FileInstalls'
  BY <1>3 DEF TypeOK, OneHolder, FileInstalls, Holding, Armed, Over, NoLibrary, Current, Recheck, Goto
<1>4. ASSUME NEW b \in Build, StartInstall(b) PROVE FileInstalls'
  BY <1>4 DEF TypeOK, OneHolder, FileInstalls, Holding, Armed, Over, NoLibrary, Current, StartInstall, Goto
<1>5. ASSUME NEW b \in Build, FinishInstall(b) PROVE FileInstalls'
  BY <1>5 DEF TypeOK, OneHolder, FileInstalls, Holding, Armed, Over, NoLibrary, Current, FinishInstall, Goto
<1>6. ASSUME NEW b \in Build, Record(b) PROVE FileInstalls'
  BY <1>6 DEF TypeOK, OneHolder, FileInstalls, Holding, Armed, Over, NoLibrary, Current, Record, Goto
<1>7. ASSUME NEW b \in Build, Release(b) PROVE FileInstalls'
  BY <1>7 DEF TypeOK, OneHolder, FileInstalls, Holding, Armed, Over, NoLibrary, Current, Release, Goto
<1>8. ASSUME NEW b \in Build, Disarm(b) PROVE FileInstalls'
  BY <1>8 DEF TypeOK, OneHolder, FileInstalls, Holding, Armed, Over, NoLibrary, Current, Disarm, Goto
<1>9. ASSUME NEW b \in Build, Link(b) PROVE FileInstalls'
  BY <1>9 DEF TypeOK, OneHolder, FileInstalls, Holding, Armed, Over, NoLibrary, Current, Link, Goto
<1>10. ASSUME NEW b \in Build, Fail(b) PROVE FileInstalls'
  BY <1>10 DEF TypeOK, OneHolder, FileInstalls, Holding, Armed, Over, NoLibrary, Current, Fail, Goto, Cleanup, CutShort
<1>11. ASSUME NEW b \in Build, Interrupt(b) PROVE FileInstalls'
  BY <1>11 DEF TypeOK, OneHolder, FileInstalls, Holding, Armed, Over, NoLibrary, Current, Interrupt, Goto, Cleanup, CutShort
<1>12. ASSUME NEW b \in Build, Kill(b) PROVE FileInstalls'
  BY <1>12 DEF TypeOK, OneHolder, FileInstalls, Holding, Armed, Over, NoLibrary, Current, Kill, Goto, CutShort
<1>13. ASSUME NEW k \in Key, Make(k) PROVE FileInstalls'
  BY <1>13 DEF TypeOK, OneHolder, FileInstalls, Holding, Armed, Over, NoLibrary, Current, Make
<1>14. ASSUME Rest \/ UNCHANGED vars PROVE FileInstalls'
  BY <1>14 DEF TypeOK, OneHolder, FileInstalls, Holding, Armed, Over, NoLibrary, Current, Rest, vars
<1>15. ASSUME NEW b \in Build, LoseScript(b) PROVE FileInstalls'
  BY <1>15 DEF TypeOK, OneHolder, FileInstalls, Holding, Armed, Over, NoLibrary, Current, LoseScript, Goto
<1>16. ASSUME NEW k \in runaway, RunOn(k) PROVE FileInstalls'
  BY <1>16 DEF TypeOK, OneHolder, FileInstalls, Holding, Armed, Over, NoLibrary, Current, RunawayBreaches, RunOn
<1>. QED  BY <1>1, <1>2, <1>3, <1>4, <1>5, <1>6, <1>7, <1>8, <1>9, <1>10, <1>11, <1>12, <1>13, <1>14, <1>15, <1>16 DEF Next, Step

\* Every step preserves that spec2006 goes on with a whole library.
LEMMA FileServedStep ==
    ASSUME TypeOK, RunawayBreaches, OneHolder, FileUnrecorded, FileInstalls, FileServed, [Next]_vars
    PROVE  FileServed'
<1>1. ASSUME NEW b \in Build, Check(b) PROVE FileServed'
  BY <1>1 DEF TypeOK, OneHolder, FileUnrecorded, FileInstalls, FileServed, Holding, Armed, Over, NoLibrary, Library, Current, Check, Goto
<1>2. ASSUME NEW b \in Build, Lock(b) PROVE FileServed'
  BY <1>2 DEF TypeOK, OneHolder, FileUnrecorded, FileInstalls, FileServed, Holding, Armed, Over, NoLibrary, Library, Current, Lock, Goto
<1>3. ASSUME NEW b \in Build, Recheck(b) PROVE FileServed'
  BY <1>3 DEF TypeOK, OneHolder, FileUnrecorded, FileInstalls, FileServed, Holding, Armed, Over, NoLibrary, Library, Current, Recheck, Goto
<1>4. ASSUME NEW b \in Build, StartInstall(b) PROVE FileServed'
  BY <1>4 DEF TypeOK, OneHolder, FileUnrecorded, FileInstalls, FileServed, Holding, Armed, Over, NoLibrary, Library, Current, StartInstall, Goto
<1>5. ASSUME NEW b \in Build, FinishInstall(b) PROVE FileServed'
  BY <1>5 DEF TypeOK, OneHolder, FileUnrecorded, FileInstalls, FileServed, Holding, Armed, Over, NoLibrary, Library, Current, FinishInstall, Goto
<1>6. ASSUME NEW b \in Build, Record(b) PROVE FileServed'
  BY <1>6 DEF TypeOK, OneHolder, FileUnrecorded, FileInstalls, FileServed, Holding, Armed, Over, NoLibrary, Library, Current, Record, Goto
<1>7. ASSUME NEW b \in Build, Release(b) PROVE FileServed'
  BY <1>7 DEF TypeOK, OneHolder, FileUnrecorded, FileInstalls, FileServed, Holding, Armed, Over, NoLibrary, Library, Current, Release, Goto
<1>8. ASSUME NEW b \in Build, Disarm(b) PROVE FileServed'
  BY <1>8 DEF TypeOK, OneHolder, FileUnrecorded, FileInstalls, FileServed, Holding, Armed, Over, NoLibrary, Library, Current, Disarm, Goto
<1>9. ASSUME NEW b \in Build, Link(b) PROVE FileServed'
  BY <1>9 DEF TypeOK, OneHolder, FileUnrecorded, FileInstalls, FileServed, Holding, Armed, Over, NoLibrary, Library, Current, Link, Goto
<1>10. ASSUME NEW b \in Build, Fail(b) PROVE FileServed'
  BY <1>10 DEF TypeOK, OneHolder, FileUnrecorded, FileInstalls, FileServed, Holding, Armed, Over, NoLibrary, Library, Current, Fail, Goto, Cleanup, CutShort
<1>11. ASSUME NEW b \in Build, Interrupt(b) PROVE FileServed'
  BY <1>11 DEF TypeOK, OneHolder, FileUnrecorded, FileInstalls, FileServed, Holding, Armed, Over, NoLibrary, Library, Current, Interrupt, Goto, Cleanup, CutShort
<1>12. ASSUME NEW b \in Build, Kill(b) PROVE FileServed'
  BY <1>12 DEF TypeOK, OneHolder, FileUnrecorded, FileInstalls, FileServed, Holding, Armed, Over, NoLibrary, Library, Current, Kill, Goto, CutShort
<1>13. ASSUME NEW k \in Key, Make(k) PROVE FileServed'
  BY <1>13 DEF TypeOK, OneHolder, FileUnrecorded, FileInstalls, FileServed, Holding, Armed, Over, NoLibrary, Library, Current, Make
<1>14. ASSUME Rest \/ UNCHANGED vars PROVE FileServed'
  BY <1>14 DEF TypeOK, OneHolder, FileUnrecorded, FileInstalls, FileServed, Holding, Armed, Over, NoLibrary, Library, Current, Rest, vars
<1>15. ASSUME NEW b \in Build, LoseScript(b) PROVE FileServed'
  BY <1>15 DEF TypeOK, OneHolder, FileUnrecorded, FileInstalls, FileServed, Holding, Armed, Over, NoLibrary, Library, Current, LoseScript, Goto
<1>16. ASSUME NEW k \in runaway, RunOn(k) PROVE FileServed'
  BY <1>16 DEF TypeOK, OneHolder, FileUnrecorded, FileInstalls, FileServed, Holding, Armed, Over, NoLibrary, Library, Current, RunawayBreaches, RunOn
<1>. QED  BY <1>1, <1>2, <1>3, <1>4, <1>5, <1>6, <1>7, <1>8, <1>9, <1>10, <1>11, <1>12, <1>13, <1>14, <1>15, <1>16 DEF Next, Step

\* Every step preserves that only whole libraries are linked.
LEMMA LinkedStep ==
    ASSUME IInv, [Next]_vars
    PROVE  LinkedWhole'
<1>1. ASSUME NEW b \in Build, Check(b) PROVE LinkedWhole'
  BY <1>1 DEF IInv, TypeOK, OneHolder, MetaIsOther, LibraryIsMeta, ServedIsCurrent, LinkedWhole, Installing, Armed, Holding, Over, Library, NoLibrary, Check, Goto
<1>2. ASSUME NEW b \in Build, Lock(b) PROVE LinkedWhole'
  BY <1>2 DEF IInv, TypeOK, OneHolder, MetaIsOther, LibraryIsMeta, ServedIsCurrent, LinkedWhole, Installing, Armed, Holding, Over, Library, NoLibrary, Lock, Goto
<1>3. ASSUME NEW b \in Build, Recheck(b) PROVE LinkedWhole'
  BY <1>3 DEF IInv, TypeOK, OneHolder, MetaIsOther, LibraryIsMeta, ServedIsCurrent, LinkedWhole, Installing, Armed, Holding, Over, Library, NoLibrary, Recheck, Goto
<1>4. ASSUME NEW b \in Build, StartInstall(b) PROVE LinkedWhole'
  BY <1>4 DEF IInv, TypeOK, OneHolder, MetaIsOther, LibraryIsMeta, ServedIsCurrent, LinkedWhole, Installing, Armed, Holding, Over, Library, NoLibrary, StartInstall, Goto
<1>5. ASSUME NEW b \in Build, FinishInstall(b) PROVE LinkedWhole'
  BY <1>5 DEF IInv, TypeOK, OneHolder, MetaIsOther, LibraryIsMeta, ServedIsCurrent, LinkedWhole, Installing, Armed, Holding, Over, Library, NoLibrary, FinishInstall, Goto
<1>6. ASSUME NEW b \in Build, Record(b) PROVE LinkedWhole'
  <2>1. ~byFile
    BY <1>6 DEF IInv, FileUnrecorded, Record
  <2>2. ~breached => \A c \in Build : linked[c] = NoLibrary
    BY <1>6, <2>1 DEF IInv, MetaIsOther, ServedIsCurrent, Installing, Record
  <2>. QED  BY <1>6, <2>2 DEF LinkedWhole, Record
<1>7. ASSUME NEW b \in Build, Release(b) PROVE LinkedWhole'
  BY <1>7 DEF IInv, TypeOK, OneHolder, MetaIsOther, LibraryIsMeta, ServedIsCurrent, LinkedWhole, Installing, Armed, Holding, Over, Library, NoLibrary, Release, Goto
<1>8. ASSUME NEW b \in Build, Disarm(b) PROVE LinkedWhole'
  BY <1>8 DEF IInv, TypeOK, OneHolder, MetaIsOther, LibraryIsMeta, ServedIsCurrent, LinkedWhole, Installing, Armed, Holding, Over, Library, NoLibrary, Disarm, Goto
<1>9. ASSUME NEW b \in Build, Link(b) PROVE LinkedWhole'
  <2>1. ~breached /\ ~byFile => meta = key /\ meta # NoKey
    BY <1>9, KeyAssumption DEF IInv, TypeOK, ServedIsCurrent, Link
  <2>2. ~breached /\ ~cut /\ ~byFile => lib = [of |-> key, whole |-> TRUE]
    BY <2>1 DEF IInv, LibraryIsMeta, MetaIsOther, Installing
  <2>3. ~breached /\ ~cut /\ ~raced /\ byFile => lib.whole
    BY <1>9 DEF IInv, FileServed, Link
  <2>4. ~breached /\ ~cut /\ ~raced => lib.whole /\ (byFile \/ lib.of = key)
    BY <2>2, <2>3
  <2>. QED
    BY <1>9, <2>4 DEF IInv, TypeOK, LinkedWhole, Link
<1>10. ASSUME NEW b \in Build, Fail(b) PROVE LinkedWhole'
  BY <1>10 DEF IInv, TypeOK, OneHolder, MetaIsOther, LibraryIsMeta, ServedIsCurrent, LinkedWhole, Installing, Armed, Holding, Over, Library, NoLibrary, Fail, Goto, Cleanup, CutShort
<1>11. ASSUME NEW b \in Build, Interrupt(b) PROVE LinkedWhole'
  <2>1. linked' = linked /\ key' = key /\ (~breached' => ~breached)
    BY <1>11 DEF Interrupt, Cleanup
  <2>2. CASE meta' = meta
    BY KeyAssumption, <1>11, <2>1, <2>2 DEF IInv, TypeOK, LinkedWhole, ServedIsCurrent, MetaIsOther, Installing,
       Interrupt, CutShort, NoLibrary
  <2>3. CASE meta' # meta
    <3>1. pc[b] = "record" /\ ~byFile
      BY <1>11, <2>3 DEF Interrupt, CutShort, IInv, FileUnrecorded
    <3>. QED
      BY <2>1, <3>1 DEF IInv, LinkedWhole, ServedIsCurrent, MetaIsOther, Installing, NoLibrary
  <2>. QED
    BY <2>2, <2>3
<1>12. ASSUME NEW b \in Build, Kill(b) PROVE LinkedWhole'
  <2>1. linked' = linked /\ key' = key /\ (~breached' => ~breached)
    BY <1>12 DEF Kill
  <2>2. CASE meta' = meta
    BY KeyAssumption, <1>12, <2>1, <2>2 DEF IInv, TypeOK, LinkedWhole, ServedIsCurrent, MetaIsOther, Installing,
       Kill, CutShort, NoLibrary
  <2>3. CASE meta' # meta
    <3>1. pc[b] = "record" /\ ~byFile
      BY <1>12, <2>3 DEF Kill, CutShort, IInv, FileUnrecorded
    <3>. QED
      BY <2>1, <3>1 DEF IInv, LinkedWhole, ServedIsCurrent, MetaIsOther, Installing, NoLibrary
  <2>. QED
    BY <2>2, <2>3
<1>13. ASSUME NEW k \in Key, Make(k) PROVE LinkedWhole'
  BY <1>13 DEF IInv, TypeOK, OneHolder, MetaIsOther, LibraryIsMeta, ServedIsCurrent, LinkedWhole, Installing, Armed, Holding, Over, Library, NoLibrary, Make
<1>14. ASSUME Rest \/ UNCHANGED vars PROVE LinkedWhole'
  BY <1>14 DEF IInv, TypeOK, OneHolder, MetaIsOther, LibraryIsMeta, ServedIsCurrent, LinkedWhole, Installing, Armed, Holding, Over, Library, NoLibrary, Rest, vars
<1>15. ASSUME NEW b \in Build, LoseScript(b) PROVE LinkedWhole'
  BY <1>15 DEF IInv, TypeOK, OneHolder, MetaIsOther, LibraryIsMeta, ServedIsCurrent, LinkedWhole, Installing, Armed, Holding, Over, Library, NoLibrary, LoseScript, Goto
<1>16. ASSUME NEW k \in runaway, RunOn(k) PROVE LinkedWhole'
  BY <1>16 DEF IInv, TypeOK, OneHolder, MetaIsOther, LibraryIsMeta, ServedIsCurrent, LinkedWhole, Installing, Armed, Holding, Over, Library, NoLibrary, RunawayBreaches, RunOn
<1>. QED  BY <1>1, <1>2, <1>3, <1>4, <1>5, <1>6, <1>7, <1>8, <1>9, <1>10, <1>11, <1>12, <1>13, <1>14, <1>15, <1>16 DEF Next, Step

-----------------------------------------------------------------------------

LEMMA InitInvariant == Init => IInv
<1>. SUFFICES ASSUME Init PROVE IInv
  OBVIOUS
<1>1. \A b \in Build : pc[b] = "done" /\ linked[b] = NoLibrary
  BY DEF Init
<1>2. TypeOK
  <2>1. pc \in [Build -> Armed \cup Over \cup {"check", "ready"}]
    BY DEF Init, Over
  <2>2. linked \in [Build -> Library \cup {NoLibrary}]
    BY DEF Init
  <2>3. breached \in BOOLEAN /\ orphaned \in BOOLEAN /\ cut \in BOOLEAN
      /\ lock \in BOOLEAN /\ raced \in BOOLEAN /\ byFile \in BOOLEAN
    BY DEF Init
  <2>4. makes \in 0..MaxMakes /\ signals \in 0..MaxSignals
    BY BoundsAssumption DEF Init
  <2>5. key \in Key /\ lib \in Library \cup {NoLibrary} /\ meta \in Key \cup {NoKey}
    BY DEF Init
  <2>6. runaway \subseteq Key
    BY DEF Init
  <2>. QED  BY <2>1, <2>2, <2>3, <2>4, <2>5, <2>6 DEF TypeOK
<1>3. OneHolder /\ MetaIsOther /\ RecordedIsWhole
  BY <1>1 DEF OneHolder, MetaIsOther, RecordedIsWhole, Holding, Installing
<1>4. LibraryIsMeta /\ LibraryStays
  <2>1. meta = NoKey
    BY DEF Init
  <2>. QED  BY <1>1, <2>1 DEF LibraryIsMeta, LibraryStays
<1>5. ServedIsCurrent /\ LinkedWhole
  <2>1. \A b \in Build : pc[b] \notin {"release", "released", "ready"} /\ linked[b] = NoLibrary
    BY <1>1
  <2>. QED  BY <2>1 DEF ServedIsCurrent, LinkedWhole
<1>6. FileUnrecorded /\ FileInstalls /\ FileServed
  <2>1. meta = NoKey /\ lib = NoLibrary
    BY DEF Init
  <2>. QED  BY <1>1, <2>1 DEF FileUnrecorded, FileInstalls, FileServed
<1>7. RunawayBreaches
  BY DEF Init, RunawayBreaches
<1>. QED  BY <1>2, <1>3, <1>4, <1>5, <1>6, <1>7 DEF IInv

LEMMA StepInvariant == IInv /\ [Next]_vars => IInv'
  BY TypeStep, RunawayStep, HolderStep, MetaStep, LibraryStep, StaysStep, RecordStep, ServedStep,
     FileUnrecordedStep, FileInstallsStep, FileServedStep, LinkedStep DEF IInv

LEMMA Invariance == Spec => []IInv
  BY InitInvariant, StepInvariant, PTL DEF Spec

\* The types of the variables.
THEOREM TypeCorrect == Spec => []TypeOK
  BY Invariance, PTL DEF IInv

\* As long as no trap has removed another build's lock, at most one build is
\* between mkdir and rmdir.
THEOREM LockExcludes == Spec => []OneHolder
  BY Invariance, PTL DEF IInv

\* A build only links a whole library of its own key.
THEOREM WholeLibraryLinked == Spec => []LinkedWhole
  BY Invariance, PTL DEF IInv

\* A library whose metadata is current, or in spec2006 a whole one, is not
\* written again.
THEOREM LibraryInstalledOnce == Spec => InstalledOnce
<1>1. IInv /\ [Next]_vars =>
        [~breached /\ (IF byFile THEN lib.whole ELSE meta = key)
           => lib' = lib /\ meta' = meta]_vars
  <2>. SUFFICES ASSUME IInv, [Next]_vars, ~breached, IF byFile THEN lib.whole ELSE meta = key
                PROVE  lib' = lib /\ meta' = meta
    OBVIOUS
  <2>1. \A b \in Build : pc[b] \notin Installing
    <3>1. CASE byFile
      BY <3>1 DEF IInv, FileInstalls, FileUnrecorded, Installing, NoLibrary
    <3>2. CASE ~byFile
      BY <3>2 DEF IInv, MetaIsOther
    <3>. QED  BY <3>1, <3>2
  <2>2. runaway = {}
    BY DEF IInv, RunawayBreaches
  <2>. QED
    BY <2>1, <2>2 DEF Next, vars, Step, Check, Lock, Recheck, StartInstall, FinishInstall, Record,
         Release, Disarm, Link, Fail, Interrupt, Kill, LoseScript, Make, Rest, CutShort, Installing
<1>. QED  BY <1>1, Invariance, PTL DEF Spec, InstalledOnce

-----------------------------------------------------------------------------
(* CaseFiles.  The inductive invariant follows the package through a run:  *)
(* the stage is what the inputs are said to be, the package holds what the *)
(* entries so far name and nothing else, and after the setup it is filled  *)
(* but for the ELF and the run script.                                     *)

Steps == {"over", "clearStage", "all", "input", "clear", "entries", "setup", "binary", "runtime"}

CaseTypes ==
    /\ case \in Cases /\ data \in Data[case.name]
    /\ endian \in Endians
    /\ step \in Steps /\ at \in Nat
    /\ exit \in {"none", "ok", "failed"}

\* A package holds what the entries before the n-th name, and nothing else.
Holds(n, tree) ==
    /\ \A i \in 1..n - 1 : \A q \in DOMAIN Inputs :
         Takes(case.files[i], q) => Place(case.files[i], q) \in DOMAIN tree
    /\ \A p \in DOMAIN tree : \E i \in 1..n - 1 : \E q \in DOMAIN Inputs :
         Takes(case.files[i], q) /\ p = Place(case.files[i], q) /\ tree[p] = Inputs[q]

\* It is filled but for the ELF and the run script.
Filled(tree) ==
    /\ Needed \subseteq DOMAIN tree
    /\ \A p \in DOMAIN tree \ Generated : \E q \in Suited(p) : tree[p] = Inputs[q]
    /\ case.bench = "sphinx3" =>
           /\ <<"ctlfile">> \in DOMAIN tree
           /\ tree[<<"ctlfile">>].lists = {<<s, Inputs[Recording(s)]>> : s \in Recordings}

FillInv ==
    /\ CaseTypes
    /\ step # "over" => exit = "none"
    /\ step \in {"clearStage", "all", "input", "clear"} => at = 1
    /\ step = "all" => stage = Empty
    /\ step = "input" => stage = CopyTree(data.all, Empty)
    /\ step \in {"clear", "entries", "setup"} => stage = Inputs
    /\ step = "entries" => at \in 1..Len(case.files) + 1 /\ Holds(at, package)
    /\ step = "setup" => Holds(Len(case.files) + 1, package)
    /\ step \in {"binary", "runtime"} => Filled(package)
    /\ step = "runtime" =>
           <<case.binary>> \in DOMAIN package /\ package[<<case.binary>>] = Content("elf", <<endian>>)
    /\ PackageHoldsItsInputs
    /\ RefusedOnlyForMissing

-----------------------------------------------------------------------------
(* Trees of files *)

\* The provers do not know that a literal is a string.
Name == STRING \cup Endians \cup {"32", "64"}
Path == Seq(Name)

LEMMA StringPaths == Seq(STRING) \subseteq Path
  <1> SUFFICES ASSUME NEW s \in Seq(STRING) PROVE s \in Path
    OBVIOUS
  <1>1. STRING \subseteq Name
    BY DEF Name
  <1> QED BY <1>1, SeqMonotonic DEF Path

\* What follows a directory in a path.
Beyond(d, q) == SubSeq(q, Len(d) + 1, Len(q))

LEMMA OntoGives ==
    ASSUME NEW u, NEW l
    PROVE  /\ DOMAIN Onto(u, l) = DOMAIN u \cup DOMAIN l
           /\ \A p \in DOMAIN u : Onto(u, l)[p] = u[p]
           /\ \A p \in DOMAIN l : p \notin DOMAIN u => Onto(u, l)[p] = l[p]
  BY DEF Onto

\* The first name of a path is that of a directory of the tree.
Shadows(tree, p) == IsDir(tree, <<Head(p)>>)

LEMMA CopyTreeGives ==
    ASSUME NEW s, NEW t
    PROVE  /\ \A p : p \in DOMAIN CopyTree(s, t) <=>
                     p \in DOMAIN s \/ (p \in DOMAIN t /\ ~Shadows(s, p))
           /\ \A p \in DOMAIN s : CopyTree(s, t)[p] = s[p]
           /\ \A p \in DOMAIN t \ DOMAIN s : ~Shadows(s, p) => CopyTree(s, t)[p] = t[p]
  <1> DEFINE kept == {p \in DOMAIN t : ~Shadows(s, p)}
  <1>1. CopyTree(s, t) = Onto(s, [p \in kept |-> t[p]])
    BY DEF CopyTree, Pick, RestrictDomain, Restrict, Shadows
  <1>2. \A p : p \in kept <=> p \in DOMAIN t /\ ~Shadows(s, p)
    OBVIOUS
  <1> HIDE DEF kept
  <1>3. \A p : p \in DOMAIN Onto(s, [x \in kept |-> t[x]]) <=> p \in DOMAIN s \/ p \in kept
    BY DEF Onto
  <1>4. \A p \in DOMAIN s : Onto(s, [x \in kept |-> t[x]])[p] = s[p]
    BY DEF Onto
  <1>5. \A p \in kept \ DOMAIN s : Onto(s, [x \in kept |-> t[x]])[p] = t[p]
    BY DEF Onto
  <1> QED BY <1>1, <1>2, <1>3, <1>4, <1>5

LEMMA CopyFlatGives ==
    ASSUME NEW s, NEW t
    PROVE  /\ \A p : p \in DOMAIN CopyFlat(s, t) <=> (p \in DOMAIN s /\ Len(p) = 1) \/ p \in DOMAIN t
           /\ \A p \in DOMAIN s : Len(p) = 1 => CopyFlat(s, t)[p] = s[p]
           /\ \A p \in DOMAIN t : ~(p \in DOMAIN s /\ Len(p) = 1) => CopyFlat(s, t)[p] = t[p]
  BY DEF CopyFlat, Pick, RestrictDomain, Restrict, Onto

LEMMA Parted ==
    ASSUME NEW d \in Path, NEW q \in Path, IsStrictPrefix(d, q)
    PROVE  Beyond(d, q) \in Path /\ Len(Beyond(d, q)) = Len(q) - Len(d) /\ Beyond(d, q) # <<>> /\ d \o Beyond(d, q) = q
  <1>1. Len(d) <= Len(q) /\ SubSeq(d, 1, Len(d)) = SubSeq(q, 1, Len(d)) /\ d # q
    BY DEF IsStrictPrefix, IsPrefix
  <1>2. \A i \in 1..Len(d) : d[i] = q[i]
    BY <1>1 DEF Path
  <1>3. Len(d) < Len(q)
    BY <1>1, <1>2 DEF Path
  <1> DEFINE r == Beyond(d, q)
  <1>4. r \in Path /\ Len(r) = Len(q) - Len(d) /\ \A i \in 1..Len(r) : r[i] = q[Len(d) + i]
    BY <1>3 DEF Path, Beyond
  <1>5. d \o r \in Path /\ Len(d \o r) = Len(q)
    BY <1>3, <1>4 DEF Path
  <1>6. \A i \in 1..Len(q) : (d \o r)[i] = q[i]
    BY <1>2, <1>3, <1>4 DEF Path
  <1>7. d \o r = q
    BY <1>5, <1>6, SeqEqual DEF Path
  <1> QED BY <1>3, <1>4, <1>7

LEMMA Joined ==
    ASSUME NEW d \in Path, NEW r \in Path
    PROVE  /\ Beyond(d, d \o r) = r /\ d \o r \in Path
           /\ r # <<>> => IsStrictPrefix(d, d \o r)
  <1>1. Beyond(d, d \o r) = r
    BY DEF Path, Beyond
  <1>2. d \o r \in Path
    BY DEF Path
  <1>3. ASSUME r # <<>> PROVE IsStrictPrefix(d, d \o r)
    <2>1. SubSeq(d, 1, Len(d)) = SubSeq(d \o r, 1, Len(d))
      BY DEF Path
    <2>2. Len(d) < Len(d \o r)
      BY <1>3 DEF Path
    <2> QED BY <2>1, <2>2 DEF IsStrictPrefix, IsPrefix, Path
  <1> QED BY <1>1, <1>2, <1>3

LEMMA BelowGives ==
    ASSUME NEW t, DOMAIN t \subseteq Path, NEW d \in Path
    PROVE  /\ \A p : p \in DOMAIN Below(t, d) <=>
                     \E q \in DOMAIN t : IsStrictPrefix(d, q) /\ p = Beyond(d, q)
           /\ \A q \in DOMAIN t : IsStrictPrefix(d, q) => Below(t, d)[Beyond(d, q)] = t[q]
  <1>1. Below(t, d) = [r \in {Beyond(d, q) : q \in {p \in DOMAIN t : IsStrictPrefix(d, p)}} |-> t[d \o r]]
    BY DEF Below, Beyond
  <1> QED BY <1>1, Parted

LEMMA UnderGives ==
    ASSUME NEW t, DOMAIN t \subseteq Path, NEW d \in Path
    PROVE  /\ \A p : p \in DOMAIN Under(d, t) <=> \E r \in DOMAIN t : p = d \o r
           /\ \A r \in DOMAIN t : Under(d, t)[d \o r] = t[r]
  <1>1. Under(d, t) = [p \in {d \o r : r \in DOMAIN t} |-> t[Beyond(d, p)]]
    BY DEF Under, Beyond
  <1> QED BY <1>1, Joined

-----------------------------------------------------------------------------
(* What is staged is what the inputs are said to be. *)

LEMMA Singleton == ASSUME NEW h \in Name PROVE <<h>> \in Path /\ Len(<<h>>) = 1 /\ <<h>>[1] = h
  BY DEF Path

LEMMA FirstOf ==
    ASSUME NEW q \in Path, q # <<>>
    PROVE  Head(q) = q[1] /\ q[1] \in Name /\ SubSeq(q, 1, 1) = <<q[1]>>
  <1>1. Head(q) = q[1] /\ q[1] \in Name /\ Len(q) > 0
    BY DEF Path
  <1>2. SubSeq(q, 1, 1) \in Path /\ Len(SubSeq(q, 1, 1)) = 1 /\ SubSeq(q, 1, 1)[1] = q[1]
    BY <1>1 DEF Path
  <1>3. <<q[1]>> \in Path /\ Len(<<q[1]>>) = 1 /\ <<q[1]>>[1] = q[1]
    BY <1>1, Singleton
  <1>4. SubSeq(q, 1, 1) = <<q[1]>>
    <2> DEFINE s == SubSeq(q, 1, 1)
               t == <<q[1]>>
    <2>1. s \in Seq(Name) /\ t \in Seq(Name) /\ Len(s) = Len(t) /\ \A i \in 1..Len(s) : s[i] = t[i]
      BY <1>2, <1>3 DEF Path
    <2> HIDE DEF s, t
    <2>2. s = t
      BY <2>1, SeqEqual
    <2> QED BY <2>2 DEF s, t
  <1> QED BY <1>1, <1>4

LEMMA OneName ==
    ASSUME NEW q \in Path, Len(q) = 1
    PROVE  q = <<Head(q)>>
  <1>1. q # <<>> /\ SubSeq(q, 1, 1) = q
    BY DEF Path
  <1> QED BY <1>1, FirstOf

LEMMA DirOfHead ==
    ASSUME NEW h \in Name, NEW q \in Path, q # <<>>
    PROVE  IsStrictPrefix(<<h>>, q) <=> Head(q) = h /\ Len(q) # 1
  <1>1. SubSeq(<<h>>, 1, 1) = <<h>> /\ Len(<<h>>) = 1 /\ SubSeq(q, 1, 1) = <<Head(q)>>
    <2>1. <<h>> \in Path /\ Len(<<h>>) = 1 /\ <<h>>[1] = h /\ <<h>> # <<>>
      BY Singleton
    <2> QED BY <2>1, FirstOf
  <1>2. Len(q) = 1 => q = <<Head(q)>>
    BY OneName
  <1>3. Len(q) # 0 /\ Len(q) \in Nat
    BY DEF Path
  <1>4. <<h>> = <<Head(q)>> <=> h = Head(q)
    OBVIOUS
  <1>5. Len(q) # 1 => q # <<h>>
    BY <1>1
  <1> QED BY <1>1, <1>2, <1>3, <1>4, <1>5 DEF IsStrictPrefix, IsPrefix

LEMMA DataPaths ==
    ASSUME CaseTypes
    PROVE  /\ DOMAIN data.all \subseteq Path /\ DOMAIN data.input \subseteq Path
           /\ <<>> \notin DOMAIN data.all \cup DOMAIN data.input
           /\ DOMAIN Inputs \subseteq Path /\ <<>> \notin DOMAIN Inputs
  <1>1. DOMAIN data.all \cup DOMAIN data.input \subseteq Seq(STRING) \ {<<>>}
    BY DataAssumption DEF CaseTypes
  <1>2. DOMAIN Inputs \subseteq DOMAIN data.all \cup DOMAIN data.input
    BY DEF Inputs
  <1> QED BY <1>1, <1>2, StringPaths

LEMMA StagedIsInputs ==
    ASSUME CaseTypes
    PROVE  CopyTree(data.input, CopyTree(data.all, Empty)) = Inputs
  <1> DEFINE all == CopyTree(data.all, Empty)
             staged == CopyTree(data.input, all)
  <1>1. DOMAIN all = DOMAIN data.all /\ \A p \in DOMAIN data.all : all[p] = data.all[p]
    <2>1. DOMAIN Empty = {}
      BY DEF Empty
    <2>2. \A p : p \in DOMAIN all <=> p \in DOMAIN data.all \/ (p \in {} /\ ~Shadows(data.all, p))
      BY <2>1, CopyTreeGives
    <2>3. \A p \in DOMAIN data.all : all[p] = data.all[p]
      BY CopyTreeGives
    <2> QED BY <2>2, <2>3
  <1> HIDE DEF all
  <1>2. ASSUME NEW p \in DOMAIN data.all, p \notin DOMAIN data.input
        PROVE  Shadows(data.input, p) <=> OfSize(p)
    <2>1. p \in Path /\ p # <<>> /\ Head(p) \in Name
      BY DataPaths, FirstOf
    <2>2. ASSUME NEW q \in DOMAIN data.input, Head(q) = Head(p) PROVE Len(q) # 1
      <3>1. q \in Path /\ q # <<>>
        BY DataPaths
      <3>2. Len(p) = 1 <=> Len(q) = 1
        BY <2>2, DataAssumption DEF CaseTypes
      <3>3. Len(q) = 1 /\ Len(p) = 1 => p = q
        BY <2>1, <2>2, <3>1, OneName
      <3> QED BY <1>2, <3>2, <3>3
    <2>3. \A q \in DOMAIN data.input : IsStrictPrefix(<<Head(p)>>, q) <=> Head(q) = Head(p)
      BY <2>1, <2>2, DirOfHead, DataPaths
    <2> QED BY <2>3 DEF Shadows, IsDir, OfSize
  <1>3. \A p : p \in DOMAIN staged <=> p \in DOMAIN data.input \/ (p \in DOMAIN data.all /\ ~OfSize(p))
    <2>1. \A p : p \in DOMAIN staged <=>
                   p \in DOMAIN data.input \/ (p \in DOMAIN data.all /\ ~Shadows(data.input, p))
      BY <1>1, CopyTreeGives
    <2> HIDE DEF staged
    <2> QED BY <1>2, <2>1
  <1>4. \A p \in DOMAIN data.input : OfSize(p) /\ staged[p] = data.input[p]
    BY CopyTreeGives DEF OfSize
  <1>5. \A p \in DOMAIN data.all : ~OfSize(p) => staged[p] = data.all[p]
    <2> SUFFICES ASSUME NEW p \in DOMAIN data.all, ~OfSize(p) PROVE staged[p] = data.all[p]
      OBVIOUS
    <2>1. p \notin DOMAIN data.input
      BY DEF OfSize
    <2>2. ~Shadows(data.input, p)
      BY <1>2, <2>1
    <2> QED BY <1>1, <2>1, <2>2, CopyTreeGives
  <1>6. staged = [p \in DOMAIN staged |-> staged[p]]
    BY DEF CopyTree, Onto
  <1> HIDE DEF staged
  <1>7. DOMAIN staged = DOMAIN Inputs
    <2>1. \A p : p \in DOMAIN Inputs <=> p \in DOMAIN data.input \/ (p \in DOMAIN data.all /\ ~OfSize(p))
      BY DEF Inputs
    <2> QED BY <1>3, <2>1
  <1>8. \A p \in DOMAIN Inputs : staged[p] = Inputs[p]
    BY <1>4, <1>5 DEF Inputs
  <1>9. Inputs = [p \in DOMAIN Inputs |-> Inputs[p]]
    BY DEF Inputs
  <1>10. [p \in DOMAIN staged |-> staged[p]] = [p \in DOMAIN Inputs |-> Inputs[p]]
    BY <1>7, <1>8
  <1>11. staged = Inputs
    BY <1>6, <1>9, <1>10
  <1> QED BY <1>11 DEF staged, all

-----------------------------------------------------------------------------
(* The entries of a case *)

Entries == [dir : BOOLEAN, to : Name, from : Path]

LEMMA CaseEntries ==
    ASSUME CaseTypes
    PROVE  /\ Len(case.files) \in Nat /\ DOMAIN case.files = 1..Len(case.files)
           /\ \A i \in 1..Len(case.files) :
                /\ case.files[i] \in Entries
                /\ case.files[i].dir \/ case.files[i].from # <<>>
           /\ \A i, j \in 1..Len(case.files) :
                i # j => case.files[i].to # "." /\ Top(case.files[i]) # Top(case.files[j])
           /\ case.bench \in {"wrf", "sphinx3"} =>
                case.files = <<[dir |-> TRUE, to |-> ".", from |-> <<>>]>>
           /\ case.binary \notin {"run.sh", "ctlfile"}
  <1> DEFINE Plain == [dir : BOOLEAN, to : STRING, from : Seq(STRING)]
  <1>4. case.files \in Seq(Plain)
    BY CasesAssumption DEF CaseTypes
  <1>5. Plain \subseteq Entries
    BY StringPaths DEF Entries, Name
  <1> HIDE DEF Plain
  <1>1. case.files \in Seq(Entries)
    BY <1>4, <1>5, SeqMonotonic
  <1>2. Len(case.files) \in Nat /\ DOMAIN case.files = 1..Len(case.files)
    BY <1>1
  <1>3. \A i \in 1..Len(case.files) : case.files[i] \in Entries
    BY <1>1
  <1> QED BY <1>2, <1>3, CasesAssumption DEF CaseTypes

LEMMA PlaceOfDirectory ==
    ASSUME NEW e \in Entries, e.dir, NEW q
    PROVE  Place(e, q) = (IF e.to = "." THEN <<>> ELSE <<e.to>>) \o Beyond(e.from, q)
  BY DEF Place, Beyond

\* An entry has a name of its own in the package.
LEMMA PlaceTop ==
    ASSUME NEW e \in Entries, e.to # ".", e.dir \/ e.from # <<>>, NEW q \in Path, Takes(e, q)
    PROVE  Head(Place(e, q)) = Top(e)
  <1>1. CASE e.dir
    <2>1. Beyond(e.from, q) \in Path
      BY <1>1, Parted DEF Takes, Entries
    <2>2. <<e.to>> \in Path /\ Len(<<e.to>>) = 1 /\ <<e.to>>[1] = e.to
      BY Singleton DEF Entries
    <2>3. Place(e, q) = <<e.to>> \o Beyond(e.from, q)
      BY <1>1, PlaceOfDirectory
    <2>4. Head(<<e.to>> \o Beyond(e.from, q)) = e.to
      BY <2>1, <2>2 DEF Path
    <2> QED BY <1>1, <2>3, <2>4 DEF Top
  <1>2. CASE ~e.dir
    BY <1>2 DEF Takes, Place, Top
  <1> QED BY <1>1, <1>2

LEMMA PlaceOfAll ==
    ASSUME NEW e \in Entries, e.dir, e.to = ".", e.from = <<>>, NEW q \in Path
    PROVE  Place(e, q) = q /\ (q # <<>> => Takes(e, q))
  <1>1. Beyond(<<>>, q) = q /\ <<>> \o q = q
    BY DEF Path, Beyond
  <1>2. Place(e, q) = q
    BY <1>1, PlaceOfDirectory
  <1>3. ASSUME q # <<>> PROVE IsStrictPrefix(<<>>, q)
    <2>1. <<>> \in Path
      BY DEF Path
    <2> QED BY <1>1, <1>3, <2>1, Joined
  <1> QED BY <1>2, <1>3 DEF Takes

\* What an entry has to add, and what it has to leave, for the next one.
LEMMA OneMoreEntry ==
    ASSUME CaseTypes, NEW n \in 1..Len(case.files), NEW tree, NEW more, Holds(n, tree),
           \A q \in DOMAIN Inputs : Takes(case.files[n], q) => Place(case.files[n], q) \in DOMAIN more,
           \A p \in DOMAIN tree : p \in DOMAIN more,
           \A p \in DOMAIN more :
             \/ p \in DOMAIN tree /\ more[p] = tree[p]
             \/ \E q \in DOMAIN Inputs :
                  Takes(case.files[n], q) /\ p = Place(case.files[n], q) /\ more[p] = Inputs[q]
    PROVE  Holds(n + 1, more)
  <1>1. n \in 1..(n + 1) - 1 /\ \A i \in 1..(n + 1) - 1 : i = n \/ i \in 1..n - 1
    BY CaseEntries
  <1>2. \A i \in 1..n - 1 : i \in 1..(n + 1) - 1
    BY CaseEntries
  <1>3. ASSUME NEW i \in 1..(n + 1) - 1, NEW q \in DOMAIN Inputs, Takes(case.files[i], q)
        PROVE  Place(case.files[i], q) \in DOMAIN more
    BY <1>1, <1>3 DEF Holds
  <1>4. ASSUME NEW p \in DOMAIN more
        PROVE  \E i \in 1..(n + 1) - 1 : \E q \in DOMAIN Inputs :
                 Takes(case.files[i], q) /\ p = Place(case.files[i], q) /\ more[p] = Inputs[q]
    <2>1. CASE p \in DOMAIN tree /\ more[p] = tree[p]
      BY <1>2, <2>1 DEF Holds
    <2>2. CASE \E q \in DOMAIN Inputs :
                 Takes(case.files[n], q) /\ p = Place(case.files[n], q) /\ more[p] = Inputs[q]
      BY <1>1, <2>2
    <2> QED BY <2>1, <2>2
  <1> QED BY <1>3, <1>4 DEF Holds

\* A directory finds nothing in the package that it would replace.
LEMMA NothingReplaced ==
    ASSUME CaseTypes, NEW n \in 1..Len(case.files), case.files[n].dir, NEW tree, Holds(n, tree)
    PROVE  /\ case.files[n].to = "." => DOMAIN tree = {}
           /\ case.files[n].to # "." => \A p \in DOMAIN tree : Head(p) # case.files[n].to
  <1>1. ASSUME NEW p \in DOMAIN tree
        PROVE  case.files[n].to # "." /\ Head(p) # case.files[n].to
    <2>1. PICK i \in 1..n - 1 : \E q \in DOMAIN Inputs : Takes(case.files[i], q) /\ p = Place(case.files[i], q)
      BY DEF Holds
    <2>2. PICK q \in DOMAIN Inputs : Takes(case.files[i], q) /\ p = Place(case.files[i], q)
      BY <2>1
    <2>3. i \in 1..Len(case.files) /\ i # n
      BY CaseEntries
    <2>4. case.files[i] \in Entries /\ (case.files[i].dir \/ case.files[i].from # <<>>)
      BY <2>3, CaseEntries
    <2>5. case.files[i].to # "." /\ case.files[n].to # "." /\ Top(case.files[i]) # Top(case.files[n])
      BY <2>3, CaseEntries
    <2>6. Head(p) = Top(case.files[i])
      BY <2>2, <2>4, <2>5, PlaceTop, DataPaths
    <2> QED BY <2>5, <2>6 DEF Top
  <1> QED BY <1>1

LEMMA EntryInstalled ==
    ASSUME CaseTypes, stage = Inputs, at \in 1..Len(case.files), EntryFound, Holds(at, package)
    PROVE  Holds(at + 1, AfterEntry)
  <1> DEFINE e == case.files[at]
             found == Below(Inputs, e.from)
  <1>1. e \in Entries /\ e.from \in Path /\ (e.dir \/ e.from # <<>>)
    BY CaseEntries DEF Entries
  <1>2. DOMAIN Inputs \subseteq Path
    BY DataPaths
  <1>3. CASE ~e.dir
    <2> DEFINE file == [p \in {<<Last(e.from)>>} |-> Inputs[e.from]]
    <2>1. AfterEntry = Onto(file, package)
      BY <1>3 DEF AfterEntry, Entry
    <2>2. e.from \in DOMAIN Inputs /\ \A q \in DOMAIN Inputs : Takes(e, q) <=> q = e.from
      BY <1>3 DEF EntryFound, Entry, Takes
    <2>3. Place(e, e.from) = <<Last(e.from)>>
      BY <1>3 DEF Place
    <2>4. DOMAIN file = {<<Last(e.from)>>} /\ file[<<Last(e.from)>>] = Inputs[e.from]
      OBVIOUS
    <2> HIDE DEF file, e
    <2>8. /\ DOMAIN AfterEntry = DOMAIN file \cup DOMAIN package
          /\ \A p \in DOMAIN file : AfterEntry[p] = file[p]
          /\ \A p \in DOMAIN package : p \notin DOMAIN file => AfterEntry[p] = package[p]
      <3>1. /\ DOMAIN Onto(file, package) = DOMAIN file \cup DOMAIN package
            /\ \A p \in DOMAIN file : Onto(file, package)[p] = file[p]
            /\ \A p \in DOMAIN package : p \notin DOMAIN file => Onto(file, package)[p] = package[p]
        BY OntoGives
      <3> QED BY <2>1, <3>1
    <2>5. \A q \in DOMAIN Inputs : Takes(e, q) => Place(e, q) \in DOMAIN AfterEntry
      BY <2>2, <2>3, <2>4, <2>8
    <2>6. \A p \in DOMAIN package : p \in DOMAIN AfterEntry
      BY <2>8
    <2>7. ASSUME NEW p \in DOMAIN AfterEntry
          PROVE  \/ p \in DOMAIN package /\ AfterEntry[p] = package[p]
                 \/ \E q \in DOMAIN Inputs : Takes(e, q) /\ p = Place(e, q) /\ AfterEntry[p] = Inputs[q]
      BY <2>2, <2>3, <2>4, <2>8
    <2> QED BY <2>5, <2>6, <2>7, OneMoreEntry DEF e
  <1>4. \A p : p \in DOMAIN found <=> \E q \in DOMAIN Inputs : IsStrictPrefix(e.from, q) /\ p = Beyond(e.from, q)
    BY <1>1, <1>2, BelowGives
  <1>5. \A q \in DOMAIN Inputs : IsStrictPrefix(e.from, q) => found[Beyond(e.from, q)] = Inputs[q]
    BY <1>1, <1>2, BelowGives
  <1>6. DOMAIN found \subseteq Path
    BY <1>1, <1>2, <1>4, Parted
  <1>7. CASE e.dir /\ e.to = "."
    <2>1. AfterEntry = CopyTree(found, package) /\ DOMAIN package = {}
      BY <1>7, NothingReplaced DEF AfterEntry, Entry
    <2>2. \A q \in DOMAIN Inputs : Takes(e, q) <=> IsStrictPrefix(e.from, q)
      BY <1>7 DEF Takes
    <2>3. \A q \in DOMAIN Inputs : Takes(e, q) => Place(e, q) = Beyond(e.from, q)
      <3>1. \A q \in DOMAIN Inputs : Takes(e, q) => Beyond(e.from, q) \in Path
        BY <1>1, <1>2, <2>2, Parted
      <3>2. \A r \in Path : <<>> \o r = r
        BY DEF Path
      <3> QED BY <1>1, <1>7, <3>1, <3>2, PlaceOfDirectory
    <2> HIDE DEF found, e
    <2>4. (\A p : p \in DOMAIN AfterEntry <=> p \in DOMAIN found) /\ \A p \in DOMAIN found : AfterEntry[p] = found[p]
      BY <2>1, CopyTreeGives
    <2>5. \A q \in DOMAIN Inputs : Takes(e, q) => Place(e, q) \in DOMAIN AfterEntry
      BY <1>4, <2>2, <2>3, <2>4
    <2>6. \A p \in DOMAIN AfterEntry :
            \E q \in DOMAIN Inputs : Takes(e, q) /\ p = Place(e, q) /\ AfterEntry[p] = Inputs[q]
      BY <1>4, <1>5, <2>2, <2>3, <2>4
    <2>7. \A p \in DOMAIN package : p \in DOMAIN AfterEntry
      BY <2>1
    <2> QED BY <2>5, <2>6, <2>7, OneMoreEntry DEF e
  <1>8. CASE e.dir /\ e.to # "."
    <2> DEFINE moved == Under(<<e.to>>, found)
               kept == Pick(package, LAMBDA p : Head(p) # e.to)
    <2>1. AfterEntry = Onto(moved, kept)
      BY <1>8 DEF AfterEntry, Entry
    <2>2. \A p \in DOMAIN package : Head(p) # e.to
      BY <1>8, NothingReplaced
    <2>3. (\A p : p \in DOMAIN kept <=> p \in DOMAIN package) /\ \A p \in DOMAIN package : kept[p] = package[p]
      BY <2>2 DEF Pick, RestrictDomain, Restrict
    <2>4. <<e.to>> \in Path
      BY <1>1, Singleton DEF Entries
    <2>5. \A p : p \in DOMAIN moved <=> \E r \in DOMAIN found : p = <<e.to>> \o r
      BY <1>6, <2>4, UnderGives
    <2>6. \A r \in DOMAIN found : moved[<<e.to>> \o r] = found[r]
      BY <1>6, <2>4, UnderGives
    <2>7. \A q \in DOMAIN Inputs : Takes(e, q) <=> IsStrictPrefix(e.from, q)
      BY <1>8 DEF Takes
    <2>8. \A q \in DOMAIN Inputs : Place(e, q) = <<e.to>> \o Beyond(e.from, q)
      BY <1>1, <1>8, PlaceOfDirectory
    <2> HIDE DEF found, e, moved, kept
    <2>9. \A q \in DOMAIN Inputs : Takes(e, q) => Place(e, q) \in DOMAIN moved
      BY <1>4, <2>5, <2>7, <2>8
    <2>10. \A p \in DOMAIN moved :
             \E q \in DOMAIN Inputs : Takes(e, q) /\ p = Place(e, q) /\ moved[p] = Inputs[q]
      <3> SUFFICES ASSUME NEW p \in DOMAIN moved
                   PROVE  \E q \in DOMAIN Inputs : Takes(e, q) /\ p = Place(e, q) /\ moved[p] = Inputs[q]
        OBVIOUS
      <3>1. PICK r \in DOMAIN found : p = <<e.to>> \o r
        BY <2>5
      <3>2. PICK q \in DOMAIN Inputs : IsStrictPrefix(e.from, q) /\ r = Beyond(e.from, q)
        BY <1>4
      <3>3. p = Place(e, q) /\ Takes(e, q)
        BY <2>7, <2>8, <3>1, <3>2
      <3>4. moved[p] = Inputs[q]
        BY <1>5, <2>6, <3>1, <3>2
      <3> QED BY <3>3, <3>4
    <2>11. /\ \A p \in DOMAIN moved : p \in DOMAIN AfterEntry /\ AfterEntry[p] = moved[p]
           /\ \A p \in DOMAIN package : p \in DOMAIN AfterEntry
           /\ \A p \in DOMAIN AfterEntry :
                p \in DOMAIN moved \/ (p \in DOMAIN package /\ AfterEntry[p] = package[p])
      <3>1. /\ DOMAIN AfterEntry = DOMAIN moved \cup DOMAIN kept
            /\ \A p \in DOMAIN moved : AfterEntry[p] = moved[p]
            /\ \A p \in DOMAIN kept : p \notin DOMAIN moved => AfterEntry[p] = kept[p]
        <4>1. /\ DOMAIN Onto(moved, kept) = DOMAIN moved \cup DOMAIN kept
              /\ \A p \in DOMAIN moved : Onto(moved, kept)[p] = moved[p]
              /\ \A p \in DOMAIN kept : p \notin DOMAIN moved => Onto(moved, kept)[p] = kept[p]
          BY OntoGives
        <4> QED BY <2>1, <4>1
      <3> QED BY <2>3, <3>1
    <2> QED BY <2>9, <2>10, <2>11, OneMoreEntry DEF e
  <1> QED BY <1>1, <1>3, <1>7, <1>8 DEF Entries

-----------------------------------------------------------------------------
(* The files that suit the byte order of the ELF *)

LEMMA Orders ==
    ASSUME CaseTypes
    PROVE  /\ endian \in Name /\ HeaderDir(header) \in Name
  <1>1. endian \in {"le", "be"} /\ HeaderDir(header) \in {"64", "32"}
    BY EndiansAssumption DEF CaseTypes, HeaderDir
  <1> QED BY <1>1 DEF CaseTypes, Name

LEMMA FrontAndLast ==
    ASSUME NEW q \in Path, q # <<>>
    PROVE  Front(q) \in Path /\ <<Last(q)>> \in Path /\ <<Last(q)>> # <<>> /\ Len(<<Last(q)>>) = 1 /\ Front(q) \o <<Last(q)>> = q
  <1>1. Len(q) \in Nat /\ Len(q) > 0 /\ Last(q) = q[Len(q)] /\ q[Len(q)] \in Name
    BY DEF Path, Last
  <1> DEFINE n == Len(q) - 1
  <1>7. n \in Nat /\ n <= Len(q)
    BY <1>1
  <1> HIDE DEF n
  <1>8. SubSeq(q, 1, n) \in Path /\ Len(SubSeq(q, 1, n)) = n /\ \A i \in 1..n : SubSeq(q, 1, n)[i] = q[i]
    BY <1>1, <1>7 DEF Path
  <1>2. Front(q) \in Path /\ Len(Front(q)) = Len(q) - 1 /\ \A i \in 1..Len(q) - 1 : Front(q)[i] = q[i]
    BY <1>8 DEF n, Front
  <1>3. <<Last(q)>> \in Path /\ Len(<<Last(q)>>) = 1 /\ <<Last(q)>>[1] = Last(q) /\ <<Last(q)>> # <<>>
    BY <1>1, Singleton
  <1> DEFINE f == Front(q)
             l == <<Last(q)>>
  <1> HIDE DEF f, l
  <1>4. f \o l \in Path /\ Len(f \o l) = Len(q)
    BY <1>1, <1>2, <1>3 DEF f, l, Path
  <1>5. \A i \in 1..Len(q) : (f \o l)[i] = q[i]
    BY <1>1, <1>2, <1>3 DEF f, l, Path
  <1>6. f \o l = q
    BY <1>4, <1>5, SeqEqual DEF Path
  <1> QED BY <1>2, <1>3, <1>6 DEF f, l

LEMMA ListedGives ==
    ASSUME CaseTypes
    PROVE  /\ \A i \in 1..Len(case.files), q \in DOMAIN Inputs :
                Takes(case.files[i], q) => <<Place(case.files[i], q), q>> \in Listed
           /\ \A x \in Listed : \E i \in 1..Len(case.files) : \E q \in DOMAIN Inputs :
                Takes(case.files[i], q) /\ x = <<Place(case.files[i], q), q>>
  BY CaseEntries DEF Listed, ToSet

\* A case that takes all finds all of the inputs in its package.
LEMMA TakenWhole ==
    ASSUME CaseTypes, case.bench \in {"wrf", "sphinx3"}
    PROVE  /\ \A x : x \in Listed <=> \E p \in DOMAIN Inputs : x = <<p, p>>
           /\ \A tree : Holds(Len(case.files) + 1, tree) =>
                /\ \A p : p \in DOMAIN tree <=> p \in DOMAIN Inputs
                /\ \A p \in DOMAIN Inputs : tree[p] = Inputs[p]
  <1> DEFINE e == [dir |-> TRUE, to |-> ".", from |-> <<>>]
  <1>1. case.files = <<e>>
    BY CaseEntries
  <1>2. Len(case.files) = 1 /\ case.files[1] = e
    BY <1>1
  <1>3. e \in Entries /\ e.dir /\ e.to = "." /\ e.from = <<>>
    <2>1. 1 \in 1..Len(case.files)
      BY <1>2
    <2>2. e \in Entries
      BY <1>2, <2>1, CaseEntries
    <2> QED BY <2>2
  <1> HIDE DEF e
  <1>4. \A q \in DOMAIN Inputs : Place(e, q) = q /\ Takes(e, q)
    BY <1>3, PlaceOfAll, DataPaths
  <1>5. \A x : x \in Listed <=> \E p \in DOMAIN Inputs : x = <<p, p>>
    <2>1. \A i : i \in 1..Len(case.files) <=> i = 1
      BY <1>2
    <2> QED BY <1>2, <1>4, <2>1, ListedGives
  <1>6. ASSUME NEW tree, Holds(Len(case.files) + 1, tree)
        PROVE  /\ \A p : p \in DOMAIN tree <=> p \in DOMAIN Inputs
               /\ \A p \in DOMAIN Inputs : tree[p] = Inputs[p]
    <2>1. \A i : i \in 1..(Len(case.files) + 1) - 1 <=> i = 1
      BY <1>2
    <2>2. /\ \A q \in DOMAIN Inputs : Takes(e, q) => Place(e, q) \in DOMAIN tree
          /\ \A p \in DOMAIN tree : \E q \in DOMAIN Inputs :
               Takes(e, q) /\ p = Place(e, q) /\ tree[p] = Inputs[q]
      BY <1>2, <1>6, <2>1 DEF Holds
    <2> QED BY <1>4, <2>2
  <1> QED BY <1>5, <1>6

LEMMA OtherFilled ==
    ASSUME CaseTypes, case.bench \notin {"wrf", "sphinx3"}, NEW tree, Holds(Len(case.files) + 1, tree)
    PROVE  Filled(tree)
  <1>1. \A i : i \in 1..(Len(case.files) + 1) - 1 <=> i \in 1..Len(case.files)
    BY CaseEntries
  <1>2. ASSUME NEW x \in Listed PROVE x[1] \in DOMAIN tree
    BY <1>1, <1>2, ListedGives DEF Holds
  <1>3. Needed \subseteq DOMAIN tree
    BY <1>2 DEF Needed
  <1>4. ASSUME NEW p \in DOMAIN tree PROVE \E q \in Suited(p) : tree[p] = Inputs[q]
    <2>1. PICK i \in 1..Len(case.files), q \in DOMAIN Inputs :
            Takes(case.files[i], q) /\ p = Place(case.files[i], q) /\ tree[p] = Inputs[q]
      BY <1>1 DEF Holds
    <2>2. <<p, q>> \in Listed
      BY <2>1, ListedGives
    <2>3. Suited(p) = {x[2] : x \in {y \in Listed : y[1] = p}}
      BY DEF Suited
    <2>4. q \in Suited(p)
      BY <2>2, <2>3
    <2> QED BY <2>1, <2>4
  <1> QED BY <1>3, <1>4 DEF Filled

LEMMA WrfFilled ==
    ASSUME CaseTypes, case.bench = "wrf", Holds(Len(case.files) + 1, package)
    PROVE  Filled(PrepareWrf)
  <1> DEFINE S == Below(package, Special)
             G == Below(package, General)
             T == CopyFlat(G, package)
  <1>1. /\ \A x : x \in Listed <=> \E p \in DOMAIN Inputs : x = <<p, p>>
        /\ \A p : p \in DOMAIN package <=> p \in DOMAIN Inputs
        /\ \A p \in DOMAIN Inputs : package[p] = Inputs[p]
    BY TakenWhole
  <1>2. Special \in Path /\ General \in Path /\ DOMAIN package \subseteq Path /\ DOMAIN Inputs \subseteq Path
    BY <1>1, Orders, DataPaths DEF Special, General, Path
  <1>3. /\ \A p : p \in DOMAIN S <=> \E q \in DOMAIN package : IsStrictPrefix(Special, q) /\ p = Beyond(Special, q)
        /\ \A q \in DOMAIN package : IsStrictPrefix(Special, q) => S[Beyond(Special, q)] = package[q]
    BY <1>2, BelowGives
  <1>4. /\ \A p : p \in DOMAIN G <=> \E q \in DOMAIN package : IsStrictPrefix(General, q) /\ p = Beyond(General, q)
        /\ \A q \in DOMAIN package : IsStrictPrefix(General, q) => G[Beyond(General, q)] = package[q]
    BY <1>2, BelowGives
  <1>5. PrepareWrf = CopyFlat(S, T)
    BY DEF PrepareWrf, Special, General
  <1> HIDE DEF S, G
  <1>6. ASSUME NEW d \in {Special, General}, NEW t,
               \A p : p \in DOMAIN t <=> \E q \in DOMAIN package : IsStrictPrefix(d, q) /\ p = Beyond(d, q),
               \A q \in DOMAIN package : IsStrictPrefix(d, q) => t[Beyond(d, q)] = package[q]
        PROVE  /\ \A p \in DOMAIN t : d \o p \in DOMAIN Inputs /\ t[p] = Inputs[d \o p] /\ p \in Path /\ p # <<>>
               /\ \A p \in Path : p # <<>> /\ d \o p \in DOMAIN Inputs => p \in DOMAIN t
    <2>1. d \in Path
      BY <1>2
    <2>2. ASSUME NEW p \in DOMAIN t
          PROVE  d \o p \in DOMAIN Inputs /\ t[p] = Inputs[d \o p] /\ p \in Path /\ p # <<>>
      <3>1. PICK q \in DOMAIN Inputs : IsStrictPrefix(d, q) /\ p = Beyond(d, q) /\ t[p] = Inputs[q]
        BY <1>1, <1>6
      <3>2. p \in Path /\ p # <<>> /\ d \o p = q
        BY <1>2, <2>1, <3>1, Parted
      <3> QED BY <3>1, <3>2
    <2>3. ASSUME NEW p \in Path, p # <<>>, d \o p \in DOMAIN Inputs
          PROVE  p \in DOMAIN t
      BY <1>1, <1>6, <2>1, <2>3, Joined
    <2> QED BY <2>2, <2>3
  <1>7. /\ \A p \in DOMAIN S : Special \o p \in DOMAIN Inputs /\ S[p] = Inputs[Special \o p] /\ p \in Path /\ p # <<>>
        /\ \A p \in Path : p # <<>> /\ Special \o p \in DOMAIN Inputs => p \in DOMAIN S
    BY <1>3, <1>6
  <1>8. /\ \A p \in DOMAIN G : General \o p \in DOMAIN Inputs /\ G[p] = Inputs[General \o p] /\ p \in Path /\ p # <<>>
        /\ \A p \in Path : p # <<>> /\ General \o p \in DOMAIN Inputs => p \in DOMAIN G
    BY <1>4, <1>6
  <1>9. /\ \A p : p \in DOMAIN T <=> (p \in DOMAIN G /\ Len(p) = 1) \/ p \in DOMAIN package
        /\ \A p \in DOMAIN G : Len(p) = 1 => T[p] = G[p]
        /\ \A p \in DOMAIN package : ~(p \in DOMAIN G /\ Len(p) = 1) => T[p] = package[p]
    BY CopyFlatGives
  <1> HIDE DEF T
  <1> DEFINE R == CopyFlat(S, T)
  <1>10. /\ \A p : p \in DOMAIN R <=> (p \in DOMAIN S /\ Len(p) = 1) \/ p \in DOMAIN T
         /\ \A p \in DOMAIN S : Len(p) = 1 => R[p] = S[p]
         /\ \A p \in DOMAIN T : ~(p \in DOMAIN S /\ Len(p) = 1) => R[p] = T[p]
    BY CopyFlatGives
  <1> HIDE DEF R
  <1>11. Needed \subseteq DOMAIN R
    <2>1. \A x \in Listed : x[1] \in DOMAIN R
      BY <1>1, <1>9, <1>10
    <2>2. ASSUME NEW q \in DOMAIN Inputs, Front(q) \in {Special, General}
          PROVE  <<Last(q)>> \in DOMAIN R
      <3>1. q \in Path /\ q # <<>>
        BY DataPaths
      <3>2. <<Last(q)>> \in Path /\ <<Last(q)>> # <<>> /\ Len(<<Last(q)>>) = 1 /\ Front(q) \o <<Last(q)>> = q
        BY <3>1, FrontAndLast
      <3> DEFINE p == <<Last(q)>>
      <3> HIDE DEF p
      <3>3. p \in Path /\ p # <<>> /\ Len(p) = 1 /\ Front(q) \o p \in DOMAIN Inputs
        BY <3>2 DEF p
      <3>4. p \in DOMAIN S \/ p \in DOMAIN G
        BY <1>7, <1>8, <2>2, <3>3
      <3>5. p \in DOMAIN R
        BY <1>9, <1>10, <3>3, <3>4
      <3> QED BY <3>5 DEF p
    <2>3. Needed = {x[1] : x \in Listed}
                     \cup {<<Last(q)>> : q \in {r \in DOMAIN Inputs : Front(r) \in {Special, General}}}
      BY DEF Needed
    <2> QED BY <2>1, <2>2, <2>3
  <1>12. ASSUME NEW p \in DOMAIN R
         PROVE  \E q \in Suited(p) : R[p] = Inputs[q]
    <2>1. CASE p \in DOMAIN S /\ Len(p) = 1
      <3>1. Special \o p \in DOMAIN Inputs /\ R[p] = Inputs[Special \o p]
        BY <1>7, <1>10, <2>1
      <3>2. Suited(p) = {Special \o p}
        BY <2>1, <3>1 DEF Suited
      <3> QED BY <3>1, <3>2
    <2>2. CASE ~(p \in DOMAIN S /\ Len(p) = 1) /\ p \in DOMAIN G /\ Len(p) = 1
      <3>1. General \o p \in DOMAIN Inputs /\ R[p] = Inputs[General \o p] /\ p \in Path /\ p # <<>>
        BY <1>8, <1>9, <1>10, <2>2
      <3>2. Special \o p \notin DOMAIN Inputs
        BY <1>7, <2>2, <3>1
      <3>3. Suited(p) = {General \o p}
        BY <2>2, <3>1, <3>2 DEF Suited
      <3> QED BY <3>1, <3>3
    <2>3. CASE ~(p \in DOMAIN S /\ Len(p) = 1) /\ ~(p \in DOMAIN G /\ Len(p) = 1)
      <3>1. p \in DOMAIN Inputs /\ R[p] = Inputs[p]
        BY <1>1, <1>9, <1>10, <2>3
      <3>2. p \in Path /\ p # <<>>
        BY <3>1, DataPaths
      <3>3. Len(p) = 1 => Special \o p \notin DOMAIN Inputs /\ General \o p \notin DOMAIN Inputs
        BY <1>7, <1>8, <2>3, <3>2
      <3>4. Suited(p) = {x[2] : x \in {y \in Listed : y[1] = p}}
        BY <3>3 DEF Suited
      <3>5. <<p, p>> \in Listed
        BY <1>1, <3>1
      <3>6. p \in Suited(p)
        BY <3>4, <3>5
      <3> QED BY <3>1, <3>6
    <2> QED BY <2>1, <2>2, <2>3
  <1>13. Filled(R)
    BY <1>11, <1>12 DEF Filled
  <1> QED BY <1>5, <1>13 DEF R

LEMMA Sphinx3Filled ==
    ASSUME CaseTypes, case.bench = "sphinx3", Holds(Len(case.files) + 1, package),
           \A s \in Stems : Recording(s) \in DOMAIN package
    PROVE  Filled(PrepareSphinx3)
  <1> DEFINE R == [p \in {<<Raw[s].plain>> : s \in Stems} |->
                     package[Recording(CHOOSE s \in Stems : Raw[s].plain = p[1])]]
             L == Onto(R, package)
             T == Onto(CtlFile, L)
  <1>1. /\ \A x : x \in Listed <=> \E p \in DOMAIN Inputs : x = <<p, p>>
        /\ \A p : p \in DOMAIN package <=> p \in DOMAIN Inputs
        /\ \A p \in DOMAIN Inputs : package[p] = Inputs[p]
    BY TakenWhole
  <1>2. Stems = Recordings
    BY <1>1 DEF Stems, Recordings
  <1>3. \A s \in Stems : package[Recording(s)] = Inputs[Recording(s)]
    BY <1>1
  <1>4. PrepareSphinx3 = T
    BY DEF PrepareSphinx3
  <1>5. /\ DOMAIN CtlFile = {<<"ctlfile">>}
        /\ CtlFile[<<"ctlfile">>].lists = {<<s, Inputs[Recording(s)]>> : s \in Recordings}
    <2>1. CtlFile[<<"ctlfile">>].lists = {<<s, package[Recording(s)]>> : s \in Stems}
      BY DEF CtlFile, Content
    <2>2. {<<s, package[Recording(s)]>> : s \in Stems} = {<<s, Inputs[Recording(s)]>> : s \in Recordings}
      BY <1>2, <1>3
    <2> QED BY <2>1, <2>2 DEF CtlFile
  <1>6. \A p : p \in DOMAIN R <=> \E s \in Stems : p = <<Raw[s].plain>>
    OBVIOUS
  <1>7. ASSUME NEW p \in DOMAIN R
        PROVE  \E s \in Stems : p = <<Raw[s].plain>> /\ R[p] = Inputs[Recording(s)]
    <2> DEFINE s == CHOOSE s \in Stems : Raw[s].plain = p[1]
    <2>1. PICK r \in Stems : p = <<Raw[r].plain>>
      BY <1>6
    <2>2. s \in Stems /\ Raw[s].plain = p[1]
      BY <2>1
    <2>3. R[p] = package[Recording(s)]
      OBVIOUS
    <2>4. p = <<Raw[s].plain>>
      BY <2>1, <2>2
    <2> HIDE DEF s, R
    <2> QED BY <1>3, <2>2, <2>3, <2>4
  <1> HIDE DEF R
  <1>8. /\ DOMAIN L = DOMAIN R \cup DOMAIN package
        /\ \A p \in DOMAIN R : L[p] = R[p]
        /\ \A p \in DOMAIN package : p \notin DOMAIN R => L[p] = package[p]
    BY OntoGives
  <1> HIDE DEF L
  <1>9. /\ DOMAIN T = DOMAIN CtlFile \cup DOMAIN L
        /\ \A p \in DOMAIN CtlFile : T[p] = CtlFile[p]
        /\ \A p \in DOMAIN L : p \notin DOMAIN CtlFile => T[p] = L[p]
    BY OntoGives
  <1> HIDE DEF T
  <1>10. Needed \subseteq DOMAIN T
    <2>1. \A x \in Listed : x[1] \in DOMAIN T
      BY <1>1, <1>8, <1>9
    <2>2. Needed = {x[1] : x \in Listed}
      BY DEF Needed
    <2> QED BY <2>1, <2>2
  <1>11. ASSUME NEW p \in DOMAIN T, p \notin Generated
         PROVE  \E q \in Suited(p) : T[p] = Inputs[q]
    <2> DEFINE recorded == {<<Raw[s][endian]>> : s \in {r \in Recordings : p = <<Raw[r].plain>>}}
    <2>1. p # <<"ctlfile">>
      BY <1>11 DEF Generated
    <2>2. p \in DOMAIN L /\ T[p] = L[p]
      BY <1>5, <1>9, <2>1
    <2>3. CASE p \in DOMAIN R
      <3>1. PICK s \in Recordings : p = <<Raw[s].plain>> /\ R[p] = Inputs[Recording(s)]
        BY <1>2, <1>7, <2>3
      <3>2. Recording(s) \in recorded
        BY <3>1 DEF Recording
      <3>3. Suited(p) = recorded
        BY <3>2 DEF Suited
      <3>4. T[p] = Inputs[Recording(s)]
        BY <1>8, <2>2, <2>3, <3>1
      <3> QED BY <3>2, <3>3, <3>4
    <2>4. CASE p \notin DOMAIN R
      <3>1. p \in DOMAIN Inputs /\ T[p] = Inputs[p]
        BY <1>1, <1>8, <2>2, <2>4
      <3>2. recorded = {}
        BY <1>2, <1>6, <2>4
      <3>3. Suited(p) = {x[2] : x \in {y \in Listed : y[1] = p}}
        BY <3>2 DEF Suited
      <3>4. <<p, p>> \in Listed
        BY <1>1, <3>1
      <3>5. p \in Suited(p)
        BY <3>3, <3>4
      <3> QED BY <3>1, <3>5
    <2> QED BY <2>3, <2>4
  <1>12. Filled(T)
    BY <1>5, <1>9, <1>10, <1>11 DEF Filled
  <1> QED BY <1>4, <1>12

LEMMA SetupFills ==
    ASSUME CaseTypes, SetupPossible, Holds(Len(case.files) + 1, package)
    PROVE  Filled(AfterSetup)
  <1>1. CASE case.bench = "wrf"
    BY <1>1, WrfFilled DEF AfterSetup
  <1>2. CASE case.bench = "sphinx3"
    BY <1>2, Sphinx3Filled DEF AfterSetup, SetupPossible
  <1>3. CASE case.bench \notin {"wrf", "sphinx3"}
    BY <1>3, OtherFilled DEF AfterSetup
  <1> QED BY <1>1, <1>2, <1>3

\* A file that is generated takes the place of no input.
LEMMA GeneratedFile ==
    ASSUME CaseTypes, NEW tree, Filled(tree),
           NEW file, NEW p \in {<<case.binary>>, <<"run.sh">>}, DOMAIN file = {p}
    PROVE  Filled(Onto(file, tree))
  <1> DEFINE more == Onto(file, tree)
  <1>1. /\ DOMAIN more = DOMAIN file \cup DOMAIN tree
        /\ \A q \in DOMAIN file : more[q] = file[q]
        /\ \A q \in DOMAIN tree : q \notin DOMAIN file => more[q] = tree[q]
    BY OntoGives
  <1> HIDE DEF more
  <1>2. p \in Generated /\ p # <<"ctlfile">>
    <2>1. case.binary # "ctlfile"
      BY CaseEntries
    <2> QED BY <2>1 DEF Generated
  <1>3. Needed \subseteq DOMAIN more
    BY <1>1 DEF Filled
  <1>4. ASSUME NEW q \in DOMAIN more, q \notin Generated
        PROVE  \E r \in Suited(q) : more[q] = Inputs[r]
    <2>1. q \in DOMAIN tree /\ more[q] = tree[q]
      BY <1>1, <1>2, <1>4
    <2> QED BY <1>4, <2>1 DEF Filled
  <1>5. ASSUME <<"ctlfile">> \in DOMAIN tree
        PROVE  <<"ctlfile">> \in DOMAIN more /\ more[<<"ctlfile">>] = tree[<<"ctlfile">>]
    BY <1>1, <1>2, <1>5
  <1>6. Filled(more)
    BY <1>3, <1>4, <1>5 DEF Filled
  <1> QED BY <1>6 DEF more

\* A setup that is refused lacks something.
LEMMA SetupLacks ==
    ASSUME CaseTypes, ~SetupPossible, Holds(Len(case.files) + 1, package)
    PROVE  \/ case.bench = "wrf" /\ \A q \in DOMAIN Inputs : ~IsStrictPrefix(General, q)
           \/ case.bench = "sphinx3" /\ Recordings = {}
           \/ case.bench = "sphinx3" /\ \E s \in Recordings : Recording(s) \notin DOMAIN Inputs
  <1>1. CASE case.bench = "wrf"
    <2>1. \A p : p \in DOMAIN package <=> p \in DOMAIN Inputs
      BY <1>1, TakenWhole
    <2>2. ~IsDir(package, <<endian>>)
      BY <1>1 DEF SetupPossible
    <2> QED BY <1>1, <2>1, <2>2 DEF IsDir, General
  <1>2. CASE case.bench = "sphinx3"
    <2>1. \A p : p \in DOMAIN package <=> p \in DOMAIN Inputs
      BY <1>2, TakenWhole
    <2>2. Stems = Recordings
      BY <2>1 DEF Stems, Recordings
    <2>3. Stems = {} \/ \E s \in Stems : Recording(s) \notin DOMAIN package
      BY <1>2 DEF SetupPossible
    <2> QED BY <1>2, <2>1, <2>2, <2>3
  <1>3. CASE case.bench \notin {"wrf", "sphinx3"}
    BY <1>3 DEF SetupPossible
  <1> QED BY <1>1, <1>2, <1>3

LEMMA EntryLacks ==
    ASSUME CaseTypes, stage = Inputs, at \in 1..Len(case.files), ~EntryFound
    PROVE  \E e \in ToSet(case.files) : \A q \in DOMAIN Inputs : ~Takes(e, q)
  <1>1. Entry \in ToSet(case.files)
    BY CaseEntries DEF Entry, ToSet
  <1>2. ASSUME NEW q \in DOMAIN Inputs PROVE ~Takes(Entry, q)
    BY <1>2 DEF EntryFound, IsDir, Takes
  <1> QED BY <1>1, <1>2

-----------------------------------------------------------------------------
(* Every step keeps the invariant. *)

LEMMA SameRun ==
    ASSUME UNCHANGED given
    PROVE  /\ Inputs' = Inputs /\ Needed' = Needed /\ Generated' = Generated
           /\ Recordings' = Recordings
           /\ \A s : Recording(s)' = Recording(s)
           /\ \A p : Suited(p)' = Suited(p)
           /\ case' = case /\ data' = data /\ endian' = endian /\ header' = header
  BY DEF given, Inputs, Needed, Generated, Recordings, Recording, Suited, Listed, Special, General, OfSize

LEMMA SameFilled ==
    ASSUME UNCHANGED given, NEW tree, Filled(tree), package' = tree
    PROVE  Filled(package)'
  BY SameRun DEF Filled

LEMMA SameHolds ==
    ASSUME UNCHANGED given, NEW n, NEW tree, Holds(n, tree), at' = n, package' = tree
    PROVE  Holds(at, package)'
  BY SameRun DEF Holds

LEMMA FillInitInv == ASSUME FillInit PROVE FillInv
  BY DEF FillInit, FillInv, CaseTypes, Steps, PackageHoldsItsInputs, RefusedOnlyForMissing

\* A run that goes on has nothing to answer for yet.
LEMMA GoesOn ==
    ASSUME FillInv, UNCHANGED <<given, exit>>, step # "over"
    PROVE  PackageHoldsItsInputs' /\ RefusedOnlyForMissing' /\ exit' = "none" /\ exit = "none"
  BY DEF FillInv, PackageHoldsItsInputs, RefusedOnlyForMissing

LEMMA StageSteps ==
    ASSUME FillInv, ClearStage \/ StageAll \/ StageInput \/ ClearPackage
    PROVE  FillInv'
  <1>1. UNCHANGED given /\ exit' = exit /\ at' = at /\ step # "over"
    BY DEF ClearStage, StageAll, StageInput, ClearPackage, Then
  <1>2. PackageHoldsItsInputs' /\ RefusedOnlyForMissing' /\ exit' = "none" /\ exit = "none"
    BY <1>1, GoesOn
  <1>3. at = 1 /\ CaseTypes
    BY DEF FillInv, ClearStage, StageAll, StageInput, ClearPackage
  <1>4. ASSUME step' \in Steps PROVE CaseTypes'
    BY <1>1, <1>3, <1>4 DEF CaseTypes, given
  <1>5. CASE ClearStage
    <2>1. step' = "all" /\ stage' = Empty
      BY <1>5 DEF ClearStage, Then
    <2> QED BY <1>1, <1>2, <1>3, <1>4, <2>1 DEF FillInv, Steps
  <1>6. CASE StageAll
    <2>1. step' = "input" /\ stage' = CopyTree(data.all, Empty)
      BY <1>6 DEF StageAll, Then, FillInv
    <2>2. data' = data
      BY <1>1 DEF given
    <2> QED BY <1>1, <1>2, <1>3, <1>4, <2>1, <2>2 DEF FillInv, Steps
  <1>7. CASE StageInput
    <2>1. step' = "clear" /\ stage' = CopyTree(data.input, CopyTree(data.all, Empty))
      BY <1>7 DEF StageInput, Then, FillInv
    <2>2. stage' = Inputs'
      BY <1>1, <1>3, <2>1, StagedIsInputs, SameRun
    <2> QED BY <1>1, <1>2, <1>3, <1>4, <2>1, <2>2 DEF FillInv, Steps
  <1>8. CASE ClearPackage
    <2>1. step' = "entries" /\ stage' = stage /\ package' = Empty /\ stage = Inputs
      BY <1>8 DEF ClearPackage, Then, FillInv
    <2>2. stage' = Inputs' /\ case' = case
      BY <1>1, <2>1, SameRun
    <2>3. Holds(1, Empty)
      BY CaseEntries DEF Holds, Empty
    <2>4. Holds(at, package)'
      BY <1>1, <1>3, <2>1, <2>3, SameHolds
    <2>5. 1 \in 1..Len(case.files) + 1
      BY <1>3, CaseEntries
    <2> QED BY <1>1, <1>2, <1>3, <1>4, <2>1, <2>2, <2>4, <2>5 DEF FillInv, Steps
  <1> QED BY <1>5, <1>6, <1>7, <1>8

LEMMA EntrySteps ==
    ASSUME FillInv, InstallEntry \/ InstalledAll
    PROVE  FillInv'
  <1>1. UNCHANGED given /\ exit' = exit /\ stage' = stage /\ step = "entries"
    BY DEF InstallEntry, InstalledAll, Then
  <1>2. PackageHoldsItsInputs' /\ RefusedOnlyForMissing' /\ exit' = "none" /\ exit = "none"
    BY <1>1, GoesOn
  <1>3. stage = Inputs /\ at \in 1..Len(case.files) + 1 /\ Holds(at, package) /\ CaseTypes
    BY <1>1 DEF FillInv
  <1>4. Len(case.files) \in Nat
    BY <1>3, CaseEntries
  <1>5. stage' = Inputs' /\ case' = case
    BY <1>1, <1>3, SameRun
  <1>6. ASSUME step' \in Steps, at' \in Nat PROVE CaseTypes'
    BY <1>1, <1>3, <1>6 DEF CaseTypes, given
  <1>7. CASE InstallEntry
    <2>1. at \in 1..Len(case.files) /\ EntryFound /\ package' = AfterEntry /\ at' = at + 1 /\ step' = "entries"
      BY <1>3, <1>4, <1>7 DEF InstallEntry, Then
    <2>2. Holds(at + 1, AfterEntry)
      BY <1>3, <2>1, EntryInstalled
    <2>3. Holds(at, package)'
      BY <1>1, <2>1, <2>2, SameHolds
    <2>4. at' \in 1..Len(case'.files) + 1 /\ at' \in Nat
      BY <1>4, <1>5, <2>1
    <2> QED BY <1>2, <1>5, <1>6, <2>1, <2>3, <2>4 DEF FillInv, Steps
  <1>8. CASE InstalledAll
    <2>1. at = Len(case.files) + 1 /\ package' = package /\ at' = at /\ step' = "setup"
      BY <1>3, <1>4, <1>8 DEF InstalledAll, Then
    <2>2. Holds(at, package)'
      BY <1>1, <1>3, <2>1, SameHolds
    <2>3. Holds(Len(case.files) + 1, package)' /\ at' \in Nat
      BY <1>3, <1>4, <1>5, <2>1, <2>2
    <2> QED BY <1>2, <1>5, <1>6, <2>1, <2>3 DEF FillInv, Steps
  <1> QED BY <1>7, <1>8

LEMMA SetupStep ==
    ASSUME FillInv, Setup
    PROVE  FillInv'
  <1>1. UNCHANGED given /\ exit' = exit /\ at' = at /\ step = "setup" /\ step' = "binary" /\ package' = AfterSetup
    BY DEF Setup, Then
  <1>2. PackageHoldsItsInputs' /\ RefusedOnlyForMissing' /\ exit' = "none" /\ exit = "none"
    BY <1>1, GoesOn
  <1>3. CaseTypes /\ Holds(Len(case.files) + 1, package) /\ SetupPossible
    BY <1>1 DEF FillInv, Setup
  <1>4. Filled(package)'
    BY <1>1, <1>3, SetupFills, SameFilled
  <1>5. CaseTypes'
    BY <1>1, <1>3 DEF CaseTypes, given, Steps
  <1> QED BY <1>1, <1>2, <1>4, <1>5 DEF FillInv

LEMMA BinaryStep ==
    ASSUME FillInv, InstallBinary
    PROVE  FillInv'
  <1>1. UNCHANGED given /\ exit' = exit /\ at' = at /\ step = "binary" /\ step' = "runtime"
        /\ package' = Onto(Binary, package)
    BY DEF InstallBinary, Then
  <1>2. PackageHoldsItsInputs' /\ RefusedOnlyForMissing' /\ exit' = "none" /\ exit = "none"
    BY <1>1, GoesOn
  <1>3. CaseTypes /\ Filled(package)
    BY <1>1 DEF FillInv
  <1>4. DOMAIN Binary = {<<case.binary>>} /\ Binary[<<case.binary>>] = Content("elf", <<endian>>)
    BY DEF Binary
  <1>5. Filled(Onto(Binary, package))
    BY <1>3, <1>4, GeneratedFile
  <1>6. Filled(package)'
    BY <1>1, <1>5, SameFilled
  <1>7. <<case.binary>> \in DOMAIN package' /\ package'[<<case.binary>>] = Content("elf", <<endian>>)
    <2>1. /\ DOMAIN Onto(Binary, package) = DOMAIN Binary \cup DOMAIN package
          /\ \A p \in DOMAIN Binary : Onto(Binary, package)[p] = Binary[p]
      BY OntoGives
    <2> QED BY <1>1, <1>4, <2>1
  <1>8. case' = case /\ endian' = endian
    BY <1>1 DEF given
  <1>9. CaseTypes'
    BY <1>1, <1>3 DEF CaseTypes, given, Steps
  <1> QED BY <1>1, <1>2, <1>6, <1>7, <1>8, <1>9 DEF FillInv, Content

LEMMA RuntimeStep ==
    ASSUME FillInv, WriteRuntimeFiles
    PROVE  FillInv'
  <1>1. UNCHANGED given /\ exit' = "ok" /\ at' = at /\ step = "runtime" /\ step' = "over"
        /\ package' = Onto(RunScript, package)
    BY DEF WriteRuntimeFiles
  <1>2. CaseTypes /\ Filled(package) /\ <<case.binary>> \in DOMAIN package
        /\ package[<<case.binary>>] = Content("elf", <<endian>>)
    BY <1>1 DEF FillInv
  <1>3. DOMAIN RunScript = {<<"run.sh">>}
    BY DEF RunScript
  <1>4. Filled(package)'
    BY <1>1, <1>2, <1>3, GeneratedFile, SameFilled
  <1>5. package'[<<case.binary>>] = Content("elf", <<endian>>)
    <2>1. \A p \in DOMAIN package : p \notin DOMAIN RunScript => Onto(RunScript, package)[p] = package[p]
      BY OntoGives
    <2>2. <<case.binary>> # <<"run.sh">>
      BY <1>2, CaseEntries
    <2> QED BY <1>1, <1>2, <1>3, <2>1, <2>2
  <1>6. case' = case /\ endian' = endian
    BY <1>1 DEF given
  <1>7. PackageHoldsItsInputs'
    BY <1>4, <1>5, <1>6 DEF PackageHoldsItsInputs, Filled, Content
  <1>8. RefusedOnlyForMissing'
    BY <1>1 DEF RefusedOnlyForMissing
  <1>9. CaseTypes'
    BY <1>1, <1>2 DEF CaseTypes, given, Steps
  <1> QED BY <1>1, <1>7, <1>8, <1>9 DEF FillInv

LEMMA RefusedSteps ==
    ASSUME FillInv, EntryMissing \/ SetupFails
    PROVE  FillInv'
  <1>1. UNCHANGED given /\ exit' = "failed" /\ at' = at /\ step' = "over"
    BY DEF EntryMissing, SetupFails, Refused
  <1>2. CaseTypes /\ CaseTypes'
    BY <1>1 DEF FillInv, CaseTypes, given, Steps
  <1>3. \/ \E e \in ToSet(case.files) : \A q \in DOMAIN Inputs : ~Takes(e, q)
        \/ case.bench = "wrf" /\ \A q \in DOMAIN Inputs : ~IsStrictPrefix(General, q)
        \/ case.bench = "sphinx3" /\ Recordings = {}
        \/ case.bench = "sphinx3" /\ \E s \in Recordings : Recording(s) \notin DOMAIN Inputs
    <2>1. CASE EntryMissing
      <3>1. stage = Inputs /\ at \in 1..Len(case.files) + 1 /\ at <= Len(case.files) /\ ~EntryFound
        BY <2>1 DEF EntryMissing, FillInv
      <3>2. at \in 1..Len(case.files)
        BY <1>2, <3>1, CaseEntries
      <3> QED BY <1>2, <3>1, <3>2, EntryLacks
    <2>2. CASE SetupFails
      <3>1. ~SetupPossible /\ Holds(Len(case.files) + 1, package)
        BY <2>2 DEF SetupFails, FillInv
      <3> QED BY <1>2, <3>1, SetupLacks
    <2> QED BY <2>1, <2>2
  <1>4. General' = General
    BY <1>1 DEF given, General
  <1>5. RefusedOnlyForMissing'
    BY <1>1, <1>3, <1>4, SameRun DEF RefusedOnlyForMissing
  <1>6. PackageHoldsItsInputs'
    BY <1>1 DEF PackageHoldsItsInputs
  <1> QED BY <1>1, <1>2, <1>5, <1>6 DEF FillInv

LEMMA OtherSteps ==
    ASSUME FillInv, Mishap \/ NoMoreRuns \/ UNCHANGED fillVars \/ (\E e \in Endians, h \in HeaderSizes : Start(e, h))
    PROVE  FillInv'
  <1>1. CASE Mishap
    <2>1. UNCHANGED given /\ exit' = "failed" /\ hit' = TRUE /\ at' = at /\ step' = "over"
      BY <1>1 DEF Mishap
    <2>2. CaseTypes'
      BY <2>1 DEF FillInv, CaseTypes, given, Steps
    <2> QED BY <2>1, <2>2 DEF FillInv, PackageHoldsItsInputs, RefusedOnlyForMissing
  <1>2. CASE NoMoreRuns \/ UNCHANGED fillVars
    <2>1. UNCHANGED fillVars /\ UNCHANGED given
      BY <1>2 DEF NoMoreRuns, fillVars, given
    <2>2. /\ step' = step /\ at' = at /\ stage' = stage /\ package' = package /\ exit' = exit /\ hit' = hit
          /\ General' = General
      BY <2>1 DEF fillVars, General
    <2>3. CaseTypes' /\ (Holds(at, package)' <=> Holds(at, package))
          /\ (Holds(Len(case.files) + 1, package)' <=> Holds(Len(case.files) + 1, package))
          /\ (Filled(package)' <=> Filled(package))
      BY <2>1, <2>2, SameRun DEF FillInv, CaseTypes, Holds, Filled
    <2>4. (PackageHoldsItsInputs' <=> PackageHoldsItsInputs) /\ (RefusedOnlyForMissing' <=> RefusedOnlyForMissing)
      BY <2>1, <2>2, SameRun DEF PackageHoldsItsInputs, RefusedOnlyForMissing
    <2> QED BY <2>1, <2>2, <2>3, <2>4, SameRun DEF FillInv, Content
  <1>3. CASE \E e \in Endians, h \in HeaderSizes : Start(e, h)
    <2>1. /\ case' = case /\ data' = data /\ endian' \in Endians
          /\ step' = "clearStage" /\ at' = 1 /\ exit' = "none"
      BY <1>3 DEF Start
    <2>2. CaseTypes'
      BY <2>1 DEF FillInv, CaseTypes, Steps
    <2> QED BY <2>1, <2>2 DEF FillInv, PackageHoldsItsInputs, RefusedOnlyForMissing
  <1> QED BY <1>1, <1>2, <1>3

LEMMA FillNextInv == FillInv /\ [FillNext]_fillVars => FillInv'
  BY StageSteps, EntrySteps, SetupStep, BinaryStep, RuntimeStep, RefusedSteps, OtherSteps DEF FillNext

\* The invariant of the packaging of a case, for any data and any entries.
THEOREM FillInvariance == FillSpec => []FillInv
  BY FillInitInv, FillNextInv, PTL DEF FillSpec

\* Whatever runs before left, and wherever they were cut: a package made
\* without an error holds the inputs its entries name, those of the size over
\* those of all sizes, what suits this ELF, the ELF, and nothing else
\* (package_case, stage_inputs, install_case_files, apply_benchmark_post_setup).
THEOREM PackagesHoldTheirInputs == FillSpec => []PackageHoldsItsInputs
  <1>1. FillInv => PackageHoldsItsInputs
    BY DEF FillInv
  <1> QED BY <1>1, FillInvariance, PTL

\* A run in which nothing fails is refused only for what the data lacks
\* (the errors of install_case_files, prepare_wrf_runtime and
\* prepare_sphinx3_runtime), never for what an earlier run left.
THEOREM RefusedForMissingOnly == FillSpec => []RefusedOnlyForMissing
  <1>1. FillInv => RefusedOnlyForMissing
    BY DEF FillInv
  <1> QED BY <1>1, FillInvariance, PTL

=============================================================================
