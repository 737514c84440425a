---------------------------- MODULE BackupSaveProofs ----------------------------
(***************************************************************************)
(* On a filesystem with hard links, any number of savers implements the    *)
(* atomic file, whatever fails, dies or loses power.  Without hard links,  *)
(* exclusive savers still keep what was reported saved, and every file     *)
(* that is not their own.                                                  *)
(***************************************************************************)
EXTENDS BackupSave, TLAPS

\* The names that a saver's calls can give to the path are files.
LEMMA Names ==
    /\ None \notin Files /\ Copy(Other) \in Files
    /\ \A s \in Savers : /\ Temp(s) \in Files /\ Copy(s) \in Files
                         /\ Temp(s).by = s /\ Copy(s).by = s
                         /\ Temp(s) # Copy(Other)
    /\ Copy(Other).by = Other /\ Other \notin Savers /\ Replacers \subseteq Savers
    /\ \A s, t \in Savers : s # t => Temp(s) # Temp(t)
    /\ \A f \in Files : f.by \in Savers \cup {Other}
BY SaverAssumption, FileAssumption DEF Files, Temp, Copy

\* Nothing is at the path at first.
LEMMA InitSave == Init => SaveInv
<1> SUFFICES ASSUME Init PROVE SaveInv
  OBVIOUS
<1>1. TypeOK
  BY DEF Init, TypeOK, Data, Running
<1> QED
  BY <1>1, Names DEF Init, SaveInv, SaverInv, Published

LEMMA TypeStep == TypeOK /\ [Next]_vars => TypeOK'
<1> SUFFICES ASSUME TypeOK, [Next]_vars PROVE TypeOK'
  OBVIOUS
<1> USE Names DEF TypeOK, Data, Running, Begun, Goto, Return, Fail, Rename
<1>1. CASE UNCHANGED vars
  BY <1>1 DEF vars
<1>2. ASSUME NEW s \in Savers, Save(s) PROVE TypeOK'
  <2>1. CASE Validate(s) \/ CheckExists(s) \/ CreateTemp(s)
    BY <1>2, <2>1 DEF Validate, CheckExists, CreateTemp
  <2>2. CASE Write(s) \/ SyncTemp(s) \/ ReadBack(s)
    BY <1>2, <2>2, SMTT(30) DEF Write, SyncTemp, ReadBack
  <2>3. CASE PublishOver(s) \/ Link(s) \/ CreateCopy(s)
    BY <1>2, <2>3 DEF PublishOver, Link, CreateCopy
  <2>4. CASE CopyBytes(s)
    <3>1. pc' \in [Savers -> Running \cup {"done"}] /\ result' = result
      BY <1>2, <2>4 DEF CopyBytes
    <3> QED
      BY <1>2, <2>4, <3>1 DEF CopyBytes
  <2>5. CASE SyncCopy(s) \/ UndoCopy(s)
    BY <1>2, <2>5 DEF SyncCopy, UndoCopy
  <2>6. CASE ReadPublished(s) \/ SyncDirectory(s)
    BY <1>2, <2>6 DEF ReadPublished, SyncDirectory
  <2> QED
    BY <1>2, <2>1, <2>2, <2>3, <2>4, <2>5, <2>6 DEF Save
<1>3. ASSUME NEW s \in Savers, Die(s) PROVE TypeOK'
  BY <1>3 DEF Die
<1>4. CASE OtherCreates
  BY <1>4 DEF OtherCreates
<1>5. CASE LosePower
  BY <1>5 DEF LosePower
<1> QED
  BY <1>1, <1>2, <1>3, <1>4, <1>5 DEF Next

\* What each part of the invariant says of one saver.
LEMMA SaverFacts ==
    ASSUME SaveInv, NEW s \in Savers
    PROVE  /\ Temp(s) \in Files /\ Temp(s).by = s
           /\ pc[s] \notin {"copy", "syncCopy", "undo"}
           /\ pc[s] = "publish" => Whole(Temp(s))
           /\ pc[s] \in {"write", "sync"} => Temp(s) \notin lasting
BY Names DEF SaveInv, SaverInv, Whole

\* Calls that leave the files and the path alone.
LEMMA QuietStep ==
    ASSUME SaveInv, NEW s \in Savers, TypeOK', UNCHANGED <<data, synced, entry, lasting>>,
           \A t \in Savers \ {s} : pc'[t] = pc[t] /\ result'[t] = result[t],
           pc[s] # "done",
           \/ pc'[s] = "done" /\ result'[s] # "saved"
           \/ /\ result'[s] = result[s]
              /\ \/ pc'[s] \in {"exists", "create", "write"} /\ pc[s] \in {"validate", "exists", "create"}
                 \/ pc'[s] = "publish" /\ pc[s] = "readBack" /\ data[Temp(s)] = "whole"
                 \/ pc'[s] = "createCopy"
                 \/ pc'[s] = "syncDirectory" /\ entry # None /\ entry.by = s
    PROVE  SaveInv'
<1>1. \A f \in lasting \ {None} : Whole(f)' /\ f \in {Temp(f.by), Copy(Other)}
  BY DEF SaveInv, SaverInv, Whole
<1>2. \A t \in Savers \ {s} : SaverInv(t)'
  BY DEF SaveInv, SaverInv
<1>3. SaverInv(s)'
  BY DEF SaveInv, SaverInv, Published
<1> QED
  BY <1>1, <1>2, <1>3 DEF SaveInv, SaverInv

\* The calls that publish give the path a file that was synced and compared,
\* and one saver's file displaces another's only with consent.
LEMMA PublishStep ==
    ASSUME SaveInv, TypeOK', NEW s \in Savers, PublishOver(s) \/ Link(s), ~Fail(s), HardLinks
    PROVE  SaveInv'
<1>1. CASE Goto(s, "createCopy") /\ UNCHANGED <<data, synced, entry, lasting>>
  <2>1. /\ pc'[s] = "createCopy" /\ \A t \in Savers \ {s} : pc'[t] = pc[t]
        /\ pc[s] # "done"
    BY <1>1 DEF Goto, SaveInv, TypeOK, PublishOver, Link
  <2> QED
    BY <1>1, <2>1, QuietStep DEF Goto
<1>2. CASE Rename(Temp(s)) /\ Goto(s, "readPublished") /\ (s \in Replacers \/ entry = None)
  <2>1. /\ pc[s] = "publish" /\ pc' = [pc EXCEPT ![s] = "readPublished"] /\ result' = result
        /\ entry' = Temp(s) /\ lasting' = lasting \cup {Temp(s)} /\ data' = data /\ synced' = synced
    BY <1>2 DEF PublishOver, Link, Goto, Rename
  <2>2. Whole(Temp(s)) /\ Temp(s) \in Files /\ Temp(s).by = s /\ Temp(s) # None
    BY <2>1, SaverFacts, Names
  <2>3. \A f \in lasting' \ {None} : Whole(f)' /\ f \in {Temp(f.by), Copy(Other)}
    BY <2>1, <2>2 DEF SaveInv, SaverInv, Whole
  <2>4. \A t \in Savers : pc'[t] = IF t = s THEN "readPublished" ELSE pc[t]
    BY <2>1 DEF SaveInv, SaverInv, TypeOK
  <2>5. ASSUME NEW t \in Savers, pc'[t] \in Published
        PROVE  entry'.by \in {t} \cup Replacers
    <3>1. CASE t = s
      BY <2>1, <2>2, <3>1
    <3>2. CASE t # s
      <4>1. entry # None
        BY <2>4, <2>5, <3>2 DEF SaveInv, SaverInv
      <4> QED
        BY <1>2, <2>1, <2>2, <4>1
    <3> QED
      BY <3>1, <3>2
  <2>6. ASSUME NEW t \in Savers, result[t] = "saved"
        PROVE  \A f \in lasting' : f # None /\ f.by \in {t} \cup Replacers
    <3>1. entry # None /\ \A f \in lasting : f # None /\ f.by \in {t} \cup Replacers
      BY <2>6 DEF SaveInv, SaverInv
    <3> QED
      BY <1>2, <2>1, <2>2, <3>1
  <2>7. ASSUME NEW t \in Savers, pc'[t] \in {"validate", "exists", "create", "write", "sync"}
        PROVE  Temp(t) \notin lasting'
    <3>1. t # s /\ pc'[t] = pc[t]
      BY <2>4, <2>7
    <3> QED
      BY <2>1, <2>7, <3>1, Names DEF SaveInv, SaverInv
  <2>8. ASSUME NEW t \in Savers
        PROVE  /\ pc'[t] \notin {"copy", "syncCopy", "undo"}
               /\ pc'[t] \in {"readBack", "publish"} => Temp(t) \in synced'
               /\ pc'[t] = "publish" => data'[Temp(t)] = "whole"
               /\ pc'[t] # "done" => result'[t] = "none"
    BY <2>1, <2>4 DEF SaveInv, SaverInv
  <2> QED
    BY <2>1, <2>2, <2>3, <2>5, <2>6, <2>7, <2>8 DEF SaveInv, SaverInv
<1> QED
  BY <1>1, <1>2 DEF PublishOver, Link

\* The calls that write a temporary file change no file that is published.
LEMMA TempStep ==
    ASSUME SaveInv, TypeOK', NEW s \in Savers, Write(s) \/ SyncTemp(s), ~Fail(s)
    PROVE  SaveInv'
<1>1. PICK d \in Data : /\ data' = [data EXCEPT ![Temp(s)] = d] \/ data' = data
                        /\ synced' \in {synced, synced \cup {Temp(s)}}
                        /\ entry' = entry /\ lasting' = lasting
                        /\ pc[s] \in {"write", "sync"}
  BY DEF Write, SyncTemp, Data
<1>2. \A t \in Savers \ {s} : pc'[t] = pc[t] /\ result'[t] = result[t]
  BY DEF Write, SyncTemp, Goto, Return, SaveInv, TypeOK
<1>3. /\ pc'[s] \in {"done", "sync", "readBack"}
      /\ result'[s] # "saved" /\ (pc'[s] # "done" => result'[s] = "none")
      /\ pc'[s] = "readBack" => Temp(s) \in synced'
  BY DEF Write, SyncTemp, Goto, Return, SaveInv, SaverInv, TypeOK
<1>4. Temp(s) \notin lasting
  BY <1>1 DEF SaveInv, SaverInv
<1>5. \A f \in Files \ {Temp(s)} : data'[f] = data[f] /\ (f \in synced => f \in synced')
  BY <1>1 DEF SaveInv, SaverInv, TypeOK
<1>6. \A f \in lasting' \ {None} : Whole(f)' /\ f \in {Temp(f.by), Copy(Other)}
  BY <1>1, <1>4, <1>5 DEF SaveInv, SaverInv, TypeOK, Whole
<1>7. ASSUME NEW t \in Savers
      PROVE  SaverInv(t)'
  <2>1. CASE t = s
    BY <1>1, <1>3, <1>4, <2>1 DEF SaveInv, SaverInv, Published
  <2>2. CASE t # s
    <3>1. Temp(t) # Temp(s) /\ Temp(t) \in Files
      BY <2>2, Names
    <3> QED
      BY <1>1, <1>2, <1>5, <2>2, <3>1 DEF SaveInv, SaverInv
  <2> QED
    BY <2>1, <2>2
<1> QED
  BY <1>1, <1>6, <1>7 DEF SaveInv, SaverInv

\* A call that reported success synced the directory: one file is left.
LEMMA ReportStep ==
    ASSUME SaveInv, TypeOK', NEW s \in Savers, SyncDirectory(s), ~Fail(s)
    PROVE  SaveInv'
<1>1. /\ pc[s] = "syncDirectory" /\ pc' = [pc EXCEPT ![s] = "done"]
      /\ result' = [result EXCEPT ![s] = "saved"]
      /\ lasting' = {entry} /\ entry' = entry /\ data' = data /\ synced' = synced
  BY DEF SyncDirectory, Return
<1>2. \A t \in Savers : /\ pc'[t] = (IF t = s THEN "done" ELSE pc[t])
                        /\ result'[t] = (IF t = s THEN "saved" ELSE result[t])
  BY <1>1 DEF SaveInv, SaverInv, TypeOK
<1>3. entry # None /\ entry.by \in {s} \cup Replacers /\ entry \in lasting
  BY <1>1 DEF SaveInv, SaverInv, Published
<1>4. \A f \in lasting' \ {None} : Whole(f)' /\ f \in {Temp(f.by), Copy(Other)}
  BY <1>1, <1>3 DEF SaveInv, SaverInv, Whole
<1>5. ASSUME NEW t \in Savers
      PROVE  SaverInv(t)'
  BY <1>1, <1>2, <1>3 DEF SaveInv, SaverInv, Published
<1> QED
  BY <1>1, <1>3, <1>4, <1>5 DEF SaveInv, SaverInv

\* With hard links nobody takes the copying branch.
LEMMA SaveStep ==
    ASSUME SaveInv, TypeOK', NEW s \in Savers, Save(s) \/ Die(s), HardLinks, SyncsDirectory
    PROVE  SaveInv'
<1>0. pc[s] # "done"
  BY DEF Save, Die, Begun, Running, Validate, CheckExists, CreateTemp, Write, SyncTemp, ReadBack,
     PublishOver, Link, CreateCopy, CopyBytes, SyncCopy, UndoCopy, ReadPublished, SyncDirectory
<1>1. ASSUME NEW r \in {"error", "died"}, Return(s, r), UNCHANGED <<data, synced, entry, lasting>>
      PROVE  SaveInv'
  <2>1. /\ pc'[s] = "done" /\ result'[s] # "saved"
        /\ \A t \in Savers \ {s} : pc'[t] = pc[t] /\ result'[t] = result[t]
    BY <1>1 DEF Return, SaveInv, TypeOK
  <2> QED
    BY <1>0, <1>1, <2>1, QuietStep
<1>2. CASE Die(s)
  BY <1>1, <1>2 DEF Die
<1>3. CASE Fail(s)
  BY <1>1, <1>3 DEF Fail
<1>4. ASSUME NEW step \in {"exists", "create", "write", "publish", "syncDirectory"}, Goto(s, step),
             UNCHANGED <<data, synced, entry, lasting>>,
             \/ step \in {"exists", "create", "write"} /\ pc[s] \in {"validate", "exists", "create"}
             \/ step = "publish" /\ pc[s] = "readBack" /\ data[Temp(s)] = "whole"
             \/ step = "syncDirectory" /\ entry # None /\ entry.by = s
      PROVE  SaveInv'
  <2>1. /\ pc'[s] = step /\ result' = result
        /\ \A t \in Savers \ {s} : pc'[t] = pc[t]
    BY <1>4 DEF Goto, SaveInv, TypeOK
  <2> QED
    BY <1>0, <1>4, <2>1, QuietStep
<1>5. CASE ~Fail(s) /\ (Validate(s) \/ CheckExists(s) \/ CreateTemp(s))
  BY <1>4, <1>5 DEF Validate, CheckExists, CreateTemp
<1>6. CASE ~Fail(s) /\ ReadBack(s)
  BY <1>4, <1>6 DEF ReadBack
<1>7. CASE ~Fail(s) /\ (Write(s) \/ SyncTemp(s))
  BY <1>7, TempStep
<1>8. CASE ~Fail(s) /\ (PublishOver(s) \/ Link(s))
  BY <1>8, PublishStep
<1>9. CASE ~Fail(s) /\ (CreateCopy(s) \/ CopyBytes(s) \/ SyncCopy(s) \/ UndoCopy(s))
  BY <1>9 DEF CreateCopy, CopyBytes, SyncCopy, UndoCopy, SaveInv, SaverInv
<1>10. CASE ~Fail(s) /\ ReadPublished(s)
  BY <1>4, <1>10 DEF ReadPublished
<1>11. CASE ~Fail(s) /\ SyncDirectory(s)
  BY <1>11, ReportStep
<1> QED
  BY <1>2, <1>3, <1>5, <1>6, <1>7, <1>8, <1>9, <1>10, <1>11 DEF Save

\* Another program's file appears only where there is none, and a loss of power
\* reveals one of the whole files.
LEMMA EnvironmentStep ==
    ASSUME SaveInv, TypeOK', OtherCreates \/ LosePower
    PROVE  SaveInv'
<1>1. CASE OtherCreates
  <2>1. /\ entry = None /\ entry' = Copy(Other) /\ lasting' = lasting \cup {Copy(Other)}
        /\ data' = [data EXCEPT ![Copy(Other)] = "whole"] /\ synced' = synced \cup {Copy(Other)}
        /\ pc' = pc /\ result' = result
    BY <1>1 DEF OtherCreates
  <2>2. \A f \in Files : f = Copy(Other) => f \in synced' /\ data'[f] = "whole"
    BY <2>1, Names DEF SaveInv, SaverInv, TypeOK
  <2>3. \A f \in Files \ {Copy(Other)} : data'[f] = data[f] /\ (f \in synced' <=> f \in synced)
    BY <2>1, Names DEF SaveInv, SaverInv, TypeOK
  <2>4. \A f \in lasting' \ {None} : Whole(f)' /\ f \in {Temp(f.by), Copy(Other)}
    BY <2>1, <2>2, <2>3, Names DEF SaveInv, SaverInv, TypeOK, Whole
  <2>5. \A t \in Savers : result[t] # "saved" /\ pc[t] \notin Published
    BY <2>1 DEF SaveInv, SaverInv
  <2>6. ASSUME NEW t \in Savers
        PROVE  /\ pc'[t] \notin {"copy", "syncCopy", "undo"}
               /\ pc'[t] \in {"readBack", "publish"} => Temp(t) \in synced'
               /\ pc'[t] = "publish" => data'[Temp(t)] = "whole"
               /\ pc'[t] \in {"validate", "exists", "create", "write", "sync"} => Temp(t) \notin lasting'
               /\ pc'[t] # "done" => result'[t] = "none"
    BY <2>1, <2>3, Names DEF SaveInv, SaverInv
  <2> QED
    BY <2>1, <2>4, <2>5, <2>6 DEF SaveInv, SaverInv
<1>2. CASE LosePower
  <2>1. \A t \in Savers : /\ pc'[t] \in {"done", "validate"} /\ (pc'[t] = "validate" => pc[t] = "validate")
                          /\ result'[t] = "saved" => result[t] = "saved"
                          /\ pc'[t] = "validate" => result'[t] = result[t]
    BY <1>2 DEF LosePower, Begun, SaveInv, TypeOK
  <2>2. entry' \in lasting /\ lasting' = {entry'}
    BY <1>2 DEF LosePower
  <2>3. \A f \in synced : f \in synced' /\ data'[f] = data[f]
    BY <1>2 DEF LosePower, SaveInv, TypeOK
  <2>4. \A f \in lasting' \ {None} : Whole(f)' /\ f \in {Temp(f.by), Copy(Other)}
    BY <2>2, <2>3 DEF SaveInv, SaverInv, Whole
  <2> QED
    BY <2>1, <2>2, <2>4 DEF SaveInv, SaverInv, Published
<1> QED
  BY <1>1, <1>2

\* With hard links and a synced directory, what the path names and may name
\* after a loss of power is whole, at every moment (SaveInv).
THEOREM Invariant == HardLinks /\ SyncsDirectory => (Spec => []SaveInv)
<1> SUFFICES ASSUME HardLinks, SyncsDirectory PROVE Spec => []SaveInv
  OBVIOUS
<1>1. SaveInv /\ [Next]_vars => SaveInv'
  <2> SUFFICES ASSUME SaveInv, [Next]_vars PROVE SaveInv'
    OBVIOUS
  <2>1. TypeOK'
    BY TypeStep DEF SaveInv, SaverInv
  <2>2. CASE UNCHANGED vars
    BY <2>2 DEF vars, SaveInv, SaverInv, TypeOK, Whole, Published
  <2> QED
    BY <2>1, <2>2, SaveStep, EnvironmentStep DEF Next
<1> QED
  BY InitSave, <1>1, PTL DEF Spec

\* A reported save is on the disk and stays there (SavedIsSafe).
THEOREM SavedStaysSafe == HardLinks /\ SyncsDirectory => (Spec => []SavedIsSafe)
<1>1. SaveInv => SavedIsSafe
  BY DEF SaveInv, SaverInv, SavedIsSafe, Whole
<1> QED
  BY <1>1, Invariant, PTL

Saved == {s \in Savers : result[s] = "saved"}

\* Seen from the path, every step is one of these.
LEMMA PathSteps ==
    ASSUME SaveInv, TypeOK', [Next]_vars, HardLinks, SyncsDirectory
    PROVE  \/ UNCHANGED <<entry, lasting, Saved>>
           \/ /\ \/ entry' = Copy(Other) /\ entry = None
                 \/ \E s \in Savers : entry' = Temp(s) /\ (s \in Replacers \/ entry = None)
              /\ lasting' = lasting \cup {entry'} /\ UNCHANGED Saved
           \/ \E s \in Savers : /\ entry # None /\ entry.by \in {s} \cup Replacers
                                /\ entry' = entry /\ lasting' = {entry} /\ Saved' = Saved \cup {s}
           \/ LosePower /\ entry' \in lasting /\ lasting' = {entry'} /\ UNCHANGED Saved
<1>1. CASE UNCHANGED vars
  BY <1>1 DEF vars, Saved
<1>2. ASSUME NEW s \in Savers, Save(s) \/ Die(s)
      PROVE  pc[s] # "done" /\ result[s] = "none"
  <2>1. pc[s] # "done"
    BY <1>2 DEF Save, Die, Begun, Running, Validate, CheckExists, CreateTemp, Write, SyncTemp, ReadBack,
       PublishOver, Link, CreateCopy, CopyBytes, SyncCopy, UndoCopy, ReadPublished, SyncDirectory
  <2> QED
    BY <2>1 DEF SaveInv, SaverInv
<1>3. ASSUME NEW s \in Savers, result[s] = "none",
             UNCHANGED result \/ \E r \in {"error", "died"} : Return(s, r)
      PROVE  UNCHANGED Saved
  BY <1>3 DEF Return, Saved, SaveInv, TypeOK
<1>4. ASSUME NEW s \in Savers, Die(s) \/ Fail(s) \/ Write(s), result[s] = "none"
      PROVE  UNCHANGED <<entry, lasting, Saved>>
  BY <1>3, <1>4 DEF Die, Fail, Write, Goto
<1>5. ASSUME NEW s \in Savers, ~Fail(s), result[s] = "none",
             \/ Validate(s) \/ CheckExists(s) \/ CreateTemp(s) \/ SyncTemp(s)
             \/ ReadBack(s) \/ ReadPublished(s)
      PROVE  UNCHANGED <<entry, lasting, Saved>>
  BY <1>3, <1>5 DEF Validate, CheckExists, CreateTemp, SyncTemp, ReadBack, ReadPublished, Goto
<1>6. ASSUME NEW s \in Savers, ~Fail(s), result[s] = "none", PublishOver(s) \/ Link(s)
      PROVE  \/ UNCHANGED <<entry, lasting, Saved>>
             \/ /\ entry' = Temp(s) /\ (s \in Replacers \/ entry = None)
                /\ lasting' = lasting \cup {entry'} /\ UNCHANGED Saved
  BY <1>3, <1>6 DEF PublishOver, Link, Goto, Rename
<1>7. ASSUME NEW s \in Savers, CreateCopy(s) \/ CopyBytes(s) \/ SyncCopy(s) \/ UndoCopy(s), ~Fail(s)
      PROVE  FALSE
  BY <1>7 DEF CreateCopy, CopyBytes, SyncCopy, UndoCopy, SaveInv, SaverInv
<1>8. ASSUME NEW s \in Savers, SyncDirectory(s), ~Fail(s)
      PROVE  /\ entry # None /\ entry.by \in {s} \cup Replacers
             /\ entry' = entry /\ lasting' = {entry} /\ Saved' = Saved \cup {s}
  BY <1>8 DEF SyncDirectory, Return, Saved, SaveInv, SaverInv, TypeOK, Published
<1>9. CASE OtherCreates
  BY <1>9 DEF OtherCreates, Saved
<1>10. CASE LosePower
  <2>1. \A s \in Savers : result'[s] = "saved" <=> result[s] = "saved"
    <3> TAKE s \in Savers
    <3>1. result'[s] = IF pc[s] \in Begun THEN "died" ELSE result[s]
      BY <1>10 DEF LosePower
    <3>2. pc[s] \in Begun => result[s] = "none"
      BY DEF Begun, Running, SaveInv, SaverInv
    <3> QED
      BY <3>1, <3>2
  <2> QED
    BY <1>10, <2>1 DEF LosePower, Saved
<1> QED
  BY <1>1, <1>2, <1>4, <1>5, <1>6, <1>7, <1>8, <1>9, <1>10 DEF Next, Save

\* What another program made, or a call reported saved, is removed by nothing and
\* displaced only with consent (NoClobber).
THEOREM NothingIsClobbered == HardLinks /\ SyncsDirectory => (Spec => NoClobber)
<1> SUFFICES ASSUME HardLinks, SyncsDirectory PROVE Spec => NoClobber
  OBVIOUS
<1>1. SaveInv /\ SaveInv' /\ [Next]_vars =>
        [\/ LosePower
         \/ entry # None /\ (entry.by = Other \/ result[entry.by] = "saved") =>
              entry' \in {entry} \cup {Temp(r) : r \in Replacers}]_vars
  BY PathSteps DEF SaveInv
<1> QED
  BY <1>1, Invariant, PTL DEF Spec, NoClobber

\* A whole file shows its writer.
LEMMA ShowsWriter ==
    /\ SaveInv => \A f \in lasting : Shows(f) = IF f = None THEN None ELSE f.by
    /\ SaveInv' => \A f \in lasting' : Shows(f)' = IF f = None THEN None ELSE f.by
BY DEF SaveInv, Shows

\* The savers implement the atomic file (ImplementsAtomicFile).
THEOREM SavesAreAtomic ==
    HardLinks /\ SyncsDirectory => (Spec => ImplementsAtomicFile)
<1> SUFFICES ASSUME HardLinks, SyncsDirectory PROVE Spec => ImplementsAtomicFile
  OBVIOUS
<1>1. Init => Atomic!AtomicInit
  BY DEF Init, Atomic!AtomicInit, Shows
<1>2. SaveInv /\ SaveInv' /\ [Next]_vars => [Atomic!AtomicNext]_(Atomic!atomicVars)
  <2> SUFFICES ASSUME SaveInv, SaveInv', [Next]_vars
               PROVE  [Atomic!AtomicNext]_(Atomic!atomicVars)
    OBVIOUS
  <2> DEFINE Who(f) == IF f = None THEN None ELSE f.by
             Seen == {Shows(f) : f \in lasting}
  <2>1. Shows(entry) = Who(entry) /\ Seen = {Who(f) : f \in lasting} /\ entry \in lasting
    BY ShowsWriter DEF SaveInv
  <2>2. Shows(entry)' = Who(entry') /\ Seen' = {Who(f) : f \in lasting'}
    <3>1. entry' \in lasting'
      BY DEF SaveInv
    <3>2. Shows(entry)' = Who(entry')
      BY <3>1 DEF SaveInv, Shows
    <3> QED
      BY <3>2, ShowsWriter
  <2>3. CASE UNCHANGED <<entry, lasting, Saved>>
    BY <2>1, <2>2, <2>3 DEF Atomic!atomicVars, Saved
  <2>4. ASSUME NEW w \in Savers \cup {Other}, entry' # None, entry'.by = w,
               entry = None \/ w \in Replacers,
               lasting' = lasting \cup {entry'}, UNCHANGED Saved
        PROVE  Atomic!AtomicNext
    <3>1. Who(entry') = w /\ {Who(f) : f \in lasting'} = {Who(f) : f \in lasting} \cup {w}
      BY <2>4
    <3>2. Shows(entry) = None \/ w \in Replacers
      BY <2>1, <2>4
    <3>3. Atomic!Publish(w)
      BY <2>1, <2>2, <2>4, <3>1, <3>2 DEF Atomic!Publish, Saved
    <3> QED
      BY <3>3 DEF Atomic!AtomicNext
  <2>5. ASSUME NEW s \in Savers, entry # None, entry.by \in {s} \cup Replacers,
               entry' = entry, lasting' = {entry}, Saved' = Saved \cup {s}
        PROVE  Atomic!AtomicNext
    <3>1. {Who(f) : f \in lasting'} = {Who(entry)} /\ Who(entry) = entry.by
      BY <2>5
    <3>2. Atomic!Report(s)
      BY <2>1, <2>2, <2>5, <3>1 DEF Atomic!Report, Saved
    <3> QED
      BY <3>2 DEF Atomic!AtomicNext
  <2>6. CASE entry' \in lasting /\ lasting' = {entry'} /\ UNCHANGED Saved
    <3>1. {Who(f) : f \in lasting'} = {Who(entry')} /\ Who(entry') \in {Who(f) : f \in lasting}
      BY <2>6
    <3>2. Atomic!LosePower
      BY <2>1, <2>2, <2>6, <3>1 DEF Atomic!LosePower, Saved
    <3> QED
      BY <3>2 DEF Atomic!AtomicNext
  <2>7. CASE entry' = Copy(Other) /\ entry = None /\ lasting' = lasting \cup {entry'} /\ UNCHANGED Saved
    <3>1. Copy(Other) # None /\ Copy(Other).by = Other
      BY Names
    <3> QED
      BY <2>4, <2>7, <3>1
  <2>8. ASSUME NEW s \in Savers, entry' = Temp(s), s \in Replacers \/ entry = None,
               lasting' = lasting \cup {entry'}, UNCHANGED Saved
        PROVE  Atomic!AtomicNext
    <3>1. Temp(s) # None /\ Temp(s).by = s
      BY Names
    <3> QED
      BY <2>4, <2>8, <3>1
  <2> HIDE DEF Who, Seen
  <2> QED
    BY <2>3, <2>5, <2>6, <2>7, <2>8, PathSteps DEF SaveInv
<1> QED
  BY <1>1, <1>2, Invariant, PTL DEF Spec, ImplementsAtomicFile, Atomic!AtomicSpec
-----------------------------------------------------------------------------
(* Without hard links the destination itself is created and written, and    *)
(* whoever looks may find it unfinished.  What is left of the promise needs *)
(* every saver to be exclusive: whoever has created the destination keeps   *)
(* it until it is done, and a save that was reported is the only file that  *)
(* the path names or may name.                                              *)
Copying == {"copy", "syncCopy", "undo"} \cup Published

CopierInv(s) ==
    /\ pc[s] \in Copying => entry = Copy(s)
    /\ pc[s] \in Published => Copy(s) \in synced
    /\ pc[s] = "syncDirectory" => data[Copy(s)] = "whole"
    /\ pc[s] # "done" => result[s] = "none"
    /\ SyncsDirectory /\ result[s] = "saved" =>
         entry = Copy(s) /\ lasting = {Copy(s)} /\ Whole(Copy(s))

CopyInv == TypeOK /\ \A s \in Savers : CopierInv(s)

\* The destinations are each saver's own and no temporary file.
LEMMA CopyNames ==
    /\ Copy(Other) \in Files
    /\ \A s \in Savers : /\ Copy(s) \in Files /\ Copy(s) # None /\ Copy(s).by = s
                         /\ Copy(s) # Copy(Other)
                         /\ \A t \in Savers \cup {Other} : Temp(t) # Copy(s)
                         /\ \A t \in Savers : s # t => Copy(s) # Copy(t)
<1>1. \A s \in Savers \cup {Other} : Copy(s) \in Files /\ Copy(s).by = s /\ Copy(s).name = "path"
  BY DEF Files, Copy
<1>2. \A t \in Savers \cup {Other} : Temp(t).name = "temp"
  BY DEF Temp
<1>3. \A s \in Savers : s # Other
  BY SaverAssumption
<1> QED
  BY <1>1, <1>2, <1>3, FileAssumption

\* A step of s that changes at most its own files, and the path only if that is
\* its own or nobody's, keeps what holds of the others.
LEMMA OthersAreKept ==
    ASSUME CopyInv, NEW s \in Savers, pc[s] # "done",
           \A t \in Savers \ {s} : pc'[t] = pc[t] /\ result'[t] = result[t],
           \A f \in Files \ {Temp(s), Copy(s)} : data'[f] = data[f], synced \subseteq synced',
           \/ UNCHANGED <<entry, lasting>>
           \/ entry \in {None, Copy(s)}
    PROVE  \A t \in Savers \ {s} : CopierInv(t)'
<1> SUFFICES ASSUME NEW t \in Savers \ {s} PROVE CopierInv(t)'
  OBVIOUS
<1>1. Copy(t) \in Files \ {Temp(s), Copy(s)} /\ Copy(t) \notin {None, Copy(s)}
  BY CopyNames
<1>2. data'[Copy(t)] = data[Copy(t)] /\ (Copy(t) \in synced => Copy(t) \in synced')
  BY <1>1
<1>3. CopierInv(t) /\ pc'[t] = pc[t] /\ result'[t] = result[t]
  BY DEF CopyInv
<1>4. CASE UNCHANGED <<entry, lasting>>
  BY <1>1, <1>2, <1>3, <1>4 DEF CopierInv, Whole
<1>5. CASE entry \in {None, Copy(s)}
  <2>1. pc[t] \notin Copying /\ ~(SyncsDirectory /\ result[t] = "saved")
    BY <1>1, <1>3, <1>5 DEF CopierInv
  <2> QED
    BY <1>3, <2>1 DEF CopierInv, Copying, Published
<1> QED
  BY <1>4, <1>5

\* The calls of one saver.
LEMMA CopyStep ==
    ASSUME CopyInv, TypeOK', NEW s \in Savers, Save(s) \/ Die(s), ~HardLinks, Replacers = {}
    PROVE  CopyInv'
<1> USE DEF Goto, Return, Fail
<1>0. /\ pc[s] # "done" /\ result[s] = "none"
      /\ pc \in [Savers -> Running \cup {"done"}]
      /\ result \in [Savers -> {"none", "error", "died", "saved"}]
      /\ data \in [Files -> Data] /\ CopierInv(s)
  <2>1. pc[s] # "done"
    BY DEF Save, Die, Begun, Running, Validate, CheckExists, CreateTemp, Write, SyncTemp, ReadBack,
       PublishOver, Link, CreateCopy, CopyBytes, SyncCopy, UndoCopy, ReadPublished, SyncDirectory
  <2> QED
    BY <2>1 DEF CopyInv, CopierInv, TypeOK
<1>1. \A t \in Savers \ {s} : pc'[t] = pc[t] /\ result'[t] = result[t]
  <2>1. CASE Die(s)
    BY <1>0, <2>1 DEF Die
  <2>2. CASE Validate(s) \/ CheckExists(s) \/ CreateTemp(s) \/ Write(s) \/ SyncTemp(s) \/ ReadBack(s)
    BY <1>0, <2>2 DEF Validate, CheckExists, CreateTemp, Write, SyncTemp, ReadBack
  <2>3. CASE PublishOver(s) \/ Link(s) \/ CreateCopy(s) \/ CopyBytes(s) \/ SyncCopy(s) \/ UndoCopy(s)
    BY <1>0, <2>3 DEF PublishOver, Link, CreateCopy, CopyBytes, SyncCopy, UndoCopy
  <2>4. CASE ReadPublished(s) \/ SyncDirectory(s)
    BY <1>0, <2>4 DEF ReadPublished, SyncDirectory
  <2> QED
    BY <2>1, <2>2, <2>3, <2>4 DEF Save
<1>2. ASSUME \A f \in Files \ {Temp(s), Copy(s)} : data'[f] = data[f], synced \subseteq synced',
             UNCHANGED <<entry, lasting>> \/ entry \in {None, Copy(s)}, CopierInv(s)'
      PROVE  CopyInv'
  BY <1>0, <1>1, <1>2, OthersAreKept DEF CopyInv
\* Calls that leave the files and the path alone.
<1>3. ASSUME UNCHANGED <<data, synced, entry, lasting>>,
             \/ pc'[s] = "done" /\ result'[s] \in {"error", "died"}
             \/ /\ result'[s] = "none"
                /\ \/ pc'[s] \notin Copying
                   \/ pc'[s] = "undo" /\ pc[s] = "syncCopy"
                   \/ pc'[s] = "syncDirectory" /\ pc[s] = "readPublished" /\ data[entry] = "whole"
      PROVE  CopyInv'
  <2>1. CopierInv(s)'
    BY <1>0, <1>3 DEF CopierInv, Copying, Published
  <2> QED
    BY <1>2, <1>3, <2>1
<1>4. CASE Die(s) \/ Fail(s)
  <2>1. UNCHANGED <<data, synced, entry, lasting>> /\ pc'[s] = "done" /\ result'[s] \in {"error", "died"}
    BY <1>0, <1>4 DEF Die
  <2> QED
    BY <1>3, <2>1
<1>5. CASE ~Fail(s) /\ (Validate(s) \/ CheckExists(s) \/ CreateTemp(s) \/ ReadBack(s) \/ Link(s))
  <2>1. /\ UNCHANGED <<data, synced, entry, lasting>> /\ result'[s] = "none"
        /\ pc'[s] \in {"exists", "create", "write", "publish", "createCopy"}
    BY <1>0, <1>5 DEF Validate, CheckExists, CreateTemp, ReadBack, Link
  <2> QED
    BY <1>3, <2>1 DEF Copying, Published
<1>6. CASE Write(s) \/ (~Fail(s) /\ SyncTemp(s))
  <2>1. /\ UNCHANGED <<entry, lasting>> /\ synced \subseteq synced'
        /\ \A f \in Files \ {Temp(s), Copy(s)} : data'[f] = data[f]
    BY <1>0, <1>6 DEF Write, SyncTemp
  <2>2. /\ pc'[s] \in {"done", "sync", "readBack"} /\ result'[s] \in {"none", "error"}
        /\ pc'[s] # "done" => result'[s] = "none"
    BY <1>0, <1>6 DEF Write, SyncTemp
  <2>3. CopierInv(s)'
    BY <2>2 DEF CopierInv, Copying, Published
  <2> QED
    BY <1>2, <2>1, <2>3
<1>7. CASE PublishOver(s)
  BY <1>7 DEF PublishOver
<1>8. CASE ~Fail(s) /\ CreateCopy(s)
  <2>1. /\ entry = None /\ entry' = Copy(s) /\ UNCHANGED <<data, synced>>
        /\ pc'[s] = "copy" /\ result'[s] = "none"
    BY <1>0, <1>8 DEF CreateCopy, Rename
  <2>2. CopierInv(s)'
    BY <2>1 DEF CopierInv, Copying, Published
  <2> QED
    BY <1>2, <2>1, <2>2
<1>9. CASE CopyBytes(s)
  <2>1. /\ UNCHANGED <<synced, entry, lasting>> /\ entry = Copy(s)
        /\ pc'[s] \in {"undo", "syncCopy"} /\ result'[s] = "none"
        /\ \A f \in Files \ {Temp(s), Copy(s)} : data'[f] = data[f]
    BY <1>0, <1>9 DEF CopyBytes, CopierInv, Copying
  <2>2. CopierInv(s)'
    BY <2>1 DEF CopierInv, Copying, Published
  <2> QED
    BY <1>2, <2>1, <2>2
<1>10. CASE SyncCopy(s)
  <2>1. CASE Goto(s, "undo") /\ UNCHANGED <<data, synced, entry, lasting>>
    BY <1>0, <1>3, <1>10, <2>1 DEF SyncCopy
  <2>2. CASE synced' = synced \cup {Copy(s)} /\ Goto(s, "readPublished") /\ UNCHANGED <<data, entry, lasting>>
    <3>1. entry' = Copy(s) /\ pc'[s] = "readPublished" /\ result'[s] = "none" /\ Copy(s) \in synced'
      BY <1>0, <1>10, <2>2 DEF SyncCopy, CopierInv, Copying
    <3>2. CopierInv(s)'
      BY <3>1 DEF CopierInv, Copying, Published
    <3> QED
      BY <1>2, <2>2, <3>2
  <2> QED
    BY <1>10, <2>1, <2>2 DEF SyncCopy
<1>11. CASE UndoCopy(s)
  <2>1. entry = Copy(s) /\ pc'[s] = "done" /\ result'[s] = "error" /\ UNCHANGED <<data, synced>>
    BY <1>0, <1>11 DEF UndoCopy, Rename, CopierInv, Copying
  <2>2. CopierInv(s)'
    BY <2>1 DEF CopierInv, Copying, Published
  <2> QED
    BY <1>2, <2>1, <2>2
<1>12. CASE ~Fail(s) /\ ReadPublished(s)
  <2>1. CASE SyncsDirectory
    BY <1>0, <1>3, <1>12, <2>1 DEF ReadPublished
  <2>2. CASE ~SyncsDirectory
    <3>1. pc'[s] = "done" /\ UNCHANGED <<data, synced, entry, lasting>>
      BY <1>0, <1>12, <2>2 DEF ReadPublished
    <3>2. CopierInv(s)'
      BY <2>2, <3>1 DEF CopierInv, Copying, Published
    <3> QED
      BY <1>2, <3>1, <3>2
  <2> QED
    BY <2>1, <2>2
<1>13. CASE ~Fail(s) /\ SyncDirectory(s)
  <2>1. /\ entry = Copy(s) /\ Whole(Copy(s)) /\ lasting' = {entry} /\ UNCHANGED <<data, synced, entry>>
        /\ pc'[s] = "done"
    BY <1>0, <1>13, CopyNames DEF SyncDirectory, CopierInv, Copying, Published, Whole
  <2>2. CopierInv(s)'
    BY <2>1 DEF CopierInv, Copying, Published, Whole
  <2> QED
    BY <1>2, <2>1, <2>2
<1> QED
  BY <1>4, <1>5, <1>6, <1>7, <1>8, <1>9, <1>10, <1>11, <1>12, <1>13 DEF Save

\* Another program's file appears only where there is none, and a loss of power
\* ends every saver and spares what was synced.
LEMMA CopyEnvironmentStep ==
    ASSUME CopyInv, TypeOK', OtherCreates \/ LosePower
    PROVE  CopyInv'
<1> SUFFICES ASSUME NEW s \in Savers PROVE CopierInv(s)'
  BY DEF CopyInv
<1>0. CopierInv(s) /\ Copy(s) \in Files \ {Copy(Other)} /\ Copy(s) # None /\ data \in [Files -> Data]
  BY CopyNames DEF CopyInv, TypeOK
<1>1. CASE OtherCreates
  <2>1. entry = None /\ pc' = pc /\ result' = result
    BY <1>1 DEF OtherCreates
  <2>2. pc[s] \notin Copying /\ ~(SyncsDirectory /\ result[s] = "saved")
    BY <1>0, <2>1 DEF CopierInv
  <2> QED
    BY <1>0, <2>1, <2>2 DEF CopierInv, Copying, Published
<1>2. CASE LosePower
  <2>1. /\ pc'[s] \in {"done", "validate"} /\ (pc'[s] = "validate" => pc[s] = "validate")
        /\ result'[s] = "saved" => result[s] = "saved"
        /\ pc'[s] = "validate" => result'[s] = result[s]
    BY <1>2 DEF LosePower, Begun
  <2>2. entry' \in lasting /\ lasting' = {entry'}
    BY <1>2 DEF LosePower
  <2>3. \A f \in synced : f \in Files => f \in synced' /\ data'[f] = data[f]
    BY <1>2 DEF LosePower
  <2>4. SyncsDirectory /\ result'[s] = "saved" =>
          entry' = Copy(s) /\ lasting' = {Copy(s)} /\ Whole(Copy(s))'
    BY <1>0, <2>1, <2>2, <2>3 DEF CopierInv, Whole
  <2> QED
    BY <1>0, <2>1, <2>4 DEF CopierInv, Copying, Published
<1> QED
  BY <1>1, <1>2

\* Without hard links, whoever created the destination keeps it until it is done
\* (CopyInv).
THEOREM CopyInvariant == ~HardLinks /\ Replacers = {} => (Spec => []CopyInv)
<1> SUFFICES ASSUME ~HardLinks, Replacers = {} PROVE Spec => []CopyInv
  OBVIOUS
<1>1. Init => CopyInv
  <2> SUFFICES ASSUME Init PROVE CopyInv
    OBVIOUS
  <2>1. TypeOK
    BY DEF Init, TypeOK, Data, Running
  <2> QED
    BY <2>1 DEF Init, CopyInv, CopierInv, Copying, Published
<1>2. CopyInv /\ [Next]_vars => CopyInv'
  <2> SUFFICES ASSUME CopyInv, [Next]_vars PROVE CopyInv'
    OBVIOUS
  <2>1. TypeOK'
    BY TypeStep DEF CopyInv
  <2>2. CASE UNCHANGED vars
    BY <2>2 DEF vars, CopyInv, CopierInv, TypeOK, Whole
  <2> QED
    BY <2>1, <2>2, CopyStep, CopyEnvironmentStep DEF Next
<1> QED
  BY <1>1, <1>2, PTL DEF Spec

\* A reported save is safe also where the destination is written in place, if
\* the directory is synced (SavedIsSafe).
THEOREM CopiesStaySafe == ~HardLinks /\ SyncsDirectory /\ Replacers = {} => (Spec => []SavedIsSafe)
<1> SUFFICES ASSUME ~HardLinks, SyncsDirectory, Replacers = {} PROVE Spec => []SavedIsSafe
  OBVIOUS
<1>1. CopyInv => SavedIsSafe
  BY CopyNames DEF CopyInv, CopierInv, SavedIsSafe
<1> QED
  BY <1>1, CopyInvariant, PTL

\* Exclusive savers remove nothing but what they created themselves, also where
\* they write the destination in place, whether the directory is synced or not
\* (NoClobber).
THEOREM CopiesClobberNothing == ~HardLinks /\ Replacers = {} => (Spec => NoClobber)
<1> SUFFICES ASSUME ~HardLinks, Replacers = {} PROVE Spec => NoClobber
  OBVIOUS
<1>1. ASSUME CopyInv, [Next]_vars, entry # None, entry' # entry
      PROVE  LosePower \/ (entry.by # Other /\ result[entry.by] # "saved")
  <2>1. ASSUME NEW s \in Savers, Save(s) \/ Die(s)
        PROVE  entry.by # Other /\ result[entry.by] # "saved"
    <3>1. UndoCopy(s)
      BY <1>1, <2>1 DEF Save, Die, Goto, Return, Fail, Rename, Validate, CheckExists, CreateTemp, Write,
         SyncTemp, ReadBack, PublishOver, Link, CreateCopy, CopyBytes, SyncCopy, ReadPublished, SyncDirectory
    <3>2. entry = Copy(s) /\ result[s] = "none"
      BY <1>1, <3>1 DEF UndoCopy, CopyInv, CopierInv, Copying
    <3> QED
      BY <3>2, CopyNames, SaverAssumption
  <2> QED
    BY <1>1, <2>1 DEF Next, OtherCreates, vars
<1>2. CopyInv /\ [Next]_vars =>
        [\/ LosePower
         \/ entry # None /\ (entry.by = Other \/ result[entry.by] = "saved") =>
              entry' \in {entry} \cup {Temp(r) : r \in Replacers}]_vars
  BY <1>1
<1> QED
  BY <1>2, CopyInvariant, PTL DEF Spec, NoClobber
=============================================================================
