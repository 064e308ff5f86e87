-------------------------- MODULE InstallerProofs --------------------------
(***************************************************************************)
(* Proofs about Installer, for any number of processes.  NeverHalf needs   *)
(* only that a staging directory is complete before it is moved in.  The   *)
(* others follow the lock until it is contested: a holder has its own      *)
(* fresh lock, a waiter that breaks a lock is alone with an abandoned one  *)
(* (LockIsHeld); so only one worker replaces the tree, and it found it     *)
(* incomplete (ReplacesIncomplete); so nothing recorded as done is taken   *)
(* away (DoneIsKept).                                                      *)
(***************************************************************************)
EXTENDS Installer, TLAPS

\* What is about to be moved in was unpacked to the end.
StagedIsWhole == \A p \in Processes : pc[p] \in {"swap", "move"} => staged[p] = "whole"

\* Until contested, a holder has its own lock, which is fresh, and whoever
\* breaks a lock is the only one and finds it old.
LockIsHeld ==
    ~contested =>
      \A p \in Processes :
        /\ Holding(p) => lock = p /\ ~aged
        /\ pc[p] = "breaking" =>
             /\ lock # Nobody /\ aged
             /\ \A q \in Processes : pc[q] = "breaking" => q = p

\* Until contested, a tree is replaced only while it is incomplete.
ReplacesIncomplete ==
    ~contested =>
      \A p \in Processes : pc[p] \in {"fetch", "extract", "swap", "move", "mark"} => ~Installed

\* Until contested or damaged, whatever is on its way to be recorded as done is there.
DoneIsKept ==
    ~contested /\ damages = 0 =>
      /\ tree # "broken"
      /\ \A p \in Processes :
           /\ pc[p] = "mark" => tree = "whole"
           /\ pc[p] = "check" \/ result[p] = "ok" \/ job[p] = "done" => Installed

Kept == /\ TypeOK /\ StagedIsWhole /\ NeverHalf
        /\ LockIsHeld /\ ReplacesIncomplete /\ DoneIsKept

-----------------------------------------------------------------------------
\* Init establishes each part.
LEMMA KeptInit == Init => Kept
<1> SUFFICES ASSUME Init
             PROVE  Kept
  OBVIOUS
<1>1. TypeOK
  BY DEF Init, TypeOK
<1>2. StagedIsWhole /\ NeverHalf
  BY DEF Init, StagedIsWhole, NeverHalf
<1>3. LockIsHeld /\ ReplacesIncomplete /\ DoneIsKept
  BY DEF Init, LockIsHeld, ReplacesIncomplete, DoneIsKept, Holding, Critical, Installed
<1> QED
  BY <1>1, <1>2, <1>3 DEF Kept


\* Every step keeps the types, and starts or ends a worker with its entry.
LEMMA TypeStep ==
  ASSUME TypeOK, StagedIsWhole, [Next]_vars
  PROVE  TypeOK'
<1> USE NobodyAssumption DEF TypeOK, StagedIsWhole, Holding, Critical, lockVars, cacheVars,
       workVars, jobVars, faultVars
<1>1. CASE UNCHANGED vars
  BY <1>1 DEF vars
<1>2. ASSUME NEW p \in Processes,
             Poll(p) \/ Answer(p) \/ Expire(p) \/ Work(p) \/ Crash(p)
      PROVE  TypeOK'
  <2>1. CASE Poll(p)
    <3>1. failures' \in Nat /\ UNCHANGED <<crashes, damages, slow, lock, aged, contested>>
      BY <2>1 DEF Poll, Startable
    <3>2. tree' \in {"absent", "broken", "half", "whole"} /\ marker' \in BOOLEAN
      BY <2>1 DEF Poll, Startable
    <3>3. /\ pc' \in [Processes -> {"idle", "look", "locking", "breaking", "report"} \cup Critical]
          /\ result' \in [Processes -> {"none", "ok", "err"}]
      BY <2>1 DEF Poll, Startable
    <3>4. staged' \in [Processes -> {"none", "half", "whole"}]
      BY <2>1 DEF Poll, Startable
    <3>5. /\ job' \in [Processes -> {"none", "running", "done", "failed", "expired"}]
          /\ \A r \in Processes : job'[r] = "running" <=> pc'[r] # "idle"
      BY <2>1 DEF Poll, Startable
    <3>6. caller' \in [Processes -> {"none", "waiting", "pending", "done", "failed"}]
      BY <2>1 DEF Poll, Startable
    <3> QED
      BY <3>1, <3>2, <3>3, <3>4, <3>5, <3>6
  <2>2. CASE Answer(p)
    BY <2>2 DEF Answer
  <2>3. CASE Expire(p)
    BY <2>3 DEF Expire
  <2>4. CASE Look(p)
    BY <2>4 DEF Look, Goto, Return
  <2>5. CASE TakeLock(p)
    BY <2>5 DEF TakeLock, Goto
  <2>6. CASE GiveUp(p)
    BY <2>6 DEF GiveUp, Goto, Return
  <2>7. CASE SeeStale(p)
    BY <2>7 DEF SeeStale, Goto, Stale
  <2>8. CASE Break(p)
    BY <2>8 DEF Break, Goto
  <2>9. CASE Recheck(p)
    BY <2>9 DEF Recheck, Goto, Return
  <2>10. CASE Fetch(p)
    BY <2>10 DEF Fetch, Goto, Fail, Return
  <2>11. CASE Extract(p)
    BY <2>11 DEF Extract, Goto, Fail, Return
  <2>12. CASE Swap(p)
    <3>1. failures' \in Nat /\ UNCHANGED <<crashes, damages, slow, lock, aged, contested>>
      BY <2>12 DEF Swap, Goto
    <3>2. tree' \in {"absent", "broken", "half", "whole"} /\ marker' \in BOOLEAN
      BY <2>12 DEF Swap, Goto
    <3>3. /\ pc' \in [Processes -> {"idle", "look", "locking", "breaking", "report"} \cup Critical]
          /\ result' \in [Processes -> {"none", "ok", "err"}]
      BY <2>12 DEF Swap, Goto
    <3>4. staged' \in [Processes -> {"none", "half", "whole"}]
      BY <2>12 DEF Swap, Goto
    <3>5. /\ job' \in [Processes -> {"none", "running", "done", "failed", "expired"}]
          /\ \A r \in Processes : job'[r] = "running" <=> pc'[r] # "idle"
      BY <2>12 DEF Swap, Goto
    <3>6. caller' \in [Processes -> {"none", "waiting", "pending", "done", "failed"}]
      BY <2>12 DEF Swap, Goto
    <3> QED
      BY <3>1, <3>2, <3>3, <3>4, <3>5, <3>6
  <2>13. CASE Move(p)
    <3>1. failures' \in Nat /\ UNCHANGED <<crashes, damages, slow, lock, aged, contested>>
      BY <2>13 DEF Move, Goto, Fail, Return
    <3>2. tree' \in {"absent", "broken", "half", "whole"} /\ marker' \in BOOLEAN
      BY <2>13 DEF Move, Goto, Fail, Return
    <3>3. /\ pc' \in [Processes -> {"idle", "look", "locking", "breaking", "report"} \cup Critical]
          /\ result' \in [Processes -> {"none", "ok", "err"}]
      BY <2>13 DEF Move, Goto, Fail, Return
    <3>4. staged' \in [Processes -> {"none", "half", "whole"}]
      BY <2>13 DEF Move, Goto, Fail, Return
    <3>5. /\ job' \in [Processes -> {"none", "running", "done", "failed", "expired"}]
          /\ \A r \in Processes : job'[r] = "running" <=> pc'[r] # "idle"
      BY <2>13 DEF Move, Goto, Fail, Return
    <3>6. caller' \in [Processes -> {"none", "waiting", "pending", "done", "failed"}]
      BY <2>13 DEF Move, Goto, Fail, Return
    <3> QED
      BY <3>1, <3>2, <3>3, <3>4, <3>5, <3>6
  <2>14. CASE Mark(p)
    <3>1. failures' \in Nat /\ UNCHANGED <<crashes, damages, slow, lock, aged, contested>>
      BY <2>14 DEF Mark, Goto, Fail, Return
    <3>2. tree' \in {"absent", "broken", "half", "whole"} /\ marker' \in BOOLEAN
      BY <2>14 DEF Mark, Goto, Fail, Return
    <3>3. /\ pc' \in [Processes -> {"idle", "look", "locking", "breaking", "report"} \cup Critical]
          /\ result' \in [Processes -> {"none", "ok", "err"}]
      BY <2>14 DEF Mark, Goto, Fail, Return
    <3>4. staged' \in [Processes -> {"none", "half", "whole"}]
      BY <2>14 DEF Mark, Goto, Fail, Return
    <3>5. /\ job' \in [Processes -> {"none", "running", "done", "failed", "expired"}]
          /\ \A r \in Processes : job'[r] = "running" <=> pc'[r] # "idle"
      BY <2>14 DEF Mark, Goto, Fail, Return
    <3>6. caller' \in [Processes -> {"none", "waiting", "pending", "done", "failed"}]
      BY <2>14 DEF Mark, Goto, Fail, Return
    <3> QED
      BY <3>1, <3>2, <3>3, <3>4, <3>5, <3>6
  <2>15. CASE Check(p)
    BY <2>15 DEF Check, Goto, Return
  <2>16. CASE Unlock(p)
    BY <2>16 DEF Unlock, Goto
  <2>17. CASE Report(p)
    BY <2>17 DEF Report
  <2>18. CASE Crash(p)
    BY <2>18 DEF Crash
  <2> QED
    BY <1>2, <2>1, <2>2, <2>3, <2>4, <2>5, <2>6, <2>7, <2>8, <2>9, <2>10, <2>11, <2>12, <2>13,
       <2>14, <2>15, <2>16, <2>17, <2>18 DEF Work
<1>3. CASE Age
  BY <1>3 DEF Age, Abandoned
<1>4. CASE Outlast
  BY <1>4 DEF Outlast, Abandoned
<1>5. CASE Damage
  <2>1. damages' \in Nat
    BY <1>5 DEF Damage
  <2>2. tree' \in {"absent", "broken"} /\ marker' \in BOOLEAN
    BY <1>5 DEF Damage
  <2>3. UNCHANGED <<lockVars, workVars, jobVars, crashes, failures, slow>>
    BY <1>5 DEF Damage
  <2> QED
    BY <2>1, <2>2, <2>3
<1> QED
  BY <1>1, <1>2, <1>3, <1>4, <1>5 DEF Next

\* Unpacking reaches the swap only at its end.
LEMMA StagedStep ==
  ASSUME TypeOK, StagedIsWhole, [Next]_vars
  PROVE  StagedIsWhole'
<1> USE NobodyAssumption DEF TypeOK, StagedIsWhole, Holding, Critical, lockVars, cacheVars,
       workVars, jobVars, faultVars
<1>1. CASE UNCHANGED vars
  BY <1>1 DEF vars
<1>2. ASSUME NEW p \in Processes,
             Poll(p) \/ Answer(p) \/ Expire(p) \/ Work(p) \/ Crash(p)
      PROVE  StagedIsWhole'
  <2>1. CASE Poll(p)
    BY <2>1 DEF Poll
  <2>2. CASE Answer(p)
    BY <2>2 DEF Answer
  <2>3. CASE Expire(p)
    BY <2>3 DEF Expire
  <2>4. CASE Look(p)
    BY <2>4 DEF Look, Goto, Return
  <2>5. CASE TakeLock(p)
    BY <2>5 DEF TakeLock, Goto
  <2>6. CASE GiveUp(p)
    BY <2>6 DEF GiveUp, Goto, Return
  <2>7. CASE SeeStale(p)
    BY <2>7 DEF SeeStale, Goto, Stale
  <2>8. CASE Break(p)
    BY <2>8 DEF Break, Goto
  <2>9. CASE Recheck(p)
    BY <2>9 DEF Recheck, Goto, Return
  <2>10. CASE Fetch(p)
    BY <2>10 DEF Fetch, Goto, Fail, Return
  <2>11. CASE Extract(p)
    BY <2>11 DEF Extract, Goto, Fail, Return
  <2>12. CASE Swap(p)
    BY <2>12 DEF Swap, Goto
  <2>13. CASE Move(p)
    BY <2>13 DEF Move, Goto, Fail, Return
  <2>14. CASE Mark(p)
    BY <2>14 DEF Mark, Goto, Fail, Return
  <2>15. CASE Check(p)
    BY <2>15 DEF Check, Goto, Return
  <2>16. CASE Unlock(p)
    BY <2>16 DEF Unlock, Goto
  <2>17. CASE Report(p)
    BY <2>17 DEF Report
  <2>18. CASE Crash(p)
    BY <2>18 DEF Crash
  <2> QED
    BY <1>2, <2>1, <2>2, <2>3, <2>4, <2>5, <2>6, <2>7, <2>8, <2>9, <2>10, <2>11, <2>12, <2>13,
       <2>14, <2>15, <2>16, <2>17, <2>18 DEF Work
<1>3. CASE Age
  BY <1>3 DEF Age, Abandoned
<1>4. CASE Outlast
  BY <1>4 DEF Outlast, Abandoned
<1>5. CASE Damage
  BY <1>5 DEF Damage
<1> QED
  BY <1>1, <1>2, <1>3, <1>4, <1>5 DEF Next

\* Only whole trees are moved in, and a marker goes with its tree.
LEMMA HalfStep ==
  ASSUME TypeOK, StagedIsWhole, NeverHalf, [Next]_vars
  PROVE  NeverHalf'
<1> USE NobodyAssumption DEF TypeOK, StagedIsWhole, NeverHalf, Holding, Critical, lockVars,
       cacheVars, workVars, jobVars, faultVars
<1>1. CASE UNCHANGED vars
  BY <1>1 DEF vars
<1>2. ASSUME NEW p \in Processes,
             Poll(p) \/ Answer(p) \/ Expire(p) \/ Work(p) \/ Crash(p)
      PROVE  NeverHalf'
  <2>1. CASE Poll(p)
    BY <2>1 DEF Poll
  <2>2. CASE Answer(p)
    BY <2>2 DEF Answer
  <2>3. CASE Expire(p)
    BY <2>3 DEF Expire
  <2>4. CASE Look(p)
    BY <2>4 DEF Look, Goto, Return
  <2>5. CASE TakeLock(p)
    BY <2>5 DEF TakeLock, Goto
  <2>6. CASE GiveUp(p)
    BY <2>6 DEF GiveUp, Goto, Return
  <2>7. CASE SeeStale(p)
    BY <2>7 DEF SeeStale, Goto, Stale
  <2>8. CASE Break(p)
    BY <2>8 DEF Break, Goto
  <2>9. CASE Recheck(p)
    BY <2>9 DEF Recheck, Goto, Return
  <2>10. CASE Fetch(p)
    BY <2>10 DEF Fetch, Goto, Fail, Return
  <2>11. CASE Extract(p)
    BY <2>11 DEF Extract, Goto, Fail, Return
  <2>12. CASE Swap(p)
    BY <2>12 DEF Swap, Goto
  <2>13. CASE Move(p)
    BY <2>13 DEF Move, Goto, Fail, Return
  <2>14. CASE Mark(p)
    BY <2>14 DEF Mark, Goto, Fail, Return
  <2>15. CASE Check(p)
    BY <2>15 DEF Check, Goto, Return
  <2>16. CASE Unlock(p)
    BY <2>16 DEF Unlock, Goto
  <2>17. CASE Report(p)
    BY <2>17 DEF Report
  <2>18. CASE Crash(p)
    BY <2>18 DEF Crash
  <2> QED
    BY <1>2, <2>1, <2>2, <2>3, <2>4, <2>5, <2>6, <2>7, <2>8, <2>9, <2>10, <2>11, <2>12, <2>13,
       <2>14, <2>15, <2>16, <2>17, <2>18 DEF Work
<1>3. CASE Age
  BY <1>3 DEF Age, Abandoned
<1>4. CASE Outlast
  BY <1>4 DEF Outlast, Abandoned
<1>5. CASE Damage
  BY <1>5 DEF Damage
<1> QED
  BY <1>1, <1>2, <1>3, <1>4, <1>5 DEF Next

\* A lock that is broken is abandoned, and nobody else breaks it.
LEMMA LockStep ==
  ASSUME TypeOK, LockIsHeld, [Next]_vars
  PROVE  LockIsHeld'
<1> USE NobodyAssumption DEF TypeOK, LockIsHeld, Holding, Critical, lockVars, cacheVars,
       workVars, jobVars, faultVars
<1>1. CASE UNCHANGED vars
  BY <1>1 DEF vars
<1>2. ASSUME NEW p \in Processes,
             Poll(p) \/ Answer(p) \/ Expire(p) \/ Work(p) \/ Crash(p)
      PROVE  LockIsHeld'
  <2>1. CASE Poll(p)
    BY <2>1 DEF Poll
  <2>2. CASE Answer(p)
    BY <2>2 DEF Answer
  <2>3. CASE Expire(p)
    BY <2>3 DEF Expire
  <2>4. CASE Look(p)
    BY <2>4 DEF Look, Goto, Return
  <2>5. CASE TakeLock(p)
    BY <2>5 DEF TakeLock, Goto
  <2>6. CASE GiveUp(p)
    BY <2>6 DEF GiveUp, Goto, Return
  <2>7. CASE SeeStale(p)
    <3>1. /\ UNCHANGED <<lock, aged>> /\ lock # Nobody /\ aged
          /\ pc' = [pc EXCEPT ![p] = "breaking"]
      BY <2>7 DEF SeeStale, Stale, Goto
    <3>2. ~contested' => ~contested /\ \A q \in Processes : pc[q] # "breaking"
      BY <2>7 DEF SeeStale
    <3>3. ~contested' => \A q \in Processes : pc'[q] = "breaking" => q = p
      BY <3>1, <3>2
    <3>4. ~contested => \A q \in Processes : ~(pc[q] \in Critical)
      BY <3>1
    <3>5. ~contested' => \A q \in Processes : ~(pc'[q] \in Critical)
      BY <3>1, <3>2, <3>4
    <3> QED
      BY <3>1, <3>3, <3>5
  <2>8. CASE Break(p)
    BY <2>8 DEF Break, Goto
  <2>9. CASE Recheck(p)
    BY <2>9 DEF Recheck, Goto, Return
  <2>10. CASE Fetch(p)
    BY <2>10 DEF Fetch, Goto, Fail, Return
  <2>11. CASE Extract(p)
    BY <2>11 DEF Extract, Goto, Fail, Return
  <2>12. CASE Swap(p)
    BY <2>12 DEF Swap, Goto
  <2>13. CASE Move(p)
    BY <2>13 DEF Move, Goto, Fail, Return
  <2>14. CASE Mark(p)
    BY <2>14 DEF Mark, Goto, Fail, Return
  <2>15. CASE Check(p)
    BY <2>15 DEF Check, Goto, Return
  <2>16. CASE Unlock(p)
    BY <2>16 DEF Unlock, Goto
  <2>17. CASE Report(p)
    BY <2>17 DEF Report
  <2>18. CASE Crash(p)
    BY <2>18 DEF Crash
  <2> QED
    BY <1>2, <2>1, <2>2, <2>3, <2>4, <2>5, <2>6, <2>7, <2>8, <2>9, <2>10, <2>11, <2>12, <2>13,
       <2>14, <2>15, <2>16, <2>17, <2>18 DEF Work
<1>3. CASE Age
  BY <1>3 DEF Age, Abandoned
<1>4. CASE Outlast
  BY <1>4 DEF Outlast, Abandoned
<1>5. CASE Damage
  BY <1>5 DEF Damage
<1> QED
  BY <1>1, <1>2, <1>3, <1>4, <1>5 DEF Next

\* Only the holder completes an install, and then it replaces no more.
LEMMA ReplaceStep ==
  ASSUME TypeOK, NeverHalf, StagedIsWhole, LockIsHeld, ReplacesIncomplete, [Next]_vars
  PROVE  ReplacesIncomplete'
<1> USE NobodyAssumption DEF TypeOK, NeverHalf, StagedIsWhole, LockIsHeld, ReplacesIncomplete,
       Installed, Holding, Critical, lockVars, cacheVars, workVars, jobVars, faultVars
<1>1. CASE UNCHANGED vars
  BY <1>1 DEF vars
<1>2. ASSUME NEW p \in Processes,
             Poll(p) \/ Answer(p) \/ Expire(p) \/ Work(p) \/ Crash(p)
      PROVE  ReplacesIncomplete'
  <2>1. CASE Poll(p)
    BY <2>1 DEF Poll
  <2>2. CASE Answer(p)
    BY <2>2 DEF Answer
  <2>3. CASE Expire(p)
    BY <2>3 DEF Expire
  <2>4. CASE Look(p)
    BY <2>4 DEF Look, Goto, Return
  <2>5. CASE TakeLock(p)
    BY <2>5 DEF TakeLock, Goto
  <2>6. CASE GiveUp(p)
    BY <2>6 DEF GiveUp, Goto, Return
  <2>7. CASE SeeStale(p)
    BY <2>7 DEF SeeStale, Goto, Stale
  <2>8. CASE Break(p)
    BY <2>8 DEF Break, Goto
  <2>9. CASE Recheck(p)
    BY <2>9 DEF Recheck, Goto, Return
  <2>10. CASE Fetch(p)
    BY <2>10 DEF Fetch, Goto, Fail, Return
  <2>11. CASE Extract(p)
    BY <2>11 DEF Extract, Goto, Fail, Return
  <2>12. CASE Swap(p)
    BY <2>12 DEF Swap, Goto
  <2>13. CASE Move(p)
    BY <2>13 DEF Move, Goto, Fail, Return
  <2>14. CASE Mark(p)
    BY <2>14 DEF Mark, Goto, Fail, Return
  <2>15. CASE Check(p)
    BY <2>15 DEF Check, Goto, Return
  <2>16. CASE Unlock(p)
    BY <2>16 DEF Unlock, Goto
  <2>17. CASE Report(p)
    BY <2>17 DEF Report
  <2>18. CASE Crash(p)
    BY <2>18 DEF Crash
  <2> QED
    BY <1>2, <2>1, <2>2, <2>3, <2>4, <2>5, <2>6, <2>7, <2>8, <2>9, <2>10, <2>11, <2>12, <2>13,
       <2>14, <2>15, <2>16, <2>17, <2>18 DEF Work
<1>3. CASE Age
  BY <1>3 DEF Age, Abandoned
<1>4. CASE Outlast
  BY <1>4 DEF Outlast, Abandoned
<1>5. CASE Damage
  BY <1>5 DEF Damage
<1> QED
  BY <1>1, <1>2, <1>3, <1>4, <1>5 DEF Next

\* A complete install stays, unless the user deletes it.
LEMMA InstallStep ==
  ASSUME TypeOK, NeverHalf, LockIsHeld, ReplacesIncomplete, Installed, ~contested, [Next]_vars
  PROVE  Installed' \/ damages' # damages
<1> USE NobodyAssumption DEF TypeOK, NeverHalf, ReplacesIncomplete, Installed, Holding,
       Critical, lockVars, cacheVars, workVars, jobVars, faultVars
<1>1. CASE UNCHANGED vars
  BY <1>1 DEF vars
<1>2. ASSUME NEW p \in Processes,
             Poll(p) \/ Answer(p) \/ Expire(p) \/ Work(p) \/ Crash(p)
      PROVE  Installed' \/ damages' # damages
  <2>1. CASE Poll(p)
    BY <2>1 DEF Poll
  <2>2. CASE Answer(p)
    BY <2>2 DEF Answer
  <2>3. CASE Expire(p)
    BY <2>3 DEF Expire
  <2>4. CASE Look(p)
    BY <2>4 DEF Look, Goto, Return
  <2>5. CASE TakeLock(p)
    BY <2>5 DEF TakeLock, Goto
  <2>6. CASE GiveUp(p)
    BY <2>6 DEF GiveUp, Goto, Return
  <2>7. CASE SeeStale(p)
    BY <2>7 DEF SeeStale, Goto, Stale
  <2>8. CASE Break(p)
    BY <2>8 DEF Break, Goto
  <2>9. CASE Recheck(p)
    BY <2>9 DEF Recheck, Goto, Return
  <2>10. CASE Fetch(p)
    BY <2>10 DEF Fetch, Goto, Fail, Return
  <2>11. CASE Extract(p)
    BY <2>11 DEF Extract, Goto, Fail, Return
  <2>12. CASE Swap(p)
    BY <2>12 DEF Swap, Goto
  <2>13. CASE Move(p)
    BY <2>13 DEF Move, Goto, Fail, Return
  <2>14. CASE Mark(p)
    BY <2>14 DEF Mark, Goto, Fail, Return
  <2>15. CASE Check(p)
    BY <2>15 DEF Check, Goto, Return
  <2>16. CASE Unlock(p)
    BY <2>16 DEF Unlock, Goto
  <2>17. CASE Report(p)
    BY <2>17 DEF Report
  <2>18. CASE Crash(p)
    BY <2>18 DEF Crash
  <2> QED
    BY <1>2, <2>1, <2>2, <2>3, <2>4, <2>5, <2>6, <2>7, <2>8, <2>9, <2>10, <2>11, <2>12, <2>13,
       <2>14, <2>15, <2>16, <2>17, <2>18 DEF Work
<1>3. CASE Age
  BY <1>3 DEF Age, Abandoned
<1>4. CASE Outlast
  BY <1>4 DEF Outlast, Abandoned
<1>5. CASE Damage
  BY <1>5 DEF Damage
<1> QED
  BY <1>1, <1>2, <1>3, <1>4, <1>5 DEF Next

\* A success is recorded after the tree and its marker are in place.
LEMMA DoneStep ==
  ASSUME TypeOK, StagedIsWhole, NeverHalf, LockIsHeld, ReplacesIncomplete, DoneIsKept,
         [Next]_vars
  PROVE  DoneIsKept'
<1> USE NobodyAssumption DEF TypeOK, StagedIsWhole, NeverHalf, LockIsHeld, ReplacesIncomplete,
       DoneIsKept, Installed, Holding, Critical, lockVars, cacheVars, workVars, jobVars,
       faultVars
<1>1. CASE UNCHANGED vars
  BY <1>1 DEF vars
<1>2. ASSUME NEW p \in Processes,
             Poll(p) \/ Answer(p) \/ Expire(p) \/ Work(p) \/ Crash(p)
      PROVE  DoneIsKept'
  <2>1. CASE Poll(p)
    BY <2>1 DEF Poll
  <2>2. CASE Answer(p)
    BY <2>2 DEF Answer
  <2>3. CASE Expire(p)
    BY <2>3 DEF Expire
  <2>4. CASE Look(p)
    BY <2>4 DEF Look, Goto, Return
  <2>5. CASE TakeLock(p)
    BY <2>5 DEF TakeLock, Goto
  <2>6. CASE GiveUp(p)
    BY <2>6 DEF GiveUp, Goto, Return
  <2>7. CASE SeeStale(p)
    BY <2>7 DEF SeeStale, Goto, Stale
  <2>8. CASE Break(p)
    BY <2>8 DEF Break, Goto
  <2>9. CASE Recheck(p)
    BY <2>9 DEF Recheck, Goto, Return
  <2>10. CASE Fetch(p)
    BY <2>10 DEF Fetch, Goto, Fail, Return
  <2>11. CASE Extract(p)
    BY <2>11 DEF Extract, Goto, Fail, Return
  <2>12. CASE Swap(p)
    BY <2>12 DEF Swap, Goto
  <2>13. CASE Move(p)
    BY <2>13 DEF Move, Goto, Fail, Return
  <2>14. CASE Mark(p)
    BY <2>14 DEF Mark, Goto, Fail, Return
  <2>15. CASE Check(p)
    BY <2>15 DEF Check, Goto, Return
  <2>16. CASE Unlock(p)
    BY <2>16 DEF Unlock, Goto
  <2>17. CASE Report(p)
    BY <2>17 DEF Report
  <2>18. CASE Crash(p)
    BY <2>18 DEF Crash
  <2> QED
    BY <1>2, <2>1, <2>2, <2>3, <2>4, <2>5, <2>6, <2>7, <2>8, <2>9, <2>10, <2>11, <2>12, <2>13,
       <2>14, <2>15, <2>16, <2>17, <2>18 DEF Work
<1>3. CASE Age
  BY <1>3 DEF Age, Abandoned
<1>4. CASE Outlast
  BY <1>4 DEF Outlast, Abandoned
<1>5. CASE Damage
  BY <1>5 DEF Damage
<1> QED
  BY <1>1, <1>2, <1>3, <1>4, <1>5 DEF Next

\* The whole invariant.
LEMMA KeptAlways == Spec => []Kept
<1>1. Kept /\ [Next]_vars => Kept'
  BY TypeStep, StagedStep, HalfStep, LockStep, ReplaceStep, DoneStep DEF Kept
<1> QED
  BY KeptInit, <1>1, PTL DEF Spec

-----------------------------------------------------------------------------

(* Type correctness; a registry entry is running exactly while a worker is
   there to replace it (background.rs:100). *)
THEOREM TypeCorrect == Spec => []TypeOK
<1>1. Kept => TypeOK
  BY DEF Kept
<1> QED
  BY KeptAlways, <1>1, PTL

(* However many workers replace the version directory at once, it never holds a
   part of an archive, and the marker never stands beside nothing
   (mod.rs:266-302). *)
THEOREM InstallsAreWhole == Spec => []NeverHalf
<1>1. Kept => NeverHalf
  BY DEF Kept
<1> QED
  BY KeptAlways, <1>1, PTL

(* Until it is contested the lock directory excludes (lock.rs:23-53). *)
THEOREM OneAtATime == Spec => []OneHolder
<1>1. Kept => OneHolder
  <2> SUFFICES ASSUME Kept, ~contested, NEW p \in Processes, NEW q \in Processes,
                      Holding(p), Holding(q)
               PROVE  p = q
    BY DEF OneHolder
  <2>1. lock = p /\ lock = q
    BY DEF Kept, LockIsHeld
  <2> QED
    BY <2>1
<1> QED
  BY KeptAlways, <1>1, PTL

(* Until then no worker takes a complete install away (mod.rs:246-249). *)
THEOREM CompleteInstallsStay == Spec => InstallKept
<1>1. Kept /\ [Next]_vars => [Installed /\ ~contested => Installed' \/ damages' # damages]_vars
  BY InstallStep DEF Kept
<1> QED
  BY KeptAlways, <1>1, PTL DEF Spec, InstallKept

(* Until then, and while the user deletes nothing, a recorded success names a
   server that is there (background.rs:100-112). *)
THEOREM OutcomesAreTrue == Spec => []DoneIsInstalled
<1>1. Kept => DoneIsInstalled
  BY DEF Kept, DoneIsKept, DoneIsInstalled
<1> QED
  BY KeptAlways, <1>1, PTL
=============================================================================
