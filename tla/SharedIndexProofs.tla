------------------------ MODULE SharedIndexProofs ------------------------
(***************************************************************************)
(* Theorems of SharedIndex, for every finite set of sessions of any kinds. *)
(*                                                                         *)
(* The inductive invariant has four parts.  TypeInv types the state.       *)
(* OneHolder is inductive by itself.  RoleInv says what a settled role     *)
(* excludes: threads that begin an election, or start the index, depend on *)
(* the role they saw earlier.  ServeInv follows the lock and the listener  *)
(* through serve_socket and shutdown, where the leader mutex and the role, *)
(* two different mutexes, together keep the lock under the socket.         *)
(* PathInv and QuietInv, at the end, do the same for the socket's file.    *)
(***************************************************************************)
EXTENDS SharedIndex, TLAPS

TypeInv ==
    /\ TypeOK
    /\ \A p \in Sessions : elector[p] = "follow" => elected[p] \in Sessions

RoleInv ==
    \A p \in Sessions :
        /\ phase[p] = "off" =>
              role[p] = "electing" /\ elector[p] = "off" /\ call[p] = "idle"
        /\ phase[p] \notin {"off", "booting", "up"} => role[p] = "closed"
        /\ role[p] = "follower" => elector[p] = "off"
        /\ started[p] \/ elector[p] = "start" \/ call[p] = "start" =>
              role[p] \in {"local", "closed"}

\* phase[p] from which the listener is no longer in Shared.leader.
TakenDown(p) == phase[p] \in {"stopping", "unlinking", "removing", "unhosted", "torn", "gone"}

ServeInv ==
    \A p \in Sessions :
        /\ listener[p] = "up" => slot[p] /\ p \notin Unbindable /\ ~TakenDown(p)
        /\ listener[p] = "stopping" => role[p] = "closed"
        /\ "serve" \in {elector[p], promoter[p]} => slot[p] \/ role[p] = "closed"
        /\ "bind" \in {elector[p], promoter[p]} =>
              ~TakenDown(p) /\ (slot[p] \/ p \in Unbindable)
        /\ promoter[p] = "unlock" =>
              \/ p \in Unbindable
              \/ role[p] = "closed" /\ listener[p] # "up" /\ elector[p] # "bind"

LEMMA TypeInit == Init => TypeInv
  BY MaxHandoversAssumption DEF Init, TypeInv, TypeOK

\* A re-election leaves the role and the elector well typed, and is not yet
\* following anybody.
LEMMA DisconnectType ==
    ASSUME TypeOK, NEW p \in Sessions, NEW l \in Sessions \cup {Nobody}, OnDisconnect(p, l)
    PROVE  /\ role' \in [Sessions -> {"electing", "follower", "local", "closed"}]
           /\ peer' \in [Sessions -> Sessions \cup {Nobody}]
           /\ elector' \in [Sessions -> {"off", "connect", "acquire", "wait", "follow", "lead",
                                         "adopt", "serve", "bind", "local", "start"}]
           /\ graceOver' \in [Sessions -> BOOLEAN]
           /\ \A q \in Sessions : elector'[q] = "follow" => elector[q] = "follow"
<1>1. CASE role[p] = "follower" /\ peer[p] = l
  <2>1. /\ role' = [role EXCEPT ![p] = "electing"]
        /\ peer' = [peer EXCEPT ![p] = Nobody]
        /\ elector' = [elector EXCEPT ![p] = "connect"]
        /\ graceOver' = [graceOver EXCEPT ![p] = FALSE]
    BY <1>1 DEF OnDisconnect
  <2>2. role' \in [Sessions -> {"electing", "follower", "local", "closed"}]
    <3>1. role \in [Sessions -> {"electing", "follower", "local", "closed"}]
      BY DEF TypeOK
    <3> QED
      BY <2>1, <3>1
  <2>3. peer' \in [Sessions -> Sessions \cup {Nobody}]
    <3>1. peer \in [Sessions -> Sessions \cup {Nobody}]
      BY DEF TypeOK
    <3> QED
      BY <2>1, <3>1
  <2>4. /\ elector' \in [Sessions -> {"off", "connect", "acquire", "wait", "follow", "lead",
                                       "adopt", "serve", "bind", "local", "start"}]
        /\ \A q \in Sessions : elector'[q] = "follow" => elector[q] = "follow"
    <3>1. elector \in [Sessions -> {"off", "connect", "acquire", "wait", "follow", "lead",
                                    "adopt", "serve", "bind", "local", "start"}]
      BY DEF TypeOK
    <3> QED
      BY <2>1, <3>1
  <2>5. graceOver' \in [Sessions -> BOOLEAN]
    <3>1. graceOver \in [Sessions -> BOOLEAN]
      BY DEF TypeOK
    <3> QED
      BY <2>1, <3>1
  <2> QED
    BY <2>2, <2>3, <2>4, <2>5
<1>2. CASE ~(role[p] = "follower" /\ peer[p] = l)
  BY <1>2 DEF OnDisconnect, TypeOK
<1> QED
  BY <1>1, <1>2

\* Every action keeps the types.
LEMMA TypeStep == TypeInv /\ [Next]_vars => TypeInv'
<1> SUFFICES ASSUME TypeInv, [Next]_vars PROVE TypeInv'
  OBVIOUS
<1> USE DEF TypeInv, TypeOK
<1>1. ASSUME NEW p \in Sessions, Boot(p) PROVE TypeInv'
  BY ZenonT(90), <1>1 DEF Boot, callVars
<1>2. ASSUME NEW p \in Sessions, TryAcquire(p) PROVE TypeInv'
  BY <1>2 DEF TryAcquire, callVars
<1>3. ASSUME NEW p \in Sessions, ElectAgain(p) PROVE TypeInv'
  BY <1>3 DEF ElectAgain, callVars
<1>4. ASSUME NEW p \in Sessions, GraceElapses(p) PROVE TypeInv'
  BY <1>4 DEF GraceElapses, callVars
<1>5. ASSUME NEW p \in Sessions, Connect(p) PROVE TypeInv'
  BY <1>5 DEF Connect, callVars
<1>6. ASSUME NEW p \in Sessions, SettleFollower(p) PROVE TypeInv'
  BY SMTT(90), <1>6 DEF SettleFollower, ElectorDone, StillElecting, callVars
<1>7. ASSUME NEW p \in Sessions, BecomeLeader(p) PROVE TypeInv'
  BY <1>7 DEF BecomeLeader, callVars
<1>8. ASSUME NEW p \in Sessions, AdoptLock(p) PROVE TypeInv'
  BY <1>8 DEF AdoptLock, callVars
<1>9. ASSUME NEW p \in Sessions, ElectorServes(p) PROVE TypeInv'
  BY <1>9 DEF ElectorServes, MayServe, callVars
<1>10. ASSUME NEW p \in Sessions, ElectorBinds(p) PROVE TypeInv'
  BY ZenonT(90), <1>10 DEF ElectorBinds, Bind, callVars
<1>11. ASSUME NEW p \in Sessions, ElectorGoesLocal(p) PROVE TypeInv'
  BY <1>11 DEF ElectorGoesLocal, GoLocal, callVars
<1>12. ASSUME NEW p \in Sessions, ElectorStarts(p) PROVE TypeInv'
  BY <1>12 DEF ElectorStarts, StartLocal, ElectorDone, callVars
<1>13. ASSUME NEW p \in Sessions, PromoterPolls(p) PROVE TypeInv'
  BY <1>13 DEF PromoterPolls, electVars, callVars
<1>14. ASSUME NEW p \in Sessions, PromoterTakes(p) PROVE TypeInv'
  BY <1>14 DEF PromoterTakes, electVars, callVars
<1>15. ASSUME NEW p \in Sessions, PromoterServes(p) PROVE TypeInv'
  BY <1>15 DEF PromoterServes, MayServe, electVars, callVars
<1>16. ASSUME NEW p \in Sessions, PromoterBinds(p) PROVE TypeInv'
  BY ZenonT(90), <1>16 DEF PromoterBinds, Bind, electVars, callVars
<1>17. ASSUME NEW p \in Sessions, PromoterUnlocks(p) PROVE TypeInv'
  BY <1>17 DEF PromoterUnlocks, electVars, callVars
<1>18. ASSUME NEW p \in Sessions, RefreshLeader(p) PROVE TypeInv'
  BY <1>18 DEF RefreshLeader, electVars, callVars
<1>19. ASSUME NEW p \in Sessions, CallBegins(p) PROVE TypeInv'
  BY <1>19, MaxHandoversAssumption DEF CallBegins, electVars
<1>20. ASSUME NEW p \in Sessions, CallRouted(p) PROVE TypeInv'
  BY <1>20 DEF CallRouted, electVars
<1>21. ASSUME NEW p \in Sessions, CallDeadline(p) PROVE TypeInv'
  BY <1>21 DEF CallDeadline, electVars
<1>22. ASSUME NEW p \in Sessions, CallAnswered(p) PROVE TypeInv'
  BY <1>22 DEF CallAnswered, electVars
<1>23. ASSUME NEW p \in Sessions, CallCancelled(p) PROVE TypeInv'
  BY <1>23 DEF CallCancelled, electVars
<1>24. ASSUME NEW p \in Sessions, CallTimeout(p) PROVE TypeInv'
  BY <1>24 DEF CallTimeout, electVars
<1>25. ASSUME NEW p \in Sessions, CallDisconnected(p) PROVE TypeInv'
  <2>1. handovers' \in [Sessions -> 0..MaxHandovers]
    BY <1>25, MaxHandoversAssumption DEF CallDisconnected
  <2>2. via[p] \in Sessions \cup {Nobody} /\ OnDisconnect(p, via[p])
    BY <1>25 DEF CallDisconnected
  <2>3. /\ call' \in [Sessions -> {"idle", "wait", "sent", "local", "start", "hangup"}]
        /\ via' \in [Sessions -> Sessions \cup {Nobody}]
    BY <1>25 DEF CallDisconnected
  <2>4. UNCHANGED <<phase, conns, readers, slot, started, listener, bindFailed, elected,
                    promoter, sock>>
    BY <1>25 DEF CallDisconnected
  <2> HIDE DEF TypeOK
  <2>5. /\ role' \in [Sessions -> {"electing", "follower", "local", "closed"}]
        /\ peer' \in [Sessions -> Sessions \cup {Nobody}]
        /\ elector' \in [Sessions -> {"off", "connect", "acquire", "wait", "follow", "lead",
                                      "adopt", "serve", "bind", "local", "start"}]
        /\ graceOver' \in [Sessions -> BOOLEAN]
        /\ \A q \in Sessions : elector'[q] = "follow" => elector[q] = "follow"
    BY <2>2, DisconnectType
  <2> QED
    BY <2>1, <2>3, <2>4, <2>5 DEF TypeOK
<1>26. ASSUME NEW p \in Sessions, CallGoesLocal(p) PROVE TypeInv'
  BY <1>26 DEF CallGoesLocal, GoLocal, electVars
<1>27. ASSUME NEW p \in Sessions, CallStarts(p) PROVE TypeInv'
  BY <1>27 DEF CallStarts, StartLocal, electVars
<1>28. ASSUME NEW p \in Sessions, CallHangsUp(p) PROVE TypeInv'
  BY <1>28 DEF CallHangsUp, electVars
<1>29. ASSUME NEW p \in Sessions, Shutdown(p) PROVE TypeInv'
  BY <1>29 DEF Shutdown, electVars, callVars
<1>30. ASSUME NEW p \in Sessions, TakeListener(p) PROVE TypeInv'
  BY <1>30 DEF TakeListener, electVars, callVars
<1>31. ASSUME NEW p \in Sessions, StopListener(p) PROVE TypeInv'
  BY <1>31 DEF StopListener, electVars, callVars
<1>32. ASSUME NEW p \in Sessions, CheckSocket(p) PROVE TypeInv'
  BY <1>32 DEF CheckSocket, electVars, callVars
<1>33. ASSUME NEW p \in Sessions, RemoveSocket(p) PROVE TypeInv'
  BY <1>33 DEF RemoveSocket, electVars, callVars
<1>34. ASSUME NEW p \in Sessions, Teardown(p) PROVE TypeInv'
  BY <1>34 DEF Teardown, electVars, callVars
<1>35. ASSUME NEW p \in Sessions, Exit(p) PROVE TypeInv'
  BY <1>35 DEF Exit, Dies
<1>36. ASSUME NEW p \in Sessions, Killed(p) PROVE TypeInv'
  BY <1>36 DEF Killed, Dies
<1>37. ASSUME NEW p \in Sessions, NEW l \in Sessions, ReaderEof(p, l) PROVE TypeInv'
  BY <1>37, DisconnectType DEF ReaderEof, callVars
<1>38. CASE UNCHANGED vars
  BY <1>38 DEF vars, electVars, callVars
<1> QED
  BY <1>1, <1>2, <1>3, <1>4, <1>5, <1>6, <1>7, <1>8, <1>9, <1>10, <1>11, <1>12, <1>13,
     <1>14, <1>15, <1>16, <1>17, <1>18, <1>19, <1>20, <1>21, <1>22, <1>23, <1>24, <1>25, <1>26,
     <1>27, <1>28, <1>29, <1>30, <1>31, <1>32, <1>33, <1>34, <1>35, <1>36, <1>37, <1>38
  DEF Next, ElectorStep, PromoterStep, CallStep, CallRuns, ExitStep

\* Every session's types, at all times: the state of Shared (imp.rs:239) and of
\* the threads around it.
THEOREM TypeCorrect == Spec => []TypeOK
<1>1. Spec => []TypeInv
  BY TypeInit, TypeStep, PTL DEF Spec
<1>2. TypeInv => TypeOK
  BY DEF TypeInv
<1> QED
  BY <1>1, <1>2, PTL

-----------------------------------------------------------------------------
LEMMA HolderInit == Init => OneHolder
  BY DEF Init, OneHolder, HoldsLock

\* The lock only changes hands when nobody has it.
LEMMA HolderStep == TypeInv /\ OneHolder /\ [Next]_vars => OneHolder'
<1> SUFFICES ASSUME TypeInv, OneHolder, [Next]_vars PROVE OneHolder'
  OBVIOUS
<1> USE DEF TypeInv, TypeOK, OneHolder, HoldsLock, LockFree
<1>1. ASSUME NEW p \in Sessions, Boot(p) PROVE OneHolder'
  BY <1>1 DEF Boot, callVars
<1>2. ASSUME NEW p \in Sessions, TryAcquire(p) PROVE OneHolder'
  BY <1>2 DEF TryAcquire, callVars
<1>3. ASSUME NEW p \in Sessions, ElectAgain(p) PROVE OneHolder'
  BY <1>3 DEF ElectAgain, callVars
<1>4. ASSUME NEW p \in Sessions, GraceElapses(p) PROVE OneHolder'
  BY <1>4 DEF GraceElapses, callVars
<1>5. ASSUME NEW p \in Sessions, Connect(p) PROVE OneHolder'
  BY <1>5 DEF Connect, callVars
<1>6. ASSUME NEW p \in Sessions, SettleFollower(p) PROVE OneHolder'
  BY <1>6 DEF SettleFollower, ElectorDone, StillElecting, callVars
<1>7. ASSUME NEW p \in Sessions, BecomeLeader(p) PROVE OneHolder'
  BY <1>7 DEF BecomeLeader, callVars
<1>8. ASSUME NEW p \in Sessions, AdoptLock(p) PROVE OneHolder'
  BY <1>8 DEF AdoptLock, callVars
<1>9. ASSUME NEW p \in Sessions, ElectorServes(p) PROVE OneHolder'
  BY <1>9 DEF ElectorServes, MayServe, callVars
<1>10. ASSUME NEW p \in Sessions, ElectorBinds(p) PROVE OneHolder'
  BY <1>10 DEF ElectorBinds, Bind, callVars
<1>11. ASSUME NEW p \in Sessions, ElectorGoesLocal(p) PROVE OneHolder'
  BY <1>11 DEF ElectorGoesLocal, GoLocal, callVars
<1>12. ASSUME NEW p \in Sessions, ElectorStarts(p) PROVE OneHolder'
  BY <1>12 DEF ElectorStarts, StartLocal, ElectorDone, callVars
<1>13. ASSUME NEW p \in Sessions, PromoterPolls(p) PROVE OneHolder'
  BY <1>13 DEF PromoterPolls, electVars, callVars
<1>14. ASSUME NEW p \in Sessions, PromoterTakes(p) PROVE OneHolder'
  BY <1>14 DEF PromoterTakes, electVars, callVars
<1>15. ASSUME NEW p \in Sessions, PromoterServes(p) PROVE OneHolder'
  BY <1>15 DEF PromoterServes, MayServe, electVars, callVars
<1>16. ASSUME NEW p \in Sessions, PromoterBinds(p) PROVE OneHolder'
  BY <1>16 DEF PromoterBinds, Bind, electVars, callVars
<1>17. ASSUME NEW p \in Sessions, PromoterUnlocks(p) PROVE OneHolder'
  BY <1>17 DEF PromoterUnlocks, electVars, callVars
<1>18. ASSUME NEW p \in Sessions, RefreshLeader(p) PROVE OneHolder'
  BY <1>18 DEF RefreshLeader, electVars, callVars
<1>19. ASSUME NEW p \in Sessions, CallBegins(p) PROVE OneHolder'
  BY <1>19 DEF CallBegins, electVars
<1>20. ASSUME NEW p \in Sessions, CallRouted(p) PROVE OneHolder'
  BY <1>20 DEF CallRouted, electVars
<1>21. ASSUME NEW p \in Sessions, CallDeadline(p) PROVE OneHolder'
  BY <1>21 DEF CallDeadline, electVars
<1>22. ASSUME NEW p \in Sessions, CallAnswered(p) PROVE OneHolder'
  BY <1>22 DEF CallAnswered, electVars
<1>23. ASSUME NEW p \in Sessions, CallCancelled(p) PROVE OneHolder'
  BY <1>23 DEF CallCancelled, electVars
<1>24. ASSUME NEW p \in Sessions, CallTimeout(p) PROVE OneHolder'
  BY <1>24 DEF CallTimeout, electVars
<1>25. ASSUME NEW p \in Sessions, CallDisconnected(p) PROVE OneHolder'
  BY <1>25 DEF CallDisconnected, OnDisconnect
<1>26. ASSUME NEW p \in Sessions, CallGoesLocal(p) PROVE OneHolder'
  BY <1>26 DEF CallGoesLocal, GoLocal, electVars
<1>27. ASSUME NEW p \in Sessions, CallStarts(p) PROVE OneHolder'
  BY <1>27 DEF CallStarts, StartLocal, electVars
<1>28. ASSUME NEW p \in Sessions, CallHangsUp(p) PROVE OneHolder'
  BY <1>28 DEF CallHangsUp, electVars
<1>29. ASSUME NEW p \in Sessions, Shutdown(p) PROVE OneHolder'
  BY <1>29 DEF Shutdown, electVars, callVars
<1>30. ASSUME NEW p \in Sessions, TakeListener(p) PROVE OneHolder'
  BY <1>30 DEF TakeListener, electVars, callVars
<1>31. ASSUME NEW p \in Sessions, StopListener(p) PROVE OneHolder'
  BY <1>31 DEF StopListener, electVars, callVars
<1>32. ASSUME NEW p \in Sessions, CheckSocket(p) PROVE OneHolder'
  BY <1>32 DEF CheckSocket, electVars, callVars
<1>33. ASSUME NEW p \in Sessions, RemoveSocket(p) PROVE OneHolder'
  BY <1>33 DEF RemoveSocket, electVars, callVars
<1>34. ASSUME NEW p \in Sessions, Teardown(p) PROVE OneHolder'
  BY <1>34 DEF Teardown, electVars, callVars
<1>35. ASSUME NEW p \in Sessions, Exit(p) PROVE OneHolder'
  BY <1>35 DEF Exit, Dies
<1>36. ASSUME NEW p \in Sessions, Killed(p) PROVE OneHolder'
  BY <1>36 DEF Killed, Dies
<1>37. ASSUME NEW p \in Sessions, NEW l \in Sessions, ReaderEof(p, l) PROVE OneHolder'
  BY <1>37 DEF ReaderEof, OnDisconnect, callVars
<1>38. CASE UNCHANGED vars
  BY <1>38 DEF vars, electVars, callVars
<1> QED
  BY <1>1, <1>2, <1>3, <1>4, <1>5, <1>6, <1>7, <1>8, <1>9, <1>10, <1>11, <1>12, <1>13,
     <1>14, <1>15, <1>16, <1>17, <1>18, <1>19, <1>20, <1>21, <1>22, <1>23, <1>24, <1>25, <1>26,
     <1>27, <1>28, <1>29, <1>30, <1>31, <1>32, <1>33, <1>34, <1>35, <1>36, <1>37, <1>38
  DEF Next, ElectorStep, PromoterStep, CallStep, CallRuns, ExitStep

\* indexer.lock has one holder, whichever of the elector, the promoter and the
\* index threads of any session took it (IndexerLock, elect.rs).
THEOREM LockIsExclusive == Spec => []OneHolder
  BY TypeInit, TypeStep, HolderInit, HolderStep, PTL DEF Spec

-----------------------------------------------------------------------------
LEMMA RoleInit == Init => RoleInv
  BY DEF Init, RoleInv

\* Every action keeps what a settled role excludes.
LEMMA RoleStep == TypeInv /\ RoleInv /\ [Next]_vars => RoleInv'
<1> SUFFICES ASSUME TypeInv, RoleInv, [Next]_vars PROVE RoleInv'
  OBVIOUS
<1> USE DEF TypeInv, TypeOK, RoleInv
<1>1. ASSUME NEW p \in Sessions, Boot(p) PROVE RoleInv'
  BY <1>1 DEF Boot, callVars
<1>2. ASSUME NEW p \in Sessions, TryAcquire(p) PROVE RoleInv'
  BY <1>2 DEF TryAcquire, callVars
<1>3. ASSUME NEW p \in Sessions, ElectAgain(p) PROVE RoleInv'
  BY <1>3 DEF ElectAgain, callVars
<1>4. ASSUME NEW p \in Sessions, GraceElapses(p) PROVE RoleInv'
  BY <1>4 DEF GraceElapses, callVars
<1>5. ASSUME NEW p \in Sessions, Connect(p) PROVE RoleInv'
  BY <1>5 DEF Connect, callVars
<1>6. ASSUME NEW p \in Sessions, SettleFollower(p) PROVE RoleInv'
  BY <1>6 DEF SettleFollower, ElectorDone, StillElecting, callVars
<1>7. ASSUME NEW p \in Sessions, BecomeLeader(p) PROVE RoleInv'
  BY <1>7 DEF BecomeLeader, callVars
<1>8. ASSUME NEW p \in Sessions, AdoptLock(p) PROVE RoleInv'
  BY <1>8 DEF AdoptLock, callVars
<1>9. ASSUME NEW p \in Sessions, ElectorServes(p) PROVE RoleInv'
  BY <1>9 DEF ElectorServes, MayServe, callVars
<1>10. ASSUME NEW p \in Sessions, ElectorBinds(p) PROVE RoleInv'
  BY <1>10 DEF ElectorBinds, Bind, callVars
<1>11. ASSUME NEW p \in Sessions, ElectorGoesLocal(p) PROVE RoleInv'
  BY <1>11 DEF ElectorGoesLocal, GoLocal, callVars
<1>12. ASSUME NEW p \in Sessions, ElectorStarts(p) PROVE RoleInv'
  BY <1>12 DEF ElectorStarts, StartLocal, ElectorDone, callVars
<1>13. ASSUME NEW p \in Sessions, PromoterPolls(p) PROVE RoleInv'
  BY <1>13 DEF PromoterPolls, electVars, callVars
<1>14. ASSUME NEW p \in Sessions, PromoterTakes(p) PROVE RoleInv'
  BY <1>14 DEF PromoterTakes, electVars, callVars
<1>15. ASSUME NEW p \in Sessions, PromoterServes(p) PROVE RoleInv'
  BY <1>15 DEF PromoterServes, MayServe, electVars, callVars
<1>16. ASSUME NEW p \in Sessions, PromoterBinds(p) PROVE RoleInv'
  BY <1>16 DEF PromoterBinds, Bind, electVars, callVars
<1>17. ASSUME NEW p \in Sessions, PromoterUnlocks(p) PROVE RoleInv'
  BY <1>17 DEF PromoterUnlocks, electVars, callVars
<1>18. ASSUME NEW p \in Sessions, RefreshLeader(p) PROVE RoleInv'
  BY <1>18 DEF RefreshLeader, electVars, callVars
<1>19. ASSUME NEW p \in Sessions, CallBegins(p) PROVE RoleInv'
  BY <1>19 DEF CallBegins, electVars
<1>20. ASSUME NEW p \in Sessions, CallRouted(p) PROVE RoleInv'
  BY <1>20 DEF CallRouted, electVars
<1>21. ASSUME NEW p \in Sessions, CallDeadline(p) PROVE RoleInv'
  BY <1>21 DEF CallDeadline, electVars
<1>22. ASSUME NEW p \in Sessions, CallAnswered(p) PROVE RoleInv'
  BY <1>22 DEF CallAnswered, electVars
<1>23. ASSUME NEW p \in Sessions, CallCancelled(p) PROVE RoleInv'
  BY <1>23 DEF CallCancelled, electVars
<1>24. ASSUME NEW p \in Sessions, CallTimeout(p) PROVE RoleInv'
  BY <1>24 DEF CallTimeout, electVars
<1>25. ASSUME NEW p \in Sessions, CallDisconnected(p) PROVE RoleInv'
  BY <1>25 DEF CallDisconnected, OnDisconnect
<1>26. ASSUME NEW p \in Sessions, CallGoesLocal(p) PROVE RoleInv'
  BY <1>26 DEF CallGoesLocal, GoLocal, electVars
<1>27. ASSUME NEW p \in Sessions, CallStarts(p) PROVE RoleInv'
  BY <1>27 DEF CallStarts, StartLocal, electVars
<1>28. ASSUME NEW p \in Sessions, CallHangsUp(p) PROVE RoleInv'
  BY <1>28 DEF CallHangsUp, electVars
<1>29. ASSUME NEW p \in Sessions, Shutdown(p) PROVE RoleInv'
  BY <1>29 DEF Shutdown, electVars, callVars
<1>30. ASSUME NEW p \in Sessions, TakeListener(p) PROVE RoleInv'
  BY <1>30 DEF TakeListener, electVars, callVars
<1>31. ASSUME NEW p \in Sessions, StopListener(p) PROVE RoleInv'
  BY <1>31 DEF StopListener, electVars, callVars
<1>32. ASSUME NEW p \in Sessions, CheckSocket(p) PROVE RoleInv'
  BY <1>32 DEF CheckSocket, electVars, callVars
<1>33. ASSUME NEW p \in Sessions, RemoveSocket(p) PROVE RoleInv'
  BY <1>33 DEF RemoveSocket, electVars, callVars
<1>34. ASSUME NEW p \in Sessions, Teardown(p) PROVE RoleInv'
  BY <1>34 DEF Teardown, electVars, callVars
<1>35. ASSUME NEW p \in Sessions, Exit(p) PROVE RoleInv'
  BY <1>35 DEF Exit, Dies
<1>36. ASSUME NEW p \in Sessions, Killed(p) PROVE RoleInv'
  BY <1>36 DEF Killed, Dies
<1>37. ASSUME NEW p \in Sessions, NEW l \in Sessions, ReaderEof(p, l) PROVE RoleInv'
  BY <1>37 DEF ReaderEof, OnDisconnect, callVars
<1>38. CASE UNCHANGED vars
  BY <1>38 DEF vars, electVars, callVars
<1> QED
  BY <1>1, <1>2, <1>3, <1>4, <1>5, <1>6, <1>7, <1>8, <1>9, <1>10, <1>11, <1>12, <1>13,
     <1>14, <1>15, <1>16, <1>17, <1>18, <1>19, <1>20, <1>21, <1>22, <1>23, <1>24, <1>25, <1>26,
     <1>27, <1>28, <1>29, <1>30, <1>31, <1>32, <1>33, <1>34, <1>35, <1>36, <1>37, <1>38
  DEF Next, ElectorStep, PromoterStep, CallStep, CallRuns, ExitStep

\* A follower runs no index, whatever calls or elections were under way when it
\* became one (settle, go_local; imp.rs:343, 444).
THEOREM FollowersStayIdle == Spec => []FollowersIndexNothing
<1>1. Spec => [](TypeInv /\ RoleInv)
  BY TypeInit, TypeStep, RoleInit, RoleStep, PTL DEF Spec
<1>2. RoleInv => FollowersIndexNothing
  BY DEF RoleInv, FollowersIndexNothing
<1> QED
  BY <1>1, <1>2, PTL

\* What LocalForGood says of one step.
RolesKept ==
    \A p \in Sessions :
        /\ role[p] = "local" => role'[p] \in {"local", "closed"}
        /\ role[p] = "closed" => role'[p] = "closed"

\* No step of any thread revives a session that went local or closed.
LEMMA RolesKeptStep == TypeInv /\ RoleInv /\ [Next]_vars => RolesKept
<1> SUFFICES ASSUME TypeInv, RoleInv, [Next]_vars PROVE RolesKept
  OBVIOUS
<1> USE DEF TypeInv, TypeOK, RoleInv, RolesKept
<1>1. ASSUME NEW p \in Sessions, Boot(p) PROVE RolesKept
  BY <1>1 DEF Boot, callVars
<1>2. ASSUME NEW p \in Sessions, TryAcquire(p) PROVE RolesKept
  BY <1>2 DEF TryAcquire, callVars
<1>3. ASSUME NEW p \in Sessions, ElectAgain(p) PROVE RolesKept
  BY <1>3 DEF ElectAgain, callVars
<1>4. ASSUME NEW p \in Sessions, GraceElapses(p) PROVE RolesKept
  BY <1>4 DEF GraceElapses, callVars
<1>5. ASSUME NEW p \in Sessions, Connect(p) PROVE RolesKept
  BY <1>5 DEF Connect, callVars
<1>6. ASSUME NEW p \in Sessions, SettleFollower(p) PROVE RolesKept
  BY <1>6 DEF SettleFollower, ElectorDone, StillElecting, callVars
<1>7. ASSUME NEW p \in Sessions, BecomeLeader(p) PROVE RolesKept
  BY <1>7 DEF BecomeLeader, callVars
<1>8. ASSUME NEW p \in Sessions, AdoptLock(p) PROVE RolesKept
  BY <1>8 DEF AdoptLock, callVars
<1>9. ASSUME NEW p \in Sessions, ElectorServes(p) PROVE RolesKept
  BY <1>9 DEF ElectorServes, MayServe, callVars
<1>10. ASSUME NEW p \in Sessions, ElectorBinds(p) PROVE RolesKept
  BY <1>10 DEF ElectorBinds, Bind, callVars
<1>11. ASSUME NEW p \in Sessions, ElectorGoesLocal(p) PROVE RolesKept
  BY <1>11 DEF ElectorGoesLocal, GoLocal, callVars
<1>12. ASSUME NEW p \in Sessions, ElectorStarts(p) PROVE RolesKept
  BY <1>12 DEF ElectorStarts, StartLocal, ElectorDone, callVars
<1>13. ASSUME NEW p \in Sessions, PromoterPolls(p) PROVE RolesKept
  BY <1>13 DEF PromoterPolls, electVars, callVars
<1>14. ASSUME NEW p \in Sessions, PromoterTakes(p) PROVE RolesKept
  BY <1>14 DEF PromoterTakes, electVars, callVars
<1>15. ASSUME NEW p \in Sessions, PromoterServes(p) PROVE RolesKept
  BY <1>15 DEF PromoterServes, MayServe, electVars, callVars
<1>16. ASSUME NEW p \in Sessions, PromoterBinds(p) PROVE RolesKept
  BY <1>16 DEF PromoterBinds, Bind, electVars, callVars
<1>17. ASSUME NEW p \in Sessions, PromoterUnlocks(p) PROVE RolesKept
  BY <1>17 DEF PromoterUnlocks, electVars, callVars
<1>18. ASSUME NEW p \in Sessions, RefreshLeader(p) PROVE RolesKept
  BY <1>18 DEF RefreshLeader, electVars, callVars
<1>19. ASSUME NEW p \in Sessions, CallBegins(p) PROVE RolesKept
  BY <1>19 DEF CallBegins, electVars
<1>20. ASSUME NEW p \in Sessions, CallRouted(p) PROVE RolesKept
  BY <1>20 DEF CallRouted, electVars
<1>21. ASSUME NEW p \in Sessions, CallDeadline(p) PROVE RolesKept
  BY <1>21 DEF CallDeadline, electVars
<1>22. ASSUME NEW p \in Sessions, CallAnswered(p) PROVE RolesKept
  BY <1>22 DEF CallAnswered, electVars
<1>23. ASSUME NEW p \in Sessions, CallCancelled(p) PROVE RolesKept
  BY <1>23 DEF CallCancelled, electVars
<1>24. ASSUME NEW p \in Sessions, CallTimeout(p) PROVE RolesKept
  BY <1>24 DEF CallTimeout, electVars
<1>25. ASSUME NEW p \in Sessions, CallDisconnected(p) PROVE RolesKept
  BY <1>25 DEF CallDisconnected, OnDisconnect
<1>26. ASSUME NEW p \in Sessions, CallGoesLocal(p) PROVE RolesKept
  BY <1>26 DEF CallGoesLocal, GoLocal, electVars
<1>27. ASSUME NEW p \in Sessions, CallStarts(p) PROVE RolesKept
  BY <1>27 DEF CallStarts, StartLocal, electVars
<1>28. ASSUME NEW p \in Sessions, CallHangsUp(p) PROVE RolesKept
  BY <1>28 DEF CallHangsUp, electVars
<1>29. ASSUME NEW p \in Sessions, Shutdown(p) PROVE RolesKept
  BY <1>29 DEF Shutdown, electVars, callVars
<1>30. ASSUME NEW p \in Sessions, TakeListener(p) PROVE RolesKept
  BY <1>30 DEF TakeListener, electVars, callVars
<1>31. ASSUME NEW p \in Sessions, StopListener(p) PROVE RolesKept
  BY <1>31 DEF StopListener, electVars, callVars
<1>32. ASSUME NEW p \in Sessions, CheckSocket(p) PROVE RolesKept
  BY <1>32 DEF CheckSocket, electVars, callVars
<1>33. ASSUME NEW p \in Sessions, RemoveSocket(p) PROVE RolesKept
  BY <1>33 DEF RemoveSocket, electVars, callVars
<1>34. ASSUME NEW p \in Sessions, Teardown(p) PROVE RolesKept
  BY <1>34 DEF Teardown, electVars, callVars
<1>35. ASSUME NEW p \in Sessions, Exit(p) PROVE RolesKept
  BY <1>35 DEF Exit, Dies
<1>36. ASSUME NEW p \in Sessions, Killed(p) PROVE RolesKept
  BY <1>36 DEF Killed, Dies
<1>37. ASSUME NEW p \in Sessions, NEW l \in Sessions, ReaderEof(p, l) PROVE RolesKept
  BY <1>37 DEF ReaderEof, OnDisconnect, callVars
<1>38. CASE UNCHANGED vars
  BY <1>38 DEF vars, electVars, callVars
<1> QED
  BY <1>1, <1>2, <1>3, <1>4, <1>5, <1>6, <1>7, <1>8, <1>9, <1>10, <1>11, <1>12, <1>13,
     <1>14, <1>15, <1>16, <1>17, <1>18, <1>19, <1>20, <1>21, <1>22, <1>23, <1>24, <1>25, <1>26,
     <1>27, <1>28, <1>29, <1>30, <1>31, <1>32, <1>33, <1>34, <1>35, <1>36, <1>37, <1>38
  DEF Next, ElectorStep, PromoterStep, CallStep, CallRuns, ExitStep

\* Local is for good, and closed is final (abandon, go_local; imp.rs:444, 492).
THEOREM LocalIsFinal == Spec => LocalForGood
<1>1. Spec => [](TypeInv /\ RoleInv)
  BY TypeInit, TypeStep, RoleInit, RoleStep, PTL DEF Spec
<1>2. TypeInv /\ RoleInv /\ [Next]_vars => [RolesKept]_vars
  BY RolesKeptStep
<1>3. [][RolesKept]_vars <=> LocalForGood
  BY PTL DEF LocalForGood, RolesKept
<1> QED
  BY <1>1, <1>2, <1>3, PTL DEF Spec

\* What OneElection says of one step.
NoRestart ==
    \A p \in Sessions :
        elector[p] \notin {"off", "wait", "connect"} => elector'[p] # "connect"

\* An election under way is not sent back to its start.
LEMMA NoRestartStep == TypeInv /\ RoleInv /\ [Next]_vars => NoRestart
<1> SUFFICES ASSUME TypeInv, RoleInv, [Next]_vars PROVE NoRestart
  OBVIOUS
<1> USE DEF TypeInv, TypeOK, RoleInv, NoRestart
<1>1. ASSUME NEW p \in Sessions, Boot(p) PROVE NoRestart
  BY <1>1 DEF Boot, callVars
<1>2. ASSUME NEW p \in Sessions, TryAcquire(p) PROVE NoRestart
  BY <1>2 DEF TryAcquire, callVars
<1>3. ASSUME NEW p \in Sessions, ElectAgain(p) PROVE NoRestart
  BY <1>3 DEF ElectAgain, callVars
<1>4. ASSUME NEW p \in Sessions, GraceElapses(p) PROVE NoRestart
  BY <1>4 DEF GraceElapses, callVars
<1>5. ASSUME NEW p \in Sessions, Connect(p) PROVE NoRestart
  BY <1>5 DEF Connect, callVars
<1>6. ASSUME NEW p \in Sessions, SettleFollower(p) PROVE NoRestart
  BY <1>6 DEF SettleFollower, ElectorDone, StillElecting, callVars
<1>7. ASSUME NEW p \in Sessions, BecomeLeader(p) PROVE NoRestart
  BY <1>7 DEF BecomeLeader, callVars
<1>8. ASSUME NEW p \in Sessions, AdoptLock(p) PROVE NoRestart
  BY <1>8 DEF AdoptLock, callVars
<1>9. ASSUME NEW p \in Sessions, ElectorServes(p) PROVE NoRestart
  BY <1>9 DEF ElectorServes, MayServe, callVars
<1>10. ASSUME NEW p \in Sessions, ElectorBinds(p) PROVE NoRestart
  BY <1>10 DEF ElectorBinds, Bind, callVars
<1>11. ASSUME NEW p \in Sessions, ElectorGoesLocal(p) PROVE NoRestart
  BY <1>11 DEF ElectorGoesLocal, GoLocal, callVars
<1>12. ASSUME NEW p \in Sessions, ElectorStarts(p) PROVE NoRestart
  BY <1>12 DEF ElectorStarts, StartLocal, ElectorDone, callVars
<1>13. ASSUME NEW p \in Sessions, PromoterPolls(p) PROVE NoRestart
  BY <1>13 DEF PromoterPolls, electVars, callVars
<1>14. ASSUME NEW p \in Sessions, PromoterTakes(p) PROVE NoRestart
  BY <1>14 DEF PromoterTakes, electVars, callVars
<1>15. ASSUME NEW p \in Sessions, PromoterServes(p) PROVE NoRestart
  BY <1>15 DEF PromoterServes, MayServe, electVars, callVars
<1>16. ASSUME NEW p \in Sessions, PromoterBinds(p) PROVE NoRestart
  BY <1>16 DEF PromoterBinds, Bind, electVars, callVars
<1>17. ASSUME NEW p \in Sessions, PromoterUnlocks(p) PROVE NoRestart
  BY <1>17 DEF PromoterUnlocks, electVars, callVars
<1>18. ASSUME NEW p \in Sessions, RefreshLeader(p) PROVE NoRestart
  BY <1>18 DEF RefreshLeader, electVars, callVars
<1>19. ASSUME NEW p \in Sessions, CallBegins(p) PROVE NoRestart
  BY <1>19 DEF CallBegins, electVars
<1>20. ASSUME NEW p \in Sessions, CallRouted(p) PROVE NoRestart
  BY <1>20 DEF CallRouted, electVars
<1>21. ASSUME NEW p \in Sessions, CallDeadline(p) PROVE NoRestart
  BY <1>21 DEF CallDeadline, electVars
<1>22. ASSUME NEW p \in Sessions, CallAnswered(p) PROVE NoRestart
  BY <1>22 DEF CallAnswered, electVars
<1>23. ASSUME NEW p \in Sessions, CallCancelled(p) PROVE NoRestart
  BY <1>23 DEF CallCancelled, electVars
<1>24. ASSUME NEW p \in Sessions, CallTimeout(p) PROVE NoRestart
  BY <1>24 DEF CallTimeout, electVars
<1>25. ASSUME NEW p \in Sessions, CallDisconnected(p) PROVE NoRestart
  BY <1>25 DEF CallDisconnected, OnDisconnect
<1>26. ASSUME NEW p \in Sessions, CallGoesLocal(p) PROVE NoRestart
  BY <1>26 DEF CallGoesLocal, GoLocal, electVars
<1>27. ASSUME NEW p \in Sessions, CallStarts(p) PROVE NoRestart
  BY <1>27 DEF CallStarts, StartLocal, electVars
<1>28. ASSUME NEW p \in Sessions, CallHangsUp(p) PROVE NoRestart
  BY <1>28 DEF CallHangsUp, electVars
<1>29. ASSUME NEW p \in Sessions, Shutdown(p) PROVE NoRestart
  BY <1>29 DEF Shutdown, electVars, callVars
<1>30. ASSUME NEW p \in Sessions, TakeListener(p) PROVE NoRestart
  BY <1>30 DEF TakeListener, electVars, callVars
<1>31. ASSUME NEW p \in Sessions, StopListener(p) PROVE NoRestart
  BY <1>31 DEF StopListener, electVars, callVars
<1>32. ASSUME NEW p \in Sessions, CheckSocket(p) PROVE NoRestart
  BY <1>32 DEF CheckSocket, electVars, callVars
<1>33. ASSUME NEW p \in Sessions, RemoveSocket(p) PROVE NoRestart
  BY <1>33 DEF RemoveSocket, electVars, callVars
<1>34. ASSUME NEW p \in Sessions, Teardown(p) PROVE NoRestart
  BY <1>34 DEF Teardown, electVars, callVars
<1>35. ASSUME NEW p \in Sessions, Exit(p) PROVE NoRestart
  BY <1>35 DEF Exit, Dies
<1>36. ASSUME NEW p \in Sessions, Killed(p) PROVE NoRestart
  BY <1>36 DEF Killed, Dies
<1>37. ASSUME NEW p \in Sessions, NEW l \in Sessions, ReaderEof(p, l) PROVE NoRestart
  BY <1>37 DEF ReaderEof, OnDisconnect, callVars
<1>38. CASE UNCHANGED vars
  BY <1>38 DEF vars, electVars, callVars
<1> QED
  BY <1>1, <1>2, <1>3, <1>4, <1>5, <1>6, <1>7, <1>8, <1>9, <1>10, <1>11, <1>12, <1>13,
     <1>14, <1>15, <1>16, <1>17, <1>18, <1>19, <1>20, <1>21, <1>22, <1>23, <1>24, <1>25, <1>26,
     <1>27, <1>28, <1>29, <1>30, <1>31, <1>32, <1>33, <1>34, <1>35, <1>36, <1>37, <1>38
  DEF Next, ElectorStep, PromoterStep, CallStep, CallRuns, ExitStep

\* However many readers and calls report a lost leader, one election follows
\* (on_disconnect, imp.rs:468).
THEOREM ElectionsDoNotOverlap == Spec => OneElection
<1>1. Spec => [](TypeInv /\ RoleInv)
  BY TypeInit, TypeStep, RoleInit, RoleStep, PTL DEF Spec
<1>2. TypeInv /\ RoleInv /\ [Next]_vars => [NoRestart]_vars
  BY NoRestartStep
<1>3. [][NoRestart]_vars <=> OneElection
  BY PTL DEF OneElection, NoRestart
<1> QED
  BY <1>1, <1>2, <1>3, PTL DEF Spec

-----------------------------------------------------------------------------
LEMMA ServeInit == Init => ServeInv
  BY DEF Init, ServeInv, TakenDown

\* The lock stays under the socket through every action.
LEMMA ServeStep == TypeInv /\ RoleInv /\ ServeInv /\ [Next]_vars => ServeInv'
<1> SUFFICES ASSUME TypeInv, RoleInv, ServeInv, [Next]_vars PROVE ServeInv'
  OBVIOUS
<1> USE DEF TypeInv, TypeOK, RoleInv, ServeInv, TakenDown, MayServe, LeaderMutexFree
<1>1. ASSUME NEW p \in Sessions, Boot(p) PROVE ServeInv'
  BY <1>1 DEF Boot, callVars
<1>2. ASSUME NEW p \in Sessions, TryAcquire(p) PROVE ServeInv'
  BY <1>2 DEF TryAcquire, callVars
<1>3. ASSUME NEW p \in Sessions, ElectAgain(p) PROVE ServeInv'
  BY <1>3 DEF ElectAgain, callVars
<1>4. ASSUME NEW p \in Sessions, GraceElapses(p) PROVE ServeInv'
  BY <1>4 DEF GraceElapses, callVars
<1>5. ASSUME NEW p \in Sessions, Connect(p) PROVE ServeInv'
  BY <1>5 DEF Connect, callVars
<1>6. ASSUME NEW p \in Sessions, SettleFollower(p) PROVE ServeInv'
  BY <1>6 DEF SettleFollower, ElectorDone, StillElecting, callVars
<1>7. ASSUME NEW p \in Sessions, BecomeLeader(p) PROVE ServeInv'
  BY <1>7 DEF BecomeLeader, callVars
<1>8. ASSUME NEW p \in Sessions, AdoptLock(p) PROVE ServeInv'
  BY <1>8 DEF AdoptLock, callVars
<1>9. ASSUME NEW p \in Sessions, ElectorServes(p) PROVE ServeInv'
  BY <1>9 DEF ElectorServes, MayServe, callVars
<1>10. ASSUME NEW p \in Sessions, ElectorBinds(p) PROVE ServeInv'
  BY <1>10 DEF ElectorBinds, Bind, callVars
<1>11. ASSUME NEW p \in Sessions, ElectorGoesLocal(p) PROVE ServeInv'
  BY <1>11 DEF ElectorGoesLocal, GoLocal, callVars
<1>12. ASSUME NEW p \in Sessions, ElectorStarts(p) PROVE ServeInv'
  BY <1>12 DEF ElectorStarts, StartLocal, ElectorDone, callVars
<1>13. ASSUME NEW p \in Sessions, PromoterPolls(p) PROVE ServeInv'
  BY <1>13 DEF PromoterPolls, electVars, callVars
<1>14. ASSUME NEW p \in Sessions, PromoterTakes(p) PROVE ServeInv'
  BY <1>14 DEF PromoterTakes, electVars, callVars
<1>15. ASSUME NEW p \in Sessions, PromoterServes(p) PROVE ServeInv'
  <2>1. CASE MayServe(p)
    BY <1>15, <2>1 DEF PromoterServes, electVars
  <2>2. CASE ~MayServe(p)
    <3>1. listener[p] = "up" \/ role[p] = "closed"
      BY <2>2
    <3> QED
      BY <1>15, <2>2, <3>1 DEF PromoterServes, electVars
  <2> QED
    BY <2>1, <2>2
<1>16. ASSUME NEW p \in Sessions, PromoterBinds(p) PROVE ServeInv'
  BY <1>16 DEF PromoterBinds, Bind, electVars, callVars
<1>17. ASSUME NEW p \in Sessions, PromoterUnlocks(p) PROVE ServeInv'
  BY <1>17 DEF PromoterUnlocks, electVars, callVars
<1>18. ASSUME NEW p \in Sessions, RefreshLeader(p) PROVE ServeInv'
  BY <1>18 DEF RefreshLeader, electVars, callVars
<1>19. ASSUME NEW p \in Sessions, CallBegins(p) PROVE ServeInv'
  BY <1>19 DEF CallBegins, electVars
<1>20. ASSUME NEW p \in Sessions, CallRouted(p) PROVE ServeInv'
  BY <1>20 DEF CallRouted, electVars
<1>21. ASSUME NEW p \in Sessions, CallDeadline(p) PROVE ServeInv'
  BY <1>21 DEF CallDeadline, electVars
<1>22. ASSUME NEW p \in Sessions, CallAnswered(p) PROVE ServeInv'
  BY <1>22 DEF CallAnswered, electVars
<1>23. ASSUME NEW p \in Sessions, CallCancelled(p) PROVE ServeInv'
  BY <1>23 DEF CallCancelled, electVars
<1>24. ASSUME NEW p \in Sessions, CallTimeout(p) PROVE ServeInv'
  BY <1>24 DEF CallTimeout, electVars
<1>25. ASSUME NEW p \in Sessions, CallDisconnected(p) PROVE ServeInv'
  BY <1>25 DEF CallDisconnected, OnDisconnect
<1>26. ASSUME NEW p \in Sessions, CallGoesLocal(p) PROVE ServeInv'
  BY <1>26 DEF CallGoesLocal, GoLocal, electVars
<1>27. ASSUME NEW p \in Sessions, CallStarts(p) PROVE ServeInv'
  BY <1>27 DEF CallStarts, StartLocal, electVars
<1>28. ASSUME NEW p \in Sessions, CallHangsUp(p) PROVE ServeInv'
  BY <1>28 DEF CallHangsUp, electVars
<1>29. ASSUME NEW p \in Sessions, Shutdown(p) PROVE ServeInv'
  BY <1>29 DEF Shutdown, electVars, callVars
<1>30. ASSUME NEW p \in Sessions, TakeListener(p) PROVE ServeInv'
  BY <1>30 DEF TakeListener, electVars, callVars
<1>31. ASSUME NEW p \in Sessions, StopListener(p) PROVE ServeInv'
  BY <1>31 DEF StopListener, electVars, callVars
<1>32. ASSUME NEW p \in Sessions, CheckSocket(p) PROVE ServeInv'
  BY <1>32 DEF CheckSocket, electVars, callVars
<1>33. ASSUME NEW p \in Sessions, RemoveSocket(p) PROVE ServeInv'
  BY <1>33 DEF RemoveSocket, electVars, callVars
<1>34. ASSUME NEW p \in Sessions, Teardown(p) PROVE ServeInv'
  BY <1>34 DEF Teardown, electVars, callVars
<1>35. ASSUME NEW p \in Sessions, Exit(p) PROVE ServeInv'
  BY <1>35 DEF Exit, Dies
<1>36. ASSUME NEW p \in Sessions, Killed(p) PROVE ServeInv'
  BY <1>36 DEF Killed, Dies
<1>37. ASSUME NEW p \in Sessions, NEW l \in Sessions, ReaderEof(p, l) PROVE ServeInv'
  BY <1>37 DEF ReaderEof, OnDisconnect, callVars
<1>38. CASE UNCHANGED vars
  BY <1>38 DEF vars, electVars, callVars
<1> QED
  BY <1>1, <1>2, <1>3, <1>4, <1>5, <1>6, <1>7, <1>8, <1>9, <1>10, <1>11, <1>12, <1>13,
     <1>14, <1>15, <1>16, <1>17, <1>18, <1>19, <1>20, <1>21, <1>22, <1>23, <1>24, <1>25, <1>26,
     <1>27, <1>28, <1>29, <1>30, <1>31, <1>32, <1>33, <1>34, <1>35, <1>36, <1>37, <1>38
  DEF Next, ElectorStep, PromoterStep, CallStep, CallRuns, ExitStep

\* A session that serves holds the lock, until shutdown takes the listener
\* (serve_socket, shutdown; imp.rs:387, 566).
THEOREM ServingHoldsLock == Spec => []ServesUnderLock
<1>1. Spec => [](TypeInv /\ RoleInv /\ ServeInv)
  BY TypeInit, TypeStep, RoleInit, RoleStep, ServeInit, ServeStep, PTL DEF Spec
<1>2. ServeInv => ServesUnderLock
  BY DEF ServeInv, ServesUnderLock
<1> QED
  BY <1>1, <1>2, PTL

OneServer == \A p, q \in Sessions : listener[p] = "up" /\ listener[q] = "up" => p = q

\* So no two sessions serve the repository at once.
THEOREM OneServesAtATime == Spec => []OneServer
<1>1. OneHolder /\ ServesUnderLock => OneServer
  BY DEF OneHolder, ServesUnderLock, OneServer, HoldsLock
<1> QED
  BY <1>1, LockIsExclusive, ServingHoldsLock, PTL

-----------------------------------------------------------------------------
(* The socket's file.  With calls it may be lost (README.md, section 4), and
   what loses it is one thing only: the lock given up too early. *)

Closing(p) == phase[p] \in {"stopping", "unlinking", "removing"}
Binding(p) == "bind" \in {elector[p], promoter[p]}

\* A step gives up the lock of no live process that binds, serves or is still
\* closing its socket.
LockKept ==
    \A p \in Sessions :
        slot[p] /\ (listener[p] = "up" \/ Closing(p) \/ Binding(p)) =>
            slot'[p] \/ phase'[p] = "gone"

\* Whoever touches the file, to bind or to remove it, holds the lock.
PathInv ==
    \A p \in Sessions :
        /\ listener[p] = "up" => sock = p
        /\ listener[p] = "stopping" => phase[p] = "stopping"
        /\ Closing(p) \/ Binding(p) => slot[p]

LEMMA PathInit == Init => PathInv
  BY DEF Init, PathInv, Closing, Binding

\* As long as the lock is kept, a step that binds or removes the file is the
\* step of the one holder, and no other session serves.
LEMMA PathStep ==
    TypeInv /\ OneHolder /\ ServeInv /\ PathInv /\ LockKept /\ [Next]_vars => PathInv'
<1> SUFFICES ASSUME TypeInv, OneHolder, ServeInv, PathInv, LockKept, [Next]_vars PROVE PathInv'
  OBVIOUS
<1> USE DEF TypeInv, TypeOK, OneHolder, HoldsLock, ServeInv, TakenDown, LeaderMutexFree,
            PathInv, LockKept, Closing, Binding
<1>1. ASSUME NEW p \in Sessions, Boot(p) PROVE PathInv'
  BY <1>1 DEF Boot, callVars
<1>2. ASSUME NEW p \in Sessions, TryAcquire(p) PROVE PathInv'
  BY <1>2 DEF TryAcquire, callVars
<1>3. ASSUME NEW p \in Sessions, ElectAgain(p) PROVE PathInv'
  BY <1>3 DEF ElectAgain, callVars
<1>4. ASSUME NEW p \in Sessions, GraceElapses(p) PROVE PathInv'
  BY <1>4 DEF GraceElapses, callVars
<1>5. ASSUME NEW p \in Sessions, Connect(p) PROVE PathInv'
  BY <1>5 DEF Connect, callVars
<1>6. ASSUME NEW p \in Sessions, SettleFollower(p) PROVE PathInv'
  BY <1>6 DEF SettleFollower, ElectorDone, StillElecting, callVars
<1>7. ASSUME NEW p \in Sessions, BecomeLeader(p) PROVE PathInv'
  BY <1>7 DEF BecomeLeader, callVars
<1>8. ASSUME NEW p \in Sessions, AdoptLock(p) PROVE PathInv'
  BY <1>8 DEF AdoptLock, callVars
<1>9. ASSUME NEW p \in Sessions, ElectorServes(p) PROVE PathInv'
  BY <1>9 DEF ElectorServes, MayServe, callVars
<1>10. ASSUME NEW p \in Sessions, ElectorBinds(p) PROVE PathInv'
  BY <1>10 DEF ElectorBinds, Bind, callVars
<1>11. ASSUME NEW p \in Sessions, ElectorGoesLocal(p) PROVE PathInv'
  BY <1>11 DEF ElectorGoesLocal, GoLocal, callVars
<1>12. ASSUME NEW p \in Sessions, ElectorStarts(p) PROVE PathInv'
  BY <1>12 DEF ElectorStarts, StartLocal, ElectorDone, callVars
<1>13. ASSUME NEW p \in Sessions, PromoterPolls(p) PROVE PathInv'
  BY <1>13 DEF PromoterPolls, electVars, callVars
<1>14. ASSUME NEW p \in Sessions, PromoterTakes(p) PROVE PathInv'
  BY <1>14 DEF PromoterTakes, electVars, callVars
<1>15. ASSUME NEW p \in Sessions, PromoterServes(p) PROVE PathInv'
  BY <1>15 DEF PromoterServes, MayServe, electVars, callVars
<1>16. ASSUME NEW p \in Sessions, PromoterBinds(p) PROVE PathInv'
  BY <1>16 DEF PromoterBinds, Bind, electVars, callVars
<1>17. ASSUME NEW p \in Sessions, PromoterUnlocks(p) PROVE PathInv'
  BY <1>17 DEF PromoterUnlocks, electVars, callVars
<1>18. ASSUME NEW p \in Sessions, RefreshLeader(p) PROVE PathInv'
  BY <1>18 DEF RefreshLeader, electVars, callVars
<1>19. ASSUME NEW p \in Sessions, CallBegins(p) PROVE PathInv'
  BY <1>19 DEF CallBegins, electVars
<1>20. ASSUME NEW p \in Sessions, CallRouted(p) PROVE PathInv'
  BY <1>20 DEF CallRouted, electVars
<1>21. ASSUME NEW p \in Sessions, CallDeadline(p) PROVE PathInv'
  BY <1>21 DEF CallDeadline, electVars
<1>22. ASSUME NEW p \in Sessions, CallAnswered(p) PROVE PathInv'
  BY <1>22 DEF CallAnswered, electVars
<1>23. ASSUME NEW p \in Sessions, CallCancelled(p) PROVE PathInv'
  BY <1>23 DEF CallCancelled, electVars
<1>24. ASSUME NEW p \in Sessions, CallTimeout(p) PROVE PathInv'
  BY <1>24 DEF CallTimeout, electVars
<1>25. ASSUME NEW p \in Sessions, CallDisconnected(p) PROVE PathInv'
  BY <1>25 DEF CallDisconnected, OnDisconnect
<1>26. ASSUME NEW p \in Sessions, CallGoesLocal(p) PROVE PathInv'
  BY <1>26 DEF CallGoesLocal, GoLocal, electVars
<1>27. ASSUME NEW p \in Sessions, CallStarts(p) PROVE PathInv'
  BY <1>27 DEF CallStarts, StartLocal, electVars
<1>28. ASSUME NEW p \in Sessions, CallHangsUp(p) PROVE PathInv'
  BY <1>28 DEF CallHangsUp, electVars
<1>29. ASSUME NEW p \in Sessions, Shutdown(p) PROVE PathInv'
  BY <1>29 DEF Shutdown, electVars, callVars
<1>30. ASSUME NEW p \in Sessions, TakeListener(p) PROVE PathInv'
  BY <1>30 DEF TakeListener, electVars, callVars
<1>31. ASSUME NEW p \in Sessions, StopListener(p) PROVE PathInv'
  BY <1>31 DEF StopListener, electVars, callVars
<1>32. ASSUME NEW p \in Sessions, CheckSocket(p) PROVE PathInv'
  BY <1>32 DEF CheckSocket, electVars, callVars
<1>33. ASSUME NEW p \in Sessions, RemoveSocket(p) PROVE PathInv'
  BY <1>33 DEF RemoveSocket, electVars, callVars
<1>34. ASSUME NEW p \in Sessions, Teardown(p) PROVE PathInv'
  BY <1>34 DEF Teardown, electVars, callVars
<1>35. ASSUME NEW p \in Sessions, Exit(p) PROVE PathInv'
  BY <1>35 DEF Exit, Dies
<1>36. ASSUME NEW p \in Sessions, Killed(p) PROVE PathInv'
  BY <1>36 DEF Killed, Dies
<1>37. ASSUME NEW p \in Sessions, NEW l \in Sessions, ReaderEof(p, l) PROVE PathInv'
  BY <1>37 DEF ReaderEof, OnDisconnect, callVars
<1>38. CASE UNCHANGED vars
  BY <1>38 DEF vars, electVars, callVars
<1> QED
  BY <1>1, <1>2, <1>3, <1>4, <1>5, <1>6, <1>7, <1>8, <1>9, <1>10, <1>11, <1>12, <1>13, <1>14,
     <1>15, <1>16, <1>17, <1>18, <1>19, <1>20, <1>21, <1>22, <1>23, <1>24, <1>25, <1>26, <1>27,
     <1>28, <1>29, <1>30, <1>31, <1>32, <1>33, <1>34, <1>35, <1>36, <1>37, <1>38
  DEF Next, ElectorStep, PromoterStep, CallStep, CallRuns, ExitStep

LEMMA KeptLockKeepsPathInv == Spec /\ [][LockKept]_vars => []PathInv
<1>1. Spec => [](TypeInv /\ OneHolder /\ ServeInv)
  BY TypeInit, TypeStep, HolderInit, HolderStep, RoleInit, RoleStep, ServeInit, ServeStep, PTL
  DEF Spec
<1>2. PathInv /\ UNCHANGED vars => PathInv'
  BY DEF PathInv, Closing, Binding, vars, electVars
<1> QED
  BY <1>1, <1>2, PathInit, PathStep, PTL DEF Spec

\* A new session finds the live leader at the path, however elections, exits and
\* kills interleave, unless somebody gives up the lock before its socket is
\* closed: "close the socket (followers see EOF), then release the lock"
\* (shared_index.rs:23) is what keeps two leaders from each other's socket file
\* (Listener::bind and stop, imp.rs:592, 652).
THEOREM KeptLockKeepsPath == Spec /\ [][LockKept]_vars => []SocketReachesLeader
<1>1. PathInv => SocketReachesLeader
  BY DEF PathInv, SocketReachesLeader
<1> QED
  BY <1>1, KeptLockKeepsPathInv, PTL

\* Without calls a promoter runs only where the election is over and found no
\* socket to serve, and gets past its first poll only before shutdown.
QuietInv ==
    \A p \in Sessions :
        /\ call[p] = "idle"
        /\ promoter[p] \notin {"off", "done"} =>
              elector[p] = "off" /\ listener[p] # "up" /\ role[p] \in {"local", "closed"}
        /\ promoter[p] \in {"take", "serve", "bind", "unlock"} =>
              listener[p] = "none" /\ ~Closing(p)

LEMMA QuietInit == Init => QuietInv
  BY DEF Init, QuietInv

\* Every action keeps the promoter where it is alone.
LEMMA QuietStep ==
    Callers = {} /\ TypeInv /\ RoleInv /\ ServeInv /\ QuietInv /\ [Next]_vars => QuietInv'
<1> SUFFICES ASSUME Callers = {}, TypeInv, RoleInv, ServeInv, QuietInv, [Next]_vars
             PROVE  QuietInv'
  OBVIOUS
<1> USE DEF TypeInv, TypeOK, RoleInv, ServeInv, TakenDown, LeaderMutexFree, QuietInv, Closing
<1>1. ASSUME NEW p \in Sessions, Boot(p) PROVE QuietInv'
  BY <1>1 DEF Boot, callVars
<1>2. ASSUME NEW p \in Sessions, TryAcquire(p) PROVE QuietInv'
  BY <1>2 DEF TryAcquire, callVars
<1>3. ASSUME NEW p \in Sessions, ElectAgain(p) PROVE QuietInv'
  BY <1>3 DEF ElectAgain, callVars
<1>4. ASSUME NEW p \in Sessions, GraceElapses(p) PROVE QuietInv'
  BY <1>4 DEF GraceElapses, callVars
<1>5. ASSUME NEW p \in Sessions, Connect(p) PROVE QuietInv'
  BY <1>5 DEF Connect, callVars
<1>6. ASSUME NEW p \in Sessions, SettleFollower(p) PROVE QuietInv'
  BY <1>6 DEF SettleFollower, ElectorDone, StillElecting, callVars
<1>7. ASSUME NEW p \in Sessions, BecomeLeader(p) PROVE QuietInv'
  BY <1>7 DEF BecomeLeader, callVars
<1>8. ASSUME NEW p \in Sessions, AdoptLock(p) PROVE QuietInv'
  BY <1>8 DEF AdoptLock, callVars
<1>9. ASSUME NEW p \in Sessions, ElectorServes(p) PROVE QuietInv'
  BY <1>9 DEF ElectorServes, MayServe, callVars
<1>10. ASSUME NEW p \in Sessions, ElectorBinds(p) PROVE QuietInv'
  BY <1>10 DEF ElectorBinds, Bind, callVars
<1>11. ASSUME NEW p \in Sessions, ElectorGoesLocal(p) PROVE QuietInv'
  BY <1>11 DEF ElectorGoesLocal, GoLocal, callVars
<1>12. ASSUME NEW p \in Sessions, ElectorStarts(p) PROVE QuietInv'
  BY <1>12 DEF ElectorStarts, StartLocal, ElectorDone, callVars
<1>13. ASSUME NEW p \in Sessions, PromoterPolls(p) PROVE QuietInv'
  BY <1>13 DEF PromoterPolls, electVars, callVars
<1>14. ASSUME NEW p \in Sessions, PromoterTakes(p) PROVE QuietInv'
  BY <1>14 DEF PromoterTakes, electVars, callVars
<1>15. ASSUME NEW p \in Sessions, PromoterServes(p) PROVE QuietInv'
  BY <1>15 DEF PromoterServes, MayServe, electVars, callVars
<1>16. ASSUME NEW p \in Sessions, PromoterBinds(p) PROVE QuietInv'
  BY <1>16 DEF PromoterBinds, Bind, electVars, callVars
<1>17. ASSUME NEW p \in Sessions, PromoterUnlocks(p) PROVE QuietInv'
  BY <1>17 DEF PromoterUnlocks, electVars, callVars
<1>18. ASSUME NEW p \in Sessions, RefreshLeader(p) PROVE QuietInv'
  BY <1>18 DEF RefreshLeader, electVars, callVars
<1>19. ASSUME NEW p \in Sessions, Shutdown(p) PROVE QuietInv'
  BY <1>19 DEF Shutdown, electVars, callVars
<1>20. ASSUME NEW p \in Sessions, TakeListener(p) PROVE QuietInv'
  BY <1>20 DEF TakeListener, electVars, callVars
<1>21. ASSUME NEW p \in Sessions, StopListener(p) PROVE QuietInv'
  BY <1>21 DEF StopListener, electVars, callVars
<1>22. ASSUME NEW p \in Sessions, CheckSocket(p) PROVE QuietInv'
  BY <1>22 DEF CheckSocket, electVars, callVars
<1>23. ASSUME NEW p \in Sessions, RemoveSocket(p) PROVE QuietInv'
  BY <1>23 DEF RemoveSocket, electVars, callVars
<1>24. ASSUME NEW p \in Sessions, Teardown(p) PROVE QuietInv'
  BY <1>24 DEF Teardown, electVars, callVars
<1>25. ASSUME NEW p \in Sessions, Exit(p) PROVE QuietInv'
  BY <1>25 DEF Exit, Dies
<1>26. ASSUME NEW p \in Sessions, Killed(p) PROVE QuietInv'
  BY <1>26 DEF Killed, Dies
<1>27. ASSUME NEW p \in Sessions, NEW l \in Sessions, ReaderEof(p, l) PROVE QuietInv'
  BY <1>27 DEF ReaderEof, OnDisconnect, callVars
<1>28. CASE UNCHANGED vars
  BY <1>28 DEF vars, electVars, callVars
<1>29. ASSUME NEW p \in Sessions PROVE ~CallStep(p)
  BY DEF CallStep, CallRuns, CallBegins, CallRouted, CallDeadline, CallAnswered, CallCancelled,
         CallTimeout, CallDisconnected, CallGoesLocal, CallStarts, CallHangsUp
<1> QED
  BY <1>1, <1>2, <1>3, <1>4, <1>5, <1>6, <1>7, <1>8, <1>9, <1>10, <1>11, <1>12, <1>13, <1>14,
     <1>15, <1>16, <1>17, <1>18, <1>19, <1>20, <1>21, <1>22, <1>23, <1>24, <1>25, <1>26, <1>27,
     <1>28, <1>29
  DEF Next, ElectorStep, PromoterStep, ExitStep

\* So the promoter gives up no lock that a socket needs.
LEMMA QuietKeepsLock ==
    Callers = {} /\ TypeInv /\ ServeInv /\ QuietInv /\ [Next]_vars => LockKept
<1> SUFFICES ASSUME Callers = {}, TypeInv, ServeInv, QuietInv, [Next]_vars PROVE LockKept
  OBVIOUS
<1> USE DEF TypeInv, TypeOK, ServeInv, TakenDown, QuietInv, LockKept, Closing, Binding
<1>1. ASSUME NEW p \in Sessions, Boot(p) PROVE LockKept
  BY <1>1 DEF Boot, callVars
<1>2. ASSUME NEW p \in Sessions, TryAcquire(p) PROVE LockKept
  BY <1>2 DEF TryAcquire, callVars
<1>3. ASSUME NEW p \in Sessions, ElectAgain(p) PROVE LockKept
  BY <1>3 DEF ElectAgain, callVars
<1>4. ASSUME NEW p \in Sessions, GraceElapses(p) PROVE LockKept
  BY <1>4 DEF GraceElapses, callVars
<1>5. ASSUME NEW p \in Sessions, Connect(p) PROVE LockKept
  BY <1>5 DEF Connect, callVars
<1>6. ASSUME NEW p \in Sessions, SettleFollower(p) PROVE LockKept
  BY <1>6 DEF SettleFollower, ElectorDone, StillElecting, callVars
<1>7. ASSUME NEW p \in Sessions, BecomeLeader(p) PROVE LockKept
  BY <1>7 DEF BecomeLeader, callVars
<1>8. ASSUME NEW p \in Sessions, AdoptLock(p) PROVE LockKept
  BY <1>8 DEF AdoptLock, callVars
<1>9. ASSUME NEW p \in Sessions, ElectorServes(p) PROVE LockKept
  BY <1>9 DEF ElectorServes, MayServe, callVars
<1>10. ASSUME NEW p \in Sessions, ElectorBinds(p) PROVE LockKept
  BY <1>10 DEF ElectorBinds, Bind, callVars
<1>11. ASSUME NEW p \in Sessions, ElectorGoesLocal(p) PROVE LockKept
  BY <1>11 DEF ElectorGoesLocal, GoLocal, callVars
<1>12. ASSUME NEW p \in Sessions, ElectorStarts(p) PROVE LockKept
  BY <1>12 DEF ElectorStarts, StartLocal, ElectorDone, callVars
<1>13. ASSUME NEW p \in Sessions, PromoterPolls(p) PROVE LockKept
  BY <1>13 DEF PromoterPolls, electVars, callVars
<1>14. ASSUME NEW p \in Sessions, PromoterTakes(p) PROVE LockKept
  BY <1>14 DEF PromoterTakes, electVars, callVars
<1>15. ASSUME NEW p \in Sessions, PromoterServes(p) PROVE LockKept
  BY <1>15 DEF PromoterServes, MayServe, electVars, callVars
<1>16. ASSUME NEW p \in Sessions, PromoterBinds(p) PROVE LockKept
  BY <1>16 DEF PromoterBinds, Bind, electVars, callVars
<1>17. ASSUME NEW p \in Sessions, PromoterUnlocks(p) PROVE LockKept
  BY <1>17 DEF PromoterUnlocks, electVars, callVars
<1>18. ASSUME NEW p \in Sessions, RefreshLeader(p) PROVE LockKept
  BY <1>18 DEF RefreshLeader, electVars, callVars
<1>19. ASSUME NEW p \in Sessions, Shutdown(p) PROVE LockKept
  BY <1>19 DEF Shutdown, electVars, callVars
<1>20. ASSUME NEW p \in Sessions, TakeListener(p) PROVE LockKept
  BY <1>20 DEF TakeListener, electVars, callVars
<1>21. ASSUME NEW p \in Sessions, StopListener(p) PROVE LockKept
  BY <1>21 DEF StopListener, electVars, callVars
<1>22. ASSUME NEW p \in Sessions, CheckSocket(p) PROVE LockKept
  BY <1>22 DEF CheckSocket, electVars, callVars
<1>23. ASSUME NEW p \in Sessions, RemoveSocket(p) PROVE LockKept
  BY <1>23 DEF RemoveSocket, electVars, callVars
<1>24. ASSUME NEW p \in Sessions, Teardown(p) PROVE LockKept
  BY <1>24 DEF Teardown, electVars, callVars
<1>25. ASSUME NEW p \in Sessions, Exit(p) PROVE LockKept
  BY <1>25 DEF Exit, Dies
<1>26. ASSUME NEW p \in Sessions, Killed(p) PROVE LockKept
  BY <1>26 DEF Killed, Dies
<1>27. ASSUME NEW p \in Sessions, NEW l \in Sessions, ReaderEof(p, l) PROVE LockKept
  BY <1>27 DEF ReaderEof, OnDisconnect, callVars
<1>28. CASE UNCHANGED vars
  BY <1>28 DEF vars, electVars, callVars
<1>29. ASSUME NEW p \in Sessions PROVE ~CallStep(p)
  BY DEF CallStep, CallRuns, CallBegins, CallRouted, CallDeadline, CallAnswered, CallCancelled,
         CallTimeout, CallDisconnected, CallGoesLocal, CallStarts, CallHangsUp
<1> QED
  BY <1>1, <1>2, <1>3, <1>4, <1>5, <1>6, <1>7, <1>8, <1>9, <1>10, <1>11, <1>12, <1>13, <1>14,
     <1>15, <1>16, <1>17, <1>18, <1>19, <1>20, <1>21, <1>22, <1>23, <1>24, <1>25, <1>26, <1>27,
     <1>28, <1>29
  DEF Next, ElectorStep, PromoterStep, ExitStep

\* And so, while no calls are made, nothing takes the live leader's socket away,
\* and the exit does what shared_index.rs:23 says: the listener of a leader that
\* stops is closed before anybody gives up its lock.
THEOREM SocketLeadsToLeader ==
    Callers = {} /\ Spec => [](SocketReachesLeader /\ ClosesThenReleases)
<1> SUFFICES ASSUME Callers = {} PROVE Spec => [](SocketReachesLeader /\ ClosesThenReleases)
  OBVIOUS
<1>1. Spec => [](TypeInv /\ RoleInv /\ ServeInv)
  BY TypeInit, TypeStep, RoleInit, RoleStep, ServeInit, ServeStep, PTL DEF Spec
<1>2. TypeInv /\ RoleInv /\ ServeInv /\ QuietInv /\ [Next]_vars => QuietInv'
  BY QuietStep
<1>3. TypeInv /\ ServeInv /\ QuietInv /\ [Next]_vars => [LockKept]_vars
  BY QuietKeepsLock
<1>4. Spec => [][LockKept]_vars
  BY <1>1, <1>2, <1>3, QuietInit, PTL DEF Spec
<1>5. PathInv => SocketReachesLeader /\ ClosesThenReleases
  BY DEF PathInv, SocketReachesLeader, ClosesThenReleases, Closing
<1> QED
  BY <1>4, <1>5, KeptLockKeepsPathInv, PTL

-----------------------------------------------------------------------------
(* The session that serves leads, and it leads once: a connection is named by
   its leader. *)

Tenure(p) == IF listener[p] = "up" THEN "leading" ELSE IF TakenDown(p) THEN "over" ELSE "before"

Tenures == [p \in Sessions |-> Tenure(p)]
Leaders == INSTANCE Leadership WITH tenure <- Tenures

\* A session takes the lead by binding the socket, while it alone holds the lock.
LEMMA BindLeads ==
    ASSUME TypeInv, OneHolder, ServeInv, NEW p \in Sessions, Bind(p), UNCHANGED <<phase, slot>>,
           "bind" \in {elector[p], promoter[p]}
    PROVE  [Leaders!Next]_Tenures
<1> USE DEF Tenures
<1>1. CASE p \in Unbindable
  <2>1. Tenures' = Tenures
    BY <1>1 DEF Bind, Tenure, TakenDown
  <2> QED
    BY <2>1
<1>2. CASE p \notin Unbindable
  <2>1. slot[p] /\ ~TakenDown(p)
    BY <1>2 DEF ServeInv
  <2>2. ASSUME NEW q \in Sessions, q # p PROVE listener[q] # "up"
    BY <2>1, <2>2 DEF ServeInv, OneHolder, HoldsLock
  <2>3. CASE listener[p] = "up"
    <3>1. Tenures' = Tenures
      BY <1>2, <2>3 DEF Bind, Tenure, TakenDown, TypeInv, TypeOK
    <3> QED
      BY <3>1
  <2>4. CASE listener[p] # "up"
    <3>1. Tenures[p] = "before" /\ \A q \in Sessions : Tenures[q] # "leading"
      BY <2>1, <2>2, <2>4 DEF Tenure
    <3>2. Tenures' = [Tenures EXCEPT ![p] = "leading"]
      BY <1>2 DEF Bind, Tenure, TakenDown, TypeInv, TypeOK
    <3> QED
      BY <3>1, <3>2 DEF Leaders!Next, Leaders!Lead
  <2> QED
    BY <2>3, <2>4
<1> QED
  BY <1>1, <1>2

\* A session that leaves its tenure, if it has one, ends it.
LEMMA LeaveEnds ==
    ASSUME TypeInv, NEW p \in Sessions, listener'[p] # "up", TakenDown(p)',
           \A q \in Sessions \ {p} : listener'[q] = listener[q] /\ phase'[q] = phase[q]
    PROVE  [Leaders!Next]_Tenures
<1> USE DEF Tenures
<1>1. Tenures' = [Tenures EXCEPT ![p] = "over"]
  BY DEF Tenure, TakenDown
<1>2. CASE Tenures[p] = "over"
  <2>1. Tenures' = Tenures
    BY <1>1, <1>2
  <2> QED
    BY <2>1
<1>3. CASE Tenures[p] # "over"
  BY <1>1, <1>3 DEF Leaders!Next, Leaders!Leave
<1> QED
  BY <1>2, <1>3

\* The rest of the code neither binds nor closes.
LEMMA ElsewhereStutters ==
    ASSUME TypeInv, UNCHANGED listener,
           \A q \in Sessions : TakenDown(q)' <=> TakenDown(q)
    PROVE  [Leaders!Next]_Tenures
<1>1. Tenures' = Tenures
  BY DEF Tenures, Tenure
<1> QED
  BY <1>1

\* Only a bind takes the lead, and a session that stops serving is on its way out or gone.
LEMMA LeadershipStep ==
    TypeInv /\ OneHolder /\ ServeInv /\ [Next]_vars
        => [Leaders!Next]_Tenures
<1> DEFINE Refined == [Leaders!Next]_Tenures
<1> SUFFICES ASSUME TypeInv, OneHolder, ServeInv, [Next]_vars PROVE Refined
  OBVIOUS
<1>a. ASSUME UNCHANGED <<listener, phase>> PROVE Refined
  BY <1>a, ElsewhereStutters DEF TakenDown
<1>b. ASSUME NEW p \in Sessions, UNCHANGED listener, phase' = [phase EXCEPT ![p] = phase'[p]],
             TakenDown(p)' <=> TakenDown(p)
      PROVE  Refined
  BY <1>b, ElsewhereStutters DEF TakenDown, TypeInv, TypeOK
<1>c. ASSUME NEW p \in Sessions, listener'[p] # "up", TakenDown(p)',
             listener' = [listener EXCEPT ![p] = listener'[p]],
             phase' = [phase EXCEPT ![p] = phase'[p]]
      PROVE  Refined
  BY <1>c, LeaveEnds DEF TypeInv, TypeOK
<1> HIDE DEF Refined
<1>1. ASSUME NEW p \in Sessions, Boot(p) PROVE Refined
  BY <1>1, <1>b DEF Boot, TakenDown, TypeInv, TypeOK
<1>2. ASSUME NEW p \in Sessions,
             TryAcquire(p) \/ ElectAgain(p) \/ GraceElapses(p) \/ Connect(p) \/ BecomeLeader(p)
             \/ AdoptLock(p) \/ ElectorServes(p) \/ ElectorGoesLocal(p)
      PROVE  Refined
  BY <1>2, <1>a DEF TryAcquire, ElectAgain, GraceElapses, Connect, BecomeLeader, AdoptLock,
                    ElectorServes, ElectorGoesLocal
<1>3. ASSUME NEW p \in Sessions, ElectorDone(p), UNCHANGED listener PROVE Refined
  BY <1>3, <1>b DEF ElectorDone, TakenDown, TypeInv, TypeOK
<1>4. ASSUME NEW p \in Sessions, SettleFollower(p) \/ ElectorStarts(p) PROVE Refined
  BY <1>3, <1>4 DEF SettleFollower, ElectorStarts
<1>5. ASSUME NEW p \in Sessions, ElectorBinds(p) \/ PromoterBinds(p) PROVE Refined
  BY <1>5, BindLeads DEF ElectorBinds, PromoterBinds, Refined
<1>6. ASSUME NEW p \in Sessions,
             PromoterPolls(p) \/ PromoterTakes(p) \/ PromoterServes(p) \/ PromoterUnlocks(p)
             \/ RefreshLeader(p)
      PROVE  Refined
  BY <1>6, <1>a DEF PromoterPolls, PromoterTakes, PromoterServes, PromoterUnlocks, RefreshLeader
<1>7. ASSUME NEW p \in Sessions, CallStep(p) PROVE Refined
  BY <1>7, <1>a DEF CallStep, CallRuns, CallBegins, CallRouted, CallDeadline, CallAnswered,
                    CallCancelled, CallTimeout, CallDisconnected, CallGoesLocal, CallStarts,
                    CallHangsUp
<1>8. ASSUME NEW p \in Sessions, NEW l \in Sessions, ReaderEof(p, l) PROVE Refined
  BY <1>8, <1>a DEF ReaderEof
<1>9. ASSUME NEW p \in Sessions, Shutdown(p) PROVE Refined
  BY <1>9, <1>b DEF Shutdown, TakenDown, TypeInv, TypeOK
<1>10. ASSUME NEW p \in Sessions, TakeListener(p) PROVE Refined
  BY <1>10, <1>c DEF TakeListener, TakenDown, TypeInv, TypeOK
<1>11. ASSUME NEW p \in Sessions, StopListener(p) PROVE Refined
  BY <1>11, <1>c DEF StopListener, TakenDown, TypeInv, TypeOK
<1>12. ASSUME NEW p \in Sessions, CheckSocket(p) \/ RemoveSocket(p) \/ Teardown(p) PROVE Refined
  BY <1>12, <1>b DEF CheckSocket, RemoveSocket, Teardown, TakenDown, TypeInv, TypeOK
<1>13. ASSUME NEW p \in Sessions, Exit(p) \/ Killed(p) PROVE Refined
  <2>1. Dies(p)
    BY <1>13 DEF Exit, Killed
  <2> QED
    BY <2>1, <1>c DEF Dies, TakenDown, TypeInv, TypeOK
<1>14. CASE UNCHANGED vars
  BY <1>14, <1>a DEF vars
<1> QED
  BY <1>1, <1>2, <1>4, <1>5, <1>6, <1>7, <1>8, <1>9, <1>10, <1>11, <1>12, <1>13, <1>14
  DEF Next, ElectorStep, PromoterStep, ExitStep

\* Sharing implements leadership: whatever elections, promotions, exits, kills
\* and calls do, a session that has stopped serving never serves again, and none
\* begins while another one serves (serve_socket and shutdown, imp.rs:387, 566).
THEOREM SharingIsLeadership == Spec => Leaders!Spec
<1>1. Init => Leaders!Init
  BY DEF Init, Leaders!Init, Tenures, Tenure, TakenDown
<1>2. Spec => [](TypeInv /\ OneHolder /\ ServeInv)
  BY TypeInit, TypeStep, HolderInit, HolderStep, RoleInit, RoleStep, ServeInit, ServeStep, PTL
  DEF Spec
<1> QED
  BY <1>1, <1>2, LeadershipStep, PTL DEF Spec, Leaders!Spec
=============================================================================
