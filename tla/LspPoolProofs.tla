--------------------------- MODULE LspPoolProofs ---------------------------
(***************************************************************************)
(* Theorems of LspPool, for every set of languages and every finite set of *)
(* query threads.                                                          *)
(***************************************************************************)
EXTENDS LspPool, FiniteSetTheorems, TLAPS

\* Taking a server out of a slot is well typed.
LEMMA TakeServerType ==
    ASSUME TypeOK, NEW t \in Threads, NEW l \in Languages, TakeServer(t, l)
    PROVE  /\ resident' \in [Languages -> BOOLEAN]
           /\ generation' \in [Languages -> Nat]
           /\ inFlight' \in [Languages -> Nat]
           /\ victims' \in [Threads -> SUBSET Servers]
<1>1. {<<l, generation[l]>>} \subseteq Servers
  BY DEF TypeOK, Servers
<1>2. victims[t] \cup {<<l, generation[l]>>} \in SUBSET Servers
  BY <1>1 DEF TypeOK
<1>3. victims' \in [Threads -> SUBSET Servers]
  BY <1>2 DEF TypeOK, TakeServer
<1> QED
  BY <1>3 DEF TypeOK, TakeServer

\* The pool starts well typed, and every critical section keeps it so.
LEMMA TypeInit == Init => TypeOK
<1> SUFFICES ASSUME Init PROVE TypeOK
  OBVIOUS
<1>1. /\ resident \in [Languages -> BOOLEAN]
      /\ stable \in [Languages -> BOOLEAN]
      /\ resent \in [Clients -> BOOLEAN]
      /\ stop \in BOOLEAN
  BY DEF Init
<1>2. /\ generation \in [Languages -> Nat]
      /\ inFlight \in [Languages -> Nat]
      /\ timeouts \in [Languages -> Nat]
      /\ crashes \in [Languages -> Nat]
  BY DEF Init
<1>3. /\ up \in [Languages -> SUBSET Nat]
      /\ held \in [Clients -> SUBSET Nat]
      /\ sample \in [Threads -> SUBSET Samples]
      /\ victims \in [Threads -> SUBSET Servers]
      /\ todo \in [{Monitor, Closer} -> SUBSET Languages]
  BY DEF Init
<1> QED
  BY <1>1, <1>2, <1>3 DEF Init, TypeOK, Ages, Failures

LEMMA TypeStep == TypeOK /\ [Next]_vars => TypeOK'
<1> SUFFICES ASSUME TypeOK, [Next]_vars PROVE TypeOK'
  OBVIOUS
<1> USE ThreadsAssumption DEF TypeOK, Goto, Threads
<1>1. ASSUME NEW c \in Clients, NEW l \in Languages, Acquire(c, l) PROVE TypeOK'
  BY SMTT(90), <1>1 DEF Acquire, CheckOut, Ages, slotVars
<1>2. ASSUME NEW c \in Clients, EnterGate(c) PROVE TypeOK'
  BY SMTT(90), <1>2 DEF EnterGate, CheckOut, AcquireFailed, Ages, slotVars
<1>3. ASSUME NEW c \in Clients, StartOk(c) PROVE TypeOK'
  BY <1>3 DEF StartOk, Ages, Failures
<1>4. ASSUME NEW c \in Clients, StartFail(c) PROVE TypeOK'
  BY <1>4 DEF StartFail, AcquireFailed, Failures, clientVars
<1>5. ASSUME NEW c \in Clients, Send(c) PROVE TypeOK'
  BY <1>5 DEF Send, slotVars
<1>6. ASSUME NEW c \in Clients, Answer(c) PROVE TypeOK'
  BY <1>6 DEF Answer, slotVars, clientVars
<1>7. ASSUME NEW c \in Clients, RecordOk(c) PROVE TypeOK'
  BY <1>7 DEF RecordOk, clientVars
<1>8. ASSUME NEW c \in Clients, RecordTimeout(c) PROVE TypeOK'
  BY <1>8 DEF RecordTimeout, clientVars
<1>9. ASSUME NEW c \in Clients, RetireCrashed(c) PROVE TypeOK'
  <2>1. CASE Matches(c) /\ resident[lang[c]]
    <3>1. TakeServer(c, lang[c])
      BY <1>9, <2>1 DEF RetireCrashed
    <3>2. /\ timeouts' \in [Languages -> Nat]
          /\ crashes' \in [Languages -> Nat]
          /\ failure' \in [Languages -> Failures]
          /\ UNCHANGED <<age, stable, up, lang, held, resent, sample, todo, stop>>
      BY <1>9, <2>1 DEF RetireCrashed, Failures, clientVars
    <3>3. \E label \in {"stopCrashed", "stopWedged"} : Goto(c, label)
      BY <1>9, <2>1 DEF RetireCrashed
    <3>4. pc' \in [Threads -> {"idle", "gate", "starting", "using", "calling", "ok",
                               "crashed", "timeout", "wedged", "stopCrashed",
                               "stopWedged", "stopOrderly", "resend", "dropped",
                               "sampled", "reclaiming", "scan", "joining",
                               "closing", "exiting", "finished"}]
      BY <3>3
    <3>5. /\ resident' \in [Languages -> BOOLEAN]
          /\ generation' \in [Languages -> Nat]
          /\ inFlight' \in [Languages -> Nat]
          /\ victims' \in [Threads -> SUBSET Servers]
      <4>1. lang[c] \in Languages /\ c \in Threads
        OBVIOUS
      <4> QED
        BY ONLY <3>1, <4>1, TypeOK, TakeServerType
    <3> QED
      BY <3>2, <3>4, <3>5
  <2>2. CASE ~(Matches(c) /\ resident[lang[c]])
    BY <1>9, <2>2 DEF RetireCrashed, AfterCrash, slotVars, clientVars
  <2> QED
    BY <2>1, <2>2
<1>10. ASSUME NEW c \in Clients, RetireOrderly(c) PROVE TypeOK'
  BY <1>10 DEF RetireOrderly, TakeServer, Servers, clientVars
<1>11. ASSUME NEW c \in Clients, Drop(c) PROVE TypeOK'
  BY <1>11 DEF Drop, ReleaseOne, Ages
<1>12. ASSUME NEW t \in Clients \cup {Monitor}, NEW l \in Languages, Peek(t, l) PROVE TypeOK'
  <2>1. \A busy, over \in BOOLEAN :
           [lang |-> l, gen |-> generation[l], busy |-> busy, over |-> over] \in Samples
    BY DEF Samples
  <2>2. sample' \in [Threads -> SUBSET Samples]
    <3>1. \/ UNCHANGED sample
          \/ \E busy, over \in BOOLEAN : sample' = [sample EXCEPT ![t] =
                {[lang |-> l, gen |-> generation[l], busy |-> busy, over |-> over]}]
      BY <1>12 DEF Peek
    <3> QED
      BY <2>1, <3>1, SMTT(60)
  <2>3. todo' \in [{Monitor, Closer} -> SUBSET Languages]
    BY <1>12 DEF Peek
  <2> QED
    BY <1>12, <2>2, <2>3 DEF Peek, AfterReclaim, slotVars, clientVars
<1>13. ASSUME NEW t \in Clients \cup {Monitor}, Reclaim(t) PROVE TypeOK'
  <2>1. PICK s \in sample[t] :
          \/ TakeServer(t, s.lang) /\ Goto(t, "reclaiming")
          \/ /\ Goto(t, AfterReclaim(t))
             /\ UNCHANGED <<resident, generation, inFlight, victims>>
    BY <1>13 DEF Reclaim
  <2>2. s.lang \in Languages
    BY DEF Samples
  <2>3. sample' \in [Threads -> SUBSET Samples]
    BY <1>13 DEF Reclaim
  <2>4. CASE TakeServer(t, s.lang) /\ Goto(t, "reclaiming")
    BY <1>13, <2>2, <2>3, <2>4, TakeServerType DEF Reclaim, clientVars
  <2>5. CASE /\ Goto(t, AfterReclaim(t))
             /\ UNCHANGED <<resident, generation, inFlight, victims>>
    BY <1>13, <2>3, <2>5 DEF Reclaim, AfterReclaim, clientVars
  <2> QED
    BY <2>1, <2>4, <2>5
<1>14. ASSUME NEW t \in Clients \cup {Monitor}, StopVictim(t) PROVE TypeOK'
  BY <1>14 DEF StopVictim, ShutDown, AfterCrash, AfterReclaim, Servers, slotVars, clientVars
<1>15. CASE MonitorStep
  BY <1>15 DEF MonitorStep, MonitorTick, MonitorPassDone, slotVars, clientVars
<1>16. CASE CloseBegin
  BY <1>16 DEF CloseBegin, slotVars, clientVars
<1>17. CASE CloseJoin
  BY <1>17 DEF CloseJoin, slotVars, clientVars
<1>18. ASSUME NEW l \in Languages, CloseTake(l) PROVE TypeOK'
  <2>1. todo' \in [{Monitor, Closer} -> SUBSET Languages]
    BY <1>18 DEF CloseTake
  <2>2. CASE TakeServer(Closer, l)
    BY <1>18, <2>1, <2>2, TakeServerType DEF CloseTake, clientVars
  <2>3. CASE UNCHANGED <<resident, generation, inFlight, victims>>
    BY <1>18, <2>1, <2>3 DEF CloseTake, clientVars
  <2> QED
    BY <1>18, <2>2, <2>3 DEF CloseTake
<1>19. CASE CloseStop
  BY <1>19 DEF CloseStop, ShutDown, Servers, slotVars, clientVars
<1>20. CASE CloseDone
  BY <1>20 DEF CloseDone, slotVars, clientVars
<1>21. ASSUME NEW l \in Languages, EnvStep(l) PROVE TypeOK'
  <2>1. CASE Age(l)
    BY SMTT(90), <2>1 DEF Age, Ages, slotVars, clientVars
  <2>2. CASE Stabilise(l)
    BY SMTT(90), <2>2 DEF Stabilise, slotVars, clientVars
  <2>3. CASE CoolDown(l)
    BY SMTT(90), <2>3 DEF CoolDown, Failures, slotVars, clientVars
  <2>4. CASE ProcessExits(l)
    BY SMTT(90), <2>4 DEF ProcessExits, slotVars, clientVars
  <2> QED
    BY <1>21, <2>1, <2>2, <2>3, <2>4 DEF EnvStep
<1>22. CASE UNCHANGED vars
  BY <1>22 DEF vars, slotVars, clientVars
<1> QED
  BY <1>1, <1>2, <1>3, <1>4, <1>5, <1>6, <1>7, <1>8, <1>9, <1>10, <1>11, <1>12,
     <1>13, <1>14, <1>15, <1>16, <1>17, <1>18, <1>19, <1>20, <1>21, <1>22
     DEF Next, ClientStep, ReclaimStep, CloserStep

\* The type invariant: every field keeps its type through every critical
\* section of pool.rs; in particular in_flight never goes below zero.
THEOREM TypeCorrect == Spec => []TypeOK
  BY TypeInit, TypeStep, PTL DEF Spec

-----------------------------------------------------------------------------
(***************************************************************************)
(* Guards and slots.  A guard never runs ahead of its slot, an empty slot  *)
(* has no guard of its own generation, and a start faces an empty slot.    *)
(***************************************************************************)
EmptyHanded ==
    \A c \in Clients : pc[c] \in {"idle", "dropped", "sampled", "reclaiming"} => held[c] = {}

HeldPast == \A c \in Clients : \A g \in held[c] : g <= generation[lang[c]]

EmptySlotUnheld ==
    \A c \in Clients : ~resident[lang[c]] => generation[lang[c]] \notin held[c]

AwaitsNew ==
    \A c \in Clients : pc[c] \in {"stopCrashed", "resend", "gate", "starting"} =>
        generation[lang[c]] \notin held[c]

StartsOnEmptySlot ==
    \A c \in Clients : pc[c] = "starting" => ~resident[lang[c]]

OneStarter ==
    \A c, d \in Clients :
        pc[c] = "starting" /\ pc[d] = "starting" /\ lang[c] = lang[d] => c = d

GuardInv ==
    /\ EmptyHanded
    /\ HeldPast
    /\ EmptySlotUnheld
    /\ AwaitsNew
    /\ StartsOnEmptySlot
    /\ OneStarter

\* The guard calls go to is the newest: a bound that is attained is the maximum.
LEMMA MaxIsBound ==
    ASSUME NEW S \in SUBSET Nat, NEW g \in S, \A h \in S : h <= g
    PROVE  Max(S) = g
<1>1. \A h \in S : g >= h
  OBVIOUS
<1>2. Max(S) \in S /\ \A h \in S : Max(S) >= h
  BY <1>1 DEF Max
<1>3. Max(S) \in Nat /\ g \in Nat
  BY <1>2
<1>4. Max(S) >= g /\ Max(S) <= g
  BY <1>2
<1> QED
  BY <1>3, <1>4

\* A guard of the slot's generation is the one its client's calls go to.
LEMMA CountedMatches ==
    ASSUME TypeOK, HeldPast, NEW c \in Clients, generation[lang[c]] \in held[c]
    PROVE  Matches(c)
  BY MaxIsBound DEF TypeOK, HeldPast, Matches, Current

\* Once a server has left slot l, every guard on l is of an older generation.
LEMMA TakeLeavesGuardsBehind ==
    ASSUME TypeOK, GuardInv, NEW t \in Threads, NEW l \in Languages, TakeServer(t, l),
           UNCHANGED <<lang, held>>, resident[l]
    PROVE  /\ HeldPast'
           /\ EmptySlotUnheld'
           /\ \A c \in Clients : lang[c] = l => generation'[l] \notin held[c]
           /\ \A c \in Clients : pc[c] = "starting" => lang[c] # l
           /\ \A k \in Languages : k # l => generation'[k] = generation[k] /\ resident'[k] = resident[k]
  BY DEF TypeOK, GuardInv, HeldPast, EmptySlotUnheld, StartsOnEmptySlot, TakeServer

LEMMA GuardInvStep == TypeOK /\ GuardInv /\ [Next]_vars => GuardInv'
<1> SUFFICES ASSUME TypeOK, GuardInv, [Next]_vars PROVE GuardInv'
  OBVIOUS
<1> USE ThreadsAssumption DEF Goto
<1>a. ASSUME NEW t \in Threads, NEW l \in Languages, TakeServer(t, l), resident[l],
             UNCHANGED <<lang, held>>,
             \A c \in Clients :
                \/ pc'[c] = pc[c]
                \/ lang[c] = l /\ pc'[c] \in {"stopCrashed", "stopWedged", "stopOrderly"}
                \/ pc'[c] = "reclaiming" /\ held[c] = {}
      PROVE  GuardInv'
  BY SMTT(90), <1>a, TakeLeavesGuardsBehind
     DEF TypeOK, GuardInv, EmptyHanded, AwaitsNew, StartsOnEmptySlot, OneStarter
<1>1. ASSUME NEW c \in Clients, NEW l \in Languages, Acquire(c, l) PROVE GuardInv'
  BY <1>1 DEF Acquire, CheckOut, slotVars, TypeOK, Threads, GuardInv, EmptyHanded, HeldPast,
     EmptySlotUnheld, AwaitsNew, StartsOnEmptySlot, OneStarter
<1>2. ASSUME NEW c \in Clients, EnterGate(c) PROVE GuardInv'
  <2>1. CASE resident[lang[c]] /\ CheckOut(c, lang[c])
    BY <1>2, <2>1 DEF EnterGate, CheckOut, TypeOK, Threads, GuardInv, EmptyHanded, HeldPast,
       EmptySlotUnheld, AwaitsNew, StartsOnEmptySlot, OneStarter
  <2>2. CASE ~resident[lang[c]]
    <3>1. /\ UNCHANGED <<resident, generation, lang, held>>
          /\ pc' = [pc EXCEPT ![c] = pc'[c]]
          /\ \/ pc'[c] = "starting"
             \/ pc'[c] = "idle" /\ held[c] = {}
             \/ pc'[c] = "using"
      BY <1>2, <2>2 DEF EnterGate, AcquireFailed, slotVars, TypeOK, Threads
    <3>2. \A d \in Clients : ~(pc[d] = "starting" /\ lang[d] = lang[c])
      BY <1>2 DEF EnterGate, GateFree
    <3> QED
      BY <2>2, <3>1, <3>2 DEF TypeOK, Threads, GuardInv, EmptyHanded, HeldPast,
         EmptySlotUnheld, AwaitsNew, StartsOnEmptySlot, OneStarter
  <2> QED
    BY <1>2, <2>1, <2>2 DEF EnterGate
<1>3. ASSUME NEW c \in Clients, StartOk(c) PROVE GuardInv'
  BY <1>3 DEF StartOk, TypeOK, Threads, GuardInv, EmptyHanded, HeldPast,
     EmptySlotUnheld, AwaitsNew, StartsOnEmptySlot, OneStarter
<1>4. ASSUME NEW c \in Clients, StartFail(c) PROVE GuardInv'
  BY <1>4 DEF StartFail, AcquireFailed, clientVars, TypeOK, Threads, GuardInv, EmptyHanded,
     HeldPast, EmptySlotUnheld, AwaitsNew, StartsOnEmptySlot, OneStarter
<1>b. ASSUME UNCHANGED <<resident, generation, lang, held>>,
             \A c \in Clients :
                \/ pc'[c] = pc[c]
                \/ pc'[c] \in {"using", "calling", "ok", "crashed", "timeout", "wedged"}
                \/ held[c] = {} /\ pc'[c] \in {"idle", "sampled"}
                \/ pc'[c] = "resend" /\ generation[lang[c]] \notin held[c]
      PROVE  GuardInv'
  BY <1>b DEF GuardInv, EmptyHanded, HeldPast, EmptySlotUnheld, AwaitsNew, StartsOnEmptySlot, OneStarter
<1>5. ASSUME NEW c \in Clients, Send(c) \/ Answer(c) \/ RecordOk(c) \/ RecordTimeout(c)
      PROVE  GuardInv'
  BY <1>5, <1>b DEF Send, Answer, RecordOk, RecordTimeout, slotVars, clientVars, TypeOK, Threads
<1>6. ASSUME NEW c \in Clients, RetireCrashed(c) PROVE GuardInv'
  <2>1. CASE Matches(c) /\ resident[lang[c]]
    <3>1. TakeServer(c, lang[c]) /\ UNCHANGED <<lang, held>>
      BY <1>6, <2>1 DEF RetireCrashed, clientVars
    <3>2. pc'[c] \in {"stopCrashed", "stopWedged"} /\ \A d \in Clients \ {c} : pc'[d] = pc[d]
      BY <1>6, <2>1 DEF RetireCrashed, TypeOK, Threads
    <3>3. c \in Threads /\ lang[c] \in Languages
      BY DEF TypeOK, Threads
    <3>4. \A d \in Clients :
             \/ pc'[d] = pc[d]
             \/ lang[d] = lang[c] /\ pc'[d] \in {"stopCrashed", "stopWedged", "stopOrderly"}
             \/ pc'[d] = "reclaiming" /\ held[d] = {}
      BY <3>2
    <3> QED
      BY <1>a, <2>1, <3>1, <3>3, <3>4
  <2>2. CASE ~(Matches(c) /\ resident[lang[c]])
    <3>1. generation[lang[c]] \notin held[c]
      BY <2>2, CountedMatches DEF GuardInv, EmptySlotUnheld
    <3>2. /\ UNCHANGED <<resident, generation, lang, held>>
          /\ pc'[c] \in {"using", "resend"}
          /\ \A d \in Clients \ {c} : pc'[d] = pc[d]
      BY <1>6, <2>2 DEF RetireCrashed, AfterCrash, slotVars, clientVars, TypeOK, Threads
    <3> QED
      BY <1>b, <3>1, <3>2
  <2> QED
    BY <2>1, <2>2
<1>7. ASSUME NEW c \in Clients, RetireOrderly(c) PROVE GuardInv'
  <2>1. TakeServer(c, lang[c]) /\ UNCHANGED <<lang, held>> /\ resident[lang[c]]
    BY <1>7 DEF RetireOrderly, clientVars
  <2>2. c \in Threads /\ lang[c] \in Languages
    BY DEF TypeOK, Threads
  <2>3. \A d \in Clients :
           \/ pc'[d] = pc[d]
           \/ lang[d] = lang[c] /\ pc'[d] \in {"stopCrashed", "stopWedged", "stopOrderly"}
           \/ pc'[d] = "reclaiming" /\ held[d] = {}
    BY <1>7 DEF RetireOrderly, TypeOK, Threads
  <2> QED
    BY <1>a, <2>1, <2>2, <2>3
<1>8. ASSUME NEW c \in Clients, Drop(c) PROVE GuardInv'
  BY SMTT(90), <1>8 DEF Drop, TypeOK, Threads, GuardInv, EmptyHanded, HeldPast, EmptySlotUnheld,
     AwaitsNew, StartsOnEmptySlot, OneStarter
<1>9. ASSUME NEW t \in Clients \cup {Monitor}, NEW l \in Languages, Peek(t, l) PROVE GuardInv'
  <2>1. UNCHANGED <<resident, generation, lang, held>>
    BY <1>9 DEF Peek, slotVars, clientVars
  <2>2. \A c \in Clients : pc'[c] = pc[c] \/ (held[c] = {} /\ pc'[c] \in {"idle", "sampled"})
    BY <1>9 DEF Peek, AfterReclaim, TypeOK, Threads, GuardInv, EmptyHanded
  <2> QED
    BY <1>b, <2>1, <2>2
<1>10. ASSUME NEW t \in Clients \cup {Monitor}, Reclaim(t) PROVE GuardInv'
  <2>1. PICK s \in sample[t] :
          \/ StillReclaimable(s) /\ TakeServer(t, s.lang) /\ Goto(t, "reclaiming")
          \/ Goto(t, AfterReclaim(t)) /\ UNCHANGED <<resident, generation, inFlight, victims>>
    BY <1>10 DEF Reclaim
  <2>2. UNCHANGED <<lang, held>> /\ s.lang \in Languages /\ t \in Threads
    BY <1>10 DEF Reclaim, clientVars, TypeOK, Samples, Threads
  <2>3. t \in Clients => held[t] = {}
    BY <1>10 DEF Reclaim, GuardInv, EmptyHanded
  <2>4. CASE StillReclaimable(s) /\ TakeServer(t, s.lang) /\ Goto(t, "reclaiming")
    <3>1. resident[s.lang]
      BY <2>4 DEF StillReclaimable
    <3>2. \A c \in Clients : pc'[c] = pc[c] \/ (pc'[c] = "reclaiming" /\ held[c] = {})
      <4>1. pc'[t] = "reclaiming"
        BY <2>2, <2>4 DEF TypeOK
      <4>2. \A c \in Clients : c # t => pc'[c] = pc[c]
        BY <2>4 DEF TypeOK, Threads
      <4> QED
        BY <2>3, <4>1, <4>2
    <3> QED
      BY <1>a, <2>2, <2>4, <3>1, <3>2
  <2>5. CASE Goto(t, AfterReclaim(t)) /\ UNCHANGED <<resident, generation, inFlight, victims>>
    <3>1. \A c \in Clients : pc'[c] = pc[c] \/ (pc'[c] = "idle" /\ held[c] = {})
      <4>1. t \in Clients => pc'[t] = "idle"
        BY <2>2, <2>5 DEF AfterReclaim, TypeOK
      <4>2. \A c \in Clients : c # t => pc'[c] = pc[c]
        BY <2>5 DEF TypeOK, Threads
      <4> QED
        BY <2>3, <4>1, <4>2
    <3> QED
      BY <1>b, <2>2, <2>5, <3>1
  <2> QED
    BY <2>1, <2>4, <2>5
<1>11. ASSUME NEW t \in Clients \cup {Monitor}, StopVictim(t) PROVE GuardInv'
  <2>1. UNCHANGED <<resident, generation, lang, held>>
    BY <1>11 DEF StopVictim, slotVars, clientVars
  <2>2. \A c \in Clients : c # t => pc'[c] = pc[c]
    BY <1>11 DEF StopVictim, TypeOK, Threads
  <2>3. t \in Clients =>
          \/ pc'[t] = "using"
          \/ held[t] = {} /\ pc'[t] = "idle"
          \/ pc'[t] = "resend" /\ generation[lang[t]] \notin held[t]
    BY <1>11 DEF StopVictim, AfterCrash, AfterReclaim, TypeOK, Threads, GuardInv, EmptyHanded, AwaitsNew
  <2> QED
    BY <1>b, <2>1, <2>2, <2>3
<1>12. ASSUME MonitorStep \/ CloseBegin \/ CloseJoin \/ CloseStop \/ CloseDone PROVE GuardInv'
  <2>1. UNCHANGED <<resident, generation, lang, held>>
    BY <1>12 DEF MonitorStep, MonitorTick, MonitorPassDone, CloseBegin, CloseJoin, CloseStop,
       CloseDone, slotVars, clientVars
  <2>2. \A c \in Clients : pc'[c] = pc[c]
    BY <1>12 DEF MonitorStep, MonitorTick, MonitorPassDone, CloseBegin, CloseJoin, CloseStop,
       CloseDone, TypeOK, Threads
  <2> QED
    BY <1>b, <2>1, <2>2
<1>13. ASSUME NEW l \in Languages, CloseTake(l) PROVE GuardInv'
  <2>1. UNCHANGED <<lang, held, pc>> /\ Closer \in Threads
    BY <1>13 DEF CloseTake, clientVars, Threads
  <2>2. CASE resident[l] /\ TakeServer(Closer, l)
    <3>1. \A c \in Clients : pc'[c] = pc[c]
      BY <2>1
    <3> QED
      BY <1>a, <2>1, <2>2, <3>1
  <2>3. CASE UNCHANGED <<resident, generation, inFlight, victims>>
    BY <1>b, <2>1, <2>3
  <2> QED
    BY <1>13, <2>2, <2>3 DEF CloseTake
<1>14. ASSUME NEW l \in Languages, EnvStep(l) PROVE GuardInv'
  BY <1>14, <1>b DEF EnvStep, Age, Stabilise, CoolDown, ProcessExits, slotVars, clientVars
<1>15. CASE UNCHANGED vars
  BY <1>15, <1>b DEF vars, slotVars, clientVars
<1> QED
  BY <1>1, <1>2, <1>3, <1>4, <1>5, <1>6, <1>7, <1>8, <1>9, <1>10, <1>11, <1>12, <1>13, <1>14, <1>15
     DEF Next, ClientStep, ReclaimStep, CloserStep
-----------------------------------------------------------------------------
(* The in-flight count is the number of guards on the slot's server. *)

LEMMA HoldersFinite == \A l : IsFiniteSet(GuardHolders(l))
<1> SUFFICES ASSUME NEW l PROVE IsFiniteSet(GuardHolders(l))
  OBVIOUS
<1>1. GuardHolders(l) \in SUBSET Clients
  BY DEF GuardHolders
<1> QED
  BY <1>1, ClientsAssumption, FS_Subset

\* A step that changes neither guards, counts nor generations keeps the count.
LEMMA CountsKept ==
    ASSUME GuardsCounted, inFlight' = inFlight,
           \A l \in Languages : GuardHolders(l)' = GuardHolders(l)
    PROVE  GuardsCounted'
  BY DEF GuardsCounted

\* Minting a guard and counting it are the same critical section.
LEMMA CheckOutCounts ==
    ASSUME TypeOK, GuardsCounted, NEW c \in Clients, NEW l \in Languages, CheckOut(c, l),
           lang' = [lang EXCEPT ![c] = l],
           held[c] = {} \/ lang[c] = l,
           generation[l] \notin held[c]
    PROVE  GuardsCounted'
<1>1. \A k \in Languages \ {l} : GuardHolders(k)' = GuardHolders(k) /\ inFlight'[k] = inFlight[k]
  BY DEF CheckOut, GuardHolders, TypeOK
<1>2. GuardHolders(l)' = GuardHolders(l) \cup {c} /\ c \notin GuardHolders(l)
  BY DEF CheckOut, GuardHolders, TypeOK
<1>3. inFlight'[l] = inFlight[l] + 1
  BY DEF CheckOut, TypeOK
<1>4. Cardinality(GuardHolders(l)') = Cardinality(GuardHolders(l)) + 1
  BY <1>2, HoldersFinite, FS_AddElement
<1> QED
  BY <1>1, <1>3, <1>4 DEF GuardsCounted

\* A slot whose server is taken starts its next generation with no guard.
LEMMA TakeCounts ==
    ASSUME TypeOK, HeldPast, GuardsCounted, NEW t, NEW l \in Languages, TakeServer(t, l),
           UNCHANGED <<lang, held>>
    PROVE  GuardsCounted'
<1>1. \A k \in Languages \ {l} : GuardHolders(k)' = GuardHolders(k) /\ inFlight'[k] = inFlight[k]
  BY DEF TakeServer, GuardHolders, TypeOK
<1>2. GuardHolders(l)' = {}
  <2> SUFFICES ASSUME NEW c \in Clients, lang[c] = l, generation'[l] \in held[c] PROVE FALSE
    BY DEF GuardHolders
  <2>1. generation'[l] = generation[l] + 1 /\ generation[l] \in Nat
    BY DEF TakeServer, TypeOK
  <2>2. generation'[l] <= generation[l]
    BY DEF HeldPast
  <2> QED
    BY <2>1, <2>2
<1>3. inFlight'[l] = 0
  BY DEF TakeServer, TypeOK
<1> QED
  BY <1>1, <1>2, <1>3, FS_EmptySet DEF GuardsCounted

LEMMA GuardsCountedStep ==
    TypeOK /\ GuardInv /\ GuardsCounted /\ [Next]_vars => GuardsCounted'
<1> SUFFICES ASSUME TypeOK, GuardInv, GuardsCounted, [Next]_vars PROVE GuardsCounted'
  OBVIOUS
<1>a. ASSUME UNCHANGED <<generation, inFlight, lang, held>> PROVE GuardsCounted'
  BY <1>a, CountsKept DEF GuardHolders
<1>1. ASSUME NEW c \in Clients, NEW l \in Languages, Acquire(c, l) PROVE GuardsCounted'
  <2>1. /\ lang' = [lang EXCEPT ![c] = l]
        /\ held[c] = {} \/ lang[c] = l
        /\ generation[l] \notin held[c]
    BY <1>1 DEF Acquire, GuardInv, EmptyHanded, AwaitsNew
  <2>2. CASE CheckOut(c, l)
    BY <2>1, <2>2, CheckOutCounts
  <2>3. CASE UNCHANGED <<slotVars, held>>
    <3>1. \A k \in Languages : GuardHolders(k)' = GuardHolders(k)
      BY <2>1, <2>3 DEF GuardHolders, slotVars, TypeOK
    <3> QED
      BY <2>3, <3>1, CountsKept DEF slotVars
  <2> QED
    BY <1>1, <2>2, <2>3 DEF Acquire
<1>2. ASSUME NEW c \in Clients, EnterGate(c) PROVE GuardsCounted'
  <2>1. CASE CheckOut(c, lang[c])
    <3>1. lang' = [lang EXCEPT ![c] = lang[c]] /\ lang[c] \in Languages
      BY <1>2 DEF EnterGate, TypeOK
    <3>2. generation[lang[c]] \notin held[c]
      BY <1>2 DEF EnterGate, GuardInv, AwaitsNew
    <3> QED
      BY <2>1, <3>1, <3>2, CheckOutCounts
  <2>2. CASE UNCHANGED <<slotVars, held>>
    BY <1>2, <2>2, <1>a DEF EnterGate, slotVars
  <2> QED
    BY <1>2, <2>1, <2>2 DEF EnterGate
<1>3. ASSUME NEW c \in Clients, StartOk(c) PROVE GuardsCounted'
  <2>0. PICK l \in Languages : l = lang[c]
    BY DEF TypeOK
  <2>1. generation[l] \in Nat /\ generation'[l] = generation[l] + 1
    BY <1>3, <2>0 DEF StartOk, TypeOK
  <2>2. \A k \in Languages \ {l} : GuardHolders(k)' = GuardHolders(k) /\ inFlight'[k] = inFlight[k]
    BY <1>3, <2>0 DEF StartOk, GuardHolders, TypeOK
  <2>3. GuardHolders(l)' = {c}
    <3>1. \A d \in Clients : lang[d] = l => generation[l] + 1 \notin held[d]
      BY <2>1 DEF GuardInv, HeldPast
    <3>2. /\ lang' = lang
          /\ held'[c] = held[c] \cup {generation[l] + 1}
          /\ \A d \in Clients \ {c} : held'[d] = held[d]
      BY <1>3, <2>0 DEF StartOk, TypeOK
    <3> QED
      BY <2>0, <2>1, <3>1, <3>2 DEF GuardHolders
  <2>4. inFlight'[l] = 1
    BY <1>3, <2>0, <2>1 DEF StartOk, TypeOK
  <2>5. inFlight'[l] = Cardinality(GuardHolders(l)')
    BY <2>3, <2>4, FS_Singleton
  <2> QED
    BY <2>2, <2>5 DEF GuardsCounted
<1>4. ASSUME NEW c \in Clients,
             StartFail(c) \/ Send(c) \/ Answer(c) \/ RecordOk(c) \/ RecordTimeout(c)
      PROVE  GuardsCounted'
  BY <1>4, <1>a DEF StartFail, Send, Answer, RecordOk, RecordTimeout, slotVars, clientVars
<1>5. ASSUME NEW c \in Clients, RetireCrashed(c) PROVE GuardsCounted'
  <2>1. UNCHANGED <<lang, held>> /\ lang[c] \in Languages
    BY <1>5 DEF RetireCrashed, clientVars, TypeOK
  <2>2. CASE TakeServer(c, lang[c])
    BY <2>1, <2>2, TakeCounts DEF GuardInv
  <2>3. CASE UNCHANGED slotVars
    BY <2>1, <2>3, <1>a DEF slotVars
  <2> QED
    BY <1>5, <2>2, <2>3 DEF RetireCrashed
<1>6. ASSUME NEW c \in Clients, RetireOrderly(c) PROVE GuardsCounted'
  <2>1. UNCHANGED <<lang, held>> /\ lang[c] \in Languages /\ TakeServer(c, lang[c])
    BY <1>6 DEF RetireOrderly, clientVars, TypeOK
  <2> QED
    BY <2>1, TakeCounts DEF GuardInv
<1>7. ASSUME NEW c \in Clients, Drop(c) PROVE GuardsCounted'
  <2>0. PICK l \in Languages : l = lang[c]
    BY DEF TypeOK
  <2>1. inFlight[l] \in Nat
    BY DEF TypeOK
  <2>2. /\ UNCHANGED <<generation, lang>>
        /\ held'[c] = {}
        /\ \A d \in Clients \ {c} : held'[d] = held[d]
    BY <1>7 DEF Drop, TypeOK
  <2>3. CASE Counted(c)
    <3>1. /\ inFlight'[l] = ReleaseOne(inFlight[l])
          /\ \A k \in Languages \ {l} : inFlight'[k] = inFlight[k]
      BY <1>7, <2>0, <2>3 DEF Drop, TypeOK
    <3>2. /\ GuardHolders(l)' = GuardHolders(l) \ {c}
          /\ c \in GuardHolders(l)
          /\ \A k \in Languages \ {l} : GuardHolders(k)' = GuardHolders(k)
      BY <2>0, <2>2, <2>3 DEF GuardHolders, Counted
    <3>3. /\ Cardinality(GuardHolders(l)') = Cardinality(GuardHolders(l)) - 1
          /\ Cardinality(GuardHolders(l)') \in Nat
      BY <3>2, HoldersFinite, FS_RemoveElement, FS_CardinalityType
    <3>4. inFlight'[l] = Cardinality(GuardHolders(l)')
      BY <2>1, <3>1, <3>3 DEF ReleaseOne, GuardsCounted
    <3> QED
      BY <3>1, <3>2, <3>4 DEF GuardsCounted
  <2>4. CASE ~Counted(c)
    <3>1. UNCHANGED inFlight
      BY <1>7, <2>4 DEF Drop
    <3>2. \A k \in Languages : GuardHolders(k)' = GuardHolders(k)
      BY <2>2, <2>4 DEF GuardHolders, Counted
    <3> QED
      BY <3>1, <3>2, CountsKept
  <2> QED
    BY <2>3, <2>4
<1>8. ASSUME NEW t \in Clients \cup {Monitor}, StopVictim(t) \/ \E l \in Languages : Peek(t, l)
      PROVE  GuardsCounted'
  BY <1>8, <1>a DEF Peek, StopVictim, slotVars, clientVars
<1>9. ASSUME NEW t \in Clients \cup {Monitor}, Reclaim(t) PROVE GuardsCounted'
  <2>1. UNCHANGED <<lang, held>>
    BY <1>9 DEF Reclaim, clientVars
  <2>2. PICK s \in sample[t] :
          \/ TakeServer(t, s.lang)
          \/ UNCHANGED <<resident, generation, inFlight, victims>>
    BY <1>9 DEF Reclaim
  <2>3. s.lang \in Languages
    BY <1>9 DEF TypeOK, Samples, Threads
  <2>4. CASE TakeServer(t, s.lang)
    BY <2>1, <2>3, <2>4, TakeCounts DEF GuardInv
  <2>5. CASE UNCHANGED <<resident, generation, inFlight, victims>>
    BY <2>1, <2>5, <1>a
  <2> QED
    BY <2>2, <2>4, <2>5
<1>10. ASSUME MonitorStep \/ CloseBegin \/ CloseJoin \/ CloseStop \/ CloseDone
       PROVE  GuardsCounted'
  BY <1>10, <1>a DEF MonitorStep, MonitorTick, MonitorPassDone, CloseBegin, CloseJoin,
     CloseStop, CloseDone, slotVars, clientVars
<1>11. ASSUME NEW l \in Languages, CloseTake(l) PROVE GuardsCounted'
  <2>1. UNCHANGED <<lang, held>>
    BY <1>11 DEF CloseTake, clientVars
  <2>2. CASE TakeServer(Closer, l)
    BY <2>1, <2>2, TakeCounts DEF GuardInv
  <2>3. CASE UNCHANGED <<resident, generation, inFlight, victims>>
    BY <2>1, <2>3, <1>a
  <2> QED
    BY <1>11, <2>2, <2>3 DEF CloseTake
<1>12. ASSUME NEW l \in Languages, EnvStep(l) PROVE GuardsCounted'
  BY <1>12, <1>a DEF EnvStep, Age, Stabilise, CoolDown, ProcessExits, slotVars, clientVars
<1>13. CASE UNCHANGED vars
  BY <1>13, <1>a DEF vars, slotVars, clientVars
<1> QED
  BY <1>1, <1>2, <1>3, <1>4, <1>5, <1>6, <1>7, <1>8, <1>9, <1>10, <1>11, <1>12, <1>13
     DEF Next, ClientStep, ReclaimStep, CloserStep

-----------------------------------------------------------------------------
(***************************************************************************)
(* Guard chains.  Whoever is in a call holds a guard, and the guards of a  *)
(* chain have a newest one: the guard Current picks is really held.        *)
(***************************************************************************)
InCall == {"using", "calling", "ok", "crashed", "timeout", "wedged", "stopCrashed",
           "stopWedged", "stopOrderly", "resend"}

ChainInv ==
    \A c \in Clients :
        /\ pc[c] \in InCall => held[c] # {}
        /\ held[c] # {} => \E g \in held[c] : \A h \in held[c] : h <= g

LEMMA CurrentHeld ==
    ASSUME TypeOK, ChainInv, NEW c \in Clients, held[c] # {}
    PROVE  Current(c) \in held[c]
<1>1. PICK g \in held[c] : \A h \in held[c] : h <= g
  BY DEF ChainInv
<1>2. held[c] \in SUBSET Nat
  BY DEF TypeOK
<1> QED
  BY <1>1, <1>2, MaxIsBound DEF Current

LEMMA ChainInvStep == TypeOK /\ GuardInv /\ ChainInv /\ [Next]_vars => ChainInv'
<1> SUFFICES ASSUME TypeOK, GuardInv, ChainInv, [Next]_vars PROVE ChainInv'
  OBVIOUS
<1> USE ThreadsAssumption DEF Goto
\* Nobody's guards change, and nobody without guards enters a call.
<1>a. ASSUME UNCHANGED held,
             \A c \in Clients : (pc'[c] = pc[c]) \/ held[c] # {} \/ pc'[c] \notin InCall
      PROVE  ChainInv'
  BY <1>a DEF ChainInv
\* A client adds a guard that is newer than those it holds.
<1>b. ASSUME NEW c \in Clients, NEW g \in Nat, \A h \in held[c] : h <= g,
             held' = [held EXCEPT ![c] = @ \cup {g}],
             \A d \in Clients \ {c} : pc'[d] = pc[d]
      PROVE  ChainInv'
  <2>1. held'[c] = held[c] \cup {g} /\ \A d \in Clients \ {c} : held'[d] = held[d]
    BY <1>b DEF TypeOK
  <2>2. \A h \in held'[c] : h <= g
    BY <1>b, <2>1
  <2> QED
    BY <1>b, <2>1, <2>2 DEF ChainInv
<1>c. ASSUME NEW c \in Clients, NEW l \in Languages, CheckOut(c, l), held[c] = {} \/ lang[c] = l
      PROVE  ChainInv'
  <2>1. generation[l] \in Nat /\ \A h \in held[c] : h <= generation[l]
    BY <1>c DEF TypeOK, GuardInv, HeldPast
  <2>2. \A d \in Clients \ {c} : pc'[d] = pc[d]
    BY <1>c DEF CheckOut, TypeOK, Threads
  <2> QED
    BY <1>b, <1>c, <2>1, <2>2 DEF CheckOut
<1>1. ASSUME NEW c \in Clients, NEW l \in Languages, Acquire(c, l) PROVE ChainInv'
  <2>1. held[c] = {} \/ lang[c] = l
    BY <1>1 DEF Acquire, GuardInv, EmptyHanded
  <2>2. CASE CheckOut(c, l)
    BY <1>c, <2>1, <2>2
  <2>3. CASE Goto(c, "gate") /\ UNCHANGED <<slotVars, held>>
    BY <1>a, <2>3 DEF TypeOK, Threads, InCall
  <2> QED
    BY <1>1, <2>2, <2>3 DEF Acquire
<1>2. ASSUME NEW c \in Clients, EnterGate(c) PROVE ChainInv'
  <2>1. CASE CheckOut(c, lang[c])
    BY <1>c, <2>1 DEF TypeOK
  <2>2. CASE /\ UNCHANGED <<slotVars, held>>
             /\ IF Cooling(lang[c]) THEN AcquireFailed(c) ELSE Goto(c, "starting")
    <3>1. (held[c] # {} \/ pc'[c] \notin InCall) /\ \A d \in Clients \ {c} : pc'[d] = pc[d]
      BY <2>2 DEF AcquireFailed, TypeOK, Threads, InCall
    <3> QED
      BY <1>a, <2>2, <3>1
  <2> QED
    BY <1>2, <2>1, <2>2 DEF EnterGate
<1>3. ASSUME NEW c \in Clients, StartOk(c) PROVE ChainInv'
  <2>1. generation[lang[c]] + 1 \in Nat /\ \A h \in held[c] : h <= generation[lang[c]] + 1
    BY DEF TypeOK, GuardInv, HeldPast
  <2>2. \A d \in Clients \ {c} : pc'[d] = pc[d]
    BY <1>3 DEF StartOk, TypeOK, Threads
  <2> QED
    BY <1>3, <1>b, <2>1, <2>2 DEF StartOk
<1>4. ASSUME NEW c \in Clients, StartFail(c) PROVE ChainInv'
  <2>1. (held[c] # {} \/ pc'[c] \notin InCall) /\ \A d \in Clients \ {c} : pc'[d] = pc[d]
    BY <1>4 DEF StartFail, AcquireFailed, TypeOK, Threads, InCall
  <2> QED
    BY <1>4, <1>a, <2>1 DEF StartFail, clientVars
<1>5. ASSUME NEW c \in Clients,
             \/ Send(c) \/ Answer(c) \/ RecordOk(c) \/ RecordTimeout(c)
             \/ RetireCrashed(c) \/ RetireOrderly(c)
      PROVE  ChainInv'
  <2>1. held[c] # {}
    BY <1>5 DEF Send, Answer, RecordOk, RecordTimeout, RetireCrashed, RetireOrderly, ChainInv, InCall
  <2>2. UNCHANGED held /\ \A d \in Clients \ {c} : pc'[d] = pc[d]
    BY <1>5 DEF Send, Answer, RecordOk, RecordTimeout, RetireCrashed, RetireOrderly, clientVars,
       TypeOK, Threads
  <2> QED
    BY <1>a, <2>1, <2>2
<1>6. ASSUME NEW c \in Clients, Drop(c) PROVE ChainInv'
  <2>1. /\ held'[c] = {} /\ pc'[c] \notin InCall
        /\ \A d \in Clients \ {c} : held'[d] = held[d] /\ pc'[d] = pc[d]
    BY <1>6 DEF Drop, TypeOK, Threads, InCall
  <2> QED
    BY <2>1 DEF ChainInv
<1>7. ASSUME NEW t \in Clients \cup {Monitor}, (\E l \in Languages : Peek(t, l)) \/ Reclaim(t)
      PROVE  ChainInv'
  <2>1. \A c \in Clients : pc'[c] = pc[c] \/ pc'[c] \notin InCall
    BY ZenonT(90), <1>7 DEF Peek, Reclaim, AfterReclaim, TypeOK, Threads, InCall
  <2> QED
    BY <1>7, <1>a, <2>1 DEF Peek, Reclaim, clientVars
<1>8. ASSUME NEW t \in Clients \cup {Monitor}, StopVictim(t) PROVE ChainInv'
  <2>1. \A c \in Clients : (pc'[c] = pc[c]) \/ held[c] # {} \/ pc'[c] \notin InCall
    <3>1. \A c \in Clients \ {t} : pc'[c] = pc[c]
      BY <1>8 DEF StopVictim, TypeOK, Threads
    <3>2. CASE t \in Clients /\ pc[t] = "reclaiming"
      BY <1>8, <3>1, <3>2 DEF StopVictim, AfterReclaim, TypeOK, Threads, InCall
    <3>3. CASE t \in Clients /\ pc[t] \in {"stopCrashed", "stopWedged", "stopOrderly"}
      BY <3>1, <3>3 DEF ChainInv, InCall
    <3> QED
      BY <1>8, <3>1, <3>2, <3>3 DEF StopVictim
  <2> QED
    BY <1>8, <1>a, <2>1 DEF StopVictim, clientVars
<1>9. ASSUME MonitorStep \/ CloserStep PROVE ChainInv'
  <2>1. \A c \in Clients : pc'[c] = pc[c]
    BY <1>9 DEF MonitorStep, MonitorTick, MonitorPassDone, CloserStep, CloseBegin, CloseJoin,
       CloseTake, CloseStop, CloseDone, TypeOK, Threads
  <2> QED
    BY <1>9, <1>a, <2>1 DEF MonitorStep, MonitorTick, MonitorPassDone, CloserStep, CloseBegin,
       CloseJoin, CloseTake, CloseStop, CloseDone, clientVars
<1>10. ASSUME NEW l \in Languages, EnvStep(l) PROVE ChainInv'
  BY <1>10, <1>a DEF EnvStep, Age, Stabilise, CoolDown, ProcessExits, clientVars
<1>11. CASE UNCHANGED vars
  BY <1>11, <1>a DEF vars, clientVars
<1> QED
  BY <1>1, <1>2, <1>3, <1>4, <1>5, <1>6, <1>7, <1>8, <1>9, <1>10, <1>11
     DEF Next, ClientStep, ReclaimStep

-----------------------------------------------------------------------------
(***************************************************************************)
(* Victims: the servers threads have taken out of their slots.  They are   *)
(* of past generations, so no checkout can reach one, and a query or the   *)
(* monitor has one only between the take and the end of the shutdown.      *)
(***************************************************************************)
Stopping == {"stopCrashed", "stopWedged", "stopOrderly", "reclaiming"}

VictimsPast ==
    \A t \in Threads : \A v \in victims[t] : v[2] < generation[v[1]]

VictimsOfStoppers ==
    \A t \in Clients \cup {Monitor} : pc[t] \notin Stopping => victims[t] = {}

OneVictim ==
    \A t \in Clients \cup {Monitor} : \A v, w \in victims[t] : v = w

CloserPc == pc[Closer] \in {"idle", "joining", "closing", "exiting", "finished"}

VictimInv ==
    /\ VictimsPast
    /\ VictimsOfStoppers
    /\ OneVictim
    /\ CloserPc
    /\ ReclaimSparesHeld
    /\ RetiresOnlyItsOwn

LEMMA VictimInvStep ==
    TypeOK /\ GuardInv /\ GuardsCounted /\ ChainInv /\ VictimInv /\ [Next]_vars => VictimInv'
<1> SUFFICES ASSUME TypeOK, GuardInv, GuardsCounted, ChainInv, VictimInv, [Next]_vars
             PROVE  VictimInv'
  OBVIOUS
<1> USE ThreadsAssumption DEF Goto
\* No server is taken; guards are added to present servers or dropped.
<1>a. ASSUME UNCHANGED victims,
             \A l \in Languages : generation[l] <= generation'[l],
             \A t \in Threads : pc'[t] = pc[t] \/ (t # Closer /\ {pc[t], pc'[t]} \cap Stopping = {}),
             \A c \in Clients :
                \/ /\ lang'[c] = lang[c]
                   /\ \A h \in held'[c] : h \in held[c] \/ h >= generation[lang[c]]
                   /\ held[c] \subseteq held'[c] \/ pc[c] \notin Stopping
                \/ /\ pc[c] \notin Stopping
                   /\ lang'[c] \in Languages
                   /\ \A h \in held'[c] : h >= generation[lang'[c]]
      PROVE  VictimInv'
  <2>0. \A t \in Threads : \A v \in victims[t] :
          /\ v[1] \in Languages /\ v[2] \in Nat
          /\ generation[v[1]] \in Nat
          /\ v[2] < generation[v[1]]
    BY DEF TypeOK, Servers, VictimInv, VictimsPast
  <2>1. VictimsPast'
    <3> SUFFICES ASSUME NEW t \in Threads, NEW v \in victims'[t] PROVE v[2] < generation'[v[1]]
      BY DEF VictimsPast
    <3>1. v[1] \in Languages /\ v[2] < generation[v[1]]
      BY <1>a, <2>0
    <3>2. generation[v[1]] <= generation'[v[1]] /\ generation[v[1]] \in Nat /\ v[2] \in Nat
      BY <1>a, <2>0
    <3>3. generation'[v[1]] \in Nat
      BY <3>1, TypeStep DEF TypeOK
    <3> QED
      BY <3>1, <3>2, <3>3
  <2>2. VictimsOfStoppers' /\ OneVictim' /\ CloserPc'
    <3>1. \A t \in Clients \cup {Monitor} : pc'[t] \notin Stopping => victims'[t] = {}
      BY <1>a DEF VictimInv, VictimsOfStoppers, Threads
    <3>2. pc'[Closer] = pc[Closer]
      BY <1>a DEF Threads
    <3> QED
      BY <1>a, <3>1, <3>2 DEF VictimInv, VictimsOfStoppers, OneVictim, CloserPc
  <2>3. ReclaimSparesHeld'
    <3> SUFFICES ASSUME NEW t \in Threads, pc'[t] = "reclaiming", NEW v \in victims'[t],
                        NEW c \in Clients, lang'[c] = v[1], v[2] \in held'[c]
                 PROVE  FALSE
      BY DEF ReclaimSparesHeld
    <3>1. pc[t] = "reclaiming" /\ v \in victims[t]
      BY <1>a DEF Stopping
    <3>2. lang[c] = v[1] => v[2] \notin held[c]
      BY <3>1 DEF VictimInv, ReclaimSparesHeld
    <3> QED
      BY <1>a, <2>0, <3>1, <3>2
  <2>4. RetiresOnlyItsOwn'
    <3> SUFFICES ASSUME NEW c \in Clients, pc'[c] \in {"stopCrashed", "stopWedged", "stopOrderly"},
                        NEW v \in victims'[c]
                 PROVE  v[1] = lang'[c] /\ v[2] \in held'[c]
      BY DEF RetiresOnlyItsOwn
    <3>1. pc[c] = pc'[c] /\ pc[c] \in Stopping /\ v \in victims[c]
      BY <1>a DEF Stopping, Threads
    <3>2. v[1] = lang[c] /\ v[2] \in held[c]
      BY <3>1 DEF VictimInv, RetiresOnlyItsOwn
    <3> QED
      BY <1>a, <3>1, <3>2
  <2> QED
    BY <2>1, <2>2, <2>3, <2>4 DEF VictimInv
\* A server is taken, by a reclaimer nobody's guard contradicts, by a holder, or
\* by the closer.
<1>b. ASSUME NEW t \in Threads, NEW l \in Languages, TakeServer(t, l),
             UNCHANGED <<lang, held>>,
             \A u \in Threads \ {t} : pc'[u] = pc[u],
             \/ t = Closer /\ pc'[t] = pc[t]
             \/ /\ t \in Clients \cup {Monitor} /\ victims[t] = {} /\ pc'[t] = "reclaiming"
                /\ \A c \in Clients : lang[c] = l => generation[l] \notin held[c]
             \/ /\ t \in Clients /\ victims[t] = {}
                /\ pc'[t] \in {"stopCrashed", "stopWedged", "stopOrderly"}
                /\ lang[t] = l /\ generation[l] \in held[t]
      PROVE  VictimInv'
  <2>1. /\ victims'[t] = victims[t] \cup {<<l, generation[l]>>}
        /\ \A u \in Threads \ {t} : victims'[u] = victims[u]
    BY <1>b DEF TakeServer, TypeOK
  <2>2. /\ generation'[l] = generation[l] + 1 /\ generation[l] \in Nat
        /\ \A k \in Languages \ {l} : generation'[k] = generation[k]
    BY <1>b DEF TakeServer, TypeOK
  <2>3. VictimsPast'
    <3>1. \A u \in Threads : \A v \in victims[u] : v[2] < generation'[v[1]]
      BY <2>2 DEF VictimInv, VictimsPast, TypeOK, Servers
    <3> QED
      BY <2>1, <2>2, <3>1 DEF VictimsPast
  <2>4. VictimsOfStoppers' /\ OneVictim' /\ CloserPc'
    BY <1>b, <2>1 DEF VictimInv, VictimsOfStoppers, OneVictim, CloserPc, Stopping, Threads
  <2>5. ReclaimSparesHeld'
    BY <1>b, <2>1 DEF VictimInv, ReclaimSparesHeld, CloserPc, Threads
  <2>6. RetiresOnlyItsOwn'
    BY <1>b, <2>1 DEF VictimInv, RetiresOnlyItsOwn, Threads
  <2> QED
    BY <2>3, <2>4, <2>5, <2>6 DEF VictimInv
\* A victim is shut down.
<1>c. ASSUME NEW t \in Threads, NEW v \in victims[t], ShutDown(t, v),
             UNCHANGED <<generation, lang, held>>,
             \A u \in Threads \ {t} : pc'[u] = pc[u],
             \/ t = Closer /\ pc'[t] = pc[t]
             \/ t # Closer /\ victims'[t] = {} /\ pc'[t] \notin Stopping
      PROVE  VictimInv'
  <2>1. \A u \in Threads : victims'[u] \subseteq victims[u]
    BY <1>c DEF ShutDown, TypeOK
  <2>2. \A u \in Threads \ {t} : victims'[u] = victims[u]
    BY <1>c DEF ShutDown, TypeOK
  <2>3. VictimsPast'
    BY <1>c, <2>1 DEF VictimInv, VictimsPast
  <2>4. VictimsOfStoppers' /\ OneVictim' /\ CloserPc'
    BY <1>c, <2>1, <2>2 DEF VictimInv, VictimsOfStoppers, OneVictim, CloserPc, Threads
  <2>5. ReclaimSparesHeld' /\ RetiresOnlyItsOwn'
    BY <1>c, <2>1, <2>2 DEF VictimInv, ReclaimSparesHeld, RetiresOnlyItsOwn, Stopping, Threads, CloserPc
  <2> QED
    BY <2>3, <2>4, <2>5 DEF VictimInv
\* Nothing the invariant speaks of changes, and pc moves outside Stopping.
<1>d. ASSUME UNCHANGED <<victims, generation, lang, held>>,
             \A t \in Threads : pc'[t] = pc[t] \/ (t # Closer /\ {pc[t], pc'[t]} \cap Stopping = {})
      PROVE  VictimInv'
  <2>1. \A l \in Languages : generation[l] <= generation'[l]
    BY <1>d DEF TypeOK
  <2> QED
    BY <1>a, <1>d, <2>1
\* A checkout.
<1>e. ASSUME NEW c \in Clients, NEW l \in Languages, CheckOut(c, l), UNCHANGED victims,
             lang' = [lang EXCEPT ![c] = l], held[c] = {} \/ lang[c] = l,
             pc[c] \in {"idle", "resend", "gate"}
      PROVE  VictimInv'
  <2>1. \A k \in Languages : generation[k] <= generation'[k]
    BY <1>e DEF CheckOut, TypeOK
  <2>2. \A t \in Threads : pc'[t] = pc[t] \/ (t # Closer /\ {pc[t], pc'[t]} \cap Stopping = {})
    BY <1>e DEF CheckOut, TypeOK, Threads, Stopping
  <2>3. /\ \A d \in Clients \ {c} : held'[d] = held[d] /\ lang'[d] = lang[d]
        /\ held'[c] = held[c] \cup {generation[l]} /\ lang'[c] = l
        /\ generation[l] >= generation[l]
    BY <1>e DEF CheckOut, TypeOK
  <2>4. pc[c] \notin Stopping
    BY <1>e DEF Stopping
  <2> QED
    BY <1>a, <1>e, <2>1, <2>2, <2>3, <2>4
<1>1. ASSUME NEW c \in Clients, NEW l \in Languages, Acquire(c, l) PROVE VictimInv'
  <2>1. /\ held[c] = {} \/ lang[c] = l
        /\ lang' = [lang EXCEPT ![c] = l] /\ UNCHANGED victims
        /\ pc[c] \in {"idle", "resend"}
    BY <1>1 DEF Acquire, GuardInv, EmptyHanded
  <2>2. CASE CheckOut(c, l)
    BY <1>e, <2>1, <2>2
  <2>3. CASE Goto(c, "gate") /\ UNCHANGED <<slotVars, held>>
    <3>1. \A t \in Threads : pc'[t] = pc[t] \/ (t # Closer /\ {pc[t], pc'[t]} \cap Stopping = {})
      BY <2>1, <2>3 DEF TypeOK, Threads, Stopping
    <3>2. \A k \in Languages : generation[k] <= generation'[k]
      BY <2>3 DEF slotVars, TypeOK
    <3>3. \A d \in Clients : lang'[d] = lang[d] \/ (d = c /\ held[c] = {} /\ pc[c] \notin Stopping)
      BY <2>1 DEF TypeOK, Stopping
    <3>4. lang'[c] \in Languages /\ UNCHANGED held
      BY <2>1, <2>3 DEF TypeOK
    <3> QED
      BY <1>a, <2>1, <3>1, <3>2, <3>3, <3>4
  <2> QED
    BY <1>1, <2>2, <2>3 DEF Acquire
<1>2. ASSUME NEW c \in Clients, EnterGate(c) PROVE VictimInv'
  <2>1. CASE CheckOut(c, lang[c])
    <3>1. lang' = [lang EXCEPT ![c] = lang[c]] /\ lang[c] \in Languages
      BY <1>2 DEF EnterGate, TypeOK
    <3> QED
      BY <1>2, <1>e, <2>1, <3>1 DEF EnterGate
  <2>2. CASE /\ UNCHANGED <<slotVars, held>>
             /\ IF Cooling(lang[c]) THEN AcquireFailed(c) ELSE Goto(c, "starting")
    <3>1. \A t \in Threads : pc'[t] = pc[t] \/ (t # Closer /\ {pc[t], pc'[t]} \cap Stopping = {})
      BY <1>2, <2>2 DEF EnterGate, AcquireFailed, TypeOK, Threads, Stopping
    <3> QED
      BY <1>2, <1>d, <2>2, <3>1 DEF EnterGate, slotVars
  <2> QED
    BY <1>2, <2>1, <2>2 DEF EnterGate
<1>3. ASSUME NEW c \in Clients, StartOk(c) PROVE VictimInv'
  <2>1. \A k \in Languages : generation[k] <= generation'[k]
    BY <1>3 DEF StartOk, TypeOK
  <2>2. \A t \in Threads : pc'[t] = pc[t] \/ (t # Closer /\ {pc[t], pc'[t]} \cap Stopping = {})
    BY <1>3 DEF StartOk, TypeOK, Threads, Stopping
  <2>3. /\ \A d \in Clients \ {c} : held'[d] = held[d]
        /\ held'[c] = held[c] \cup {generation[lang[c]] + 1}
        /\ generation[lang[c]] + 1 >= generation[lang[c]]
        /\ UNCHANGED <<lang, victims>>
    BY <1>3 DEF StartOk, TypeOK
  <2> QED
    BY <1>a, <2>1, <2>2, <2>3
<1>4. ASSUME NEW c \in Clients,
             StartFail(c) \/ Send(c) \/ Answer(c) \/ RecordOk(c) \/ RecordTimeout(c)
      PROVE  VictimInv'
  <2>1. \A t \in Threads : pc'[t] = pc[t] \/ (t # Closer /\ {pc[t], pc'[t]} \cap Stopping = {})
    BY <1>4 DEF StartFail, AcquireFailed, Send, Answer, RecordOk, RecordTimeout, TypeOK, Threads,
       Stopping
  <2> QED
    BY <1>4, <1>d, <2>1 DEF StartFail, Send, Answer, RecordOk, RecordTimeout, slotVars, clientVars
<1>5. ASSUME NEW c \in Clients, RetireCrashed(c) PROVE VictimInv'
  <2>1. /\ UNCHANGED <<lang, held>> /\ lang[c] \in Languages /\ c \in Threads
        /\ \A u \in Threads \ {c} : pc'[u] = pc[u]
        /\ pc[c] \in {"crashed", "wedged"}
    BY <1>5 DEF RetireCrashed, clientVars, TypeOK, Threads
  <2>2. CASE Matches(c) /\ resident[lang[c]]
    <3>1. TakeServer(c, lang[c]) /\ pc'[c] \in {"stopCrashed", "stopWedged", "stopOrderly"}
      BY <1>5, <2>2 DEF RetireCrashed, TypeOK, Threads
    <3>2. generation[lang[c]] \in held[c]
      BY <2>1, <2>2, CurrentHeld DEF Matches, ChainInv, InCall
    <3>3. victims[c] = {}
      BY <2>1 DEF VictimInv, VictimsOfStoppers, Stopping
    <3> QED
      BY <1>b, <2>1, <3>1, <3>2, <3>3
  <2>3. CASE ~(Matches(c) /\ resident[lang[c]])
    <3>1. UNCHANGED <<slotVars, victims>> /\ pc'[c] \in {"using", "resend"}
      BY <1>5, <2>3 DEF RetireCrashed, AfterCrash, TypeOK, Threads
    <3>2. \A t \in Threads : pc'[t] = pc[t] \/ (t # Closer /\ {pc[t], pc'[t]} \cap Stopping = {})
      BY <2>1, <3>1 DEF Stopping
    <3> QED
      BY <1>d, <2>1, <3>1, <3>2 DEF slotVars
  <2> QED
    BY <2>2, <2>3
<1>6. ASSUME NEW c \in Clients, RetireOrderly(c) PROVE VictimInv'
  <2>1. /\ UNCHANGED <<lang, held>> /\ lang[c] \in Languages /\ c \in Threads
        /\ \A u \in Threads \ {c} : pc'[u] = pc[u]
        /\ pc[c] = "using" /\ pc'[c] = "stopOrderly" /\ TakeServer(c, lang[c]) /\ Matches(c)
    BY <1>6 DEF RetireOrderly, clientVars, TypeOK, Threads
  <2>2. generation[lang[c]] \in held[c]
    BY <2>1, CurrentHeld DEF Matches, ChainInv, InCall
  <2>3. victims[c] = {}
    BY <2>1 DEF VictimInv, VictimsOfStoppers, Stopping
  <2> QED
    BY <1>b, <2>1, <2>2, <2>3
<1>7. ASSUME NEW c \in Clients, Drop(c) PROVE VictimInv'
  <2>1. \A t \in Threads : pc'[t] = pc[t] \/ (t # Closer /\ {pc[t], pc'[t]} \cap Stopping = {})
    BY <1>7 DEF Drop, TypeOK, Threads, Stopping
  <2>2. /\ UNCHANGED <<generation, lang, victims>>
        /\ held'[c] = {} /\ pc[c] \notin Stopping
        /\ \A d \in Clients \ {c} : held'[d] = held[d]
    BY <1>7 DEF Drop, TypeOK, Stopping
  <2>3. \A k \in Languages : generation[k] <= generation'[k]
    BY <2>2 DEF TypeOK
  <2> QED
    BY <1>a, <2>1, <2>2, <2>3
<1>8. ASSUME NEW t \in Clients \cup {Monitor}, NEW l \in Languages, Peek(t, l) PROVE VictimInv'
  <2>1. \A u \in Threads : pc'[u] = pc[u] \/ (u # Closer /\ {pc[u], pc'[u]} \cap Stopping = {})
    BY <1>8 DEF Peek, AfterReclaim, TypeOK, Threads, Stopping
  <2> QED
    BY <1>8, <1>d, <2>1 DEF Peek, slotVars, clientVars
<1>9. ASSUME NEW t \in Clients \cup {Monitor}, Reclaim(t) PROVE VictimInv'
  <2>1. /\ UNCHANGED <<lang, held>> /\ t \in Threads /\ pc[t] = "sampled"
        /\ \A u \in Threads \ {t} : pc'[u] = pc[u]
    BY <1>9 DEF Reclaim, clientVars, TypeOK, Threads
  <2>2. PICK s \in sample[t] :
          \/ StillReclaimable(s) /\ TakeServer(t, s.lang) /\ Goto(t, "reclaiming")
          \/ Goto(t, AfterReclaim(t)) /\ UNCHANGED <<resident, generation, inFlight, victims>>
    BY <1>9 DEF Reclaim
  <2>3. s.lang \in Languages
    BY <2>1 DEF TypeOK, Samples
  <2>4. CASE StillReclaimable(s) /\ TakeServer(t, s.lang) /\ Goto(t, "reclaiming")
    <3>1. GuardHolders(s.lang) = {}
      BY <2>3, <2>4, HoldersFinite, FS_EmptySet DEF StillReclaimable, GuardsCounted
    <3>2. \A c \in Clients : lang[c] = s.lang => generation[s.lang] \notin held[c]
      BY <3>1 DEF GuardHolders
    <3>3. victims[t] = {} /\ pc'[t] = "reclaiming"
      BY <2>1, <2>4 DEF VictimInv, VictimsOfStoppers, Stopping, TypeOK
    <3> QED
      BY <1>b, <2>1, <2>3, <2>4, <3>2, <3>3
  <2>5. CASE Goto(t, AfterReclaim(t)) /\ UNCHANGED <<resident, generation, inFlight, victims>>
    <3>1. pc'[t] \in {"scan", "idle"}
      BY <2>1, <2>5 DEF AfterReclaim, TypeOK
    <3>2. \A u \in Threads : pc'[u] = pc[u] \/ (u # Closer /\ {pc[u], pc'[u]} \cap Stopping = {})
      BY <2>1, <3>1 DEF Stopping
    <3> QED
      BY <1>d, <2>1, <2>5, <3>2
  <2> QED
    BY <2>2, <2>4, <2>5
<1>10. ASSUME NEW t \in Clients \cup {Monitor}, StopVictim(t) PROVE VictimInv'
  <2>1. /\ UNCHANGED <<generation, lang, held>> /\ t \in Threads /\ t # Closer
        /\ \A u \in Threads \ {t} : pc'[u] = pc[u]
    BY <1>10 DEF StopVictim, slotVars, clientVars, TypeOK, Threads
  <2>2. PICK v \in victims[t] : ShutDown(t, v)
    BY <1>10 DEF StopVictim
  <2>3. victims'[t] = {}
    BY <1>10, <2>1, <2>2 DEF ShutDown, VictimInv, OneVictim, TypeOK
  <2>4. pc'[t] \notin Stopping
    BY <1>10, <2>1 DEF StopVictim, AfterCrash, AfterReclaim, Stopping, TypeOK
  <2> QED
    BY <1>c, <2>1, <2>2, <2>3, <2>4
\* The closer goes from one of its places to another.
<1>f. ASSUME UNCHANGED <<victims, generation, lang, held>>,
             \A t \in Threads \ {Closer} : pc'[t] = pc[t],
             pc'[Closer] \in {"idle", "joining", "closing", "exiting", "finished"}
      PROVE  VictimInv'
  <2>1. VictimsPast' /\ OneVictim' /\ CloserPc'
    BY <1>f DEF VictimInv, VictimsPast, OneVictim, CloserPc
  <2>2. VictimsOfStoppers' /\ ReclaimSparesHeld' /\ RetiresOnlyItsOwn'
    BY <1>f DEF VictimInv, VictimsOfStoppers, ReclaimSparesHeld, RetiresOnlyItsOwn, Threads
  <2> QED
    BY <2>1, <2>2 DEF VictimInv
<1>11. ASSUME MonitorStep PROVE VictimInv'
  <2>1. \A t \in Threads : pc'[t] = pc[t] \/ (t # Closer /\ {pc[t], pc'[t]} \cap Stopping = {})
    BY <1>11 DEF MonitorStep, MonitorTick, MonitorPassDone, TypeOK, Threads, Stopping
  <2> QED
    BY <1>11, <1>d, <2>1 DEF MonitorStep, MonitorTick, MonitorPassDone, slotVars, clientVars
<1>12. ASSUME CloseBegin \/ CloseJoin \/ CloseDone PROVE VictimInv'
  <2>1. /\ UNCHANGED <<victims, generation, lang, held>>
        /\ \A t \in Threads \ {Closer} : pc'[t] = pc[t]
        /\ pc'[Closer] \in {"idle", "joining", "closing", "exiting", "finished"}
    BY <1>12 DEF CloseBegin, CloseJoin, CloseDone, slotVars, clientVars, TypeOK, Threads
  <2> QED
    BY <1>f, <2>1
<1>13. ASSUME NEW l \in Languages, CloseTake(l) PROVE VictimInv'
  <2>1. UNCHANGED <<lang, held, pc>> /\ Closer \in Threads
    BY <1>13 DEF CloseTake, clientVars, Threads
  <2>2. CASE TakeServer(Closer, l)
    BY <1>b, <2>1, <2>2
  <2>3. CASE UNCHANGED <<resident, generation, inFlight, victims>>
    BY <1>d, <2>1, <2>3
  <2> QED
    BY <1>13, <2>2, <2>3 DEF CloseTake
<1>14. ASSUME CloseStop PROVE VictimInv'
  <2>1. PICK v \in victims[Closer] : ShutDown(Closer, v)
    BY <1>14 DEF CloseStop
  <2>2. UNCHANGED <<generation, lang, held, pc>> /\ Closer \in Threads
    BY <1>14 DEF CloseStop, slotVars, clientVars, Threads
  <2> QED
    BY <1>c, <2>1, <2>2
<1>15. ASSUME NEW l \in Languages, EnvStep(l) PROVE VictimInv'
  BY <1>15, <1>d DEF EnvStep, Age, Stabilise, CoolDown, ProcessExits, slotVars, clientVars
<1>16. CASE UNCHANGED vars
  BY <1>16, <1>d DEF vars, slotVars, clientVars
<1> QED
  BY <1>1, <1>2, <1>3, <1>4, <1>5, <1>6, <1>7, <1>8, <1>9, <1>10, <1>11, <1>12, <1>13, <1>14,
     <1>15, <1>16 DEF Next, ClientStep, ReclaimStep, CloserStep

-----------------------------------------------------------------------------
(* Running servers are in their slots or in the hands of a thread. *)

LEMMA NoServerLostStep ==
    TypeOK /\ GuardInv /\ NoServerLost /\ [Next]_vars => NoServerLost'
<1> SUFFICES ASSUME TypeOK, GuardInv, NoServerLost, [Next]_vars PROVE NoServerLost'
  OBVIOUS
\* Slots and victims stay; servers may die.
<1>a. ASSUME UNCHANGED <<resident, generation, victims>>,
             \A l \in Languages : up'[l] \subseteq up[l]
      PROVE  NoServerLost'
  BY <1>a DEF NoServerLost
\* A server that leaves its slot becomes a victim.
<1>b. ASSUME NEW t \in Threads, NEW l \in Languages, TakeServer(t, l), UNCHANGED up
      PROVE  NoServerLost'
  <2>1. /\ \A k \in Languages \ {l} : resident'[k] = resident[k] /\ generation'[k] = generation[k]
        /\ \A u \in Threads : victims[u] \subseteq victims'[u]
        /\ <<l, generation[l]>> \in victims'[t]
    BY <1>b DEF TakeServer, TypeOK
  <2> QED
    BY <1>b, <2>1 DEF NoServerLost
\* A victim is dropped only once its process has stopped.
<1>c. ASSUME NEW t \in Threads, NEW v \in victims[t], ShutDown(t, v),
             UNCHANGED <<resident, generation>>
      PROVE  NoServerLost'
  <2>1. /\ \A u \in Threads \ {t} : victims'[u] = victims[u]
        /\ victims'[t] = victims[t] \ {v}
        /\ v \in Languages \X Nat
    BY <1>c DEF ShutDown, TypeOK, Servers
  <2>2. \A k \in Languages : up'[k] \subseteq up[k] /\ (k = v[1] => v[2] \notin up'[k])
    BY <1>c, <2>1 DEF ShutDown, TypeOK
  <2> SUFFICES ASSUME NEW l \in Languages, NEW g \in up'[l], ~(resident[l] /\ g = generation[l])
               PROVE  \E u \in Threads : <<l, g>> \in victims'[u]
    BY <1>c DEF NoServerLost
  <2>3. PICK u \in Threads : <<l, g>> \in victims[u]
    BY <2>2 DEF NoServerLost
  <2>4. v # <<l, g>>
    BY <2>2
  <2> QED
    BY <2>1, <2>3, <2>4
<1>1. ASSUME NEW c \in Clients, NEW l \in Languages, Acquire(c, l) PROVE NoServerLost'
  BY <1>1, <1>a DEF Acquire, CheckOut, slotVars
<1>2. ASSUME NEW c \in Clients, EnterGate(c) PROVE NoServerLost'
  BY <1>2, <1>a DEF EnterGate, CheckOut, slotVars
<1>3. ASSUME NEW c \in Clients, StartOk(c) PROVE NoServerLost'
  <2>0. PICK l \in Languages : l = lang[c]
    BY DEF TypeOK
  <2>1. ~resident[l]
    BY <1>3, <2>0 DEF StartOk, GuardInv, StartsOnEmptySlot
  <2>2. /\ resident'[l] /\ generation'[l] = generation[l] + 1
        /\ up'[l] = up[l] \cup {generation[l] + 1}
        /\ \A k \in Languages \ {l} :
              resident'[k] = resident[k] /\ generation'[k] = generation[k] /\ up'[k] = up[k]
        /\ UNCHANGED victims
    BY <1>3, <2>0 DEF StartOk, TypeOK
  <2> QED
    BY <2>1, <2>2 DEF NoServerLost
<1>4. ASSUME NEW c \in Clients, StartFail(c) PROVE NoServerLost'
  <2>1. \A k \in Languages : resident'[k] = resident[k]
    BY <1>4 DEF StartFail, GuardInv, StartsOnEmptySlot, TypeOK
  <2> QED
    BY <1>4, <2>1 DEF StartFail, NoServerLost
<1>5. ASSUME NEW c \in Clients,
             Send(c) \/ Answer(c) \/ RecordOk(c) \/ RecordTimeout(c) \/ Drop(c)
      PROVE  NoServerLost'
  BY <1>5, <1>a DEF Send, Answer, RecordOk, RecordTimeout, Drop, slotVars
<1>6. ASSUME NEW c \in Clients, RetireCrashed(c) \/ RetireOrderly(c) PROVE NoServerLost'
  <2>1. c \in Threads /\ lang[c] \in Languages /\ UNCHANGED up
    BY <1>6 DEF RetireCrashed, RetireOrderly, TypeOK, Threads
  <2>2. TakeServer(c, lang[c]) \/ UNCHANGED <<slotVars, victims>>
    BY <1>6 DEF RetireCrashed, RetireOrderly
  <2>3. CASE UNCHANGED <<slotVars, victims>>
    BY <1>a, <2>1, <2>3 DEF slotVars
  <2> QED
    BY <1>b, <2>1, <2>2, <2>3
<1>7. ASSUME NEW t \in Clients \cup {Monitor}, NEW l \in Languages, Peek(t, l) PROVE NoServerLost'
  BY <1>7, <1>a DEF Peek, slotVars
<1>8. ASSUME NEW t \in Clients \cup {Monitor}, Reclaim(t) PROVE NoServerLost'
  <2>1. t \in Threads /\ UNCHANGED up
    BY <1>8 DEF Reclaim, Threads
  <2>2. PICK s \in sample[t] :
          \/ TakeServer(t, s.lang)
          \/ UNCHANGED <<resident, generation, inFlight, victims>>
    BY <1>8 DEF Reclaim
  <2>3. s.lang \in Languages
    BY <2>1 DEF TypeOK, Samples
  <2> QED
    BY <1>a, <1>b, <2>1, <2>2, <2>3
<1>9. ASSUME NEW t \in Clients \cup {Monitor}, StopVictim(t) PROVE NoServerLost'
  BY <1>9, <1>c DEF StopVictim, slotVars, Threads
<1>10. ASSUME MonitorStep \/ CloseBegin \/ CloseJoin \/ CloseDone PROVE NoServerLost'
  BY <1>10, <1>a DEF MonitorStep, MonitorTick, MonitorPassDone, CloseBegin, CloseJoin, CloseDone,
     slotVars
<1>11. ASSUME NEW l \in Languages, CloseTake(l) PROVE NoServerLost'
  BY <1>11, <1>a, <1>b DEF CloseTake, Threads
<1>12. ASSUME CloseStop PROVE NoServerLost'
  BY <1>12, <1>c DEF CloseStop, slotVars, Threads
<1>13. ASSUME NEW l \in Languages, Age(l) \/ Stabilise(l) \/ CoolDown(l) PROVE NoServerLost'
  BY <1>13, <1>a DEF Age, Stabilise, CoolDown
<1>14. ASSUME NEW l \in Languages, ProcessExits(l) PROVE NoServerLost'
  <2>1. \A k \in Languages : up'[k] \subseteq up[k]
    BY <1>14 DEF ProcessExits, TypeOK
  <2> QED
    BY <1>14, <1>a, <2>1 DEF ProcessExits, slotVars
<1>15. CASE UNCHANGED vars
  BY <1>15, <1>a DEF vars, slotVars
<1> QED
  BY <1>1, <1>2, <1>3, <1>4, <1>5, <1>6, <1>7, <1>8, <1>9, <1>10, <1>11, <1>12, <1>13, <1>14,
     <1>15 DEF Next, ClientStep, ReclaimStep, CloserStep, EnvStep

-----------------------------------------------------------------------------
(* Starts and cooldowns. *)

LEMMA StartsOnlyWhenCooledStep ==
    TypeOK /\ GuardInv /\ StartsOnlyWhenCooled /\ [Next]_vars => StartsOnlyWhenCooled'
<1> SUFFICES ASSUME TypeOK, GuardInv, StartsOnlyWhenCooled, [Next]_vars
             PROVE  StartsOnlyWhenCooled'
  OBVIOUS
<1> USE ThreadsAssumption DEF Goto
\* Nobody begins a start, starters keep their language and no failure is recorded.
<1>a. ASSUME \A c \in Clients : pc'[c] = "starting" => pc[c] = "starting" /\ lang'[c] = lang[c],
             \A l \in Languages : failure'[l] = "cooling" => failure[l] = "cooling"
      PROVE  StartsOnlyWhenCooled'
  BY <1>a DEF StartsOnlyWhenCooled, TypeOK
<1>1. ASSUME NEW c \in Clients, NEW l \in Languages, Acquire(c, l) PROVE StartsOnlyWhenCooled'
  <2>1. pc[c] # "starting" /\ pc'[c] \in {"gate", "using", "calling"} /\ UNCHANGED failure
    BY <1>1 DEF Acquire, CheckOut, slotVars, TypeOK, Threads
  <2>2. \A d \in Clients \ {c} : pc'[d] = pc[d] /\ lang'[d] = lang[d]
    BY <1>1 DEF Acquire, CheckOut, TypeOK, Threads
  <2> QED
    BY <1>a, <2>1, <2>2
<1>2. ASSUME NEW c \in Clients, EnterGate(c) PROVE StartsOnlyWhenCooled'
  <2>1. UNCHANGED <<failure, lang>> /\ \A d \in Clients \ {c} : pc'[d] = pc[d]
    BY <1>2 DEF EnterGate, CheckOut, AcquireFailed, slotVars, TypeOK, Threads
  <2>2. pc'[c] = "starting" => failure[lang[c]] # "cooling"
    BY <1>2 DEF EnterGate, CheckOut, AcquireFailed, Cooling, TypeOK, Threads
  <2> QED
    BY <2>1, <2>2 DEF StartsOnlyWhenCooled
<1>3. ASSUME NEW c \in Clients, StartOk(c) PROVE StartsOnlyWhenCooled'
  <2>1. pc'[c] # "starting" /\ UNCHANGED lang /\ \A d \in Clients \ {c} : pc'[d] = pc[d]
    BY <1>3 DEF StartOk, TypeOK, Threads
  <2>2. \A l \in Languages : failure'[l] = "cooling" => failure[l] = "cooling"
    BY <1>3 DEF StartOk, TypeOK
  <2> QED
    BY <1>a, <2>1, <2>2
<1>4. ASSUME NEW c \in Clients, StartFail(c) PROVE StartsOnlyWhenCooled'
  <2>1. pc'[c] # "starting" /\ UNCHANGED lang /\ \A d \in Clients \ {c} : pc'[d] = pc[d]
    BY <1>4 DEF StartFail, AcquireFailed, clientVars, TypeOK, Threads
  <2>2. \A d \in Clients \ {c} : pc[d] = "starting" => lang[d] # lang[c]
    BY <1>4 DEF StartFail, GuardInv, OneStarter
  <2>3. \A l \in Languages \ {lang[c]} : failure'[l] = failure[l]
    BY <1>4 DEF StartFail, TypeOK
  <2> QED
    BY <2>1, <2>2, <2>3 DEF StartsOnlyWhenCooled, TypeOK
<1>5. ASSUME NEW c \in Clients,
             \/ Send(c) \/ Answer(c) \/ RecordOk(c) \/ RecordTimeout(c)
             \/ RetireOrderly(c) \/ Drop(c)
      PROVE  StartsOnlyWhenCooled'
  <2>1. UNCHANGED <<failure, lang>>
    BY <1>5 DEF Send, Answer, RecordOk, RecordTimeout, RetireOrderly, Drop, slotVars, clientVars
  <2>2. \A d \in Clients : pc'[d] = "starting" => pc[d] = "starting"
    BY <1>5 DEF Send, Answer, RecordOk, RecordTimeout, RetireOrderly, Drop, TypeOK, Threads
  <2> QED
    BY <1>a, <2>1, <2>2
<1>6. ASSUME NEW c \in Clients, RetireCrashed(c) PROVE StartsOnlyWhenCooled'
  <2>1. UNCHANGED lang /\ \A d \in Clients : pc'[d] = "starting" => pc[d] = "starting"
    BY <1>6 DEF RetireCrashed, AfterCrash, clientVars, TypeOK, Threads
  <2>2. CASE resident[lang[c]]
    <3>1. \A d \in Clients : pc[d] = "starting" => lang[d] # lang[c]
      BY <2>2 DEF GuardInv, StartsOnEmptySlot
    <3>2. \A l \in Languages \ {lang[c]} : failure'[l] = failure[l]
      BY <1>6 DEF RetireCrashed, slotVars, TypeOK
    <3> QED
      BY <2>1, <3>1, <3>2 DEF StartsOnlyWhenCooled, TypeOK
  <2>3. CASE ~resident[lang[c]]
    BY <1>6, <1>a, <2>1, <2>3 DEF RetireCrashed, slotVars
  <2> QED
    BY <2>2, <2>3
<1>7. ASSUME NEW t \in Clients \cup {Monitor},
             (\E l \in Languages : Peek(t, l)) \/ Reclaim(t) \/ StopVictim(t)
      PROVE  StartsOnlyWhenCooled'
  <2>1. UNCHANGED <<failure, lang>>
    BY <1>7 DEF Peek, Reclaim, StopVictim, slotVars, clientVars
  <2>2. \A u \in Threads : pc'[u] = "starting" => pc[u] = "starting"
    <3>1. CASE (\E l \in Languages : Peek(t, l)) \/ Reclaim(t)
      BY <3>1 DEF Peek, Reclaim, AfterReclaim, TypeOK, Threads
    <3>2. CASE StopVictim(t)
      BY <3>2 DEF StopVictim, AfterCrash, AfterReclaim, TypeOK, Threads
    <3> QED
      BY <1>7, <3>1, <3>2
  <2> QED
    BY <1>a, <2>1, <2>2 DEF Threads
<1>8. ASSUME MonitorStep \/ CloserStep PROVE StartsOnlyWhenCooled'
  <2>1. UNCHANGED <<failure, lang>> /\ \A d \in Clients : pc'[d] = pc[d]
    BY <1>8 DEF MonitorStep, MonitorTick, MonitorPassDone, CloserStep, CloseBegin, CloseJoin,
       CloseTake, CloseStop, CloseDone, slotVars, clientVars, TypeOK, Threads
  <2> QED
    BY <1>a, <2>1
<1>9. ASSUME NEW l \in Languages, EnvStep(l) PROVE StartsOnlyWhenCooled'
  <2>1. UNCHANGED <<pc, lang>>
    BY <1>9 DEF EnvStep, Age, Stabilise, CoolDown, ProcessExits, clientVars
  <2>2. \A k \in Languages : failure'[k] = "cooling" => failure[k] = "cooling"
    BY <1>9 DEF EnvStep, Age, Stabilise, CoolDown, ProcessExits, slotVars, TypeOK
  <2> QED
    BY <1>a, <2>1, <2>2
<1>10. CASE UNCHANGED vars
  BY <1>10, <1>a DEF vars, slotVars, clientVars
<1> QED
  BY <1>1, <1>2, <1>3, <1>4, <1>5, <1>6, <1>7, <1>8, <1>9, <1>10 DEF Next, ClientStep, ReclaimStep

-----------------------------------------------------------------------------
(* A server in use leaves its slot only by a holder's retire or a teardown. *)

BusyServerKeptStep ==
    \A l \in Languages :
        resident[l] /\ GuardHolders(l) # {} /\ generation'[l] # generation[l] =>
           \/ <<l, generation[l]>> \in victims'[Closer]
           \/ \E c \in GuardHolders(l) : <<l, generation[l]>> \in victims'[c]

LEMMA BusyServerKeptByStep ==
    TypeOK /\ GuardInv /\ ChainInv /\ GuardsCounted /\ [Next]_vars => BusyServerKeptStep
<1> SUFFICES ASSUME TypeOK, GuardInv, ChainInv, GuardsCounted, [Next]_vars,
                    NEW l \in Languages, resident[l], GuardHolders(l) # {},
                    generation'[l] # generation[l]
             PROVE  \/ <<l, generation[l]>> \in victims'[Closer]
                    \/ \E c \in GuardHolders(l) : <<l, generation[l]>> \in victims'[c]
  BY DEF BusyServerKeptStep
<1>a. ASSUME NEW t \in Threads, NEW k \in Languages, TakeServer(t, k)
      PROVE  l = k /\ <<l, generation[l]>> \in victims'[t]
  BY <1>a DEF TakeServer, TypeOK
<1>1. ASSUME NEW c \in Clients, \E k \in Languages : Acquire(c, k) PROVE FALSE
  BY <1>1 DEF Acquire, CheckOut, slotVars
<1>2. ASSUME NEW c \in Clients, EnterGate(c) PROVE FALSE
  BY <1>2 DEF EnterGate, CheckOut, slotVars
<1>3. ASSUME NEW c \in Clients, StartOk(c) PROVE FALSE
  <2>1. lang[c] # l
    BY <1>3 DEF StartOk, GuardInv, StartsOnEmptySlot
  <2> QED
    BY <1>3, <2>1 DEF StartOk, TypeOK
<1>4. ASSUME NEW c \in Clients,
             StartFail(c) \/ Send(c) \/ Answer(c) \/ RecordOk(c) \/ RecordTimeout(c) \/ Drop(c)
      PROVE  FALSE
  BY <1>4 DEF StartFail, Send, Answer, RecordOk, RecordTimeout, Drop, slotVars
<1>5. ASSUME NEW c \in Clients, RetireCrashed(c) \/ RetireOrderly(c)
      PROVE  c \in GuardHolders(l) /\ <<l, generation[l]>> \in victims'[c]
  <2>1. c \in Threads /\ lang[c] \in Languages /\ pc[c] \in InCall
    BY <1>5 DEF RetireCrashed, RetireOrderly, InCall, TypeOK, Threads
  <2>2. TakeServer(c, lang[c]) /\ Matches(c)
    BY <1>5 DEF RetireCrashed, RetireOrderly, slotVars
  <2>3. lang[c] = l /\ <<l, generation[l]>> \in victims'[c]
    BY <1>a, <2>1, <2>2
  <2>4. generation[l] \in held[c]
    BY <2>1, <2>2, <2>3, CurrentHeld DEF ChainInv, Matches
  <2> QED
    BY <2>3, <2>4 DEF GuardHolders
<1>6. ASSUME NEW t \in Clients \cup {Monitor},
             (\E k \in Languages : Peek(t, k)) \/ StopVictim(t)
      PROVE  FALSE
  BY <1>6 DEF Peek, StopVictim, slotVars
<1>7. ASSUME NEW t \in Clients \cup {Monitor}, Reclaim(t) PROVE FALSE
  <2>1. PICK s \in sample[t] : StillReclaimable(s) /\ TakeServer(t, s.lang)
    BY <1>7 DEF Reclaim
  <2>2. s.lang \in Languages /\ t \in Threads
    BY DEF TypeOK, Samples, Threads
  <2>3. s.lang = l
    BY <1>a, <2>1, <2>2
  <2>4. Cardinality(GuardHolders(l)) = 0
    BY <2>1, <2>3 DEF StillReclaimable, GuardsCounted
  <2> QED
    BY <2>4, HoldersFinite, FS_EmptySet
<1>8. ASSUME MonitorStep \/ CloseBegin \/ CloseJoin \/ CloseStop \/ CloseDone PROVE FALSE
  BY <1>8 DEF MonitorStep, MonitorTick, MonitorPassDone, CloseBegin, CloseJoin, CloseStop,
     CloseDone, slotVars
<1>9. ASSUME NEW k \in Languages, CloseTake(k)
      PROVE  <<l, generation[l]>> \in victims'[Closer]
  BY <1>9, <1>a DEF CloseTake, Threads
<1>10. ASSUME NEW k \in Languages, EnvStep(k) PROVE FALSE
  BY <1>10 DEF EnvStep, Age, Stabilise, CoolDown, ProcessExits, slotVars
<1>11. CASE UNCHANGED vars
  BY <1>11 DEF vars, slotVars
<1> QED
  BY <1>1, <1>2, <1>3, <1>4, <1>5, <1>6, <1>7, <1>8, <1>9, <1>10, <1>11
     DEF Next, ClientStep, ReclaimStep, CloserStep

-----------------------------------------------------------------------------
(***************************************************************************)
(* The inductive invariant of the pool, and what follows from it.          *)
(***************************************************************************)
PoolInv ==
    /\ TypeOK
    /\ GuardInv
    /\ ChainInv
    /\ GuardsCounted
    /\ VictimInv
    /\ NoServerLost
    /\ StartsOnlyWhenCooled

LEMMA PoolInvInit == Init => PoolInv
<1> SUFFICES ASSUME Init PROVE PoolInv
  OBVIOUS
<1> USE DEF Init
<1>1. TypeOK
  BY TypeInit
<1>2. GuardInv
  BY <1>1 DEF GuardInv, EmptyHanded, HeldPast, EmptySlotUnheld, AwaitsNew, StartsOnEmptySlot,
     OneStarter, Threads
<1>3. ChainInv
  BY DEF ChainInv, InCall, Threads
<1>4. GuardsCounted
  <2>1. \A l \in Languages : GuardHolders(l) = {}
    BY DEF GuardHolders
  <2> QED
    BY <2>1, FS_EmptySet DEF GuardsCounted
<1>5. VictimInv
  BY DEF VictimInv, VictimsPast, VictimsOfStoppers, OneVictim, CloserPc, ReclaimSparesHeld,
     RetiresOnlyItsOwn, Threads
<1>6. NoServerLost /\ StartsOnlyWhenCooled
  BY DEF NoServerLost, StartsOnlyWhenCooled, Threads
<1> QED
  BY <1>1, <1>2, <1>3, <1>4, <1>5, <1>6 DEF PoolInv

LEMMA PoolInvStep == PoolInv /\ [Next]_vars => PoolInv'
  BY TypeStep, GuardInvStep, ChainInvStep, GuardsCountedStep, VictimInvStep, NoServerLostStep,
     StartsOnlyWhenCooledStep DEF PoolInv

LEMMA PoolInvAlways == Spec => []PoolInv
  BY PoolInvInit, PoolInvStep, PTL DEF Spec

\* in_flight is the number of guards on the slot's present server, through
\* every interleaving of acquire, start, drop, retire, reclaim and teardown.
THEOREM CountsAreExact == Spec => []GuardsCounted
<1>1. PoolInv => GuardsCounted
  BY DEF PoolInv
<1> QED
  BY <1>1, PoolInvAlways, PTL

\* A reclaimer never shuts down a server somebody holds a guard on, although
\* try_reclaim decides on a sample taken with the lock released.
THEOREM ReclaimIsSafe == Spec => []ReclaimSparesHeld
<1>1. PoolInv => ReclaimSparesHeld
  BY DEF PoolInv, VictimInv
<1> QED
  BY <1>1, PoolInvAlways, PTL

\* retire never removes a server its caller holds no guard on: a stale guard
\* leaves the replacement of its crashed server alone.
THEOREM RetireIsOwn == Spec => []RetiresOnlyItsOwn
<1>1. PoolInv => RetiresOnlyItsOwn
  BY DEF PoolInv, VictimInv
<1> QED
  BY <1>1, PoolInvAlways, PTL

\* No server process is forgotten: each is in its slot or about to be shut
\* down by the thread that took it out.
THEOREM NothingLost == Spec => []NoServerLost
<1>1. PoolInv => NoServerLost
  BY DEF PoolInv
<1> QED
  BY <1>1, PoolInvAlways, PTL

\* No start is under way while a cooldown of its language runs, whether a
\* failed start or a repeated crash recorded it.
THEOREM CooldownIsHonoured == Spec => []StartsOnlyWhenCooled
<1>1. PoolInv => StartsOnlyWhenCooled
  BY DEF PoolInv
<1> QED
  BY <1>1, PoolInvAlways, PTL

\* A server with guards on it leaves its slot only by a holder's own retire or
\* by the teardown of the pool, never by a reclaim.
THEOREM BusyIsKept == Spec => BusyServerKept
<1>1. PoolInv /\ [Next]_vars => BusyServerKeptStep
  BY BusyServerKeptByStep DEF PoolInv
<1>2. Spec => [][BusyServerKeptStep]_vars
  BY <1>1, PoolInvAlways, PTL DEF Spec
<1> QED
  BY <1>2 DEF BusyServerKept, BusyServerKeptStep
=============================================================================
